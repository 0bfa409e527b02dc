----------------------------- MODULE DurableJob ------------------------------
(***************************************************************************)
(* One headless job: its row in the job store (cli/jobs.py), its mirror    *)
(* checkpoint (cli/mirror_checkpoint.py) and the processes that take it    *)
(* over from each other, by acquire or by resume (cli/durable_job.py).     *)
(*                                                                         *)
(* Each process has its own connection to the database: another one may    *)
(* act between the SELECT and the UPDATE of a call.  Nothing ties a call   *)
(* to the holder of the lease: any process may pause the job or release    *)
(* it.  The loop of a worker is not in the repository: a worker is a       *)
(* process to which acquire granted the lease; it writes until its lease   *)
(* ends, and numbers its segments from those of the checkpoint it loaded.  *)
(***************************************************************************)
EXTENDS Naturals, Sequences

CONSTANTS
    Workers,        \* the processes, workers and operators
    LeaseTime,      \* lease_seconds
    MaxTime,        \* bound: time
    MaxSegments,    \* bound: segments written
    MaxPowers,      \* bound: power losses
    MaxDeaths       \* bound: processes that die

ASSUME JobAssumption ==
    /\ LeaseTime \in Nat \ {0}
    /\ {MaxTime, MaxSegments, MaxPowers, MaxDeaths} \subseteq Nat

VARIABLES
    now,
    state, lease,   \* the row; lease 0 is NULL
    call,           \* of each process: its call, or that it works
    files, filesD,  \* the segment files, and the same on the medium
    checkpoint,     \* the segments checkpoint.json refers to
    written,        \* history: segments so far; they differ in content
    exposed,        \* history: the lease has been undermined (below)
    powers, deaths

rowVars == <<state, lease>>
fileVars == <<files, filesD, checkpoint, written>>
vars == <<now, rowVars, call, fileVars, exposed, powers, deaths>>

-----------------------------------------------------------------------------
\* "complete" stands for partial, auth-required and failed as well.
Terminal == {"complete", "cancelled"}
States == {"queued", "running", "paused"} \union Terminal

\* What transition allows.
Follows(s) == CASE s = "queued" -> {"running", "cancelled"}
                [] s = "running" -> {"paused"} \union Terminal
                [] s = "paused" -> {"running", "cancelled"}
                [] OTHER -> {}

Contents == 0..MaxSegments      \* 0 is no file

\* seen: the row the call has read.  knows: the process has loaded the
\* checkpoint.  memory: the segments it knows.  time: the end of its lease.
\* to: the state to be written.
Calls == [at : {"idle", "resume", "loaded", "acquire", "work", "transition"},
          seen : States \X Nat, knows : BOOLEAN, memory : Seq(Contents),
          time : Nat, to : States]
Idle == [at |-> "idle", seen |-> <<"queued", 0>>, knows |-> FALSE,
         memory |-> <<>>, time |-> 0, to |-> "queued"]

TypeOK ==
    /\ now \in 0..MaxTime
    /\ state \in States
    /\ lease \in Nat
    /\ call \in [Workers -> Calls]
    /\ {files, filesD} \subseteq [1..MaxSegments -> Contents]
    /\ checkpoint \in Seq(Contents)
    /\ written \in Contents
    /\ exposed \in BOOLEAN
    /\ powers \in 0..MaxPowers
    /\ deaths \in 0..MaxDeaths

\* start, and an empty checkpoint.
Init ==
    /\ now = 0
    /\ state = "queued"
    /\ lease = 0
    /\ call = [w \in Workers |-> Idle]
    /\ files = [n \in 1..MaxSegments |-> 0]
    /\ filesD = files
    /\ checkpoint = <<>>
    /\ written = 0
    /\ exposed = FALSE
    /\ powers = 0
    /\ deaths = 0

\* w has the lease, as far as it knows.
Working(w) == call[w].at = "work" /\ now < call[w].time

\* A write of w finds another row than w has read.
Overtaken(w) == call[w].seen # rowVars

\* Someone else works.
OtherWorks(w) == \E v \in Workers \ {w} : Working(v)

-----------------------------------------------------------------------------
(* JobStore *)

\* Mutant: a running job is acquired whatever its lease.
AcquirableAlways == state \in {"queued", "paused", "running"}

\* The lease counts while the job is running.
Acquirable ==
    /\ state \in {"queued", "paused", "running"}
    /\ ~(state = "running" /\ lease # 0 /\ lease > now)

\* acquire, called for itself or by resume, which ignores what it returns.
AcquireRead(w) ==
    /\ call[w].at \in {"idle", "loaded"}
    /\ IF Acquirable
       THEN call' = [call EXCEPT ![w] = [@ EXCEPT !.at = "acquire", !.seen = rowVars,
                                                  !.time = now + LeaseTime]]
       ELSE call' = [call EXCEPT ![w] = Idle]
    /\ UNCHANGED <<now, rowVars, fileVars, exposed, powers, deaths>>

\* Exposed: by a write over another row than was read, or by a checkpoint
\* that was loaded before and is not the one in place any more.
AcquireWrite(w) ==
    /\ call[w].at = "acquire"
    /\ state' = "running"
    /\ lease' = call[w].time
    /\ call' = [call EXCEPT ![w] = [@ EXCEPT !.at = "work", !.seen = Idle.seen]]
    /\ exposed' = (exposed \/ Overtaken(w)
                   \/ (call[w].knows /\ call[w].memory # checkpoint))
    /\ UNCHANGED <<now, fileVars, powers, deaths>>

\* transition, by anyone: a worker that ends its work, or an operator.
TransitionRead(w) ==
    /\ call[w].at \in {"idle", "work"}
    /\ \E to \in Follows(state) :
          call' = [call EXCEPT ![w] = [Idle EXCEPT !.at = "transition",
                                                   !.seen = rowVars, !.to = to]]
    /\ UNCHANGED <<now, rowVars, fileVars, exposed, powers, deaths>>

\* The lease stays in the row.  Exposed: also by a pause under a worker,
\* because a paused job is acquired whatever its lease.
TransitionWrite(w) ==
    /\ call[w].at = "transition"
    /\ state' = call[w].to
    /\ call' = [call EXCEPT ![w] = Idle]
    /\ exposed' = (exposed \/ Overtaken(w)
                   \/ (call[w].to = "paused" /\ OtherWorks(w)))
    /\ UNCHANGED <<now, lease, fileVars, powers, deaths>>

\* release, by anyone.  Exposed: when it takes the lease of another worker.
ReleaseLease(w) ==
    /\ call[w].at \in {"idle", "work"}
    /\ lease' = 0
    /\ call' = [call EXCEPT ![w] = Idle]
    /\ exposed' = (exposed \/ OtherWorks(w))
    /\ UNCHANGED <<now, state, fileVars, powers, deaths>>

-----------------------------------------------------------------------------
(* DurableCaptureJob.resume: status, load, and acquire of a job that was    *)
(* queued or paused                                                         *)

ResumeStatus(w) ==
    /\ call[w].at = "idle"
    /\ call' = [call EXCEPT ![w] = [Idle EXCEPT !.at = "resume", !.seen = rowVars]]
    /\ UNCHANGED <<now, rowVars, fileVars, exposed, powers, deaths>>

\* load checks each segment that checkpoint.json refers to.
Loads == \A n \in 1..Len(checkpoint) : files[n] = checkpoint[n]

ResumeLoad(w) ==
    /\ call[w].at = "resume"
    /\ IF Loads /\ call[w].seen[1] \in {"queued", "paused"}
       THEN call' = [call EXCEPT ![w] = [Idle EXCEPT !.at = "loaded", !.knows = TRUE,
                                                     !.memory = checkpoint]]
       ELSE call' = [call EXCEPT ![w] = Idle]
    /\ UNCHANGED <<now, rowVars, fileVars, exposed, powers, deaths>>

\* A worker that called acquire itself loads the checkpoint after it.
LoadCheckpoint(w) ==
    /\ Working(w)
    /\ ~call[w].knows
    /\ IF Loads
       THEN call' = [call EXCEPT ![w] = [@ EXCEPT !.knows = TRUE, !.memory = checkpoint]]
       ELSE call' = [call EXCEPT ![w] = Idle]
    /\ UNCHANGED <<now, rowVars, fileVars, exposed, powers, deaths>>

-----------------------------------------------------------------------------
(* MirrorCheckpoint *)

\* append_segment replaces the file.
AppendSegment(w) ==
    /\ Working(w) /\ call[w].knows
    /\ written < MaxSegments
    /\ Len(call[w].memory) < MaxSegments
    /\ written' = written + 1
    /\ files' = [files EXCEPT ![Len(call[w].memory) + 1] = written + 1]
    /\ call' = [call EXCEPT ![w].memory = Append(@, written + 1)]
    /\ UNCHANGED <<now, rowVars, filesD, checkpoint, exposed, powers, deaths>>

\* Mutant: the checkpoint is saved before its last segment.
SaveEarly(w) ==
    /\ Working(w) /\ call[w].knows
    /\ written < MaxSegments
    /\ checkpoint' = Append(call[w].memory, written + 1)
    /\ UNCHANGED <<now, rowVars, call, files, filesD, written, exposed, powers,
                   deaths>>

Save(w) ==
    /\ Working(w) /\ call[w].knows
    /\ checkpoint' = call[w].memory
    /\ UNCHANGED <<now, rowVars, call, files, filesD, written, exposed, powers,
                   deaths>>

-----------------------------------------------------------------------------
(* Faults and time *)

Die(w) ==
    /\ call[w].at # "idle"
    /\ deaths < MaxDeaths
    /\ deaths' = deaths + 1
    /\ call' = [call EXCEPT ![w] = Idle]
    /\ UNCHANGED <<now, rowVars, fileVars, exposed, powers>>

\* A worker stops because its lease ended.
LeaseEnds(w) ==
    /\ call[w].at = "work"
    /\ ~Working(w)
    /\ call' = [call EXCEPT ![w] = Idle]
    /\ UNCHANGED <<now, rowVars, fileVars, exposed, powers, deaths>>

\* The system writes the directory to the medium when it likes.
Flush ==
    /\ filesD' = files
    /\ UNCHANGED <<now, rowVars, call, files, checkpoint, written, exposed,
                   powers, deaths>>

\* Entries that were not written may be the older ones; the checkpoint's is
\* in another directory and may be the newer one.
PowerLoss ==
    /\ powers < MaxPowers
    /\ powers' = powers + 1
    /\ files' \in {f \in [1..MaxSegments -> Contents] :
                      \A n \in 1..MaxSegments : f[n] \in {files[n], filesD[n]}}
    /\ filesD' = files'
    /\ call' = [w \in Workers |-> Idle]
    /\ UNCHANGED <<now, rowVars, checkpoint, written, exposed, deaths>>

Tick ==
    /\ now < MaxTime
    /\ now' = now + 1
    /\ UNCHANGED <<rowVars, call, fileVars, exposed, powers, deaths>>

-----------------------------------------------------------------------------
Next ==
    \/ \E w \in Workers :
          \/ AcquireRead(w) \/ AcquireWrite(w) \/ TransitionRead(w)
          \/ TransitionWrite(w) \/ ReleaseLease(w) \/ ResumeStatus(w)
          \/ ResumeLoad(w) \/ LoadCheckpoint(w) \/ AppendSegment(w)
          \/ Save(w) \/ Die(w) \/ LeaseEnds(w)
    \/ Flush \/ PowerLoss \/ Tick

Spec == Init /\ [][Next]_vars

-----------------------------------------------------------------------------
(* Properties *)

\* "leases prevent overlapping workers" (docs/HEADLESS_JOBS.md:3).
OneWorker == \A v, w \in Workers : Working(v) /\ Working(w) => v = w

\* What the lease is good for: two workers overlap only when a call has
\* written over a row that it had not read, when someone has paused the job
\* under a worker, or when someone has released the lease of another one.
\* (`exposed` also counts the workers that resume from an older checkpoint.)
\* Leases that end, workers that die and other transitions are harmless.
LeasesExclude == OneWorker \/ exposed

\* "terminal states cannot be reused" (docs/HEADLESS_JOBS.md:3).
TerminalStays == [][(state \in Terminal) => state' = state]_vars

\* "Crash safe checkpoint and segment storage" (cli/mirror_checkpoint.py:1):
\* the segments that the checkpoint refers to are there and the same, so that
\* load accepts it, whichever workers died or outlived their leases and
\* whoever took the job over; unless the lease was undermined, a worker
\* resumed from an older checkpoint, or power was lost.
CheckpointLoads == Loads \/ exposed \/ powers > 0

\* The same after a power loss; append_segment syncs the file, and not the
\* directory that names it.
CheckpointSurvivesPower == Loads \/ exposed

=============================================================================
