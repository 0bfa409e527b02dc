-------------------------- MODULE DurableJobProofs --------------------------
(* Theorems about DurableJob, for all values of its constants and all      *)
(* interleavings of its calls.                                             *)
EXTENDS DurableJob, TLAPS

-----------------------------------------------------------------------------
(* The inductive invariant *)

\* A worker that may still write has the lease in the row, and the job is
\* running, or has been ended meanwhile.
LeaseInv ==
    \A w \in Workers : Working(w) =>
        /\ lease = call[w].time
        /\ state \in {"running"} \union Terminal

\* Acquirable, of a row that was read: time only makes more rows acquirable.
Takes(row) ==
    /\ row[1] \in {"queued", "paused", "running"}
    /\ ~(row[1] = "running" /\ row[2] # 0 /\ row[2] > now)

\* acquire writes over a row that may be acquired.
AcquireInv == \A w \in Workers : call[w].at = "acquire" => Takes(call[w].seen)

\* What transition is about to write follows the state it has read.
TransitionInv ==
    \A w \in Workers : call[w].at = "transition"
        => call[w].to \in Follows(call[w].seen[1])

\* Until the lease is undermined.
LeaseIInv == ~exposed => LeaseInv /\ OneWorker

IInv ==
    /\ TypeOK
    /\ AcquireInv
    /\ TransitionInv
    /\ LeaseIInv

-----------------------------------------------------------------------------
(* Types *)

\* Idle is a call.
LEMMA IdleType == Idle \in Calls
<1>1. 0 \in Contents
  BY JobAssumption DEF Contents
<1>2. <<>> \in Seq(Contents)
  OBVIOUS
<1>3. <<"queued", 0>> \in States \X Nat
  BY DEF States
<1> QED
  BY <1>2, <1>3 DEF Idle, Calls, States

\* A call is replaced by another one.
LEMMA CallType ==
    ASSUME TypeOK, NEW w \in Workers, NEW c \in Calls,
           call' = [call EXCEPT ![w] = c]
    PROVE  /\ call' \in [Workers -> Calls]
           /\ call'[w] = c
           /\ \A v \in Workers \ {w} : call'[v] = call[v]
  BY DEF TypeOK

\* What may follow is a state.
LEMMA FollowsType == \A s \in States : Follows(s) \subseteq States
  BY DEF Follows, States, Terminal

\* A call by its fields.
Call(at, seen, knows, memory, time, to) ==
    [at |-> at, seen |-> seen, knows |-> knows, memory |-> memory, time |-> time,
     to |-> to]

\* The fields of a call have their types, and nothing else is in it.
LEMMA CallFields ==
    ASSUME NEW c \in Calls
    PROVE  /\ c = Call(c.at, c.seen, c.knows, c.memory, c.time, c.to)
           /\ c.at \in {"idle", "resume", "loaded", "acquire", "work", "transition"}
           /\ c.seen \in States \X Nat
           /\ c.knows \in BOOLEAN
           /\ c.memory \in Seq(Contents)
           /\ c.time \in Nat
           /\ c.to \in States
  BY DEF Calls, Call

\* A record with the fields of a call is one.
LEMMA CallRecord ==
    ASSUME NEW at \in {"idle", "resume", "loaded", "acquire", "work", "transition"},
           NEW seen \in States \X Nat, NEW knows \in BOOLEAN,
           NEW memory \in Seq(Contents), NEW time \in Nat, NEW to \in States
    PROVE  Call(at, seen, knows, memory, time, to) \in Calls
  BY DEF Calls, Call

\* The call that acquire makes of the one before.
LEMMA AcquireCall ==
    ASSUME TypeOK, NEW w \in Workers
    PROVE  /\ [call[w] EXCEPT !.at = "acquire", !.seen = rowVars, !.time = now + LeaseTime]
                = Call("acquire", rowVars, call[w].knows, call[w].memory,
                       now + LeaseTime, call[w].to)
           /\ Call("acquire", rowVars, call[w].knows, call[w].memory,
                   now + LeaseTime, call[w].to) \in Calls
<1> DEFINE c == call[w]
           time == now + LeaseTime
<1>1. c \in Calls /\ rowVars \in States \X Nat /\ time \in Nat
  BY JobAssumption DEF TypeOK, rowVars
<1>2. c = Call(c.at, c.seen, c.knows, c.memory, c.time, c.to)
  BY <1>1, CallFields
<1> HIDE DEF c, time
<1>3. [Call(c.at, c.seen, c.knows, c.memory, c.time, c.to) EXCEPT !.at = "acquire"]
        = Call("acquire", c.seen, c.knows, c.memory, c.time, c.to)
  BY DEF Call
<1>4. [Call("acquire", c.seen, c.knows, c.memory, c.time, c.to) EXCEPT !.seen = rowVars]
        = Call("acquire", rowVars, c.knows, c.memory, c.time, c.to)
  BY DEF Call
<1>5. [Call("acquire", rowVars, c.knows, c.memory, c.time, c.to) EXCEPT !.time = time]
        = Call("acquire", rowVars, c.knows, c.memory, time, c.to)
  BY DEF Call
<1>6. [c EXCEPT !.at = "acquire", !.seen = rowVars, !.time = time]
        = Call("acquire", rowVars, c.knows, c.memory, time, c.to)
  BY <1>2, <1>3, <1>4, <1>5, Zenon
<1>7. Call("acquire", rowVars, c.knows, c.memory, time, c.to) \in Calls
  BY <1>1, CallFields, CallRecord
<1> QED
  BY <1>6, <1>7 DEF c, time

\* A worker that got the lease works with the call that got it.
LEMMA WorkCall ==
    ASSUME TypeOK, NEW w \in Workers
    PROVE  /\ [call[w] EXCEPT !.at = "work", !.seen = Idle.seen]
                = Call("work", Idle.seen, call[w].knows, call[w].memory,
                       call[w].time, call[w].to)
           /\ Call("work", Idle.seen, call[w].knows, call[w].memory,
                   call[w].time, call[w].to) \in Calls
<1> DEFINE c == call[w]
           seen == Idle.seen
<1>1. c \in Calls /\ seen \in States \X Nat
  BY IdleType, CallFields DEF TypeOK
<1>2. c = Call(c.at, c.seen, c.knows, c.memory, c.time, c.to)
  BY <1>1, CallFields
<1> HIDE DEF c, seen
<1>3. [Call(c.at, c.seen, c.knows, c.memory, c.time, c.to) EXCEPT !.at = "work"]
        = Call("work", c.seen, c.knows, c.memory, c.time, c.to)
  BY DEF Call
<1>4. [Call("work", c.seen, c.knows, c.memory, c.time, c.to) EXCEPT !.seen = seen]
        = Call("work", seen, c.knows, c.memory, c.time, c.to)
  BY DEF Call
<1>5. [c EXCEPT !.at = "work", !.seen = seen]
        = Call("work", seen, c.knows, c.memory, c.time, c.to)
  BY <1>2, <1>3, <1>4, Zenon
<1>6. Call("work", seen, c.knows, c.memory, c.time, c.to) \in Calls
  BY <1>1, CallFields, CallRecord
<1> QED
  BY <1>5, <1>6 DEF c, seen

\* A worker that comes to know other segments.
LEMMA KnowCall ==
    ASSUME TypeOK, NEW w \in Workers, NEW m \in Seq(Contents)
    PROVE  /\ [call[w] EXCEPT !.knows = TRUE, !.memory = m]
                = Call(call[w].at, call[w].seen, TRUE, m, call[w].time, call[w].to)
           /\ [call[w] EXCEPT !.memory = m]
                = Call(call[w].at, call[w].seen, call[w].knows, m, call[w].time,
                       call[w].to)
           /\ Call(call[w].at, call[w].seen, TRUE, m, call[w].time, call[w].to) \in Calls
           /\ Call(call[w].at, call[w].seen, call[w].knows, m, call[w].time,
                   call[w].to) \in Calls
<1> DEFINE c == call[w]
           yes == TRUE
<1>1. c \in Calls
  BY DEF TypeOK
<1>2. c = Call(c.at, c.seen, c.knows, c.memory, c.time, c.to)
  BY <1>1, CallFields
<1>0. yes \in BOOLEAN
  OBVIOUS
<1> HIDE DEF c, yes
<1>3. [Call(c.at, c.seen, c.knows, c.memory, c.time, c.to) EXCEPT !.knows = yes]
        = Call(c.at, c.seen, yes, c.memory, c.time, c.to)
  BY DEF Call
<1>4. [Call(c.at, c.seen, yes, c.memory, c.time, c.to) EXCEPT !.memory = m]
        = Call(c.at, c.seen, yes, m, c.time, c.to)
  BY DEF Call
<1>5. [Call(c.at, c.seen, c.knows, c.memory, c.time, c.to) EXCEPT !.memory = m]
        = Call(c.at, c.seen, c.knows, m, c.time, c.to)
  BY DEF Call
<1>6. [c EXCEPT !.knows = yes, !.memory = m]
        = Call(c.at, c.seen, yes, m, c.time, c.to)
  BY <1>2, <1>3, <1>4, Zenon
<1>7. [c EXCEPT !.memory = m] = Call(c.at, c.seen, c.knows, m, c.time, c.to)
  BY <1>2, <1>5, Zenon
<1>8. /\ Call(c.at, c.seen, yes, m, c.time, c.to) \in Calls
      /\ Call(c.at, c.seen, c.knows, m, c.time, c.to) \in Calls
  BY <1>0, <1>1, CallFields, CallRecord
<1> QED
  BY <1>6, <1>7, <1>8 DEF c, yes

\* The calls that start from Idle.
LEMMA IdleCalls ==
    ASSUME TypeOK
    PROVE  /\ \A to \in States :
                 /\ [Idle EXCEPT !.at = "transition", !.seen = rowVars, !.to = to]
                      = Call("transition", rowVars, FALSE, <<>>, 0, to)
                 /\ Call("transition", rowVars, FALSE, <<>>, 0, to) \in Calls
           /\ [Idle EXCEPT !.at = "resume", !.seen = rowVars]
                = Call("resume", rowVars, FALSE, <<>>, 0, "queued")
           /\ Call("resume", rowVars, FALSE, <<>>, 0, "queued") \in Calls
           /\ [Idle EXCEPT !.at = "loaded", !.knows = TRUE, !.memory = checkpoint]
                = Call("loaded", Idle.seen, TRUE, checkpoint, 0, "queued")
           /\ Call("loaded", Idle.seen, TRUE, checkpoint, 0, "queued") \in Calls
<1> DEFINE row == <<"queued", 0>>
           yes == TRUE
           no == FALSE
<1>1. rowVars \in States \X Nat /\ row \in States \X Nat
  BY DEF TypeOK, rowVars, States
<1>2. <<>> \in Seq(Contents) /\ checkpoint \in Seq(Contents) /\ "queued" \in States
  BY DEF TypeOK, States
<1>3. Idle = Call("idle", row, no, <<>>, 0, "queued") /\ Idle.seen = row
  BY DEF Idle, Call
<1>0. {yes, no} \subseteq BOOLEAN
  OBVIOUS
<1> HIDE DEF row, yes, no
<1>4. [Call("idle", row, no, <<>>, 0, "queued") EXCEPT !.at = "transition"]
        = Call("transition", row, no, <<>>, 0, "queued")
  BY DEF Call
<1>5. [Call("transition", row, no, <<>>, 0, "queued") EXCEPT !.seen = rowVars]
        = Call("transition", rowVars, no, <<>>, 0, "queued")
  BY DEF Call
<1>6. ASSUME NEW to \in States
      PROVE  /\ [Idle EXCEPT !.at = "transition", !.seen = rowVars, !.to = to]
                  = Call("transition", rowVars, no, <<>>, 0, to)
             /\ Call("transition", rowVars, no, <<>>, 0, to) \in Calls
  <2>1. [Call("transition", rowVars, no, <<>>, 0, "queued") EXCEPT !.to = to]
          = Call("transition", rowVars, no, <<>>, 0, to)
    BY DEF Call
  <2>2. [Idle EXCEPT !.at = "transition", !.seen = rowVars, !.to = to]
          = Call("transition", rowVars, no, <<>>, 0, to)
    BY <1>3, <1>4, <1>5, <2>1, Zenon
  <2>3. Call("transition", rowVars, no, <<>>, 0, to) \in Calls
    BY <1>0, <1>1, <1>2, CallRecord
  <2> QED
    BY <2>2, <2>3
<1>7. /\ [Idle EXCEPT !.at = "resume", !.seen = rowVars]
          = Call("resume", rowVars, no, <<>>, 0, "queued")
      /\ Call("resume", rowVars, no, <<>>, 0, "queued") \in Calls
  <2>1. [Call("idle", row, no, <<>>, 0, "queued") EXCEPT !.at = "resume"]
          = Call("resume", row, no, <<>>, 0, "queued")
    BY DEF Call
  <2>2. [Call("resume", row, no, <<>>, 0, "queued") EXCEPT !.seen = rowVars]
          = Call("resume", rowVars, no, <<>>, 0, "queued")
    BY DEF Call
  <2>3. [Idle EXCEPT !.at = "resume", !.seen = rowVars]
          = Call("resume", rowVars, no, <<>>, 0, "queued")
    BY <1>3, <2>1, <2>2, Zenon
  <2>4. Call("resume", rowVars, no, <<>>, 0, "queued") \in Calls
    BY <1>0, <1>1, <1>2, CallRecord
  <2> QED
    BY <2>3, <2>4
<1>8. /\ [Idle EXCEPT !.at = "loaded", !.knows = yes, !.memory = checkpoint]
          = Call("loaded", row, yes, checkpoint, 0, "queued")
      /\ Call("loaded", row, yes, checkpoint, 0, "queued") \in Calls
  <2>1. [Call("idle", row, no, <<>>, 0, "queued") EXCEPT !.at = "loaded"]
          = Call("loaded", row, no, <<>>, 0, "queued")
    BY DEF Call
  <2>2. [Call("loaded", row, no, <<>>, 0, "queued") EXCEPT !.knows = yes]
          = Call("loaded", row, yes, <<>>, 0, "queued")
    BY DEF Call
  <2>3. [Call("loaded", row, yes, <<>>, 0, "queued") EXCEPT !.memory = checkpoint]
          = Call("loaded", row, yes, checkpoint, 0, "queued")
    BY DEF Call
  <2>4. [Idle EXCEPT !.at = "loaded", !.knows = yes, !.memory = checkpoint]
          = Call("loaded", row, yes, checkpoint, 0, "queued")
    BY <1>3, <2>1, <2>2, <2>3, Zenon
  <2>5. Call("loaded", row, yes, checkpoint, 0, "queued") \in Calls
    BY <1>0, <1>1, <1>2, CallRecord
  <2> QED
    BY <2>4, <2>5
<1> QED
  BY <1>3, <1>6, <1>7, <1>8 DEF yes, no

\* The initial state has the types.
LEMMA InitTypeOK == Init => TypeOK
<1> SUFFICES ASSUME Init PROVE TypeOK
  OBVIOUS
<1>1. call \in [Workers -> Calls]
  BY IdleType DEF Init
<1>2. 0 \in Contents
  BY JobAssumption DEF Contents
<1> QED
  <2>1. files \in [1..MaxSegments -> Contents] /\ filesD \in [1..MaxSegments -> Contents]
    BY <1>2 DEF Init
  <2>2. checkpoint \in Seq(Contents)
    BY DEF Init
  <2>3. now \in 0..MaxTime /\ powers \in 0..MaxPowers /\ deaths \in 0..MaxDeaths
    BY JobAssumption DEF Init
  <2>4. state \in States /\ lease \in Nat /\ written \in Contents /\ exposed \in BOOLEAN
    BY <1>2 DEF Init, States
  <2> QED
    BY <1>1, <2>1, <2>2, <2>3, <2>4 DEF TypeOK

\* Every step keeps the types.
LEMMA StepTypeOK == TypeOK /\ [Next]_vars => TypeOK'
<1> SUFFICES ASSUME TypeOK, [Next]_vars PROVE TypeOK'
  OBVIOUS
<1> USE DEF rowVars, fileVars
<1>1. ASSUME NEW w \in Workers, AcquireRead(w) PROVE TypeOK'
  <2>1. call' \in [Workers -> Calls]
    BY <1>1, AcquireCall, IdleType, CallType DEF AcquireRead
  <2> QED
    BY <1>1, <2>1 DEF TypeOK, AcquireRead
<1>2. ASSUME NEW w \in Workers, AcquireWrite(w) PROVE TypeOK'
  <2>1. state' \in States /\ lease' \in Nat
    BY <1>2 DEF TypeOK, AcquireWrite, States, Calls
  <2>2. call' \in [Workers -> Calls]
    BY <1>2, WorkCall, CallType DEF AcquireWrite
  <2>3. exposed' \in BOOLEAN
    BY <1>2 DEF AcquireWrite
  <2> QED
    BY <1>2, <2>1, <2>2, <2>3 DEF TypeOK, AcquireWrite
<1>3. ASSUME NEW w \in Workers, TransitionRead(w) PROVE TypeOK'
  <2>1. PICK to \in Follows(state) :
            call' = [call EXCEPT ![w] = [Idle EXCEPT !.at = "transition",
                                                     !.seen = rowVars, !.to = to]]
    BY <1>3 DEF TransitionRead
  <2>2. to \in States
    BY FollowsType DEF TypeOK
  <2>3. call' \in [Workers -> Calls]
    BY <2>1, <2>2, IdleCalls, CallType
  <2> QED
    BY <1>3, <2>3 DEF TypeOK, TransitionRead
<1>4. ASSUME NEW w \in Workers, TransitionWrite(w) PROVE TypeOK'
  <2>1. call' \in [Workers -> Calls] /\ exposed' \in BOOLEAN
    BY <1>4, CallType, IdleType DEF TransitionWrite
  <2>2. state' \in States
    BY <1>4 DEF TransitionWrite, TypeOK, Calls
  <2> QED
    BY <1>4, <2>1, <2>2 DEF TypeOK, TransitionWrite
<1>5. ASSUME NEW w \in Workers, ReleaseLease(w) PROVE TypeOK'
  <2>1. call' \in [Workers -> Calls] /\ exposed' \in BOOLEAN
    BY <1>5, CallType, IdleType DEF ReleaseLease
  <2> QED
    BY <1>5, <2>1 DEF TypeOK, ReleaseLease
<1>6. ASSUME NEW w \in Workers, ResumeStatus(w) PROVE TypeOK'
  <2>1. call' \in [Workers -> Calls]
    <3>1. PICK c \in Calls : call' = [call EXCEPT ![w] = c]
      BY <1>6, IdleCalls, Zenon DEF ResumeStatus
    <3> QED
      BY <3>1, CallType
  <2> QED
    BY <1>6, <2>1 DEF TypeOK, ResumeStatus
<1>7. ASSUME NEW w \in Workers, ResumeLoad(w) PROVE TypeOK'
  <2>1. call' \in [Workers -> Calls]
    <3>1. PICK c \in Calls : call' = [call EXCEPT ![w] = c]
      BY <1>7, IdleCalls, IdleType, Zenon DEF ResumeLoad
    <3> QED
      BY <3>1, CallType
  <2> QED
    BY <1>7, <2>1 DEF TypeOK, ResumeLoad
<1>8. ASSUME NEW w \in Workers, LoadCheckpoint(w) PROVE TypeOK'
  <2>1. checkpoint \in Seq(Contents)
    BY DEF TypeOK
  <2>2. call' \in [Workers -> Calls]
    <3>0. [call[w] EXCEPT !.knows = TRUE, !.memory = checkpoint] \in Calls
      BY <2>1, KnowCall, Zenon
    <3>1. PICK c \in Calls : call' = [call EXCEPT ![w] = c]
      BY <1>8, <3>0, IdleType, Zenon DEF LoadCheckpoint
    <3> QED
      BY <3>1, CallType
  <2> QED
    BY <1>8, <2>2 DEF TypeOK, LoadCheckpoint
<1>9. ASSUME NEW w \in Workers, AppendSegment(w) PROVE TypeOK'
  <2>1. written' \in Contents
    BY <1>9, JobAssumption DEF TypeOK, AppendSegment, Contents
  <2>2. Append(call[w].memory, written + 1) \in Seq(Contents)
    BY <1>9, <2>1, CallFields DEF TypeOK, AppendSegment
  <2>3. call' \in [Workers -> Calls]
    <3>0. [call[w] EXCEPT !.memory = Append(call[w].memory, written + 1)] \in Calls
      BY <2>2, KnowCall, Zenon
    <3>1. call' = [call EXCEPT ![w] =
                      [call[w] EXCEPT !.memory = Append(call[w].memory, written + 1)]]
      BY <1>9 DEF AppendSegment
    <3>2. PICK c \in Calls : call' = [call EXCEPT ![w] = c]
      BY <3>0, <3>1, Zenon
    <3> QED
      BY <3>2, CallType
  <2>4. files' \in [1..MaxSegments -> Contents]
    BY <1>9, <2>1 DEF TypeOK, AppendSegment
  <2> QED
    BY <1>9, <2>1, <2>3, <2>4 DEF TypeOK, AppendSegment
<1>10. ASSUME NEW w \in Workers, Save(w) PROVE TypeOK'
  BY <1>10 DEF TypeOK, Save, Calls
<1>11. ASSUME NEW w \in Workers, Die(w) PROVE TypeOK'
  <2>1. deaths' \in 0..MaxDeaths
    BY <1>11, JobAssumption DEF TypeOK, Die
  <2> QED
    BY <1>11, <2>1, CallType, IdleType DEF TypeOK, Die
<1>12. ASSUME NEW w \in Workers, LeaseEnds(w) PROVE TypeOK'
  BY <1>12, CallType, IdleType DEF TypeOK, LeaseEnds
<1>13. ASSUME Flush PROVE TypeOK'
  BY <1>13 DEF TypeOK, Flush
<1>14. ASSUME PowerLoss PROVE TypeOK'
  <2>1. files' \in [1..MaxSegments -> Contents]
    BY <1>14 DEF PowerLoss
  <2>2. powers' \in 0..MaxPowers
    BY <1>14, JobAssumption DEF TypeOK, PowerLoss
  <2>3. call' \in [Workers -> Calls]
    BY <1>14, IdleType DEF PowerLoss
  <2> QED
    BY <1>14, <2>1, <2>2, <2>3 DEF TypeOK, PowerLoss
<1>15. ASSUME Tick PROVE TypeOK'
  BY <1>15, JobAssumption DEF TypeOK, Tick
<1>16. ASSUME UNCHANGED vars PROVE TypeOK'
  BY <1>16 DEF TypeOK, vars
<1> QED
  BY <1>1, <1>2, <1>3, <1>4, <1>5, <1>6, <1>7, <1>8, <1>9, <1>10, <1>11,
     <1>12, <1>13, <1>14, <1>15, <1>16 DEF Next

\* The variables keep their types (JobStore, MirrorCheckpoint).
THEOREM TypesAreKept == Spec => []TypeOK
  BY InitTypeOK, StepTypeOK, PTL DEF Spec

-----------------------------------------------------------------------------
(* One worker *)

\* The initial state satisfies the invariant.
LEMMA InitIInv == Init => IInv
<1> SUFFICES ASSUME Init PROVE IInv
  OBVIOUS
<1>1. \A w \in Workers : call[w].at = "idle"
  BY DEF Init, Idle
<1> QED
  BY <1>1, InitTypeOK DEF IInv, AcquireInv, TransitionInv, LeaseIInv, LeaseInv,
     OneWorker, Working

\* Whoever may acquire finds nobody working, while the lease is in order.
LEMMA AcquirableIsFree ==
    ASSUME TypeOK, LeaseInv, Takes(rowVars)
    PROVE  \A v \in Workers : ~Working(v)
<1>1. state \notin Terminal
  BY DEF Takes, Terminal, rowVars
<1>2. ASSUME NEW v \in Workers, Working(v) PROVE FALSE
  <2>1. state = "running" /\ lease = call[v].time
    BY <1>1, <1>2 DEF LeaseInv
  <2>2. now < lease /\ now \in Nat /\ lease \in Nat
    BY <1>2, <2>1 DEF Working, TypeOK
  <2> QED
    BY <2>1, <2>2 DEF Takes, rowVars
<1> QED
  BY <1>2

\* What the calls have read stays good when a process ends its call, starts
\* one, or goes on.
LEMMA ReadsKept ==
    ASSUME AcquireInv, TransitionInv, now' = now,
           NEW w \in Workers, \A v \in Workers \ {w} : call'[v] = call[v],
           call'[w].at = "acquire" => Takes(call'[w].seen),
           call'[w].at = "transition" => call'[w].to \in Follows(call'[w].seen[1])
    PROVE  AcquireInv' /\ TransitionInv'
<1>1. ASSUME NEW v \in Workers, call'[v].at = "acquire"
      PROVE  Takes(call[v].seen)'
  <2>1. CASE v = w
    BY <1>1, <2>1 DEF Takes
  <2>2. CASE v # w
    BY <1>1, <2>2 DEF AcquireInv, Takes
  <2> QED
    BY <2>1, <2>2
<1>2. ASSUME NEW v \in Workers, call'[v].at = "transition"
      PROVE  call'[v].to \in Follows(call'[v].seen[1])
  BY <1>2 DEF TransitionInv
<1> QED
  BY <1>1, <1>2 DEF AcquireInv, TransitionInv

\* A step that leaves the row and the clock, and gives nobody a lease.
LEMMA LeaseKept ==
    ASSUME LeaseIInv, UNCHANGED <<now, state, lease, exposed>>,
           NEW w \in Workers, \A v \in Workers \ {w} : call'[v] = call[v],
           call'[w].at = "work" => call[w].at = "work" /\ call'[w].time = call[w].time
    PROVE  LeaseIInv'
<1>1. \A v \in Workers : Working(v)' => Working(v) /\ call'[v].time = call[v].time
  BY DEF Working
<1> QED
  BY <1>1 DEF LeaseIInv, LeaseInv, OneWorker

\* A process ends its call.
LEMMA CallEnds ==
    ASSUME IInv, TypeOK', UNCHANGED <<now, state, lease, exposed>>,
           NEW w \in Workers, call' = [call EXCEPT ![w] = Idle]
    PROVE  IInv'
<1>1. call'[w].at = "idle" /\ \A v \in Workers \ {w} : call'[v] = call[v]
  BY DEF IInv, TypeOK, Idle
<1>2. AcquireInv' /\ TransitionInv'
  BY <1>1, ReadsKept DEF IInv
<1>3. LeaseIInv'
  BY <1>1, LeaseKept DEF IInv
<1> QED
  BY <1>2, <1>3 DEF IInv

\* Nobody calls anything.
LEMMA NoCall ==
    ASSUME IInv, TypeOK', UNCHANGED <<now, state, lease, exposed, call>>
    PROVE  IInv'
<1>1. \A v \in Workers : Working(v)' <=> Working(v)
  BY DEF Working
<1>2. AcquireInv' /\ TransitionInv'
  BY DEF IInv, AcquireInv, TransitionInv, Takes
<1>3. LeaseIInv'
  BY <1>1 DEF IInv, LeaseIInv, LeaseInv, OneWorker
<1> QED
  BY <1>2, <1>3 DEF IInv

\* Every step keeps the invariant, whoever it overtakes.
LEMMA StepIInv == IInv /\ [Next]_vars => IInv'
<1> SUFFICES ASSUME IInv, [Next]_vars PROVE IInv'
  OBVIOUS
<1>0. TypeOK /\ TypeOK'
  BY StepTypeOK DEF IInv
<1>1. ASSUME NEW w \in Workers, AcquireRead(w) PROVE IInv'
  <2>0. UNCHANGED <<now, state, lease, exposed>>
    BY <1>1 DEF AcquireRead, rowVars
  <2>1. CASE Acquirable
    <3> DEFINE c == Call("acquire", rowVars, call[w].knows, call[w].memory,
                         now + LeaseTime, call[w].to)
    <3>1. call' = [call EXCEPT ![w] = c] /\ c \in Calls
      BY <1>0, <1>1, <2>1, AcquireCall, Zenon DEF AcquireRead
    <3>2. c.at = "acquire" /\ c.seen = rowVars
      BY DEF Call
    <3>3. call'[w] = c /\ \A v \in Workers \ {w} : call'[v] = call[v]
      BY <1>0, <3>1, CallType
    <3>4. Takes(rowVars)
      BY <2>1 DEF Takes, Acquirable, rowVars
    <3>5. AcquireInv' /\ TransitionInv'
      BY <2>0, <3>2, <3>3, <3>4, ReadsKept DEF IInv
    <3>6. LeaseIInv'
      BY <2>0, <3>2, <3>3, LeaseKept DEF IInv
    <3> QED
      BY <1>0, <3>5, <3>6 DEF IInv
  <2>2. CASE ~Acquirable
    BY <1>0, <1>1, <2>0, <2>2, CallEnds DEF AcquireRead
  <2> QED
    BY <2>1, <2>2
<1>2. ASSUME NEW w \in Workers, AcquireWrite(w) PROVE IInv'
  <2> DEFINE c == Call("work", Idle.seen, call[w].knows, call[w].memory,
                       call[w].time, call[w].to)
  <2>1. call' = [call EXCEPT ![w] = c] /\ c \in Calls
    BY <1>0, <1>2, WorkCall, Zenon DEF AcquireWrite
  <2>2. c.at = "work" /\ c.time = call[w].time
    BY DEF Call
  <2>3. call'[w] = c /\ \A v \in Workers \ {w} : call'[v] = call[v]
    BY <1>0, <2>1, CallType
  <2>4. AcquireInv' /\ TransitionInv'
    BY <1>2, <2>2, <2>3, ReadsKept DEF IInv, AcquireWrite
  <2>5. LeaseIInv'
    <3>1. SUFFICES ASSUME ~exposed' PROVE LeaseInv' /\ OneWorker'
      BY DEF LeaseIInv
    <3>2. ~exposed /\ call[w].seen = rowVars
      BY <1>2, <3>1 DEF AcquireWrite, Overtaken
    <3>3. Takes(rowVars) /\ LeaseInv
      BY <1>2, <3>2 DEF IInv, AcquireInv, LeaseIInv, AcquireWrite
    <3>4. \A v \in Workers : ~Working(v)
      BY <1>0, <3>3, AcquirableIsFree
    <3>5. \A v \in Workers \ {w} : ~Working(v)'
      BY <1>2, <2>3, <3>4 DEF Working, AcquireWrite
    <3>6. state' = "running" /\ lease' = call'[w].time
      BY <1>2, <2>2, <2>3 DEF AcquireWrite
    <3> QED
      BY <3>5, <3>6 DEF LeaseInv, OneWorker
  <2> QED
    BY <1>0, <2>4, <2>5 DEF IInv
<1>3. ASSUME NEW w \in Workers, TransitionRead(w) PROVE IInv'
  <2>1. PICK to \in Follows(state) :
            call' = [call EXCEPT ![w] = [Idle EXCEPT !.at = "transition",
                                                     !.seen = rowVars, !.to = to]]
    BY <1>3 DEF TransitionRead
  <2> DEFINE c == Call("transition", rowVars, FALSE, <<>>, 0, to)
  <2>2. to \in States
    BY <1>0, FollowsType DEF TypeOK
  <2>3. call' = [call EXCEPT ![w] = c] /\ c \in Calls
    BY <1>0, <2>1, <2>2, IdleCalls, Zenon
  <2>4. c.at = "transition" /\ c.to = to /\ c.seen[1] = state
    BY DEF Call, rowVars
  <2>5. call'[w] = c /\ \A v \in Workers \ {w} : call'[v] = call[v]
    BY <1>0, <2>3, CallType
  <2>6. UNCHANGED <<now, state, lease, exposed>>
    BY <1>3 DEF TransitionRead, rowVars
  <2>7. AcquireInv' /\ TransitionInv'
    BY <2>4, <2>5, <2>6, ReadsKept DEF IInv
  <2>8. LeaseIInv'
    BY <2>4, <2>5, <2>6, LeaseKept DEF IInv
  <2> QED
    BY <1>0, <2>7, <2>8 DEF IInv
<1>4. ASSUME NEW w \in Workers, TransitionWrite(w) PROVE IInv'
  <2>1. call'[w] = Idle /\ \A v \in Workers \ {w} : call'[v] = call[v]
    BY <1>0, <1>4 DEF TransitionWrite, TypeOK
  <2>2. AcquireInv' /\ TransitionInv'
    BY <1>4, <2>1, ReadsKept DEF IInv, TransitionWrite, Idle
  <2>3. LeaseIInv'
    <3>1. SUFFICES ASSUME ~exposed' PROVE LeaseInv' /\ OneWorker'
      BY DEF LeaseIInv
    <3>2. /\ ~exposed /\ call[w].seen = rowVars
          /\ call[w].to = "paused" => \A v \in Workers \ {w} : ~Working(v)
      BY <1>4, <3>1 DEF TransitionWrite, Overtaken, OtherWorks
    <3>3. call[w].to \in Follows(state) /\ LeaseInv /\ OneWorker
      BY <1>4, <3>2 DEF IInv, TransitionInv, LeaseIInv, TransitionWrite, rowVars
    <3>4. \A v \in Workers : Working(v)' => v # w /\ Working(v) /\ call'[v] = call[v]
      BY <1>4, <2>1 DEF Working, Idle, TransitionWrite
    <3>5. state' = call[w].to /\ lease' = lease
      BY <1>4 DEF TransitionWrite
    <3>6. ASSUME NEW v \in Workers, Working(v)' PROVE state' \in {"running"} \union Terminal
      <4>1. Working(v) /\ state \in {"running"} \union Terminal /\ call[w].to # "paused"
        BY <3>2, <3>3, <3>4, <3>6 DEF LeaseInv
      <4> QED
        BY <3>3, <3>5, <4>1 DEF Follows, Terminal
    <3> QED
      BY <3>3, <3>4, <3>5, <3>6 DEF LeaseInv, OneWorker
  <2> QED
    BY <1>0, <2>2, <2>3 DEF IInv
<1>5. ASSUME NEW w \in Workers, ReleaseLease(w) PROVE IInv'
  <2>1. call'[w] = Idle /\ \A v \in Workers \ {w} : call'[v] = call[v]
    BY <1>0, <1>5 DEF ReleaseLease, TypeOK
  <2>2. AcquireInv' /\ TransitionInv'
    BY <1>5, <2>1, ReadsKept DEF IInv, ReleaseLease, Idle
  <2>3. LeaseIInv'
    <3>1. SUFFICES ASSUME ~exposed' PROVE LeaseInv' /\ OneWorker'
      BY DEF LeaseIInv
    <3>2. \A v \in Workers \ {w} : ~Working(v)
      BY <1>5, <3>1 DEF ReleaseLease, OtherWorks
    <3>3. \A v \in Workers : ~Working(v)'
      BY <1>5, <2>1, <3>2 DEF Working, Idle, ReleaseLease
    <3> QED
      BY <3>3 DEF LeaseInv, OneWorker
  <2> QED
    BY <1>0, <2>2, <2>3 DEF IInv
<1>6. ASSUME NEW w \in Workers, ResumeStatus(w) PROVE IInv'
  <2> DEFINE c == Call("resume", rowVars, FALSE, <<>>, 0, "queued")
  <2>1. call' = [call EXCEPT ![w] = c] /\ c \in Calls
    BY <1>0, <1>6, IdleCalls, Zenon DEF ResumeStatus
  <2>2. c.at = "resume"
    BY DEF Call
  <2>3. call'[w] = c /\ \A v \in Workers \ {w} : call'[v] = call[v]
    BY <1>0, <2>1, CallType
  <2>4. AcquireInv' /\ TransitionInv' /\ LeaseIInv'
    BY <1>6, <2>2, <2>3, ReadsKept, LeaseKept DEF IInv, ResumeStatus, rowVars
  <2> QED
    BY <1>0, <2>4 DEF IInv
<1>7. ASSUME NEW w \in Workers, ResumeLoad(w) PROVE IInv'
  <2>0. UNCHANGED <<now, state, lease, exposed>>
    BY <1>7 DEF ResumeLoad, rowVars
  <2> DEFINE c == Call("loaded", Idle.seen, TRUE, checkpoint, 0, "queued")
  <2>1. CASE call' = [call EXCEPT ![w] = [Idle EXCEPT !.at = "loaded", !.knows = TRUE,
                                                      !.memory = checkpoint]]
    <3>1. call' = [call EXCEPT ![w] = c] /\ c \in Calls
      BY <1>0, <2>1, IdleCalls, Zenon
    <3>2. c.at = "loaded"
      BY DEF Call
    <3>3. call'[w] = c /\ \A v \in Workers \ {w} : call'[v] = call[v]
      BY <1>0, <3>1, CallType
    <3>4. AcquireInv' /\ TransitionInv' /\ LeaseIInv'
      BY <2>0, <3>2, <3>3, ReadsKept, LeaseKept DEF IInv
    <3> QED
      BY <1>0, <3>4 DEF IInv
  <2>2. CASE call' = [call EXCEPT ![w] = Idle]
    BY <1>0, <2>0, <2>2, CallEnds
  <2> QED
    BY <1>7, <2>1, <2>2 DEF ResumeLoad
<1>8. ASSUME NEW w \in Workers, LoadCheckpoint(w) PROVE IInv'
  <2>0. UNCHANGED <<now, state, lease, exposed>>
    BY <1>8 DEF LoadCheckpoint, rowVars
  <2> DEFINE c == Call(call[w].at, call[w].seen, TRUE, checkpoint, call[w].time,
                       call[w].to)
  <2>1. CASE Loads
    <3>1. checkpoint \in Seq(Contents)
      BY <1>0 DEF TypeOK
    <3>2. c \in Calls /\ [call[w] EXCEPT !.knows = TRUE, !.memory = checkpoint] = c
      BY <1>0, <3>1, KnowCall, Zenon
    <3>3. call' = [call EXCEPT ![w] = c]
      BY <1>8, <2>1, <3>2, Zenon DEF LoadCheckpoint
    <3>4. c.at = "work" /\ c.time = call[w].time
      BY <1>8 DEF Call, LoadCheckpoint, Working
    <3>5. call'[w] = c /\ \A v \in Workers \ {w} : call'[v] = call[v]
      BY <1>0, <3>2, <3>3, CallType
    <3>6. AcquireInv' /\ TransitionInv' /\ LeaseIInv'
      BY <1>8, <2>0, <3>4, <3>5, ReadsKept, LeaseKept DEF IInv, LoadCheckpoint, Working
    <3> QED
      BY <1>0, <3>6 DEF IInv
  <2>2. CASE ~Loads
    BY <1>0, <1>8, <2>0, <2>2, CallEnds DEF LoadCheckpoint
  <2> QED
    BY <2>1, <2>2
<1>9. ASSUME NEW w \in Workers, AppendSegment(w) PROVE IInv'
  <2>1. /\ call'[w].at = "work" /\ call[w].at = "work"
        /\ call'[w].time = call[w].time
        /\ \A v \in Workers \ {w} : call'[v] = call[v]
    BY <1>0, <1>9 DEF AppendSegment, Working, TypeOK, Calls
  <2>2. UNCHANGED <<now, state, lease, exposed>>
    BY <1>9 DEF AppendSegment, rowVars
  <2>3. AcquireInv' /\ TransitionInv' /\ LeaseIInv'
    BY <2>1, <2>2, ReadsKept, LeaseKept DEF IInv
  <2> QED
    BY <1>0, <2>3 DEF IInv
<1>10. ASSUME NEW w \in Workers, Save(w) PROVE IInv'
  BY <1>0, <1>10, NoCall DEF Save, rowVars
<1>11. ASSUME NEW w \in Workers, Die(w) PROVE IInv'
  BY <1>0, <1>11, CallEnds DEF Die, rowVars
<1>12. ASSUME NEW w \in Workers, LeaseEnds(w) PROVE IInv'
  BY <1>0, <1>12, CallEnds DEF LeaseEnds, rowVars
<1>13. ASSUME Flush PROVE IInv'
  BY <1>0, <1>13, NoCall DEF Flush, rowVars
<1>14. ASSUME PowerLoss PROVE IInv'
  <2>1. \A v \in Workers : call'[v].at = "idle"
    BY <1>14 DEF PowerLoss, Idle
  <2> QED
    BY <1>0, <2>1 DEF IInv, AcquireInv, TransitionInv, LeaseIInv, LeaseInv, OneWorker,
       Working
<1>15. ASSUME Tick PROVE IInv'
  <2>1. now' > now /\ now \in Nat /\ now' \in Nat /\ call' = call
    BY <1>0, <1>15 DEF Tick, TypeOK
  <2>2. \A v \in Workers : Working(v)' => Working(v)
    BY <1>0, <2>1 DEF Working, TypeOK, Calls
  <2>3. AcquireInv'
    <3>1. ASSUME NEW v \in Workers, call[v].at = "acquire" PROVE Takes(call[v].seen)'
      <4>1. call[v].seen[2] \in Nat /\ Takes(call[v].seen)
        BY <1>0, <3>1, CallFields DEF TypeOK, IInv, AcquireInv
      <4> QED
        BY <2>1, <4>1 DEF Takes
    <3> QED
      BY <2>1, <3>1 DEF AcquireInv
  <2>4. TransitionInv' /\ LeaseIInv'
    BY <1>15, <2>1, <2>2 DEF IInv, TransitionInv, LeaseIInv, LeaseInv, OneWorker, Tick,
       rowVars
  <2> QED
    BY <1>0, <2>3, <2>4 DEF IInv
<1>16. ASSUME UNCHANGED vars PROVE IInv'
  BY <1>0, <1>16, NoCall DEF vars, rowVars
<1> QED
  BY <1>1, <1>2, <1>3, <1>4, <1>5, <1>6, <1>7, <1>8, <1>9, <1>10, <1>11,
     <1>12, <1>13, <1>14, <1>15, <1>16 DEF Next

\* The inductive invariant holds.
THEOREM Invariant == Spec => []IInv
  BY InitIInv, StepIInv, PTL DEF Spec

\* What "leases prevent overlapping workers" (docs/HEADLESS_JOBS.md:3) comes to,
\* for any number of processes, any lease time and all interleavings of calls:
\* two workers overlap only after a write over a row that was not the one read,
\* a pause or release under another worker (or a stale resume).
THEOREM OverlapsHaveACause == Spec => []LeasesExclude
<1>1. IInv => LeasesExclude
  BY DEF IInv, LeaseIInv, LeasesExclude
<1> QED
  BY <1>1, Invariant, PTL

-----------------------------------------------------------------------------
(* The checkpoint *)

\* The segments of s are the files.
Stored(s) == \A n \in 1..Len(s) : files[n] = s[n]

\* A worker that may write knows files that are there, and at least those of
\* the checkpoint: it does not replace a file that the checkpoint refers to.
WorkerInv ==
    \A w \in Workers : Working(w) /\ call[w].knows =>
        Stored(call[w].memory) /\ Len(checkpoint) <= Len(call[w].memory)

StoreInv == exposed \/ powers > 0 \/ (Loads /\ WorkerInv)

\* A step that writes no file, and leaves a worker its segments.
LEMMA QuietStore ==
    ASSUME StoreInv, UNCHANGED <<files, checkpoint, exposed, powers>>,
           \A v \in Workers : Working(v)' /\ call'[v].knows =>
               Working(v) /\ call[v].knows /\ call'[v].memory = call[v].memory
    PROVE  StoreInv'
<1>1. ASSUME Loads, WorkerInv PROVE Loads' /\ WorkerInv'
  <2>1. Loads'
    BY <1>1 DEF Loads
  <2>2. ASSUME NEW v \in Workers, Working(v)', call'[v].knows
        PROVE  Stored(call[v].memory)' /\ Len(checkpoint') <= Len(call'[v].memory)
    <3>1. Stored(call[v].memory) /\ Len(checkpoint) <= Len(call[v].memory)
      BY <1>1, <2>2 DEF WorkerInv
    <3> QED
      BY <2>2, <3>1 DEF Stored
  <2> QED
    BY <2>1, <2>2 DEF WorkerInv
<1> QED
  BY <1>1 DEF StoreInv

\* A worker that has just loaded the checkpoint knows it.
LEMMA LoadedStore ==
    ASSUME TypeOK, Loads, WorkerInv, UNCHANGED <<files, checkpoint, powers>>,
           NEW w \in Workers, call'[w].memory = checkpoint,
           \A v \in Workers \ {w} : Working(v)' =>
               Working(v) /\ call'[v] = call[v]
    PROVE  Loads' /\ WorkerInv'
<1>1. Loads'
  BY DEF Loads
<1>2. Stored(call[w].memory)' /\ Len(checkpoint') <= Len(call'[w].memory)
  <2>1. checkpoint \in Seq(Contents)
    BY DEF TypeOK
  <2> QED
    BY <2>1 DEF Loads, Stored
<1>3. ASSUME NEW v \in Workers, v # w, Working(v)', call'[v].knows
      PROVE  Stored(call[v].memory)' /\ Len(checkpoint') <= Len(call'[v].memory)
  <2>1. Stored(call[v].memory) /\ Len(checkpoint) <= Len(call[v].memory)
    BY <1>3 DEF WorkerInv
  <2> QED
    BY <1>3, <2>1 DEF Stored
<1> QED
  BY <1>1, <1>2, <1>3 DEF WorkerInv

\* Every step keeps what the checkpoint refers to.
LEMMA StepStore == IInv /\ StoreInv /\ [Next]_vars => StoreInv'
<1> SUFFICES ASSUME IInv, StoreInv, [Next]_vars PROVE StoreInv'
  OBVIOUS
<1>0. TypeOK
  BY DEF IInv
<1>a. ASSUME NEW w \in Workers, call' = [call EXCEPT ![w] = Idle], now' = now
      PROVE  \A v \in Workers : Working(v)' => Working(v) /\ call'[v] = call[v]
  BY <1>0, <1>a DEF TypeOK, Working, Idle
<1>1. ASSUME NEW w \in Workers, AcquireRead(w) PROVE StoreInv'
  <2>1. CASE Acquirable
    <3>1. /\ call'[w].at = "acquire" /\ now' = now
          /\ \A v \in Workers \ {w} : call'[v] = call[v]
      <4>1. call' = [call EXCEPT ![w] = Call("acquire", rowVars, call[w].knows,
                         call[w].memory, now + LeaseTime, call[w].to)]
        BY <1>0, <1>1, <2>1, AcquireCall, Zenon DEF AcquireRead
      <4> DEFINE c == Call("acquire", rowVars, call[w].knows, call[w].memory,
                           now + LeaseTime, call[w].to)
      <4>2. call'[w] = c /\ \A v \in Workers \ {w} : call'[v] = call[v]
        BY <1>0, <4>1 DEF TypeOK
      <4>3. c.at = "acquire"
        BY DEF Call
      <4> QED
        BY <1>1, <4>2, <4>3 DEF AcquireRead
    <3>2. \A v \in Workers : Working(v)' => Working(v) /\ call'[v] = call[v]
      BY <3>1 DEF Working
    <3> QED
      BY <1>1, <3>2, QuietStore DEF AcquireRead, fileVars
  <2>2. CASE ~Acquirable
    BY <1>1, <1>a, <2>2, QuietStore DEF AcquireRead, fileVars
  <2> QED
    BY <2>1, <2>2
<1>2. ASSUME NEW w \in Workers, AcquireWrite(w) PROVE StoreInv'
  <2> SUFFICES ASSUME ~exposed', powers = 0 PROVE Loads' /\ WorkerInv'
    BY <1>0, <1>2 DEF StoreInv, AcquireWrite, TypeOK
  <2>1. /\ call'[w].at = "work" /\ call'[w].knows = call[w].knows
        /\ call'[w].memory = call[w].memory
        /\ \A v \in Workers \ {w} : call'[v] = call[v]
    <3>1. call' = [call EXCEPT ![w] = Call("work", Idle.seen, call[w].knows,
                       call[w].memory, call[w].time, call[w].to)]
      BY <1>0, <1>2, WorkCall, Zenon DEF AcquireWrite
    <3> QED
      BY <1>0, <3>1 DEF TypeOK, Call
  <2>2. Loads /\ WorkerInv /\ ~exposed
    BY <1>0, <1>2 DEF StoreInv, AcquireWrite, TypeOK
  <2>3. call[w].knows => call[w].memory = checkpoint
    BY <1>2 DEF AcquireWrite
  <2>4. UNCHANGED <<now, files, checkpoint, powers>>
    BY <1>2 DEF AcquireWrite, fileVars
  <2>5. \A v \in Workers \ {w} : Working(v)' => Working(v) /\ call'[v] = call[v]
    BY <2>1, <2>4 DEF Working
  <2>6. CASE call[w].knows
    BY <1>0, <2>1, <2>2, <2>3, <2>4, <2>5, <2>6, LoadedStore
  <2>7. CASE ~call[w].knows
    <3>1. StoreInv /\ ~call'[w].knows
      BY <2>1, <2>7
    <3>2. \A v \in Workers : Working(v)' /\ call'[v].knows =>
              Working(v) /\ call[v].knows /\ call'[v].memory = call[v].memory
      BY <2>5, <3>1
    <3>3. exposed' = exposed
      <4>1. exposed' \in BOOLEAN /\ exposed \in BOOLEAN
        BY <1>0, <1>2 DEF AcquireWrite, TypeOK
      <4> QED
        BY <2>2, <4>1
    <3>4. StoreInv'
      BY <2>4, <3>1, <3>2, <3>3, QuietStore
    <3> QED
      BY <1>0, <2>4, <3>4 DEF StoreInv, TypeOK
  <2> QED
    BY <2>6, <2>7
<1>3. ASSUME NEW w \in Workers, TransitionRead(w) PROVE StoreInv'
  <2>1. PICK to \in Follows(state) :
            call' = [call EXCEPT ![w] = [Idle EXCEPT !.at = "transition",
                                                     !.seen = rowVars, !.to = to]]
    BY <1>3 DEF TransitionRead
  <2>2. to \in States
    BY <1>0, FollowsType DEF TypeOK
  <2>3. call' = [call EXCEPT ![w] = Call("transition", rowVars, FALSE, <<>>, 0, to)]
    BY <1>0, <2>1, <2>2, IdleCalls, Zenon
  <2>4. call'[w].at = "transition" /\ \A v \in Workers \ {w} : call'[v] = call[v]
    BY <1>0, <2>3 DEF TypeOK, Call
  <2>5. \A v \in Workers : Working(v)' => Working(v) /\ call'[v] = call[v]
    BY <1>3, <2>4 DEF Working, TransitionRead
  <2> QED
    BY <1>3, <2>5, QuietStore DEF TransitionRead, fileVars
<1>4. ASSUME NEW w \in Workers, TransitionWrite(w) PROVE StoreInv'
  <2>1. \A v \in Workers : Working(v)' => Working(v) /\ call'[v] = call[v]
    BY <1>4, <1>a DEF TransitionWrite
  <2>2. exposed' = exposed \/ exposed' = TRUE
    BY <1>0, <1>4 DEF TransitionWrite, TypeOK
  <2> QED
    BY <1>4, <2>1, <2>2, QuietStore DEF TransitionWrite, fileVars, StoreInv
<1>5. ASSUME NEW w \in Workers, ReleaseLease(w) PROVE StoreInv'
  <2>1. \A v \in Workers : Working(v)' => Working(v) /\ call'[v] = call[v]
    BY <1>5, <1>a DEF ReleaseLease
  <2>2. exposed' = exposed \/ exposed' = TRUE
    BY <1>0, <1>5 DEF ReleaseLease, TypeOK
  <2> QED
    BY <1>5, <2>1, <2>2, QuietStore DEF ReleaseLease, fileVars, StoreInv
<1>6. ASSUME NEW w \in Workers, ResumeStatus(w) PROVE StoreInv'
  <2>1. call' = [call EXCEPT ![w] = Call("resume", rowVars, FALSE, <<>>, 0, "queued")]
    BY <1>0, <1>6, IdleCalls, Zenon DEF ResumeStatus
  <2>2. call'[w].at = "resume" /\ \A v \in Workers \ {w} : call'[v] = call[v]
    BY <1>0, <2>1 DEF TypeOK, Call
  <2>3. \A v \in Workers : Working(v)' => Working(v) /\ call'[v] = call[v]
    BY <1>6, <2>2 DEF Working, ResumeStatus
  <2> QED
    BY <1>6, <2>3, QuietStore DEF ResumeStatus, fileVars
<1>7. ASSUME NEW w \in Workers, ResumeLoad(w) PROVE StoreInv'
  <2>1. CASE call' = [call EXCEPT ![w] = [Idle EXCEPT !.at = "loaded", !.knows = TRUE,
                                                      !.memory = checkpoint]]
    <3>1. call' = [call EXCEPT ![w] = Call("loaded", Idle.seen, TRUE, checkpoint, 0,
                                           "queued")]
      BY <1>0, <2>1, IdleCalls, Zenon
    <3>2. call'[w].at = "loaded" /\ \A v \in Workers \ {w} : call'[v] = call[v]
      BY <1>0, <3>1 DEF TypeOK, Call
    <3>3. \A v \in Workers : Working(v)' => Working(v) /\ call'[v] = call[v]
      BY <1>7, <3>2 DEF Working, ResumeLoad
    <3> QED
      BY <1>7, <3>3, QuietStore DEF ResumeLoad, fileVars
  <2>2. CASE call' = [call EXCEPT ![w] = Idle]
    BY <1>7, <1>a, <2>2, QuietStore DEF ResumeLoad, fileVars
  <2> QED
    BY <1>7, <2>1, <2>2 DEF ResumeLoad
<1>8. ASSUME NEW w \in Workers, LoadCheckpoint(w) PROVE StoreInv'
  <2>1. CASE Loads
    <3>1. call' = [call EXCEPT ![w] = Call(call[w].at, call[w].seen, TRUE, checkpoint,
                                           call[w].time, call[w].to)]
      <4>1. checkpoint \in Seq(Contents)
        BY <1>0 DEF TypeOK
      <4>2. [call[w] EXCEPT !.knows = TRUE, !.memory = checkpoint]
              = Call(call[w].at, call[w].seen, TRUE, checkpoint, call[w].time, call[w].to)
        BY <1>0, <4>1, KnowCall, Zenon
      <4> QED
        BY <1>8, <2>1, <4>2, Zenon DEF LoadCheckpoint
    <3>2. call'[w].memory = checkpoint /\ \A v \in Workers \ {w} : call'[v] = call[v]
      BY <1>0, <3>1 DEF TypeOK, Call
    <3>3. \A v \in Workers \ {w} : Working(v)' => Working(v) /\ call'[v] = call[v]
      BY <1>8, <3>2 DEF Working, LoadCheckpoint
    <3>4. UNCHANGED <<files, checkpoint, powers, exposed>>
      BY <1>8 DEF LoadCheckpoint, fileVars
    <3> QED
      BY <1>0, <3>2, <3>3, <3>4, LoadedStore DEF StoreInv
  <2>2. CASE ~Loads
    BY <1>8, <1>a, <2>2, QuietStore DEF LoadCheckpoint, fileVars
  <2> QED
    BY <2>1, <2>2
<1>9. ASSUME NEW w \in Workers, AppendSegment(w) PROVE StoreInv'
  <2>0. UNCHANGED <<now, checkpoint, exposed, powers>>
    BY <1>9 DEF AppendSegment
  <2> SUFFICES ASSUME ~exposed, powers = 0 PROVE Loads' /\ WorkerInv'
    BY <1>0, <2>0 DEF StoreInv, TypeOK
  <2> DEFINE old == call[w].memory
             new == Append(old, written + 1)
             last == Len(old) + 1
  <2>1. /\ old \in Seq(Contents) /\ checkpoint \in Seq(Contents)
        /\ Working(w) /\ call[w].knows /\ last \in 1..MaxSegments
    BY <1>0, <1>9, CallFields, JobAssumption DEF AppendSegment, TypeOK
  <2>2. /\ files'[last] = written + 1
        /\ \A n \in 1..Len(old) : files'[n] = files[n]
    BY <1>0, <1>9, <2>1, JobAssumption DEF AppendSegment, TypeOK
  <2>3. /\ call'[w].memory = new
        /\ Len(new) = last /\ new[last] = written + 1
        /\ \A n \in 1..Len(old) : new[n] = old[n]
    BY <1>0, <1>9, <2>1 DEF AppendSegment, TypeOK, Calls
  <2>4. Loads /\ OneWorker /\ Stored(old) /\ Len(checkpoint) <= Len(old)
    BY <1>0, <2>1 DEF StoreInv, WorkerInv, IInv, LeaseIInv, TypeOK
  <2>5. \A n \in 1..Len(new) : files'[n] = new[n]
    BY <2>1, <2>2, <2>3, <2>4 DEF Stored
  <2>6. \A v \in Workers : Working(v)' => v = w
    <3>1. \A v \in Workers \ {w} : call'[v] = call[v]
      BY <1>0, <1>9 DEF AppendSegment, TypeOK
    <3> QED
      BY <2>0, <2>1, <2>4, <3>1 DEF Working, OneWorker
  <2>7. Loads'
    BY <2>0, <2>1, <2>2, <2>4 DEF Loads
  <2>8. WorkerInv'
    <3>1. \A n \in 1..Len(call'[w].memory) : files'[n] = call'[w].memory[n]
      BY <2>3, <2>5
    <3>2. Len(checkpoint') <= Len(call'[w].memory)
      BY <2>0, <2>1, <2>3, <2>4
    <3> QED
      BY <2>6, <3>1, <3>2 DEF WorkerInv, Stored
  <2> QED
    BY <2>7, <2>8
<1>10. ASSUME NEW w \in Workers, Save(w) PROVE StoreInv'
  <2>0. UNCHANGED <<now, files, call, exposed, powers>>
    BY <1>10 DEF Save
  <2> SUFFICES ASSUME ~exposed, powers = 0 PROVE Loads' /\ WorkerInv'
    BY <1>0, <2>0 DEF StoreInv, TypeOK
  <2>1. /\ checkpoint' = call[w].memory /\ call[w].memory \in Seq(Contents)
        /\ Working(w) /\ call[w].knows
    BY <1>0, <1>10, CallFields DEF Save, TypeOK
  <2>2. OneWorker /\ Stored(call[w].memory)
    BY <1>0, <2>1 DEF StoreInv, WorkerInv, IInv, LeaseIInv, TypeOK
  <2>3. \A v \in Workers : Working(v)' => v = w
    BY <2>0, <2>1, <2>2 DEF Working, OneWorker
  <2>4. Loads'
    BY <2>0, <2>1, <2>2 DEF Loads, Stored
  <2>5. Stored(call[w].memory)' /\ Len(checkpoint') <= Len(call'[w].memory)
    BY <2>0, <2>1, <2>2 DEF Stored
  <2> QED
    BY <2>3, <2>4, <2>5 DEF WorkerInv
<1>11. ASSUME NEW w \in Workers, Die(w) PROVE StoreInv'
  BY <1>11, <1>a, QuietStore DEF Die, fileVars
<1>12. ASSUME NEW w \in Workers, LeaseEnds(w) PROVE StoreInv'
  BY <1>12, <1>a, QuietStore DEF LeaseEnds, fileVars
<1>13. ASSUME Flush PROVE StoreInv'
  BY <1>13, QuietStore DEF Flush, Working
<1>14. ASSUME PowerLoss PROVE StoreInv'
  <2>1. powers' > 0
    BY <1>0, <1>14 DEF PowerLoss, TypeOK
  <2> QED
    BY <2>1 DEF StoreInv
<1>15. ASSUME Tick PROVE StoreInv'
  <2>1. \A v \in Workers : Working(v)' => Working(v) /\ call'[v] = call[v]
    BY <1>0, <1>15 DEF Tick, Working, TypeOK, Calls
  <2> QED
    BY <1>15, <2>1, QuietStore DEF Tick, fileVars
<1>16. ASSUME UNCHANGED vars PROVE StoreInv'
  BY <1>16, QuietStore DEF vars, fileVars, Working
<1> QED
  BY <1>1, <1>2, <1>3, <1>4, <1>5, <1>6, <1>7, <1>8, <1>9, <1>10, <1>11,
     <1>12, <1>13, <1>14, <1>15, <1>16 DEF Next

\* "Crash safe checkpoint and segment storage" (cli/mirror_checkpoint.py:1):
\* whichever workers died or outlived their leases, load accepts the
\* checkpoint, because a worker that takes over numbers its segments from
\* those of the checkpoint on; until the lease is undermined, or a worker
\* resumes from an older checkpoint, or power is lost.
THEOREM CheckpointAlwaysLoads == Spec => []CheckpointLoads
<1>1. Init => StoreInv
  BY DEF Init, Idle, StoreInv, Loads, WorkerInv, Working
<1>2. StoreInv => CheckpointLoads
  BY DEF StoreInv, CheckpointLoads
<1> QED
  BY <1>1, <1>2, StepStore, Invariant, PTL DEF Spec
=============================================================================
