----------------------------- MODULE ModelCache ------------------------------
(***************************************************************************)
(* A directory of pinned assets: the programs that download into it        *)
(* (portable/provision_models.py and the --acquire mode of                 *)
(* portable/provision_native.py, and portable/prefetch_bash.py) and the    *)
(* one that audits it.                                                     *)
(*                                                                         *)
(* A file is a sequence of blocks, of which TRUE is the block that the     *)
(* lock has at that place.  Sizes and SHA-256 are compared by comparing    *)
(* files.  A process that has a file open goes on writing to it when it is *)
(* renamed.  Links and paths that leave the directory are refused before   *)
(* anything is touched, and left out; so is the time between attempts.     *)
(***************************************************************************)
EXTENDS Naturals, Sequences

CONSTANTS
    Models,         \* the files of model-lock.json
    Archives,       \* the runtime archives, licences and wheels that are pinned
    Wheels,         \* those of them that the index of PyPI has to name
    Downloads,      \* those that the build takes from its own directory of downloads
    Staged,         \* those of these that prefetch_bash.py stages
    Mirrors,        \* how many places it has to get one from
    Blocks,         \* the length of each
    Fetchers,       \* the processes that may download
    Attempts,       \* --attempts
    Selections,     \* bound: the files that --roles may select
    Limits,         \* bound: --max-bytes
    Absent,         \* no file
    Found,          \* bound: the files that may be there at first
    Budgets         \* bounds: records of how often things may happen

Entries == Models \union Archives
File == Seq(BOOLEAN) \union {Absent}
Names == {"dest", "part", "invalid"}
Tasks == {"provision", "acquire", "stage", "build"}
Reports == {"provision", "acquire", "audit"}

ASSUME CacheAssumption ==
    /\ Models \intersect Archives = {}
    /\ Wheels \subseteq Archives \ Downloads
    /\ Downloads \subseteq Archives
    /\ Staged \subseteq Downloads
    /\ Mirrors \in Nat \ {0}
    /\ Blocks \in [Entries -> Nat \ {0}]
    /\ Attempts \in Nat \ {0}
    /\ Selections \subseteq SUBSET Models
    /\ Limits \subseteq Nat
    /\ Absent \notin Seq(BOOLEAN) \union Entries
    /\ Found \subseteq [Entries -> [Names -> File]]
    /\ \A b \in Budgets : {b.runs, b.faults, b.crashes, b.audits} \subseteq Nat

VARIABLES
    file,       \* of each entry: destination, .part and .part.invalid
    sidecar,    \* the entries with a .provenance.json
    report,     \* the last receipt of each kind: for which files, and complete or not
    proc,       \* the fetchers
    audit,      \* the audit
    spare       \* what is left of the bounds

cacheVars == <<file, sidecar, report, proc, audit, spare>>

-----------------------------------------------------------------------------
Locked(e, f) == f = [i \in 1..Blocks[e] |-> TRUE]
Published(e) == Locked(e, file[e]["dest"])
Length(f) == IF f = Absent THEN 0 ELSE Len(f)

Idle ==
    [at |-> "idle", task |-> "provision", wanted |-> {}, todo |-> {}, got |-> {},
     entry |-> Absent, offline |-> FALSE, attempt |-> 0, offset |-> 0,
     append |-> FALSE, open |-> "none", clean |-> TRUE]

NoAudit == [at |-> "idle", wanted |-> {}, todo |-> {}, ok |-> TRUE]

\* At "busy" a process does something else than fetching: see NativeBundle.
Stages == {"idle", "busy", "index", "next", "attempt", "quarantine", "request", "body",
           "check", "publish", "record", "error", "failed"}

CacheTypeOK ==
    /\ file \in [Entries -> [Names -> File]]
    /\ sidecar \subseteq Entries
    /\ report \in [Reports -> [wanted : SUBSET Entries, complete : BOOLEAN]]
    /\ proc \in [Fetchers ->
           [at : Stages, task : Tasks, wanted : SUBSET Entries, todo : SUBSET Entries,
            got : SUBSET Entries, entry : Entries \union {Absent}, offline : BOOLEAN,
            attempt : Nat, offset : Nat, append : BOOLEAN,
            open : Names \union {"none", "lost"}, clean : BOOLEAN]]
    /\ audit \in [at : {"idle", "files"}, wanted : SUBSET Models,
                  todo : SUBSET Models, ok : BOOLEAN]

CacheInit ==
    /\ file \in Found
    /\ sidecar = {}
    /\ report = [t \in Reports |-> [wanted |-> {}, complete |-> FALSE]]
    /\ proc = [p \in Fetchers |-> Idle]
    /\ audit = NoAudit
    /\ spare \in Budgets

-----------------------------------------------------------------------------
(* Steps of all fetchers *)

At(p, stage) == proc[p].at = stage
Entry(p) == proc[p].entry
Here(p, name) == file[Entry(p)][name]
Full(p) == Blocks[Entry(p)]

Spend(what) == spare[what] > 0 /\ spare' = [spare EXCEPT ![what] = @ - 1]

\* Something goes wrong that is not this program's doing.
Fault(p, stage) ==
    /\ Spend("faults")
    /\ proc' = [proc EXCEPT ![p].at = stage, ![p].open = "none", ![p].clean = FALSE]

Enter(p, stage) ==
    /\ proc' = [proc EXCEPT ![p].at = stage, ![p].open = "none"]
    /\ UNCHANGED spare

Leave(p) == proc' = [proc EXCEPT ![p] = Idle]

\* os.replace, whoever has one of the two files open.
Renamed(open, from, to) ==
    IF open = from THEN to ELSE IF open = to THEN "lost" ELSE open

Replace(p, from, to, stage) ==
    /\ file' = [file EXCEPT ![Entry(p)][to] = Here(p, from), ![Entry(p)][from] = Absent]
    /\ proc' = [q \in Fetchers |->
           IF q = p THEN [proc[p] EXCEPT !.at = stage, !.offset = 0]
           ELSE IF Entry(q) = Entry(p)
                THEN [proc[q] EXCEPT !.open = Renamed(@, from, to)]
                ELSE proc[q]]
    /\ UNCHANGED spare

-----------------------------------------------------------------------------
(* provision_models.py: main and fetch *)

Provision(p) ==
    /\ At(p, "idle")
    /\ \E wanted \in Selections, offline \in BOOLEAN :
           proc' = [proc EXCEPT ![p] =
               [Idle EXCEPT !.at = "next", !.wanted = wanted, !.todo = wanted,
                            !.offline = offline]]
    /\ Spend("runs")
    /\ UNCHANGED <<file, sidecar, report, audit>>

\* fetch, up to its loop; of the files that are left, any may be next.
FetchModel(p, m) ==
    /\ At(p, "next")
    /\ m \in proc[p].todo \intersect Models
    /\ proc[p].todo \intersect Archives = {}
    /\ proc' = [proc EXCEPT ![p].at = IF Published(m) THEN "record"
                                      ELSE IF proc[p].offline THEN "failed"
                                      ELSE "attempt",
                            ![p].entry = m, ![p].todo = @ \ {m},
                            ![p].attempt = 0, ![p].offset = 0, ![p].clean = TRUE]
    /\ UNCHANGED <<file, sidecar, report, audit, spare>>

\* What a former attempt, or run, has left is resumed, published or put aside.
Inspect(p) ==
    /\ At(p, "attempt")
    /\ IF Length(Here(p, "part")) < Full(p)
       THEN proc' = [proc EXCEPT ![p].at = "request",
                                 ![p].offset = Length(Here(p, "part"))]
       ELSE proc' = [proc EXCEPT ![p].at = IF Locked(Entry(p), Here(p, "part"))
                                           THEN "publish" ELSE "quarantine"]
    /\ UNCHANGED <<file, sidecar, report, audit, spare>>

\* Mutant: what is damaged stays where it is.
QuarantineNever(p) ==
    /\ At(p, "quarantine")
    /\ Enter(p, "error")
    /\ UNCHANGED <<file, sidecar, report, audit>>

Quarantine(p) ==
    /\ At(p, "quarantine")
    /\ IF Here(p, "part") = Absent
       THEN Enter(p, "error") /\ UNCHANGED file
       ELSE Replace(p, "part", "invalid", "request")
    /\ UNCHANGED <<sidecar, report, audit>>

\* The response begins: the rest of the file, all of it, or none that fetch takes.
Answer(p) ==
    /\ At(p, "request")
    /\ \/ /\ proc[p].offset > 0
          /\ file' = [file EXCEPT ![Entry(p)]["part"] = IF @ = Absent THEN <<>> ELSE @]
          /\ proc' = [proc EXCEPT ![p].at = "body", ![p].append = TRUE,
                                  ![p].open = "part"]
          /\ UNCHANGED spare
       \/ /\ file' = [file EXCEPT ![Entry(p)]["part"] = <<>>]
          /\ proc' = [proc EXCEPT ![p].at = "body", ![p].append = FALSE,
                                  ![p].offset = 0, ![p].open = "part"]
          /\ UNCHANGED spare
       \/ Fault(p, "error") /\ UNCHANGED file
    /\ UNCHANGED <<sidecar, report, audit>>

\* A block is written at the end of the file, or where the process is in it.
With(f, place, block) ==
    [i \in 1..(IF place > Length(f) THEN place ELSE Length(f)) |->
        IF i = place THEN block ELSE i <= Length(f) /\ f[i]]

Block(p) ==
    /\ At(p, "body")
    /\ proc[p].offset < Full(p)
    /\ \E good \in BOOLEAN :
           LET name == proc[p].open
               place == IF proc[p].append /\ name \in Names
                        THEN Length(Here(p, name)) + 1 ELSE proc[p].offset + 1
               block == good /\ place = proc[p].offset + 1
           IN  /\ file' = IF name \in Names
                          THEN [file EXCEPT ![Entry(p)][name] = With(@, place, block)]
                          ELSE file
               /\ proc' = [proc EXCEPT ![p].offset = @ + 1, ![p].clean = @ /\ good]
               /\ IF good THEN UNCHANGED spare ELSE Spend("faults")
    /\ UNCHANGED <<sidecar, report, audit>>

\* The body ends, where it should or too soon, and is flushed and synced; or the
\* connection breaks, or there is more than the locked size.
EndOfBody(p) ==
    /\ At(p, "body")
    /\ \/ proc[p].offset = Full(p) /\ Enter(p, "check")
       \/ proc[p].offset < Full(p) /\ Fault(p, "check")
       \/ Fault(p, "error")
    /\ UNCHANGED <<file, sidecar, report, audit>>

\* Mutant: the size is enough.
CheckSize(p) ==
    /\ At(p, "check")
    /\ Enter(p, IF Length(Here(p, "part")) = Full(p) THEN "publish" ELSE "error")
    /\ UNCHANGED <<file, sidecar, report, audit>>

Check(p) ==
    /\ At(p, "check")
    /\ Enter(p, IF Locked(Entry(p), Here(p, "part")) THEN "publish" ELSE "error")
    /\ UNCHANGED <<file, sidecar, report, audit>>

Publish(p) ==
    /\ At(p, "publish")
    /\ IF Here(p, "part") = Absent
       THEN Enter(p, "error") /\ UNCHANGED file
       ELSE Replace(p, "part", "dest", "record")
    /\ UNCHANGED <<sidecar, report, audit>>

Tries(p) ==
    CASE proc[p].task = "stage" -> Mirrors
      [] Entry(p) \in Models -> Attempts
      [] OTHER -> 1

\* prefetch_bash removes what it could not use, and goes on to the next mirror.
Retry(p) ==
    /\ At(p, "error")
    /\ proc' = [proc EXCEPT
           ![p].at = IF proc[p].attempt + 1 >= Tries(p) THEN "failed"
                     ELSE IF proc[p].task = "stage" THEN "request" ELSE "attempt",
           ![p].offset = 0, ![p].attempt = @ + 1]
    /\ file' = IF proc[p].task = "stage"
               THEN [file EXCEPT ![Entry(p)]["part"] = Absent] ELSE file
    /\ UNCHANGED <<sidecar, report, audit, spare>>

\* Where an exception of http.client ends the program: neither stage catches it,
\* which leaves its .part, nor does an acquisition, once no attempt is left.
EndsIt(p) ==
    /\ proc[p].at \in {"request", "body"}
    /\ \/ proc[p].task = "stage"
       \/ proc[p].task = "acquire" /\ proc[p].attempt + 1 >= Tries(p)

\* An acquisition notes the failure and goes on; the others give up.
GiveUp(p) ==
    /\ \/ /\ At(p, "failed")
          /\ proc[p].task # "build"
          /\ IF proc[p].task = "acquire" THEN Enter(p, "next")
             ELSE Leave(p) /\ UNCHANGED spare
       \/ EndsIt(p) /\ Spend("faults") /\ Leave(p)
    /\ UNCHANGED <<file, sidecar, report, audit>>

\* The receipt of a file.  acquire counts an archive without it as failed.
Receipted(p) ==
    \/ proc[p].task \in {"provision", "acquire"}
    \/ proc[p].task = "build" /\ Entry(p) \in Models

Record(p) ==
    /\ At(p, "record")
    /\ \/ /\ sidecar' = IF Receipted(p) THEN sidecar \union {Entry(p)} ELSE sidecar
          /\ proc' = [proc EXCEPT ![p].at = "next", ![p].got = @ \union {Entry(p)}]
          /\ UNCHANGED spare
       \/ /\ Receipted(p)
          /\ IF proc[p].task = "build" THEN Fault(p, "failed")
             ELSE IF proc[p].task = "acquire" /\ Entry(p) \in Archives THEN Fault(p, "next")
             ELSE Spend("faults") /\ Leave(p)
          /\ UNCHANGED sidecar
    /\ UNCHANGED <<file, report, audit>>

\* Mutant: a run is complete when nothing is left to do.
FinishAnyway(p) ==
    /\ At(p, "next")
    /\ proc[p].todo = {}
    /\ proc[p].task \in Reports
    /\ report' = [report EXCEPT ![proc[p].task] =
                     [wanted |-> proc[p].wanted, complete |-> TRUE]]
    /\ Leave(p)
    /\ UNCHANGED <<file, sidecar, audit, spare>>

\* The receipt of the run, of which provision_models has one only if nothing failed.
Finish(p) ==
    /\ At(p, "next")
    /\ proc[p].todo = {}
    /\ proc[p].task # "build"
    /\ \/ /\ report' = IF proc[p].task = "stage" THEN report
                        ELSE [report EXCEPT ![proc[p].task] =
                                 [wanted |-> proc[p].wanted,
                                  complete |-> proc[p].got = proc[p].wanted]]
          /\ UNCHANGED spare
       \/ proc[p].task # "stage" /\ Spend("faults") /\ UNCHANGED report
    /\ Leave(p)
    /\ UNCHANGED <<file, sidecar, audit>>

-----------------------------------------------------------------------------
(* provision_native.py --acquire, and prefetch_bash.py *)

\* Models above --max-bytes are skipped, which leaves the receipt incomplete.
RuntimeTargets(wheels) == Archives \ (Downloads \union IF wheels THEN {} ELSE Wheels)

Acquire(p) ==
    /\ At(p, "idle")
    /\ \E limit \in Limits, wheels \in BOOLEAN :
           proc' = [proc EXCEPT ![p] =
               [Idle EXCEPT !.at = IF wheels THEN "index" ELSE "next", !.task = "acquire",
                            !.wanted = RuntimeTargets(wheels) \union Models,
                            !.todo = RuntimeTargets(wheels)
                                         \union {m \in Models : Blocks[m] <= limit}]]
    /\ Spend("runs")
    /\ UNCHANGED <<file, sidecar, report, audit>>

\* Without an index that names every wheel with its pinned digest it ends at once.
Index(p) ==
    /\ At(p, "index")
    /\ \/ Enter(p, "next")
       \/ Spend("faults") /\ Leave(p)
    /\ UNCHANGED <<file, sidecar, report, audit>>

Stage(p) ==
    /\ At(p, "idle")
    /\ \E a \in Staged :
           proc' = [proc EXCEPT ![p] = [Idle EXCEPT !.at = "next", !.task = "stage",
                                                    !.wanted = {a}, !.todo = {a}]]
    /\ Spend("runs")
    /\ UNCHANGED <<file, sidecar, report, audit>>

\* fetch, and stage: a partial file is not resumed but written anew.
FetchArchive(p, a) ==
    /\ At(p, "next")
    /\ a \in proc[p].todo \intersect Archives
    /\ proc' = [proc EXCEPT ![p].at = IF Published(a) THEN "record" ELSE "request",
                            ![p].entry = a, ![p].todo = @ \ {a},
                            ![p].attempt = 0, ![p].offset = 0, ![p].clean = TRUE]
    /\ UNCHANGED <<file, sidecar, report, audit, spare>>

\* The politeness engine is told to stop.
Interrupted(p) ==
    /\ At(p, "request")
    /\ proc[p].task = "stage"
    /\ file' = [file EXCEPT ![Entry(p)]["part"] = Absent]
    /\ Fault(p, "failed")
    /\ UNCHANGED <<sidecar, report, audit>>

-----------------------------------------------------------------------------
(* The end of a process, and of all of them *)

Crash(p) ==
    /\ proc[p].at \notin {"idle", "failed"}
    /\ Spend("crashes")
    /\ Leave(p)
    /\ UNCHANGED <<file, sidecar, report, audit>>

\* What was written last to a partial file may be lost; names and receipts are kept.
PowerLoss ==
    /\ Spend("crashes")
    /\ \E torn \in SUBSET {e \in Entries : Length(file[e]["part"]) > 0} :
           file' = [e \in Entries |->
               IF e \in torn
               THEN [file[e] EXCEPT !["part"][Length(file[e]["part"])] = FALSE]
               ELSE file[e]]
    /\ proc' = [p \in Fetchers |-> Idle]
    /\ audit' = NoAudit
    /\ UNCHANGED <<sidecar, report>>

-----------------------------------------------------------------------------
(* provision_models.py --audit: audit_cache, one file after the other *)

StartAudit ==
    /\ audit.at = "idle"
    /\ \E wanted \in Selections :
           audit' = [NoAudit EXCEPT !.at = "files", !.wanted = wanted, !.todo = wanted]
    /\ Spend("audits")
    /\ UNCHANGED <<file, sidecar, report, proc>>

AuditFile(m) ==
    /\ m \in audit.todo
    /\ audit' = [audit EXCEPT !.todo = @ \ {m}, !.ok = @ /\ Published(m)]
    /\ UNCHANGED <<file, sidecar, report, proc, spare>>

EndAudit ==
    /\ audit.at = "files"
    /\ audit.todo = {}
    /\ report' = [report EXCEPT !["audit"] = [wanted |-> audit.wanted, complete |-> audit.ok]]
    /\ audit' = NoAudit
    /\ UNCHANGED <<file, sidecar, proc, spare>>

-----------------------------------------------------------------------------
Fetch(p) ==
    \/ \E m \in Models : FetchModel(p, m)
    \/ \E a \in Archives : FetchArchive(p, a)
    \/ Inspect(p) \/ Quarantine(p) \/ Answer(p) \/ Interrupted(p)
    \/ Block(p) \/ EndOfBody(p) \/ Check(p) \/ Publish(p) \/ Retry(p) \/ Record(p)

CacheStep ==
    \/ \E p \in Fetchers :
           \/ Provision(p) \/ Acquire(p) \/ Index(p) \/ Stage(p)
           \/ Fetch(p) \/ GiveUp(p) \/ Finish(p)
    \/ StartAudit \/ EndAudit
    \/ \E m \in Models : AuditFile(m)

-----------------------------------------------------------------------------
(* What the directory promises *)

\* Whatever is in a destination's place, it changes only into the locked bytes: a
\* file is published once its size and SHA-256 match (provision_models.py:4).
PublishedIsLocked ==
    [][\A e \in Entries : file'[e]["dest"] \in {file[e]["dest"], Absent}
                              \/ Locked(e, file'[e]["dest"])]_cacheVars

\* A fetch that meets no fault gets its file, whatever former runs have left of it: a
\* partial file that was damaged costs one attempt, and the next one starts anew.
HonestServerSuffices ==
    \A p \in Fetchers :
        At(p, "failed") /\ proc[p].clean =>
            proc[p].offline \/ (Entry(p) \in Models /\ Attempts = 1)

=============================================================================
