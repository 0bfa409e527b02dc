---------------------------- MODULE CaptureBridge ----------------------------
(***************************************************************************)
(* The capture bridge (cli/capture_bridge.py): request threads of the      *)
(* station start capture sessions, fetch through them, stop them, and      *)
(* reopen the archive that a session belongs to.                           *)
(*                                                                         *)
(* A session is of one archive, modelled here by its lease and by its      *)
(* pacing journal, or of none.  What a server asked of the capture is      *)
(* counted: the n-th Retry-After is n + 1, and 1 is none.  An engine knows *)
(* all up to the newest it was told.                                       *)
(***************************************************************************)
EXTENDS Naturals, FiniteSets

CONSTANTS
    Threads,
    Free,           \* a lock nobody has
    MaxSessions,    \* bound: sessions configured
    MaxLeases,      \* bound: sessions opened on the archive
    MaxTold,        \* bound: Retry-After headers received, plus 1
    MaxFaults       \* bound: faults of each sort

FaultSorts == {"storage", "crash", "power"}

ASSUME BridgeAssumption ==
    /\ Free \notin Threads
    /\ MaxSessions \in Nat
    /\ MaxLeases \in Nat
    /\ MaxTold \in Nat
    /\ MaxFaults \in [FaultSorts -> Nat]

VARIABLES
    bridgeLock, \* who has bridge.lock
    session,    \* bridge.session, 0 when there is none
    created,    \* sessions so far
    stop,       \* session['stop']
    lock,       \* session['lock']
    bound,      \* session['archive_lease'], 0 without an archive
    engine,     \* what session['engine'] knows
    pc,         \* where a thread is in its call
    at,         \* the session it has got
    round,      \* 1, or 2 in the except clause of fetch
    archive,    \* the archive: a writable session, none, or finalized
    issued,     \* its leases so far
    saved,      \* its generation is above 0
    journal,    \* native-pacing.json, 0 when there is none
    journalD,   \* the same on the medium
    told,       \* history: Retry-After headers received for the archive
    reported,   \* history: of those, what calls returned after
    settled,    \* history: a recover has returned, and no session began
    faults

sessionVars == <<session, created, stop, bound>>
threadVars == <<pc, at, round>>
archiveVars == <<archive, issued, saved>>
journalVars == <<journal, journalD>>
historyVars == <<told, reported, settled>>
vars == <<bridgeLock, sessionVars, lock, engine, threadVars, archiveVars,
          journalVars, historyVars, faults>>

-----------------------------------------------------------------------------
(* Types *)

Sessions == 1..MaxSessions

\* Places in configure, recover and reopen_archive; they hold bridge.lock.
Admin == {"configure", "bind", "recover", "reopen", "rotate"}

\* Places in fetch, from the first check on; they hold the session's lock.
Fetching == {"checked", "permitted", "transport", "persist", "sync", "persisted"}

TypeOK ==
    /\ bridgeLock \in Threads \union {Free}
    /\ session \in 0..created
    /\ created \in 0..MaxSessions
    /\ stop \in [Sessions -> BOOLEAN]
    /\ lock \in [Sessions -> Threads \union {Free}]
    /\ bound \in [Sessions -> Nat]
    /\ engine \in [Sessions -> Nat]
    /\ pc \in [Threads -> {"idle", "fetch"} \union Admin \union Fetching]
    /\ at \in [Threads -> 0..MaxSessions]
    /\ \A t \in Threads : pc[t] \in {"fetch"} \union Fetching =>
          at[t] \in Sessions
    /\ round \in [Threads -> {1, 2}]
    /\ archive \in {"open", "closed", "final"}
    /\ issued \in Nat
    /\ saved \in BOOLEAN
    /\ journal \in Nat
    /\ journalD \in Nat
    /\ told \in Nat
    /\ reported \in Nat
    /\ settled \in BOOLEAN
    /\ faults \in [FaultSorts -> Nat]

-----------------------------------------------------------------------------
(* Helpers *)

Larger(m, n) == IF m >= n THEN m ELSE n

\* Mutant: an operator's stop is enough.
SettledStopped == session # 0 => stop[session]

\* The lock of the session can be had: no source request is under way.
Settled == session # 0 => lock[session] = Free

\* check_archive_owner.
Owned(s) == bound[s] # 0 => archive = "open" /\ bound[s] = issued

Spend(f) ==
    /\ faults[f] < MaxFaults[f]
    /\ faults' = [faults EXCEPT ![f] = @ + 1]

\* The call returns and gives bridge.lock back.
Release(t) ==
    /\ bridgeLock' = Free
    /\ pc' = [pc EXCEPT ![t] = "idle"]

\* A fetch returns, and its locals are gone.
Forget(t) ==
    /\ pc' = [pc EXCEPT ![t] = "idle"]
    /\ at' = [at EXCEPT ![t] = 0]
    /\ round' = [round EXCEPT ![t] = 1]

\* The call returns and gives the lock of its session back.
Leave(t) ==
    /\ lock' = [lock EXCEPT ![at[t]] = Free]
    /\ Forget(t)

Goto(t, place) == pc' = [pc EXCEPT ![t] = place]

\* archive-start has been called.
Init ==
    /\ bridgeLock = Free
    /\ session = 0
    /\ created = 0
    /\ stop = [s \in Sessions |-> FALSE]
    /\ lock = [s \in Sessions |-> Free]
    /\ bound = [s \in Sessions |-> 0]
    /\ engine = [s \in Sessions |-> 1]
    /\ pc = [t \in Threads |-> "idle"]
    /\ at = [t \in Threads |-> 0]
    /\ round = [t \in Threads |-> 1]
    /\ archive = "open"
    /\ issued = 1
    /\ saved = FALSE
    /\ journal = 0
    /\ journalD = 0
    /\ told = 1
    /\ reported = 1
    /\ settled = FALSE
    /\ faults = [f \in FaultSorts |-> 0]

-----------------------------------------------------------------------------
(* configure *)

ConfigureBegin(t) ==
    /\ pc[t] = "idle"
    /\ bridgeLock = Free
    /\ session # 0 => stop[session]
    /\ bridgeLock' = t
    /\ Goto(t, "configure")
    /\ UNCHANGED <<sessionVars, lock, engine, at, round, archiveVars,
                   journalVars, historyVars, faults>>

ConfigureSettled(t) ==
    /\ pc[t] = "configure"
    /\ Settled
    /\ Goto(t, "bind")
    /\ UNCHANGED <<bridgeLock, sessionVars, lock, engine, at, round,
                   archiveVars, journalVars, historyVars, faults>>

\* The source request does not settle in time.
ConfigureTimeout(t) ==
    /\ pc[t] = "configure"
    /\ ~Settled
    /\ Release(t)
    /\ UNCHANGED <<sessionVars, lock, engine, at, round, archiveVars,
                   journalVars, historyVars, faults>>

\* Mutant: restore_state is not called.
RestoredNothing == {1}

\* What the engine of a session of the archive starts with, if it may start.
Restored ==
    IF journal = 0 THEN IF saved THEN {} ELSE {1} ELSE {journal}

\* The call may still fail when it logs the start: the session is there.
ConfigureBind(t) ==
    /\ pc[t] = "bind"
    /\ created < MaxSessions
    /\ \/ /\ bound' = [bound EXCEPT ![created + 1] = 0]
          /\ UNCHANGED engine
       \/ /\ archive = "open"
          /\ bound' = [bound EXCEPT ![created + 1] = issued]
          /\ \E known \in Restored :
                engine' = [engine EXCEPT ![created + 1] = known]
    /\ session' = created + 1
    /\ created' = created + 1
    /\ settled' = FALSE
    /\ Release(t)
    /\ UNCHANGED <<stop, lock, at, round, archiveVars, journalVars, told,
                   reported, faults>>

\* The archive, the lease or the journal is not what it should be.
ConfigureRefused(t) ==
    /\ pc[t] = "bind"
    /\ Release(t)
    /\ UNCHANGED <<sessionVars, lock, engine, at, round, archiveVars,
                   journalVars, historyVars, faults>>

-----------------------------------------------------------------------------
(* close, recover and reopen_archive *)

StopSession ==
    IF session = 0 THEN stop ELSE [stop EXCEPT ![session] = TRUE]

\* close: the flag is set at once, beside any other call.
Close ==
    /\ session # 0
    /\ stop' = StopSession
    /\ UNCHANGED <<bridgeLock, session, created, lock, bound, engine,
                   threadVars, archiveVars, journalVars, historyVars, faults>>

\* Mutant: recover does not keep bridge.lock.
RecoverBeginUnlocked(t, op) ==
    /\ pc[t] = "idle"
    /\ bridgeLock = Free
    /\ stop' = StopSession
    /\ Goto(t, op)
    /\ UNCHANGED <<bridgeLock, session, created, lock, bound, engine, at,
                   round, archiveVars, journalVars, historyVars, faults>>

\* op is recover or reopen.
RecoverBegin(t, op) ==
    /\ pc[t] = "idle"
    /\ bridgeLock = Free
    /\ bridgeLock' = t
    /\ stop' = StopSession
    /\ Goto(t, op)
    /\ UNCHANGED <<session, created, lock, bound, engine, at, round,
                   archiveVars, journalVars, historyVars, faults>>

RecoverSettled(t) ==
    /\ pc[t] \in {"recover", "reopen"}
    /\ Settled
    /\ settled' = TRUE
    /\ IF pc[t] = "recover"
       THEN Release(t)
       ELSE /\ Goto(t, "rotate")
            /\ UNCHANGED bridgeLock
    /\ UNCHANGED <<sessionVars, lock, engine, at, round, archiveVars,
                   journalVars, told, reported, faults>>

RecoverTimeout(t) ==
    /\ pc[t] \in {"recover", "reopen"}
    /\ ~Settled
    /\ Release(t)
    /\ UNCHANGED <<sessionVars, lock, engine, at, round, archiveVars,
                   journalVars, historyVars, faults>>

\* archives.reopen gives a new lease, or fails.
Rotate(t) ==
    /\ pc[t] = "rotate"
    /\ \/ /\ saved
          /\ archive # "final"
          /\ issued < MaxLeases
          /\ archive' = "open"
          /\ issued' = issued + 1
       \/ UNCHANGED <<archive, issued>>
    /\ Release(t)
    /\ UNCHANGED <<sessionVars, lock, engine, at, round, saved, journalVars,
                   historyVars, faults>>

-----------------------------------------------------------------------------
(* fetch *)

\* get_session: nothing is held yet.
FetchBegin(t) ==
    /\ pc[t] = "idle"
    /\ session # 0
    /\ at' = [at EXCEPT ![t] = session]
    /\ Goto(t, "fetch")
    /\ UNCHANGED <<bridgeLock, sessionVars, lock, engine, round, archiveVars,
                   journalVars, historyVars, faults>>

\* Mutant: the flag is not looked at again under the lock.
MayFetchStopped(s) == Owned(s)

\* The checks that a request with the session's lock passes first.
MayFetch(s) == ~stop[s] /\ Owned(s)

FetchEnter(t) ==
    /\ pc[t] = "fetch"
    /\ lock[at[t]] = Free
    /\ \/ /\ MayFetch(at[t])
          /\ lock' = [lock EXCEPT ![at[t]] = t]
          /\ Goto(t, "checked")
          /\ UNCHANGED <<at, round>>
       \/ /\ ~MayFetch(at[t])
          /\ Forget(t)
          /\ UNCHANGED lock
    /\ UNCHANGED <<bridgeLock, sessionVars, engine, archiveVars, journalVars,
                   historyVars, faults>>

\* acquire_permission has waited as long as it must.
FetchPermitted(t) ==
    /\ pc[t] = "checked"
    /\ ~stop[at[t]]
    /\ Goto(t, "permitted")
    /\ UNCHANGED <<bridgeLock, sessionVars, lock, engine, at, round,
                   archiveVars, journalVars, historyVars, faults>>

\* The request is on its way to the source; stop is not looked at again.
FetchSend(t) ==
    /\ pc[t] = "permitted"
    /\ Owned(at[t])
    /\ Goto(t, "transport")
    /\ UNCHANGED <<bridgeLock, sessionVars, lock, engine, at, round,
                   archiveVars, journalVars, historyVars, faults>>

\* Before there is a request: a rule excludes the URL, the wait is aborted,
\* the archive has another owner, or the log cannot be written.
FetchRefused(t) ==
    /\ pc[t] \in {"checked", "permitted"}
    /\ Leave(t)
    /\ UNCHANGED <<bridgeLock, sessionVars, engine, archiveVars, journalVars,
                   historyVars, faults>>

\* The source answers, with a Retry-After or without, or does not answer.
FetchAnswered(t) ==
    /\ pc[t] = "transport"
    /\ \/ /\ bound[at[t]] # 0
          /\ told < MaxTold
          /\ told' = told + 1
          /\ engine' = [engine EXCEPT ![at[t]] = told + 1]
          /\ UNCHANGED round
       \/ UNCHANGED <<told, engine, round>>
       \/ /\ round' = [round EXCEPT ![t] = 2]
          /\ UNCHANGED <<told, engine>>
    /\ Goto(t, "persist")
    /\ UNCHANGED <<bridgeLock, sessionVars, lock, at, archiveVars, journalVars,
                   reported, settled, faults>>

-----------------------------------------------------------------------------
(* persist_pacing, and the rest of fetch *)

PersistNothing(t) ==
    /\ pc[t] = "persist"
    /\ bound[at[t]] = 0
    /\ Goto(t, "persisted")
    /\ UNCHANGED <<bridgeLock, sessionVars, lock, engine, at, round,
                   archiveVars, journalVars, historyVars, faults>>

\* Mutant: the new entry is not synced.
PersistReplaceOnly(t) ==
    /\ pc[t] = "persist"
    /\ bound[at[t]] # 0
    /\ Owned(at[t])
    /\ journal' = engine[at[t]]
    /\ Goto(t, "persisted")
    /\ UNCHANGED <<bridgeLock, sessionVars, lock, engine, at, round,
                   archiveVars, journalD, historyVars, faults>>

\* os.replace.
PersistReplace(t) ==
    /\ pc[t] = "persist"
    /\ bound[at[t]] # 0
    /\ Owned(at[t])
    /\ journal' = engine[at[t]]
    /\ Goto(t, "sync")
    /\ UNCHANGED <<bridgeLock, sessionVars, lock, engine, at, round,
                   archiveVars, journalD, historyVars, faults>>

\* sync_directory.
PersistSync(t) ==
    /\ pc[t] = "sync"
    /\ journalD' = journal
    /\ Goto(t, "persisted")
    /\ UNCHANGED <<bridgeLock, sessionVars, lock, engine, at, round,
                   archiveVars, journal, historyVars, faults>>

\* Mutant: the except clause tries as often as it takes.
GiveUpNever(t) ==
    /\ Goto(t, "persist")
    /\ round' = [round EXCEPT ![t] = 2]
    /\ UNCHANGED <<lock, at>>

\* An exception leads to the except clause of fetch, which persists once
\* more; an exception there ends the call.
GiveUp(t) ==
    \/ /\ round[t] = 1
       /\ Goto(t, "persist")
       /\ round' = [round EXCEPT ![t] = 2]
       /\ UNCHANGED <<lock, at>>
    \/ /\ round[t] = 2
       /\ Leave(t)

\* The archive is no longer the session's, or the drive fails.
PersistFails(t) ==
    /\ \/ /\ pc[t] = "persist"
          /\ ~Owned(at[t])
          /\ UNCHANGED faults
       \/ /\ pc[t] \in {"persist", "sync"}
          /\ bound[at[t]] # 0
          /\ Spend("storage")
    /\ GiveUp(t)
    /\ UNCHANGED <<bridgeLock, sessionVars, engine, archiveVars, journalVars,
                   historyVars>>

\* The body cannot be read, is too large or encoded, or the log fails.
BodyFails(t) ==
    /\ pc[t] = "persisted"
    /\ round[t] = 1
    /\ GiveUp(t)
    /\ UNCHANGED <<bridgeLock, sessionVars, engine, archiveVars, journalVars,
                   historyVars, faults>>

\* The page gets the response, or the CaptureFailure.
FetchReturns(t) ==
    /\ pc[t] = "persisted"
    /\ reported' = IF bound[at[t]] = 0 THEN reported
                                       ELSE Larger(reported, engine[at[t]])
    /\ Leave(t)
    /\ UNCHANGED <<bridgeLock, sessionVars, engine, archiveVars, journalVars,
                   told, settled, faults>>

-----------------------------------------------------------------------------
(* The archive, and the station process *)

\* archive-checkpoint.
Checkpoint ==
    /\ archive = "open"
    /\ saved' = TRUE
    /\ UNCHANGED <<bridgeLock, sessionVars, lock, engine, threadVars, archive,
                   issued, journalVars, historyVars, faults>>

\* A write fails and the archive is suspended; or it is finalized.
CloseArchive ==
    /\ archive = "open"
    /\ archive' \in {"closed", "final"}
    /\ UNCHANGED <<bridgeLock, sessionVars, lock, engine, threadVars, issued,
                   saved, journalVars, historyVars, faults>>

\* The process dies and is started again: only the files are left.
Die ==
    /\ bridgeLock' = Free
    /\ session' = 0
    /\ created' = 0
    /\ stop' = [s \in Sessions |-> FALSE]
    /\ lock' = [s \in Sessions |-> Free]
    /\ bound' = [s \in Sessions |-> 0]
    /\ engine' = [s \in Sessions |-> 1]
    /\ pc' = [t \in Threads |-> "idle"]
    /\ at' = [t \in Threads |-> 0]
    /\ round' = [t \in Threads |-> 1]
    /\ archive' = IF archive = "open" THEN "closed" ELSE archive
    /\ settled' = TRUE
    /\ UNCHANGED <<issued, saved, told, reported>>

Crash ==
    /\ Spend("crash")
    /\ Die
    /\ UNCHANGED journalVars

\* A directory entry that was not synced may be the older one again.
PowerLoss ==
    /\ Spend("power")
    /\ Die
    /\ journal' \in {journal, journalD}
    /\ journalD' = journal'

-----------------------------------------------------------------------------
\* What a thread does once it is not waiting for a lock.
Proceed(t) ==
    \/ ConfigureSettled(t) \/ ConfigureTimeout(t) \/ ConfigureBind(t)
    \/ ConfigureRefused(t) \/ RecoverSettled(t) \/ RecoverTimeout(t)
    \/ Rotate(t) \/ FetchPermitted(t) \/ FetchSend(t) \/ FetchRefused(t)
    \/ FetchAnswered(t) \/ PersistNothing(t) \/ PersistReplace(t)
    \/ PersistSync(t) \/ PersistFails(t) \/ BodyFails(t) \/ FetchReturns(t)

Next ==
    \/ \E t \in Threads : \/ ConfigureBegin(t)
                          \/ RecoverBegin(t, "recover")
                          \/ RecoverBegin(t, "reopen")
                          \/ FetchBegin(t)
                          \/ FetchEnter(t)
                          \/ Proceed(t)
    \/ Close \/ Checkpoint \/ CloseArchive \/ Crash \/ PowerLoss

Spec == Init /\ [][Next]_vars

\* Threads run, waits for permission end, sources answer or time out.  No
\* thread is promised a lock.
Fairness == \A t \in Threads : WF_vars(Proceed(t))

FairSpec == Spec /\ Fairness

-----------------------------------------------------------------------------
(* Properties *)

\* One request to the source is under way at a time, whatever sessions are
\* stopped and begun beside it: a new session waits until the request of the
\* one before has settled (configure, recover).
OneSourceRequest ==
    \A t, u \in Threads :
        pc[t] = "transport" /\ pc[u] = "transport" => t = u

\* A request that is under way belongs to the newest owner of its archive:
\* reopen gives the archive away only when the old owner's request is over.
RequestsAreOwned ==
    \A t \in Threads :
        pc[t] = "transport" /\ bound[at[t]] # 0 => bound[at[t]] = issued

\* "Stop flags alone do not mean an in-flight source request settled"
\* (capture_bridge.py:199): once recover has returned, no request is under
\* way, and none begins before the next session.
QuietAfterRecover ==
    settled => \A t \in Threads : pc[t] \notin Fetching

\* What a source asked before a call returned is on the medium.
ReportedIsDurable == reported <= 1 \/ reported <= journalD

\* No request of the archive is sent by an engine that does not know what the
\* source asked before: not in a new session, not after a reopen by another
\* page, not after a crash or a power loss.
RequestsArePaced ==
    \A t \in Threads :
        pc[t] = "transport" /\ bound[at[t]] # 0 => engine[at[t]] >= reported

\* A call that waits for no lock ends, and so gives back what it holds.
CallsEnd ==
    \A t \in Threads :
        pc[t] \in Admin \union Fetching ~> pc[t] = "idle"

\* "a received Retry-After cannot disappear" (capture_bridge.py:147): every
\* request of the archive knows of every one that was received, as long as
\* the process lives.
ReceivedIsKept ==
    \A t \in Threads :
        pc[t] = "transport" /\ bound[at[t]] # 0 => engine[at[t]] = told

=============================================================================
