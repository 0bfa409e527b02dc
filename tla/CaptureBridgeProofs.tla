------------------------- MODULE CaptureBridgeProofs -------------------------
(* Theorems about CaptureBridge, for all values of its constants.  IInv is *)
(* the inductive invariant.                                                *)
EXTENDS CaptureBridge, TLAPS

-----------------------------------------------------------------------------
(* The inductive invariant *)

\* Who has a lock, and who is where it is needed.
LockInv ==
    /\ \A t \in Threads : pc[t] \in Admin => bridgeLock = t
    /\ \A t \in Threads : pc[t] \in Fetching => lock[at[t]] = t
    /\ \A s \in Sessions : lock[s] # Free =>
          pc[lock[s]] \in Fetching /\ at[lock[s]] = s

\* Only the current session fetches; every other one has been stopped.
CurrentInv ==
    /\ \A s \in Sessions : s \in 1..created => s = session \/ stop[s]
    /\ \A t \in Threads : pc[t] \in {"fetch"} \union Fetching =>
          at[t] \in 1..created
    /\ \A t \in Threads : pc[t] \in Fetching => at[t] = session

\* The session is stopped, and nobody has its lock.
Quiet == session # 0 => stop[session] /\ lock[session] = Free

\* The session does not change while it is waited for, and not until it is
\* replaced or its archive is reopened.
QuietInv ==
    /\ \A t \in Threads : pc[t] \in Admin /\ session # 0 => stop[session]
    /\ \A t \in Threads : pc[t] \in {"bind", "rotate"} => Quiet
    /\ settled => Quiet

\* No engine and no file knows what was not received; the journal is not
\* behind its medium.
ToldInv ==
    /\ \A s \in Sessions : engine[s] >= 1 /\ engine[s] <= told
    /\ told >= 1
    /\ journal <= told
    /\ journalD <= journal

\* The engine of the session knows the journal, and what a call persists is
\* what the engine knows.
JournalInv ==
    /\ session # 0 /\ bound[session] # 0 => engine[session] >= journal
    /\ \A t \in Threads : pc[t] = "sync" =>
          bound[at[t]] # 0 /\ journal = engine[at[t]]
    /\ \A t \in Threads : pc[t] = "persisted" /\ bound[at[t]] # 0 =>
          journalD = engine[at[t]]

IInv ==
    /\ TypeOK
    /\ LockInv
    /\ CurrentInv
    /\ QuietInv
    /\ ToldInv
    /\ JournalInv
    /\ RequestsAreOwned
    /\ ReportedIsDurable

-----------------------------------------------------------------------------
(* Types *)

\* The initial state has the types.
LEMMA InitTypeOK == Init => TypeOK
<1> SUFFICES ASSUME Init PROVE TypeOK
  OBVIOUS
<1>1. /\ session \in 0..created /\ created \in 0..MaxSessions
      /\ at \in [Threads -> 0..MaxSessions]
  BY BridgeAssumption DEF Init
<1>2. /\ stop \in [Sessions -> BOOLEAN]
      /\ lock \in [Sessions -> Threads \union {Free}]
      /\ bound \in [Sessions -> Nat] /\ engine \in [Sessions -> Nat]
  BY DEF Init
<1>3. pc \in [Threads -> {"idle", "fetch"} \union Admin \union Fetching]
  BY DEF Init
<1>4. \A t \in Threads : pc[t] \notin {"fetch"} \union Fetching
  BY DEF Init, Fetching
<1>5. round \in [Threads -> {1, 2}] /\ faults \in [FaultSorts -> Nat]
  BY DEF Init
<1> QED
  BY <1>1, <1>2, <1>3, <1>4, <1>5 DEF Init, TypeOK

\* A fault is counted as a number.
LEMMA SpendType ==
    ASSUME TypeOK, NEW f \in FaultSorts, Spend(f)
    PROVE  faults' \in [FaultSorts -> Nat]
  BY DEF TypeOK, Spend

\* The lock of a session that is left is free; other locks are as they were.
LEMMA LeaveFields ==
    ASSUME TypeOK, NEW t \in Threads, Leave(t)
    PROVE  /\ lock' \in [Sessions -> Threads \union {Free}]
           /\ pc' \in [Threads -> {"idle", "fetch"} \union Admin \union Fetching]
           /\ at' \in [Threads -> 0..MaxSessions]
           /\ round' \in [Threads -> {1, 2}]
           /\ \A s \in Sessions :
                 lock'[s] = IF s = at[t] THEN Free ELSE lock[s]
           /\ pc'[t] = "idle"
           /\ \A u \in Threads \ {t} :
                 pc'[u] = pc[u] /\ at'[u] = at[u] /\ round'[u] = round[u]
<1>1. lock' \in [Sessions -> Threads \union {Free}]
  BY DEF TypeOK, Leave
<1>2. at' \in [Threads -> 0..MaxSessions]
  BY BridgeAssumption DEF TypeOK, Leave, Forget
<1>3. /\ pc' \in [Threads -> {"idle", "fetch"} \union Admin \union Fetching]
      /\ round' \in [Threads -> {1, 2}]
  BY DEF TypeOK, Leave, Forget
<1>4. \A s \in Sessions : lock'[s] = IF s = at[t] THEN Free ELSE lock[s]
  BY DEF TypeOK, Leave
<1> QED
  BY <1>1, <1>2, <1>3, <1>4 DEF TypeOK, Leave, Forget

\* Every step keeps the types.
LEMMA StepTypeOK == TypeOK /\ [Next]_vars => TypeOK'
<1> SUFFICES ASSUME TypeOK, [Next]_vars PROVE TypeOK'
  OBVIOUS
<1> USE DEF TypeOK, sessionVars, archiveVars, journalVars, historyVars,
            Goto, Release, Larger, Admin, Fetching
<1>1. ASSUME NEW t \in Threads, ConfigureBegin(t) PROVE TypeOK'
  BY <1>1 DEF ConfigureBegin, Admin
<1>2. ASSUME NEW t \in Threads, ConfigureSettled(t) PROVE TypeOK'
  BY <1>2 DEF ConfigureSettled, Admin
<1>3. ASSUME NEW t \in Threads, ConfigureTimeout(t) PROVE TypeOK'
  BY <1>3 DEF ConfigureTimeout
<1>4. ASSUME NEW t \in Threads, ConfigureBind(t) PROVE TypeOK'
  <2>1. session' \in 0..created' /\ created' \in 0..MaxSessions
    BY BridgeAssumption, <1>4 DEF ConfigureBind
  <2>2. bound' \in [Sessions -> Nat] /\ engine' \in [Sessions -> Nat]
    BY <1>4 DEF ConfigureBind, Restored
  <2>3. pc' = [pc EXCEPT ![t] = "idle"] /\ UNCHANGED <<at, stop, lock>>
    BY <1>4 DEF ConfigureBind
  <2>4. \A u \in Threads : pc'[u] \in {"fetch"} \union Fetching =>
          at'[u] \in Sessions
    BY <2>3
  <2> QED
    BY <1>4, <2>1, <2>2, <2>3, <2>4 DEF ConfigureBind
<1>5. ASSUME NEW t \in Threads, ConfigureRefused(t) PROVE TypeOK'
  BY <1>5 DEF ConfigureRefused
<1>6. ASSUME Close PROVE TypeOK'
  BY <1>6 DEF Close, StopSession, threadVars
<1>7. ASSUME NEW t \in Threads, NEW op \in {"recover", "reopen"},
             RecoverBegin(t, op)
      PROVE  TypeOK'
  BY <1>7 DEF RecoverBegin, StopSession, Admin
<1>8. ASSUME NEW t \in Threads, RecoverSettled(t) PROVE TypeOK'
  BY <1>8 DEF RecoverSettled, Admin
<1>9. ASSUME NEW t \in Threads, RecoverTimeout(t) PROVE TypeOK'
  BY <1>9 DEF RecoverTimeout
<1>10. ASSUME NEW t \in Threads, Rotate(t) PROVE TypeOK'
  BY <1>10 DEF Rotate
<1>11. ASSUME NEW t \in Threads, FetchBegin(t) PROVE TypeOK'
  <2>1. session \in Sessions /\ session \in 0..MaxSessions
    BY BridgeAssumption, <1>11 DEF FetchBegin, Sessions
  <2> QED
    BY <1>11, <2>1 DEF FetchBegin
<1>12. ASSUME NEW t \in Threads, FetchEnter(t) PROVE TypeOK'
  BY BridgeAssumption, <1>12 DEF FetchEnter, Forget, Fetching
<1>13. ASSUME NEW t \in Threads, FetchPermitted(t) PROVE TypeOK'
  BY <1>13 DEF FetchPermitted, Fetching
<1>14. ASSUME NEW t \in Threads, FetchSend(t) PROVE TypeOK'
  BY <1>14 DEF FetchSend, Fetching
<1>15. ASSUME NEW t \in Threads, FetchRefused(t) PROVE TypeOK'
  BY <1>15, LeaveFields DEF FetchRefused
<1>16. ASSUME NEW t \in Threads, FetchAnswered(t) PROVE TypeOK'
  BY <1>16 DEF FetchAnswered, Fetching
<1>17. ASSUME NEW t \in Threads, PersistNothing(t) PROVE TypeOK'
  BY <1>17 DEF PersistNothing, Fetching
<1>18. ASSUME NEW t \in Threads, PersistReplace(t) PROVE TypeOK'
  BY <1>18 DEF PersistReplace, Fetching
<1>19. ASSUME NEW t \in Threads, PersistSync(t) PROVE TypeOK'
  BY <1>19 DEF PersistSync, Fetching
<1>20. ASSUME NEW t \in Threads, PersistFails(t) PROVE TypeOK'
  BY <1>20, SpendType, LeaveFields DEF PersistFails, GiveUp, Fetching, FaultSorts
<1>21. ASSUME NEW t \in Threads, BodyFails(t) PROVE TypeOK'
  BY <1>21, LeaveFields DEF BodyFails, GiveUp, Fetching
<1>22. ASSUME NEW t \in Threads, FetchReturns(t) PROVE TypeOK'
  BY <1>22, LeaveFields DEF FetchReturns
<1>23. ASSUME Checkpoint PROVE TypeOK'
  BY <1>23 DEF Checkpoint, threadVars
<1>24. ASSUME CloseArchive PROVE TypeOK'
  BY <1>24 DEF CloseArchive, threadVars
<1>25. ASSUME Crash PROVE TypeOK'
  BY BridgeAssumption, <1>25, SpendType DEF Crash, Die, FaultSorts
<1>26. ASSUME PowerLoss PROVE TypeOK'
  BY BridgeAssumption, <1>26, SpendType DEF PowerLoss, Die, FaultSorts
<1>27. CASE UNCHANGED vars
  BY <1>27 DEF vars, threadVars
<1> QED
  BY <1>1, <1>2, <1>3, <1>4, <1>5, <1>6, <1>7, <1>8, <1>9, <1>10, <1>11, <1>12,
     <1>13, <1>14, <1>15, <1>16, <1>17, <1>18, <1>19, <1>20, <1>21, <1>22,
     <1>23, <1>24, <1>25, <1>26, <1>27 DEF Next, Proceed

-----------------------------------------------------------------------------
(* What a step changes, for all the actions that only move a thread *)

\* Two threads do not have one lock.
LEMMA Exclusive ==
    ASSUME LockInv, CurrentInv, NEW t \in Threads, NEW u \in Threads,
           \/ pc[t] \in Fetching /\ pc[u] \in Fetching
           \/ pc[t] \in Admin /\ pc[u] \in Admin
    PROVE  t = u
  BY DEF LockInv, CurrentInv

\* Nobody fetches while the session is quiet.
LEMMA QuietMeansNobody ==
    ASSUME TypeOK, LockInv, CurrentInv, Quiet
    PROVE  \A t \in Threads : pc[t] \notin Fetching
<1> SUFFICES ASSUME NEW t \in Threads, pc[t] \in Fetching PROVE FALSE
  OBVIOUS
<1>1. at[t] \in Sessions /\ at[t] = session /\ lock[at[t]] = t
  BY DEF TypeOK, LockInv, CurrentInv
<1>2. session # 0
  BY <1>1, BridgeAssumption DEF Sessions
<1> QED
  BY <1>1, <1>2, BridgeAssumption DEF Quiet

\* Leaving keeps the locks in order.
LEMMA LeaveLock ==
    ASSUME TypeOK, LockInv, NEW t \in Threads, pc[t] \in Fetching, Leave(t),
           bridgeLock' = bridgeLock
    PROVE  LockInv'
<1> USE LeaveFields
<1>1. \A u \in Threads : pc'[u] \in Admin => bridgeLock' = u
  BY DEF LockInv, Admin
<1>2. ASSUME NEW u \in Threads, pc'[u] \in Fetching PROVE lock'[at'[u]] = u
  <2>1. u # t
    BY <1>2 DEF Fetching
  <2>2. pc[u] \in Fetching /\ at'[u] = at[u]
    BY <1>2, <2>1
  <2>3. lock[at[u]] = u /\ lock[at[t]] = t /\ at[u] \in Sessions
    BY <2>2 DEF LockInv, TypeOK
  <2> QED
    BY <2>1, <2>2, <2>3
<1>3. ASSUME NEW s \in Sessions, lock'[s] # Free
      PROVE  pc'[lock'[s]] \in Fetching /\ at'[lock'[s]] = s
  <2>1. s # at[t] /\ lock'[s] = lock[s] /\ lock[s] \in Threads
    BY <1>3 DEF TypeOK
  <2>2. pc[lock[s]] \in Fetching /\ at[lock[s]] = s
    BY <1>3, <2>1 DEF LockInv
  <2>3. lock[s] # t
    BY <2>1, <2>2
  <2> QED
    BY <2>1, <2>2, <2>3
<1> QED
  BY <1>1, <1>2, <1>3 DEF LockInv

-----------------------------------------------------------------------------
(* Each part is kept *)

\* Locks are where their users are.
LEMMA StepLock == TypeOK /\ LockInv /\ [Next]_vars => LockInv'
<1> SUFFICES ASSUME TypeOK, LockInv, [Next]_vars PROVE LockInv'
  OBVIOUS
<1> USE DEF TypeOK, LockInv, Admin, Fetching,
            sessionVars, archiveVars, journalVars, historyVars, Goto, Release
<1>1. ASSUME NEW t \in Threads, ConfigureBegin(t) PROVE LockInv'
  BY <1>1, BridgeAssumption DEF ConfigureBegin
<1>2. ASSUME NEW t \in Threads, ConfigureSettled(t) PROVE LockInv'
  BY <1>2, BridgeAssumption DEF ConfigureSettled, Settled
<1>3. ASSUME NEW t \in Threads, ConfigureTimeout(t) PROVE LockInv'
  BY <1>3, BridgeAssumption DEF ConfigureTimeout
<1>4. ASSUME NEW t \in Threads, ConfigureBind(t) PROVE LockInv'
  BY <1>4, BridgeAssumption DEF ConfigureBind, Restored
<1>5. ASSUME NEW t \in Threads, ConfigureRefused(t) PROVE LockInv'
  BY <1>5, BridgeAssumption DEF ConfigureRefused
<1>6. ASSUME Close PROVE LockInv'
  BY <1>6, BridgeAssumption DEF Close, StopSession, threadVars
<1>7. ASSUME NEW t \in Threads, NEW op \in {"recover", "reopen"},
             RecoverBegin(t, op)
      PROVE  LockInv'
  BY <1>7, BridgeAssumption DEF RecoverBegin, StopSession
<1>8. ASSUME NEW t \in Threads, RecoverSettled(t) PROVE LockInv'
  BY <1>8, BridgeAssumption DEF RecoverSettled, Settled
<1>9. ASSUME NEW t \in Threads, RecoverTimeout(t) PROVE LockInv'
  BY <1>9, BridgeAssumption DEF RecoverTimeout
<1>10. ASSUME NEW t \in Threads, Rotate(t) PROVE LockInv'
  BY <1>10, BridgeAssumption DEF Rotate
<1>11. ASSUME NEW t \in Threads, FetchBegin(t) PROVE LockInv'
  BY <1>11, BridgeAssumption DEF FetchBegin
<1>12. ASSUME NEW t \in Threads, FetchEnter(t) PROVE LockInv'
  BY <1>12, BridgeAssumption DEF FetchEnter, Forget, MayFetch
<1>13. ASSUME NEW t \in Threads, FetchPermitted(t) PROVE LockInv'
  BY <1>13, BridgeAssumption DEF FetchPermitted
<1>14. ASSUME NEW t \in Threads, FetchSend(t) PROVE LockInv'
  BY <1>14, BridgeAssumption DEF FetchSend, Owned
<1>15. ASSUME NEW t \in Threads, FetchRefused(t) PROVE LockInv'
  BY <1>15, LeaveLock DEF FetchRefused
<1>16. ASSUME NEW t \in Threads, FetchAnswered(t) PROVE LockInv'
  BY <1>16, BridgeAssumption DEF FetchAnswered
<1>17. ASSUME NEW t \in Threads, PersistNothing(t) PROVE LockInv'
  BY <1>17, BridgeAssumption DEF PersistNothing
<1>18. ASSUME NEW t \in Threads, PersistReplace(t) PROVE LockInv'
  BY <1>18, BridgeAssumption DEF PersistReplace
<1>19. ASSUME NEW t \in Threads, PersistSync(t) PROVE LockInv'
  BY <1>19, BridgeAssumption DEF PersistSync
<1>20. ASSUME NEW t \in Threads, PersistFails(t) PROVE LockInv'
  <2>1. CASE round[t] = 1
    BY <1>20, <2>1 DEF PersistFails, GiveUp
  <2>2. CASE round[t] = 2
    BY <1>20, <2>2, LeaveLock DEF PersistFails, GiveUp
  <2> QED
    BY <1>20, <2>1, <2>2 DEF PersistFails, GiveUp
<1>21. ASSUME NEW t \in Threads, BodyFails(t) PROVE LockInv'
  BY <1>21, LeaveFields, BridgeAssumption DEF BodyFails, GiveUp
<1>22. ASSUME NEW t \in Threads, FetchReturns(t) PROVE LockInv'
  BY <1>22, LeaveLock DEF FetchReturns
<1>23. ASSUME Checkpoint PROVE LockInv'
  BY <1>23, BridgeAssumption DEF Checkpoint, threadVars
<1>24. ASSUME CloseArchive PROVE LockInv'
  BY <1>24, BridgeAssumption DEF CloseArchive, threadVars
<1>25. ASSUME Crash PROVE LockInv'
  BY <1>25, BridgeAssumption DEF Crash, Die
<1>26. ASSUME PowerLoss PROVE LockInv'
  BY <1>26, BridgeAssumption DEF PowerLoss, Die
<1>27. CASE UNCHANGED vars
  BY <1>27 DEF vars, threadVars
<1> QED
  BY <1>1, <1>2, <1>3, <1>4, <1>5, <1>6, <1>7, <1>8, <1>9, <1>10, <1>11,
     <1>12, <1>13, <1>14, <1>15, <1>16, <1>17, <1>18, <1>19, <1>20, <1>21,
     <1>22, <1>23, <1>24, <1>25, <1>26, <1>27
     DEF Next, Proceed

\* Only the current session fetches.
LEMMA StepCurrent == TypeOK /\ LockInv /\ CurrentInv /\ QuietInv /\ [Next]_vars => CurrentInv'
<1> SUFFICES ASSUME TypeOK, LockInv, CurrentInv, QuietInv, [Next]_vars PROVE CurrentInv'
  OBVIOUS
<1> USE DEF TypeOK, LockInv, CurrentInv, Admin, Fetching,
            sessionVars, archiveVars, journalVars, historyVars, Goto, Release
<1>1. ASSUME NEW t \in Threads, ConfigureBegin(t) PROVE CurrentInv'
  BY <1>1 DEF ConfigureBegin
<1>2. ASSUME NEW t \in Threads, ConfigureSettled(t) PROVE CurrentInv'
  BY <1>2 DEF ConfigureSettled, Settled
<1>3. ASSUME NEW t \in Threads, ConfigureTimeout(t) PROVE CurrentInv'
  BY <1>3 DEF ConfigureTimeout
<1>4. ASSUME NEW t \in Threads, ConfigureBind(t) PROVE CurrentInv'
  <2>1. \A u \in Threads : pc[u] \notin Fetching
    BY <1>4, QuietMeansNobody DEF ConfigureBind, QuietInv
  <2>2. session # 0 => stop[session]
    BY <1>4 DEF ConfigureBind, QuietInv
  <2>3. \A s \in Sessions : s \in 1..created' => s = session' \/ stop'[s]
    BY <1>4, <2>2, BridgeAssumption DEF ConfigureBind, Sessions
  <2>4. \A u \in Threads : pc'[u] \notin Fetching
    BY <1>4, <2>1 DEF ConfigureBind
  <2>5. \A u \in Threads : pc'[u] = "fetch" => at'[u] \in 1..created'
    <3>1. \A u \in Threads : pc[u] = "fetch" => at[u] \in 1..created
      OBVIOUS
    <3>2. \A u \in Threads : pc'[u] = "fetch" => pc[u] = "fetch"
      BY <1>4 DEF ConfigureBind
    <3>3. created' = created + 1 /\ at' = at
      BY <1>4 DEF ConfigureBind
    <3> QED
      BY <3>1, <3>2, <3>3
  <2> QED
    BY <2>3, <2>4, <2>5
<1>5. ASSUME NEW t \in Threads, ConfigureRefused(t) PROVE CurrentInv'
  BY <1>5 DEF ConfigureRefused
<1>6. ASSUME Close PROVE CurrentInv'
  BY <1>6 DEF Close, StopSession, threadVars
<1>7. ASSUME NEW t \in Threads, NEW op \in {"recover", "reopen"},
             RecoverBegin(t, op)
      PROVE  CurrentInv'
  BY <1>7 DEF RecoverBegin, StopSession
<1>8. ASSUME NEW t \in Threads, RecoverSettled(t) PROVE CurrentInv'
  BY <1>8 DEF RecoverSettled, Settled
<1>9. ASSUME NEW t \in Threads, RecoverTimeout(t) PROVE CurrentInv'
  BY <1>9 DEF RecoverTimeout
<1>10. ASSUME NEW t \in Threads, Rotate(t) PROVE CurrentInv'
  BY <1>10 DEF Rotate
<1>11. ASSUME NEW t \in Threads, FetchBegin(t) PROVE CurrentInv'
  BY <1>11 DEF FetchBegin
<1>12. ASSUME NEW t \in Threads, FetchEnter(t) PROVE CurrentInv'
  <2>1. CASE MayFetch(at[t])
    <3>1. at[t] \in Sessions /\ ~stop[at[t]]
      BY <1>12, <2>1 DEF FetchEnter, MayFetch
    <3>2. at[t] = session
      <4>1. pc[t] = "fetch"
        BY <1>12 DEF FetchEnter
      <4>2. at[t] \in 1..created
        BY <4>1 DEF CurrentInv
      <4> QED
        BY <3>1, <4>2 DEF CurrentInv
    <3> QED
      BY <1>12, <2>1, <3>2 DEF FetchEnter
  <2>2. CASE ~MayFetch(at[t])
    BY <1>12, <2>2 DEF FetchEnter, Forget
  <2> QED
    BY <2>1, <2>2
<1>13. ASSUME NEW t \in Threads, FetchPermitted(t) PROVE CurrentInv'
  BY <1>13 DEF FetchPermitted
<1>14. ASSUME NEW t \in Threads, FetchSend(t) PROVE CurrentInv'
  BY <1>14 DEF FetchSend, Owned
<1>15. ASSUME NEW t \in Threads, FetchRefused(t) PROVE CurrentInv'
  BY <1>15, LeaveFields DEF FetchRefused
<1>16. ASSUME NEW t \in Threads, FetchAnswered(t) PROVE CurrentInv'
  BY <1>16 DEF FetchAnswered
<1>17. ASSUME NEW t \in Threads, PersistNothing(t) PROVE CurrentInv'
  BY <1>17 DEF PersistNothing
<1>18. ASSUME NEW t \in Threads, PersistReplace(t) PROVE CurrentInv'
  BY <1>18 DEF PersistReplace
<1>19. ASSUME NEW t \in Threads, PersistSync(t) PROVE CurrentInv'
  BY <1>19 DEF PersistSync
<1>20. ASSUME NEW t \in Threads, PersistFails(t) PROVE CurrentInv'
  BY <1>20, LeaveFields DEF PersistFails, GiveUp
<1>21. ASSUME NEW t \in Threads, BodyFails(t) PROVE CurrentInv'
  BY <1>21, LeaveFields DEF BodyFails, GiveUp
<1>22. ASSUME NEW t \in Threads, FetchReturns(t) PROVE CurrentInv'
  BY <1>22, LeaveFields DEF FetchReturns
<1>23. ASSUME Checkpoint PROVE CurrentInv'
  BY <1>23 DEF Checkpoint, threadVars
<1>24. ASSUME CloseArchive PROVE CurrentInv'
  BY <1>24 DEF CloseArchive, threadVars
<1>25. ASSUME Crash PROVE CurrentInv'
  BY <1>25 DEF Crash, Die
<1>26. ASSUME PowerLoss PROVE CurrentInv'
  BY <1>26 DEF PowerLoss, Die
<1>27. CASE UNCHANGED vars
  BY <1>27 DEF vars, threadVars
<1> QED
  BY <1>1, <1>2, <1>3, <1>4, <1>5, <1>6, <1>7, <1>8, <1>9, <1>10, <1>11,
     <1>12, <1>13, <1>14, <1>15, <1>16, <1>17, <1>18, <1>19, <1>20, <1>21,
     <1>22, <1>23, <1>24, <1>25, <1>26, <1>27
     DEF Next, Proceed

\* What is stopped stays stopped, and its lock stays free.
LEMMA StepQuiet == TypeOK /\ LockInv /\ CurrentInv /\ QuietInv /\ [Next]_vars => QuietInv'
<1> SUFFICES ASSUME TypeOK, LockInv, CurrentInv, QuietInv, [Next]_vars PROVE QuietInv'
  OBVIOUS
<1> USE DEF TypeOK, LockInv, CurrentInv, QuietInv, Quiet, Admin, Fetching,
            sessionVars, archiveVars, journalVars, historyVars, Goto, Release
<1>1. ASSUME NEW t \in Threads, ConfigureBegin(t) PROVE QuietInv'
  BY <1>1 DEF ConfigureBegin
<1>2. ASSUME NEW t \in Threads, ConfigureSettled(t) PROVE QuietInv'
  BY <1>2 DEF ConfigureSettled, Settled
<1>3. ASSUME NEW t \in Threads, ConfigureTimeout(t) PROVE QuietInv'
  BY <1>3 DEF ConfigureTimeout
<1>4. ASSUME NEW t \in Threads, ConfigureBind(t) PROVE QuietInv'
  BY <1>4 DEF ConfigureBind, Restored
<1>5. ASSUME NEW t \in Threads, ConfigureRefused(t) PROVE QuietInv'
  BY <1>5 DEF ConfigureRefused
<1>6. ASSUME Close PROVE QuietInv'
  BY <1>6 DEF Close, StopSession, threadVars
<1>7. ASSUME NEW t \in Threads, NEW op \in {"recover", "reopen"},
             RecoverBegin(t, op)
      PROVE  QuietInv'
  <2>1. stop' = IF session = 0 THEN stop ELSE [stop EXCEPT ![session] = TRUE]
    BY <1>7 DEF RecoverBegin, StopSession
  <2>2. session # 0 => session \in Sessions
    BY BridgeAssumption DEF Sessions
  <2>3. \A s \in Sessions : stop[s] => stop'[s]
    BY <2>1
  <2>4. session # 0 => stop'[session]
    BY <2>1, <2>2
  <2>5. UNCHANGED <<session, lock, settled>>
    BY <1>7 DEF RecoverBegin
  <2>6. \A u \in Threads : pc'[u] \in {"bind", "rotate"} => pc[u] = pc'[u]
    BY <1>7 DEF RecoverBegin
  <2> QED
    BY <2>4, <2>5, <2>6
<1>8. ASSUME NEW t \in Threads, RecoverSettled(t) PROVE QuietInv'
  BY <1>8 DEF RecoverSettled, Settled
<1>9. ASSUME NEW t \in Threads, RecoverTimeout(t) PROVE QuietInv'
  BY <1>9 DEF RecoverTimeout
<1>10. ASSUME NEW t \in Threads, Rotate(t) PROVE QuietInv'
  BY <1>10 DEF Rotate
<1>11. ASSUME NEW t \in Threads, FetchBegin(t) PROVE QuietInv'
  BY <1>11 DEF FetchBegin
<1>12. ASSUME NEW t \in Threads, FetchEnter(t) PROVE QuietInv'
  <2>1. CASE MayFetch(at[t])
    <3>1. at[t] \in Sessions /\ ~stop[at[t]] /\ at[t] \in 1..created
      BY <1>12, <2>1 DEF FetchEnter, MayFetch
    <3>2. at[t] = session /\ session # 0 /\ ~stop[session]
      BY <3>1
    <3>3. \A u \in Threads : pc[u] \notin Admin
      BY <3>2
    <3>4. \A u \in Threads : pc'[u] \notin Admin
      BY <1>12, <2>1, <3>3 DEF FetchEnter
    <3>5. ~settled /\ settled' = settled
      BY <1>12, <3>2 DEF FetchEnter
    <3> QED
      BY <3>4, <3>5
  <2>2. CASE ~MayFetch(at[t])
    BY <1>12, <2>2 DEF FetchEnter, Forget
  <2> QED
    BY <2>1, <2>2
<1>13. ASSUME NEW t \in Threads, FetchPermitted(t) PROVE QuietInv'
  BY <1>13 DEF FetchPermitted
<1>14. ASSUME NEW t \in Threads, FetchSend(t) PROVE QuietInv'
  BY <1>14 DEF FetchSend, Owned
<1>15. ASSUME NEW t \in Threads, FetchRefused(t) PROVE QuietInv'
  BY <1>15, LeaveFields DEF FetchRefused
<1>16. ASSUME NEW t \in Threads, FetchAnswered(t) PROVE QuietInv'
  BY <1>16 DEF FetchAnswered
<1>17. ASSUME NEW t \in Threads, PersistNothing(t) PROVE QuietInv'
  BY <1>17 DEF PersistNothing
<1>18. ASSUME NEW t \in Threads, PersistReplace(t) PROVE QuietInv'
  BY <1>18 DEF PersistReplace
<1>19. ASSUME NEW t \in Threads, PersistSync(t) PROVE QuietInv'
  BY <1>19 DEF PersistSync
<1>20. ASSUME NEW t \in Threads, PersistFails(t) PROVE QuietInv'
  BY <1>20, LeaveFields DEF PersistFails, GiveUp
<1>21. ASSUME NEW t \in Threads, BodyFails(t) PROVE QuietInv'
  BY <1>21, LeaveFields DEF BodyFails, GiveUp
<1>22. ASSUME NEW t \in Threads, FetchReturns(t) PROVE QuietInv'
  BY <1>22, LeaveFields DEF FetchReturns
<1>23. ASSUME Checkpoint PROVE QuietInv'
  BY <1>23 DEF Checkpoint, threadVars
<1>24. ASSUME CloseArchive PROVE QuietInv'
  BY <1>24 DEF CloseArchive, threadVars
<1>25. ASSUME Crash PROVE QuietInv'
  BY <1>25 DEF Crash, Die
<1>26. ASSUME PowerLoss PROVE QuietInv'
  BY <1>26 DEF PowerLoss, Die
<1>27. CASE UNCHANGED vars
  BY <1>27 DEF vars, threadVars
<1> QED
  BY <1>1, <1>2, <1>3, <1>4, <1>5, <1>6, <1>7, <1>8, <1>9, <1>10, <1>11,
     <1>12, <1>13, <1>14, <1>15, <1>16, <1>17, <1>18, <1>19, <1>20, <1>21,
     <1>22, <1>23, <1>24, <1>25, <1>26, <1>27
     DEF Next, Proceed

\* Nothing is known that was not received.
LEMMA StepTold == TypeOK /\ LockInv /\ CurrentInv /\ JournalInv /\ ToldInv /\ [Next]_vars => ToldInv'
<1> SUFFICES ASSUME TypeOK, LockInv, CurrentInv, JournalInv, ToldInv, [Next]_vars PROVE ToldInv'
  OBVIOUS
<1> USE DEF TypeOK, ToldInv,
            sessionVars, archiveVars, journalVars, historyVars, Goto, Release
<1>1. ASSUME NEW t \in Threads, ConfigureBegin(t) PROVE ToldInv'
  BY <1>1 DEF ConfigureBegin
<1>2. ASSUME NEW t \in Threads, ConfigureSettled(t) PROVE ToldInv'
  BY <1>2 DEF ConfigureSettled, Settled
<1>3. ASSUME NEW t \in Threads, ConfigureTimeout(t) PROVE ToldInv'
  BY <1>3 DEF ConfigureTimeout
<1>4. ASSUME NEW t \in Threads, ConfigureBind(t) PROVE ToldInv'
  <2>1. engine' = engine \/ \E known \in 1..told :
                                engine' = [engine EXCEPT ![created + 1] = known]
    BY <1>4 DEF ConfigureBind, Restored
  <2> QED
    BY <1>4, <2>1 DEF ConfigureBind
<1>5. ASSUME NEW t \in Threads, ConfigureRefused(t) PROVE ToldInv'
  BY <1>5 DEF ConfigureRefused
<1>6. ASSUME Close PROVE ToldInv'
  BY <1>6 DEF Close, StopSession, threadVars
<1>7. ASSUME NEW t \in Threads, NEW op \in {"recover", "reopen"},
             RecoverBegin(t, op)
      PROVE  ToldInv'
  BY <1>7 DEF RecoverBegin, StopSession
<1>8. ASSUME NEW t \in Threads, RecoverSettled(t) PROVE ToldInv'
  BY <1>8 DEF RecoverSettled, Settled
<1>9. ASSUME NEW t \in Threads, RecoverTimeout(t) PROVE ToldInv'
  BY <1>9 DEF RecoverTimeout
<1>10. ASSUME NEW t \in Threads, Rotate(t) PROVE ToldInv'
  BY <1>10 DEF Rotate
<1>11. ASSUME NEW t \in Threads, FetchBegin(t) PROVE ToldInv'
  BY <1>11 DEF FetchBegin
<1>12. ASSUME NEW t \in Threads, FetchEnter(t) PROVE ToldInv'
  BY <1>12 DEF FetchEnter, Forget, MayFetch
<1>13. ASSUME NEW t \in Threads, FetchPermitted(t) PROVE ToldInv'
  BY <1>13 DEF FetchPermitted
<1>14. ASSUME NEW t \in Threads, FetchSend(t) PROVE ToldInv'
  BY <1>14 DEF FetchSend, Owned
<1>15. ASSUME NEW t \in Threads, FetchRefused(t) PROVE ToldInv'
  BY <1>15, LeaveFields DEF FetchRefused
<1>16. ASSUME NEW t \in Threads, FetchAnswered(t) PROVE ToldInv'
  <2>1. \/ engine' = engine /\ told' = told
        \/ engine' = [engine EXCEPT ![at[t]] = told + 1] /\ told' = told + 1
    BY <1>16 DEF FetchAnswered
  <2> QED
    BY <1>16, <2>1 DEF FetchAnswered
<1>17. ASSUME NEW t \in Threads, PersistNothing(t) PROVE ToldInv'
  BY <1>17 DEF PersistNothing
<1>18. ASSUME NEW t \in Threads, PersistReplace(t) PROVE ToldInv'
  <2>1. at[t] \in Sessions /\ at[t] = session /\ session # 0
    BY <1>18, BridgeAssumption DEF PersistReplace, CurrentInv, Fetching, Sessions
  <2>2. engine[at[t]] >= journal
    BY <1>18, <2>1 DEF PersistReplace, JournalInv
  <2> QED
    BY <1>18, <2>1, <2>2 DEF PersistReplace
<1>19. ASSUME NEW t \in Threads, PersistSync(t) PROVE ToldInv'
  BY <1>19 DEF PersistSync
<1>20. ASSUME NEW t \in Threads, PersistFails(t) PROVE ToldInv'
  BY <1>20, LeaveFields DEF PersistFails, GiveUp
<1>21. ASSUME NEW t \in Threads, BodyFails(t) PROVE ToldInv'
  BY <1>21, LeaveFields DEF BodyFails, GiveUp
<1>22. ASSUME NEW t \in Threads, FetchReturns(t) PROVE ToldInv'
  BY <1>22, LeaveFields DEF FetchReturns
<1>23. ASSUME Checkpoint PROVE ToldInv'
  BY <1>23 DEF Checkpoint, threadVars
<1>24. ASSUME CloseArchive PROVE ToldInv'
  BY <1>24 DEF CloseArchive, threadVars
<1>25. ASSUME Crash PROVE ToldInv'
  BY <1>25 DEF Crash, Die
<1>26. ASSUME PowerLoss PROVE ToldInv'
  BY <1>26 DEF PowerLoss, Die
<1>27. CASE UNCHANGED vars
  BY <1>27 DEF vars, threadVars
<1> QED
  BY <1>1, <1>2, <1>3, <1>4, <1>5, <1>6, <1>7, <1>8, <1>9, <1>10, <1>11,
     <1>12, <1>13, <1>14, <1>15, <1>16, <1>17, <1>18, <1>19, <1>20, <1>21,
     <1>22, <1>23, <1>24, <1>25, <1>26, <1>27
     DEF Next, Proceed

\* The engine of the session stays ahead of the journal.
LEMMA StepJournal == TypeOK /\ LockInv /\ CurrentInv /\ QuietInv /\ ToldInv /\ JournalInv /\ [Next]_vars => JournalInv'
<1> SUFFICES ASSUME TypeOK, LockInv, CurrentInv, QuietInv, ToldInv, JournalInv, [Next]_vars PROVE JournalInv'
  OBVIOUS
<1> USE DEF TypeOK, JournalInv,
            sessionVars, archiveVars, journalVars, historyVars, Goto, Release
<1>1. ASSUME NEW t \in Threads, ConfigureBegin(t) PROVE JournalInv'
  BY <1>1 DEF ConfigureBegin
<1>2. ASSUME NEW t \in Threads, ConfigureSettled(t) PROVE JournalInv'
  BY <1>2 DEF ConfigureSettled, Settled
<1>3. ASSUME NEW t \in Threads, ConfigureTimeout(t) PROVE JournalInv'
  BY <1>3 DEF ConfigureTimeout
<1>4. ASSUME NEW t \in Threads, ConfigureBind(t) PROVE JournalInv'
  <2>1. \A u \in Threads : pc[u] \notin Fetching
    BY <1>4, QuietMeansNobody DEF ConfigureBind, QuietInv
  <2>2. \A u \in Threads : pc'[u] \notin Fetching
    BY <1>4, <2>1 DEF ConfigureBind, Fetching
  <2>3. session' = created + 1 /\ session' \in Sessions /\ journal' = journal
    BY <1>4, BridgeAssumption DEF ConfigureBind, Sessions
  <2>4. bound'[session'] = 0 \/ engine'[session'] >= journal
    BY <1>4, <2>3 DEF ConfigureBind, Restored
  <2> QED
    BY <2>2, <2>3, <2>4 DEF Fetching
<1>5. ASSUME NEW t \in Threads, ConfigureRefused(t) PROVE JournalInv'
  BY <1>5 DEF ConfigureRefused
<1>6. ASSUME Close PROVE JournalInv'
  BY <1>6 DEF Close, StopSession, threadVars
<1>7. ASSUME NEW t \in Threads, NEW op \in {"recover", "reopen"},
             RecoverBegin(t, op)
      PROVE  JournalInv'
  BY <1>7 DEF RecoverBegin, StopSession
<1>8. ASSUME NEW t \in Threads, RecoverSettled(t) PROVE JournalInv'
  BY <1>8 DEF RecoverSettled, Settled
<1>9. ASSUME NEW t \in Threads, RecoverTimeout(t) PROVE JournalInv'
  BY <1>9 DEF RecoverTimeout
<1>10. ASSUME NEW t \in Threads, Rotate(t) PROVE JournalInv'
  BY <1>10 DEF Rotate
<1>11. ASSUME NEW t \in Threads, FetchBegin(t) PROVE JournalInv'
  BY <1>11 DEF FetchBegin
<1>12. ASSUME NEW t \in Threads, FetchEnter(t) PROVE JournalInv'
  BY <1>12 DEF FetchEnter, Forget, MayFetch
<1>13. ASSUME NEW t \in Threads, FetchPermitted(t) PROVE JournalInv'
  BY <1>13 DEF FetchPermitted
<1>14. ASSUME NEW t \in Threads, FetchSend(t) PROVE JournalInv'
  BY <1>14 DEF FetchSend, Owned
<1>15. ASSUME NEW t \in Threads, FetchRefused(t) PROVE JournalInv'
  BY <1>15, LeaveFields DEF FetchRefused
<1>16. ASSUME NEW t \in Threads, FetchAnswered(t) PROVE JournalInv'
  <2>1. at[t] \in Sessions /\ at[t] = session /\ session # 0
    BY <1>16, BridgeAssumption DEF FetchAnswered, CurrentInv, Fetching, Sessions
  <2>2. \A u \in Threads : pc[u] \in Fetching => u = t
    BY <1>16, Exclusive DEF FetchAnswered, Fetching
  <2>3. \A u \in Threads : pc'[u] \notin {"sync", "persisted"}
    BY <1>16, <2>2 DEF FetchAnswered, Fetching
  <2>4. engine'[session] >= engine[session] /\ engine[session] \in Nat
    BY <1>16, <2>1 DEF FetchAnswered, ToldInv
  <2>5. engine'[session] \in Nat
    BY <1>16, <2>1 DEF FetchAnswered
  <2>6. UNCHANGED <<session, bound, journal>>
    BY <1>16 DEF FetchAnswered
  <2> QED
    BY <2>3, <2>4, <2>5, <2>6
<1>17. ASSUME NEW t \in Threads, PersistNothing(t) PROVE JournalInv'
  BY <1>17 DEF PersistNothing
<1>18. ASSUME NEW t \in Threads, PersistReplace(t) PROVE JournalInv'
  <2>1. at[t] \in Sessions /\ at[t] = session /\ session # 0
    BY <1>18, BridgeAssumption DEF PersistReplace, CurrentInv, Fetching, Sessions
  <2>2. \A u \in Threads : pc[u] \in Fetching => u = t
    BY <1>18, Exclusive DEF PersistReplace, Fetching
  <2>3. \A u \in Threads : pc'[u] \in {"sync", "persisted"} => u = t
    BY <1>18, <2>2 DEF PersistReplace, Fetching
  <2>4. pc'[t] = "sync" /\ bound[at[t]] # 0 /\ journal' = engine[at[t]]
    BY <1>18 DEF PersistReplace
  <2>5. UNCHANGED <<session, bound, engine, at>> /\ engine[session] \in Nat
    BY <1>18, <2>1 DEF PersistReplace
  <2> QED
    BY <2>1, <2>3, <2>4, <2>5
<1>19. ASSUME NEW t \in Threads, PersistSync(t) PROVE JournalInv'
  <2>1. at[t] \in Sessions /\ at[t] = session /\ session # 0
    BY <1>19, BridgeAssumption DEF PersistSync, CurrentInv, Fetching, Sessions
  <2>2. \A u \in Threads : pc[u] \in Fetching => u = t
    BY <1>19, Exclusive DEF PersistSync, Fetching
  <2>3. \A u \in Threads : pc'[u] \in {"sync", "persisted"} => u = t
    BY <1>19, <2>2 DEF PersistSync, Fetching
  <2>4. pc'[t] = "persisted" /\ journalD' = engine[at[t]]
    BY <1>19 DEF PersistSync
  <2>5. UNCHANGED <<session, bound, engine, at, journal>>
    BY <1>19 DEF PersistSync
  <2> QED
    BY <2>1, <2>3, <2>4, <2>5
<1>20. ASSUME NEW t \in Threads, PersistFails(t) PROVE JournalInv'
  BY <1>20, LeaveFields DEF PersistFails, GiveUp
<1>21. ASSUME NEW t \in Threads, BodyFails(t) PROVE JournalInv'
  BY <1>21, LeaveFields DEF BodyFails, GiveUp
<1>22. ASSUME NEW t \in Threads, FetchReturns(t) PROVE JournalInv'
  BY <1>22, LeaveFields DEF FetchReturns
<1>23. ASSUME Checkpoint PROVE JournalInv'
  BY <1>23 DEF Checkpoint, threadVars
<1>24. ASSUME CloseArchive PROVE JournalInv'
  BY <1>24 DEF CloseArchive, threadVars
<1>25. ASSUME Crash PROVE JournalInv'
  BY <1>25 DEF Crash, Die
<1>26. ASSUME PowerLoss PROVE JournalInv'
  BY <1>26 DEF PowerLoss, Die
<1>27. CASE UNCHANGED vars
  BY <1>27 DEF vars, threadVars
<1> QED
  BY <1>1, <1>2, <1>3, <1>4, <1>5, <1>6, <1>7, <1>8, <1>9, <1>10, <1>11,
     <1>12, <1>13, <1>14, <1>15, <1>16, <1>17, <1>18, <1>19, <1>20, <1>21,
     <1>22, <1>23, <1>24, <1>25, <1>26, <1>27
     DEF Next, Proceed

\* The archive is not given away under a request.
LEMMA StepOwned == TypeOK /\ LockInv /\ CurrentInv /\ QuietInv /\ RequestsAreOwned /\ [Next]_vars => RequestsAreOwned'
<1> SUFFICES ASSUME TypeOK, LockInv, CurrentInv, QuietInv, RequestsAreOwned, [Next]_vars PROVE RequestsAreOwned'
  OBVIOUS
<1> USE DEF TypeOK, RequestsAreOwned,
            sessionVars, archiveVars, journalVars, historyVars, Goto, Release
<1>1. ASSUME NEW t \in Threads, ConfigureBegin(t) PROVE RequestsAreOwned'
  BY <1>1 DEF ConfigureBegin
<1>2. ASSUME NEW t \in Threads, ConfigureSettled(t) PROVE RequestsAreOwned'
  BY <1>2 DEF ConfigureSettled, Settled
<1>3. ASSUME NEW t \in Threads, ConfigureTimeout(t) PROVE RequestsAreOwned'
  BY <1>3 DEF ConfigureTimeout
<1>4. ASSUME NEW t \in Threads, ConfigureBind(t) PROVE RequestsAreOwned'
  <2>1. \A u \in Threads : pc[u] \notin Fetching
    BY <1>4, QuietMeansNobody DEF ConfigureBind, QuietInv
  <2>2. \A u \in Threads : pc'[u] \notin Fetching
    BY <1>4, <2>1 DEF ConfigureBind, Fetching
  <2> QED
    BY <2>2 DEF Fetching
<1>5. ASSUME NEW t \in Threads, ConfigureRefused(t) PROVE RequestsAreOwned'
  BY <1>5 DEF ConfigureRefused
<1>6. ASSUME Close PROVE RequestsAreOwned'
  BY <1>6 DEF Close, StopSession, threadVars
<1>7. ASSUME NEW t \in Threads, NEW op \in {"recover", "reopen"},
             RecoverBegin(t, op)
      PROVE  RequestsAreOwned'
  BY <1>7 DEF RecoverBegin, StopSession
<1>8. ASSUME NEW t \in Threads, RecoverSettled(t) PROVE RequestsAreOwned'
  BY <1>8 DEF RecoverSettled, Settled
<1>9. ASSUME NEW t \in Threads, RecoverTimeout(t) PROVE RequestsAreOwned'
  BY <1>9 DEF RecoverTimeout
<1>10. ASSUME NEW t \in Threads, Rotate(t) PROVE RequestsAreOwned'
  <2>1. \A u \in Threads : pc[u] \notin Fetching
    BY <1>10, QuietMeansNobody DEF Rotate, QuietInv
  <2>2. \A u \in Threads : pc'[u] \notin Fetching
    BY <1>10, <2>1 DEF Rotate, Fetching
  <2> QED
    BY <2>2 DEF Fetching
<1>11. ASSUME NEW t \in Threads, FetchBegin(t) PROVE RequestsAreOwned'
  BY <1>11 DEF FetchBegin
<1>12. ASSUME NEW t \in Threads, FetchEnter(t) PROVE RequestsAreOwned'
  BY <1>12 DEF FetchEnter, Forget, MayFetch
<1>13. ASSUME NEW t \in Threads, FetchPermitted(t) PROVE RequestsAreOwned'
  BY <1>13 DEF FetchPermitted
<1>14. ASSUME NEW t \in Threads, FetchSend(t) PROVE RequestsAreOwned'
  BY <1>14 DEF FetchSend, Owned
<1>15. ASSUME NEW t \in Threads, FetchRefused(t) PROVE RequestsAreOwned'
  BY <1>15, LeaveFields DEF FetchRefused
<1>16. ASSUME NEW t \in Threads, FetchAnswered(t) PROVE RequestsAreOwned'
  BY <1>16 DEF FetchAnswered
<1>17. ASSUME NEW t \in Threads, PersistNothing(t) PROVE RequestsAreOwned'
  BY <1>17 DEF PersistNothing
<1>18. ASSUME NEW t \in Threads, PersistReplace(t) PROVE RequestsAreOwned'
  BY <1>18 DEF PersistReplace
<1>19. ASSUME NEW t \in Threads, PersistSync(t) PROVE RequestsAreOwned'
  BY <1>19 DEF PersistSync
<1>20. ASSUME NEW t \in Threads, PersistFails(t) PROVE RequestsAreOwned'
  BY <1>20, LeaveFields DEF PersistFails, GiveUp
<1>21. ASSUME NEW t \in Threads, BodyFails(t) PROVE RequestsAreOwned'
  BY <1>21, LeaveFields DEF BodyFails, GiveUp
<1>22. ASSUME NEW t \in Threads, FetchReturns(t) PROVE RequestsAreOwned'
  BY <1>22, LeaveFields DEF FetchReturns
<1>23. ASSUME Checkpoint PROVE RequestsAreOwned'
  BY <1>23 DEF Checkpoint, threadVars
<1>24. ASSUME CloseArchive PROVE RequestsAreOwned'
  BY <1>24 DEF CloseArchive, threadVars
<1>25. ASSUME Crash PROVE RequestsAreOwned'
  BY <1>25 DEF Crash, Die
<1>26. ASSUME PowerLoss PROVE RequestsAreOwned'
  BY <1>26 DEF PowerLoss, Die
<1>27. CASE UNCHANGED vars
  BY <1>27 DEF vars, threadVars
<1> QED
  BY <1>1, <1>2, <1>3, <1>4, <1>5, <1>6, <1>7, <1>8, <1>9, <1>10, <1>11,
     <1>12, <1>13, <1>14, <1>15, <1>16, <1>17, <1>18, <1>19, <1>20, <1>21,
     <1>22, <1>23, <1>24, <1>25, <1>26, <1>27
     DEF Next, Proceed

\* What was reported stays on the medium.
LEMMA StepReported == TypeOK /\ JournalInv /\ ToldInv /\ ReportedIsDurable /\ [Next]_vars => ReportedIsDurable'
<1> SUFFICES ASSUME TypeOK, JournalInv, ToldInv, ReportedIsDurable, [Next]_vars PROVE ReportedIsDurable'
  OBVIOUS
<1> USE DEF TypeOK, JournalInv, ToldInv, ReportedIsDurable, Larger,
            sessionVars, archiveVars, journalVars, historyVars, Goto, Release
<1>1. ASSUME NEW t \in Threads, ConfigureBegin(t) PROVE ReportedIsDurable'
  BY <1>1 DEF ConfigureBegin
<1>2. ASSUME NEW t \in Threads, ConfigureSettled(t) PROVE ReportedIsDurable'
  BY <1>2 DEF ConfigureSettled, Settled
<1>3. ASSUME NEW t \in Threads, ConfigureTimeout(t) PROVE ReportedIsDurable'
  BY <1>3 DEF ConfigureTimeout
<1>4. ASSUME NEW t \in Threads, ConfigureBind(t) PROVE ReportedIsDurable'
  BY <1>4 DEF ConfigureBind, Restored
<1>5. ASSUME NEW t \in Threads, ConfigureRefused(t) PROVE ReportedIsDurable'
  BY <1>5 DEF ConfigureRefused
<1>6. ASSUME Close PROVE ReportedIsDurable'
  BY <1>6 DEF Close, StopSession, threadVars
<1>7. ASSUME NEW t \in Threads, NEW op \in {"recover", "reopen"},
             RecoverBegin(t, op)
      PROVE  ReportedIsDurable'
  BY <1>7 DEF RecoverBegin, StopSession
<1>8. ASSUME NEW t \in Threads, RecoverSettled(t) PROVE ReportedIsDurable'
  BY <1>8 DEF RecoverSettled, Settled
<1>9. ASSUME NEW t \in Threads, RecoverTimeout(t) PROVE ReportedIsDurable'
  BY <1>9 DEF RecoverTimeout
<1>10. ASSUME NEW t \in Threads, Rotate(t) PROVE ReportedIsDurable'
  BY <1>10 DEF Rotate
<1>11. ASSUME NEW t \in Threads, FetchBegin(t) PROVE ReportedIsDurable'
  BY <1>11 DEF FetchBegin
<1>12. ASSUME NEW t \in Threads, FetchEnter(t) PROVE ReportedIsDurable'
  BY <1>12 DEF FetchEnter, Forget, MayFetch
<1>13. ASSUME NEW t \in Threads, FetchPermitted(t) PROVE ReportedIsDurable'
  BY <1>13 DEF FetchPermitted
<1>14. ASSUME NEW t \in Threads, FetchSend(t) PROVE ReportedIsDurable'
  BY <1>14 DEF FetchSend, Owned
<1>15. ASSUME NEW t \in Threads, FetchRefused(t) PROVE ReportedIsDurable'
  BY <1>15, LeaveFields DEF FetchRefused
<1>16. ASSUME NEW t \in Threads, FetchAnswered(t) PROVE ReportedIsDurable'
  BY <1>16 DEF FetchAnswered
<1>17. ASSUME NEW t \in Threads, PersistNothing(t) PROVE ReportedIsDurable'
  BY <1>17 DEF PersistNothing
<1>18. ASSUME NEW t \in Threads, PersistReplace(t) PROVE ReportedIsDurable'
  BY <1>18 DEF PersistReplace
<1>19. ASSUME NEW t \in Threads, PersistSync(t) PROVE ReportedIsDurable'
  BY <1>19 DEF PersistSync
<1>20. ASSUME NEW t \in Threads, PersistFails(t) PROVE ReportedIsDurable'
  BY <1>20, LeaveFields DEF PersistFails, GiveUp
<1>21. ASSUME NEW t \in Threads, BodyFails(t) PROVE ReportedIsDurable'
  BY <1>21, LeaveFields DEF BodyFails, GiveUp
<1>22. ASSUME NEW t \in Threads, FetchReturns(t) PROVE ReportedIsDurable'
  BY <1>22, LeaveFields DEF FetchReturns
<1>23. ASSUME Checkpoint PROVE ReportedIsDurable'
  BY <1>23 DEF Checkpoint, threadVars
<1>24. ASSUME CloseArchive PROVE ReportedIsDurable'
  BY <1>24 DEF CloseArchive, threadVars
<1>25. ASSUME Crash PROVE ReportedIsDurable'
  BY <1>25 DEF Crash, Die
<1>26. ASSUME PowerLoss PROVE ReportedIsDurable'
  BY <1>26 DEF PowerLoss, Die
<1>27. CASE UNCHANGED vars
  BY <1>27 DEF vars, threadVars
<1> QED
  BY <1>1, <1>2, <1>3, <1>4, <1>5, <1>6, <1>7, <1>8, <1>9, <1>10, <1>11,
     <1>12, <1>13, <1>14, <1>15, <1>16, <1>17, <1>18, <1>19, <1>20, <1>21,
     <1>22, <1>23, <1>24, <1>25, <1>26, <1>27
     DEF Next, Proceed

-----------------------------------------------------------------------------
(* The invariant, and what it gives *)

\* At first there is no session and nothing was received.
LEMMA InitIInv == Init => IInv
<1> SUFFICES ASSUME Init PROVE IInv
  OBVIOUS
<1>1. TypeOK
  BY InitTypeOK
<1>2. LockInv /\ CurrentInv /\ QuietInv
  BY DEF Init, LockInv, CurrentInv, QuietInv, Quiet, Admin, Fetching
<1>3. ToldInv /\ JournalInv /\ RequestsAreOwned /\ ReportedIsDurable
  BY DEF Init, ToldInv, JournalInv, RequestsAreOwned, ReportedIsDurable
<1> QED
  BY <1>1, <1>2, <1>3 DEF IInv

\* The invariant holds in every reachable state.
THEOREM Invariance == Spec => []IInv
<1>1. IInv /\ [Next]_vars => IInv'
  BY StepTypeOK, StepLock, StepCurrent, StepQuiet, StepTold, StepJournal,
     StepOwned, StepReported DEF IInv
<1> QED
  BY InitIInv, <1>1, PTL DEF Spec

\* Every variable keeps its type, for any number of threads and sessions.
THEOREM TypeCorrect == Spec => []TypeOK
<1>1. IInv => TypeOK
  BY DEF IInv
<1> QED
  BY <1>1, Invariance, PTL

\* One request to the source at a time: two requests would have one lock.
THEOREM OneRequestAtATime == Spec => []OneSourceRequest
<1>1. IInv => OneSourceRequest
  BY Exclusive DEF IInv, OneSourceRequest, Fetching
<1> QED
  BY <1>1, Invariance, PTL

\* The archive is not given away while a request of its owner is under way.
THEOREM OwnersRequest == Spec => []RequestsAreOwned
<1>1. IInv => RequestsAreOwned
  BY DEF IInv
<1> QED
  BY <1>1, Invariance, PTL

\* Once recover has returned, nothing is sent before the next session.
THEOREM RecoverSettles == Spec => []QuietAfterRecover
<1>1. IInv => QuietAfterRecover
  BY QuietMeansNobody DEF IInv, QuietInv, QuietAfterRecover
<1> QED
  BY <1>1, Invariance, PTL

\* What a call has reported of the source's wishes survives a power loss.
THEOREM ReportsAreDurable == Spec => []ReportedIsDurable
<1>1. IInv => ReportedIsDurable
  BY DEF IInv
<1> QED
  BY <1>1, Invariance, PTL

\* Every request of the archive is paced by all that was reported before.
THEOREM PacingIsKept == Spec => []RequestsArePaced
<1>1. ASSUME IInv, NEW t \in Threads, pc[t] = "transport", bound[at[t]] # 0
      PROVE  engine[at[t]] >= reported
  <2>1. at[t] \in Sessions /\ at[t] = session
    BY <1>1 DEF IInv, TypeOK, CurrentInv, Fetching
  <2>2. session # 0
    BY <2>1, BridgeAssumption DEF Sessions
  <2>3. engine[at[t]] >= journal /\ journal >= journalD /\ engine[at[t]] >= 1
    BY <1>1, <2>1, <2>2 DEF IInv, JournalInv, ToldInv
  <2>4. reported <= 1 \/ reported <= journalD
    BY <1>1 DEF IInv, ReportedIsDurable
  <2>5. engine[at[t]] \in Nat /\ {journal, journalD, reported} \subseteq Nat
    BY <1>1, <2>1 DEF IInv, TypeOK
  <2> QED
    BY <2>3, <2>4, <2>5
<1>2. IInv => RequestsArePaced
  BY <1>1 DEF RequestsArePaced
<1> QED
  BY <1>2, Invariance, PTL
=============================================================================
