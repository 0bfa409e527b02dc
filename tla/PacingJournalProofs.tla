------------------------- MODULE PacingJournalProofs --------------------------
(***************************************************************************)
(* Theorems about Politeness and about DebugJournal, for all values of     *)
(* their constants; the two have nothing in common.                        *)
(*                                                                         *)
(* What a politeness engine promises is stated for one caller, as a crawl  *)
(* has one; that the slots of callers are apart is stated for any number.  *)
(***************************************************************************)
EXTENDS Politeness, DebugJournal, FiniteSetTheorems, TLAPS

\* A session has one engine, and its lock lets one call ask it at a time.
OneCaller == \A c, d \in Callers : c = d

-----------------------------------------------------------------------------
(* The invariant.  b is how far the clock had been set back when an engine *)
(* was in use, so that a time v of the engine is v + b in real time.       *)

\* Whatever was asked for, by an answer that is saved or that this process has
\* heard.
Asked == Later(kept, heard)

\* What is asked for each host is over or the engine knows of it.
Promised(e, w, b) ==
    \A h \in Hosts : w.must[h] <= now \/ w.must[h] <= e.cooldown[h] + b

\* So is the rest after a trip.
Rested(e, w, b) ==
    w.rest <= now \/ (e.circuit = "TRIPPED" /\ w.rest <= e.until + b)

\* n requests and the tokens left are what the burst and the time t have given,
\* and the bucket was filled at a time not after t.
Metered(e, n, b, t) ==
    /\ n * Cost <= Burst * Cost + t
    /\ n * Cost + e.tokens <= Burst * Cost + t
    /\ n * Cost + e.tokens <= Burst * Cost + e.refill + b

\* The requests that were granted and are not written off, and those of them
\* that the saved state must know of.
Charged == granted - interrupted
Told == Charged - Busy

EngineInv ==
    /\ Promised(eng, Asked, behind)
    /\ Rested(eng, Asked, behind)
    /\ Metered(eng, Charged, behind, now)

\* What was saved was so when it was saved, with the clock of that time.
SavedInv ==
    \E b \in 0..behind :
        /\ saved.time + b <= now
        /\ Promised(saved.eng, kept, b)
        /\ Rested(saved.eng, kept, b)
        /\ Metered(saved.eng, Told, b, saved.time + b)

\* A caller has waited, or waits long enough, for what is asked at its stage.
HasWaited(c) ==
    LET at == call[c].at
        wake == call[c].wake
        must == Asked.must[call[c].host]
    IN  /\ at = "cooling" => Asked.rest <= wake
        /\ at \in {"host", "tokens", "slot", "request", "answered"} => Asked.rest <= now
        /\ at = "host" => must <= wake
        /\ at \in {"tokens", "slot", "request"} => must <= now
        /\ at = "tokens" => (Charged + 1) * Cost <= Burst * Cost + wake
        /\ at = "slot" => Metered(eng, Charged + 1, behind, now)

CallInv == \A c \in Callers : HasWaited(c)

IInv == EngineOK /\ PastOK /\ EngineInv /\ SavedInv /\ CallInv

-----------------------------------------------------------------------------
(* Numbers *)

LEMMA Constants ==
    /\ MinDelay \in Nat \ {0} /\ MaxDelay \in Nat \ {0} /\ MaxBackoff \in Nat \ {0}
    /\ Burst \in Nat \ {0} /\ Cost \in Nat \ {0} /\ Tripwire \in Nat \ {0}
    /\ Cooldown \in Nat \ {0} /\ MaxRetryAfter \in Nat \ {0}
    /\ MaxErrors \in Nat \ {0} /\ MaxTime \in Nat /\ MaxJump \in Nat
    /\ MinDelay <= MaxDelay /\ MinDelay <= MaxBackoff
    /\ IsFiniteSet(Callers)
  BY PolitenessAssumption

\* The cost of one request more.
LEMMA OneMore ==
    /\ Burst * Cost \in Nat
    /\ \A n \in Int : n * Cost \in Int /\ (n + 1) * Cost = n * Cost + Cost
<1>1. Burst \in Nat /\ Cost \in Nat
  BY Constants
<1>2. Burst * Cost \in Nat /\ \A n \in Int : n * Cost \in Int
  BY <1>1
<1>3. \A n \in Int : (n + 1) * Cost = n * Cost + Cost
  BY <1>1
<1> QED
  BY <1>2, <1>3

LEMMA ClockIsInt == EngineOK => clock \in Int /\ now = clock + behind
  BY DEF EngineOK, clock

\* The fields of an engine.
LEMMA EngineFields ==
    ASSUME NEW e \in Engines
    PROVE  /\ e.circuit \in Circuits /\ e.until \in Int
           /\ e.cooldown \in [Hosts -> Int] /\ e.tokens \in Int
           /\ e.refill \in Int /\ e.next \in Int
           /\ e.backoff \in MinDelay..MaxBackoff /\ e.strained \in BOOLEAN
  BY DEF Engines

\* Whatever is asked for is asked for at some time.
LEMMA WaitsAreTimes ==
    /\ \A v, w \in Waits : Later(v, w) \in Waits
    /\ PastOK => Asked \in Waits
    /\ \A v, w \in Waits : \A h \in Hosts :
          /\ Later(v, w).must[h] = Larger(v.must[h], w.must[h])
          /\ Later(v, w).rest = Larger(v.rest, w.rest)
    /\ \A w \in Waits : w.rest \in Nat /\ \A h \in Hosts : w.must[h] \in Nat
<1>1. \A w \in Waits : w.rest \in Nat /\ \A h \in Hosts : w.must[h] \in Nat
  BY DEF Waits
<1>2. ASSUME NEW v \in Waits, NEW w \in Waits PROVE Later(v, w) \in Waits
  <2>1. \A m, n \in Nat : Larger(m, n) \in Nat
    BY DEF Larger
  <2> QED
    BY <1>1, <2>1 DEF Later, Waits
<1>3. \A v, w : \A h \in Hosts :
          /\ Later(v, w).must[h] = Larger(v.must[h], w.must[h])
          /\ Later(v, w).rest = Larger(v.rest, w.rest)
  BY DEF Later
<1> QED
  BY <1>1, <1>2, <1>3 DEF Asked, PastOK

\* What was saved is asked for, and so is what this process has heard.
LEMMA AskedIsAll ==
    ASSUME PastOK, NEW h \in Hosts
    PROVE  /\ Asked.must[h] \in Nat /\ Asked.rest \in Nat
           /\ heard.must[h] <= Asked.must[h] /\ kept.must[h] <= Asked.must[h]
           /\ heard.rest <= Asked.rest /\ kept.rest <= Asked.rest
           /\ Asked.must[h] = Larger(kept.must[h], heard.must[h])
           /\ Asked.rest = Larger(kept.rest, heard.rest)
<1>1. heard \in Waits /\ kept \in Waits
  BY DEF PastOK
<1>2. /\ Asked.must[h] = Larger(kept.must[h], heard.must[h])
      /\ Asked.rest = Larger(kept.rest, heard.rest)
  BY <1>1, WaitsAreTimes DEF Asked
<1>3. /\ heard.must[h] \in Nat /\ kept.must[h] \in Nat
      /\ heard.rest \in Nat /\ kept.rest \in Nat
  BY <1>1, WaitsAreTimes
<1> QED
  BY <1>2, <1>3 DEF Larger

\* A caller that is permitted is counted, and with one caller none else is.
LEMMA BusyCounts ==
    ASSUME OneCaller, NEW c \in Callers, NEW f
    PROVE  Cardinality({d \in Callers : f[d].at \in Asking})
              = IF f[c].at \in Asking THEN 1 ELSE 0
<1> DEFINE S == {d \in Callers : f[d].at \in Asking}
<1>1. CASE f[c].at \in Asking
  <2>1. S = {c}
    BY <1>1 DEF OneCaller
  <2> QED
    BY <1>1, <2>1, FS_Singleton
<1>2. CASE f[c].at \notin Asking
  <2>1. S = {}
    BY <1>2 DEF OneCaller
  <2> QED
    BY <1>2, <2>1, FS_EmptySet
<1> QED
  BY <1>1, <1>2

LEMMA BusyIsNat == Busy \in Nat
<1>1. {c \in Callers : call[c].at \in Asking} \in SUBSET Callers
  OBVIOUS
<1> QED
  BY <1>1, Constants, FS_Subset, FS_CardinalityType DEF Busy

\* A bucket that is filled holds no more than the time has given.
LEMMA RefillIsMetered ==
    ASSUME EngineOK, NEW e \in Engines, NEW n \in Int, Metered(e, n, behind, now)
    PROVE  /\ Refill(e) \in Engines
           /\ Metered(Refill(e), n, behind, now)
           /\ Refill(e).cooldown = e.cooldown /\ Refill(e).circuit = e.circuit
           /\ Refill(e).until = e.until
           /\ Refill(e).next = e.next /\ Refill(e).backoff = e.backoff
<1> DEFINE r == Refill(e)
           s == Smaller(Burst * Cost, e.tokens + (clock - e.refill))
<1>1. clock \in Int /\ now = clock + behind /\ now \in Nat /\ behind \in Nat
  BY ClockIsInt, Constants DEF EngineOK
<1>2. e.tokens \in Int /\ e.refill \in Int
  BY EngineFields
<1>3. Burst * Cost \in Nat /\ n * Cost \in Int
  BY OneMore
<1>4. s \in Int /\ s <= e.tokens + (clock - e.refill)
  BY <1>1, <1>2, <1>3 DEF Smaller
<1>5. r = [e EXCEPT !.tokens = s, !.refill = clock]
  BY DEF Refill
<1> HIDE DEF s
<1>6. r \in Engines
  BY <1>1, <1>4, <1>5 DEF Engines
<1>7. r.tokens = s /\ r.refill = clock
  BY <1>5 DEF Engines
<1>8. /\ r.cooldown = e.cooldown /\ r.circuit = e.circuit
      /\ r.until = e.until
      /\ r.next = e.next /\ r.backoff = e.backoff
  BY <1>5 DEF Engines
<1>9. Metered(r, n, behind, now)
  BY <1>1, <1>2, <1>3, <1>4, <1>7 DEF Metered
<1> QED
  BY <1>6, <1>8, <1>9

\* Time passes for what was saved.
LEMMA SavedStays ==
    ASSUME EngineOK, PastOK, SavedInv, saved' = saved, kept' = kept, Told' = Told,
           now' \in Nat, behind' \in Nat, now' >= now, behind' >= behind
    PROVE  SavedInv'
<1>1. PICK b \in 0..behind :
        /\ saved.time + b <= now
        /\ Promised(saved.eng, kept, b)
        /\ Rested(saved.eng, kept, b)
        /\ Metered(saved.eng, Told, b, saved.time + b)
  BY DEF SavedInv
<1>2. /\ saved.eng \in Engines /\ saved.time \in Int
      /\ now \in Nat /\ behind \in Nat
  BY Constants DEF EngineOK
<1>3. b \in 0..behind' /\ saved'.time + b <= now'
  BY <1>1, <1>2
<1>4. kept.rest \in Nat /\ \A h \in Hosts : kept.must[h] \in Nat
  BY WaitsAreTimes DEF PastOK
<1>5. Promised(saved.eng, kept, b)'
  BY <1>1, <1>2, <1>4 DEF Promised
<1>6. Rested(saved.eng, kept, b)'
  BY <1>1, <1>2, <1>4 DEF Rested
<1>7. Metered(saved'.eng, Told', b, saved'.time + b)
  BY <1>1 DEF Metered
<1> QED
  BY <1>3, <1>5, <1>6, <1>7 DEF SavedInv, Metered

\* Facts about a state in which the invariant holds.
LEMMA StateFacts ==
    ASSUME IInv
    PROVE  /\ now \in Nat /\ behind \in Nat /\ clock \in Int /\ now = clock + behind
           /\ eng \in Engines /\ call \in [Callers -> Calls]
           /\ saved.eng \in Engines /\ saved.time \in Int
           /\ eng.until \in Int /\ Charged \in Int /\ Told \in Int
           /\ Asked \in Waits /\ Asked.rest \in Nat
           /\ \A h \in Hosts : Asked.must[h] \in Nat
           /\ Promised(eng, Asked, behind) /\ Rested(eng, Asked, behind)
           /\ Metered(eng, Charged, behind, now)
<1>1. /\ now \in Nat /\ behind \in Nat /\ clock \in Int /\ now = clock + behind
      /\ eng \in Engines /\ call \in [Callers -> Calls]
      /\ saved.eng \in Engines /\ saved.time \in Int
  BY ClockIsInt, Constants DEF IInv, EngineOK
<1>2. eng.until \in Int
  BY <1>1, EngineFields
<1>3. Charged \in Int /\ Told \in Int
  BY BusyIsNat DEF Charged, Told, IInv, PastOK
<1>4. /\ Asked \in Waits /\ Asked.rest \in Nat
      /\ \A h \in Hosts : Asked.must[h] \in Nat
  BY WaitsAreTimes DEF IInv
<1> QED
  BY <1>1, <1>2, <1>3, <1>4 DEF IInv, EngineInv

-----------------------------------------------------------------------------
(* The stages of acquire_permission *)

\* A caller goes to sleep.
LEMMA SleepIsLong ==
    ASSUME EngineOK, NEW c \in Callers, NEW h \in Hosts, NEW place \in Sleeping,
           NEW ticks \in Int, Sleep(c, h, place, ticks)
    PROVE  /\ call' \in [Callers -> Calls]
           /\ call'[c].at = place /\ call'[c].host = h
           /\ call'[c].wake \in Int
           /\ call'[c].wake >= now /\ call'[c].wake >= now + ticks
           /\ ticks >= 0 => call'[c].wake = now + ticks
           /\ \A d \in Callers : d # c => call'[d] = call[d]
<1>1. now \in Nat /\ Larger(0, ticks) \in Nat /\ Larger(0, ticks) >= ticks
      /\ (ticks >= 0 => Larger(0, ticks) = ticks)
  BY Constants DEF EngineOK, Larger
<1>2. call' = [call EXCEPT ![c] =
                [at |-> place, host |-> h, wake |-> now + Larger(0, ticks)]]
  BY DEF Sleep
<1>3. [at |-> place, host |-> h, wake |-> now + Larger(0, ticks)] \in Calls
  BY <1>1 DEF Calls
<1>4. call \in [Callers -> Calls]
  BY DEF EngineOK
<1>5. call'[c] = [at |-> place, host |-> h, wake |-> now + Larger(0, ticks)]
  BY <1>2, <1>4
<1>6. \A d \in Callers : d # c => call'[d] = call[d]
  BY <1>2, <1>4
<1> QED
  BY <1>1, <1>2, <1>3, <1>4, <1>5, <1>6

\* A step of the only caller that saves nothing.
LEMMA CallerEnds ==
    ASSUME OneCaller, IInv, UNCHANGED <<now, behind, saved, kept>>, PastOK',
           Told' = Told, NEW c \in Callers,
           eng' \in Engines, call' \in [Callers -> Calls],
           Promised(eng, Asked, behind)', Rested(eng, Asked, behind)',
           Metered(eng, Charged, behind, now)', HasWaited(c)'
    PROVE  IInv'
<1>1. EngineOK'
  BY DEF IInv, EngineOK
<1>2. EngineInv'
  BY DEF EngineInv
<1>3. SavedInv'
  BY StateFacts, SavedStays DEF IInv
<1>4. CallInv'
  BY DEF OneCaller, CallInv
<1> QED
  BY <1>1, <1>2, <1>3, <1>4 DEF IInv

\* What the history keeps when nothing happens that it tells of.
LEMMA PastStays ==
    ASSUME OneCaller, UNCHANGED past, NEW c \in Callers,
           call[c].at \in Asking <=> call'[c].at \in Asking
    PROVE  /\ Asked' = Asked /\ Charged' = Charged /\ Told' = Told
           /\ PastOK => PastOK'
<1>1. Asked' = Asked /\ Charged' = Charged
  BY DEF past, Asked, Charged, Later
<1>2. PastOK => PastOK'
  BY DEF past, PastOK
<1>3. Busy' = Busy
  BY OneCaller DEF OneCaller, Busy
<1> QED
  BY <1>1, <1>2, <1>3 DEF Told

\* What holds of the engine that one stage hands to the next.
Ready(h, e) ==
    /\ e \in Engines
    /\ Promised(e, Asked, behind)
    /\ Asked.rest <= now
    /\ Metered(e, Charged, behind, now)

\* How a stage ends: the new engine and what its caller sleeps for.
LEMMA StageEnds ==
    ASSUME OneCaller, IInv, UNCHANGED <<now, behind, saved, past>>,
           NEW c \in Callers, NEW h \in Hosts, NEW e \in Engines, eng' = e,
           call[c].at \notin Asking, call'[c].at \notin Asking,
           Promised(e, Asked, behind), Rested(e, Asked, behind),
           Metered(e, Charged, behind, now),
           call' \in [Callers -> Calls], call'[c].host = h,
           call'[c].at = "cooling" => Asked.rest <= call'[c].wake,
           call'[c].at # "cooling" /\ call'[c].at # "idle" => Asked.rest <= now,
           call'[c].at = "host" => Asked.must[h] <= call'[c].wake,
           call'[c].at \in {"tokens", "slot"} => Asked.must[h] <= now,
           call'[c].at = "tokens" =>
              (Charged + 1) * Cost <= Burst * Cost + call'[c].wake,
           call'[c].at = "slot" => Metered(e, Charged + 1, behind, now)
    PROVE  IInv'
<1>1. /\ Asked' = Asked /\ Charged' = Charged /\ Told' = Told /\ PastOK'
      /\ kept' = kept
  BY PastStays DEF past, IInv
<1>2. Promised(eng, Asked, behind)' /\ Rested(eng, Asked, behind)'
  BY <1>1 DEF Promised, Rested
<1>3. Metered(eng, Charged, behind, now)'
  BY <1>1 DEF Metered
<1>4. call'[c].at = "slot" => Metered(eng, Charged + 1, behind, now)'
  BY <1>1 DEF Metered
<1>5. HasWaited(c)'
  BY <1>1, <1>4 DEF HasWaited, Asking
<1> QED
  BY <1>1, <1>2, <1>3, <1>5, CallerEnds

LEMMA ReserveIsKept ==
    ASSUME OneCaller, IInv, UNCHANGED <<now, behind, saved, past>>,
           NEW c \in Callers, NEW h \in Hosts, NEW e, Ready(h, e),
           call[c].at \notin Asking,
           Asked.must[h] <= now, (Charged + 1) * Cost <= Burst * Cost + now,
           Reserve(c, h, e)
    PROVE  IInv'
<1>1. PICK jitter \in Jitters, stretch \in {1, 3} :
        LET circuit == IF stretch > 1 /\ e.circuit = "NOMINAL"
                       THEN "THROTTLED" ELSE e.circuit
            delay == IF circuit = "THROTTLED"
                     THEN Larger(jitter * stretch, e.backoff) ELSE jitter * stretch
            slot == Larger(clock, e.next) + delay
        IN /\ eng' = [e EXCEPT !.tokens = @ - Cost, !.circuit = circuit,
                               !.next = slot]
           /\ Sleep(c, h, "slot", slot - clock)
  BY DEF Reserve, NextSlot
<1> DEFINE circuit == IF stretch > 1 /\ e.circuit = "NOMINAL"
                      THEN "THROTTLED" ELSE e.circuit
           delay == IF circuit = "THROTTLED"
                    THEN Larger(jitter * stretch, e.backoff) ELSE jitter * stretch
           slot == Larger(clock, e.next) + delay
<1>2. /\ e \in Engines /\ Promised(e, Asked, behind) /\ Asked.rest <= now
      /\ Metered(e, Charged, behind, now)
  BY DEF Ready
<1>3. clock \in Int /\ now \in Nat /\ behind \in Nat /\ jitter \in Nat
  BY Constants, StateFacts DEF Jitters
<1>4. circuit \in Circuits
  BY <1>2, EngineFields DEF Circuits
<1>5. slot \in Int
  <2>1. jitter * stretch \in Int /\ e.backoff \in Int /\ e.next \in Int
    BY <1>2, <1>3, EngineFields, Constants
  <2> QED
    BY <1>3, <2>1 DEF Larger
<1> HIDE DEF circuit, delay, slot
<1>6. eng' = [e EXCEPT !.tokens = @ - Cost, !.circuit = circuit, !.next = slot]
      /\ Sleep(c, h, "slot", slot - clock)
  BY <1>1 DEF circuit, delay, slot
<1>7. /\ eng' \in Engines
      /\ eng'.cooldown = e.cooldown /\ eng'.tokens = e.tokens - Cost
      /\ eng'.refill = e.refill
  <2>1. e.tokens - Cost \in Int
    BY <1>2, EngineFields, Constants
  <2>2. eng' = [e EXCEPT !.tokens = e.tokens - Cost, !.circuit = circuit,
                         !.next = slot]
    BY <1>6
  <2> QED
    BY <1>2, <1>4, <1>5, <2>1, <2>2 DEF Engines
<1>8. /\ call' \in [Callers -> Calls] /\ call'[c].at = "slot"
      /\ call'[c].host = h
  BY <1>3, <1>5, <1>6, SleepIsLong DEF Sleeping, IInv
<1>9. Charged \in Int /\ e.tokens \in Int /\ e.refill \in Int
  BY <1>2, EngineFields, StateFacts
<1>10. /\ Metered(eng', Charged, behind, now)
       /\ Metered(eng', Charged + 1, behind, now)
  <2>1. /\ Charged * Cost \in Int /\ Burst * Cost \in Nat /\ Cost \in Nat
        /\ (Charged + 1) * Cost = Charged * Cost + Cost
    BY <1>9, OneMore, Constants
  <2>2. /\ Charged * Cost <= Burst * Cost + now
        /\ Charged * Cost + e.tokens <= Burst * Cost + now
        /\ Charged * Cost + e.tokens <= Burst * Cost + e.refill + behind
    BY <1>2 DEF Metered
  <2>3. eng'.tokens = e.tokens - Cost /\ eng'.refill = e.refill
    BY <1>7
  <2> QED
    BY <1>3, <1>9, <2>1, <2>2, <2>3 DEF Metered
<1>11. Promised(eng', Asked, behind) /\ Rested(eng', Asked, behind)
  BY <1>2, <1>7 DEF Promised, Rested
<1> QED
  BY <1>2, <1>7, <1>8, <1>10, <1>11, StageEnds DEF Asking

LEMMA TakeTokenIsKept ==
    ASSUME OneCaller, IInv, UNCHANGED <<now, behind, saved, past>>,
           NEW c \in Callers, NEW h \in Hosts, NEW e, Ready(h, e),
           call[c].at \notin Asking, Asked.must[h] <= now, TakeToken(c, h, e)
    PROVE  IInv'
<1> DEFINE r == Refill(e)
<1>1. /\ e \in Engines /\ Promised(e, Asked, behind) /\ Asked.rest <= now
      /\ Metered(e, Charged, behind, now) /\ Charged \in Int /\ EngineOK
  BY StateFacts DEF Ready, IInv
<1>2. /\ r \in Engines /\ Metered(r, Charged, behind, now)
      /\ r.cooldown = e.cooldown
  BY <1>1, RefillIsMetered
<1> HIDE DEF r
<1>3. Ready(h, r)
  BY <1>1, <1>2 DEF Ready, Promised
<1>4. r.tokens \in Int /\ now \in Nat /\ Cost \in Nat
  BY <1>2, EngineFields, Constants, StateFacts
<1>5. /\ Charged * Cost \in Int /\ Burst * Cost \in Nat
      /\ (Charged + 1) * Cost = Charged * Cost + Cost
  BY <1>1, OneMore
<1>6. Charged * Cost + r.tokens <= Burst * Cost + now
  BY <1>2 DEF Metered
<1>7. CASE r.tokens < Cost
  <2>1. eng' = r /\ Sleep(c, h, "tokens", Cost - r.tokens)
    BY <1>7 DEF TakeToken, r
  <2>2. /\ call' \in [Callers -> Calls] /\ call'[c].at = "tokens"
        /\ call'[c].host = h /\ call'[c].wake = now + (Cost - r.tokens)
    BY <1>1, <1>4, <1>7, <2>1, SleepIsLong DEF Sleeping
  <2>3. (Charged + 1) * Cost <= Burst * Cost + call'[c].wake
    BY <1>4, <1>5, <1>6, <2>2
  <2>4. Promised(r, Asked, behind) /\ Rested(r, Asked, behind)
    BY <1>1, <1>2, <1>3 DEF Ready, Rested
  <2> QED
    BY <1>1, <1>2, <2>1, <2>2, <2>3, <2>4, StageEnds DEF Asking
<1>8. CASE ~(r.tokens < Cost)
  <2>1. Reserve(c, h, r)
    BY <1>8 DEF TakeToken, r
  <2>2. (Charged + 1) * Cost <= Burst * Cost + now
    BY <1>4, <1>5, <1>6, <1>8
  <2> QED
    BY <1>2, <1>3, <2>1, <2>2, ReserveIsKept
<1> QED
  BY <1>7, <1>8

LEMMA CheckHostIsKept ==
    ASSUME OneCaller, IInv, UNCHANGED <<now, behind, saved, past>>,
           NEW c \in Callers, NEW h \in Hosts, NEW e, Ready(h, e),
           call[c].at \notin Asking, CheckHost(c, h, e)
    PROVE  IInv'
<1>1. /\ e \in Engines /\ Promised(e, Asked, behind) /\ Asked.rest <= now
      /\ Metered(e, Charged, behind, now) /\ EngineOK
  BY DEF Ready, IInv
<1>2. e.cooldown[h] \in Int /\ Asked.must[h] \in Nat
  BY <1>1, EngineFields, StateFacts
<1>3. clock \in Int /\ now = clock + behind /\ now \in Nat /\ behind \in Nat
  BY StateFacts
<1>4. Asked.must[h] <= now \/ Asked.must[h] <= e.cooldown[h] + behind
  BY <1>1 DEF Promised
<1>5. CASE clock < e.cooldown[h]
  <2>1. eng' = e /\ Sleep(c, h, "host", e.cooldown[h] - clock)
    BY <1>5 DEF CheckHost
  <2>2. /\ call' \in [Callers -> Calls] /\ call'[c].at = "host"
        /\ call'[c].host = h /\ call'[c].wake = now + (e.cooldown[h] - clock)
    BY <1>1, <1>2, <1>3, <1>5, <2>1, SleepIsLong DEF Sleeping
  <2>3. Asked.must[h] <= call'[c].wake
    BY <1>2, <1>3, <1>4, <1>5, <2>2
  <2> QED
    BY <1>1, <2>1, <2>2, <2>3, StageEnds DEF Rested, Asking
<1>6. CASE ~(clock < e.cooldown[h])
  <2>1. Asked.must[h] <= now
    BY <1>2, <1>3, <1>4, <1>6
  <2>2. TakeToken(c, h, e)
    BY <1>6 DEF CheckHost
  <2> QED
    BY <2>1, <2>2, TakeTokenIsKept
<1> QED
  BY <1>5, <1>6

-----------------------------------------------------------------------------
(* The actions *)

LEMMA InitIsKept == Init => IInv
<1> SUFFICES ASSUME Init PROVE IInv
  OBVIOUS
<1>1. /\ now = 0 /\ behind = 0 /\ eng = Fresh
      /\ saved = [eng |-> Fresh, time |-> 0]
      /\ heard = NoWaits /\ kept = NoWaits /\ granted = 0 /\ interrupted = 0
  BY DEF Init
<1>2. PICK h \in Hosts :
        call = [c \in Callers |-> [at |-> "idle", host |-> h, wake |-> 0]]
  BY DEF Init
<1>3. Burst * Cost \in Nat
  BY OneMore
<1>4. clock = 0
  BY <1>1 DEF clock
<1>5. /\ Fresh \in Engines
      /\ Fresh.until = 0 /\ Fresh.refill = 0
      /\ Fresh.tokens = Burst * Cost
  <2>1. 0 \in 0..MaxErrors /\ MinDelay \in MinDelay..MaxBackoff
    BY Constants
  <2>2. "NOMINAL" \in Circuits
    BY DEF Circuits
  <2> QED
    BY <1>3, <1>4, <2>1, <2>2 DEF Fresh, Engines
<1>6. call \in [Callers -> Calls] /\ \A c \in Callers : call[c].at = "idle"
  BY <1>2 DEF Calls
<1>7. EngineOK
  BY <1>1, <1>5, <1>6, Constants DEF EngineOK
<1>8. PastOK
  BY <1>1 DEF PastOK, NoWaits, Waits
<1>9. /\ Asked.rest = 0 /\ kept.rest = 0
      /\ \A g \in Hosts : Asked.must[g] = 0 /\ kept.must[g] = 0
  BY <1>1 DEF Asked, Later, NoWaits, Larger
<1>10. Charged = 0 /\ Told = 0
  <2>1. Busy = 0
    <3>1. {c \in Callers : call[c].at \in Asking} = {}
      BY <1>6 DEF Asking
    <3> QED
      BY <3>1, FS_EmptySet DEF Busy
  <2> QED
    BY <1>1, <2>1 DEF Charged, Told
<1>11. /\ Promised(Fresh, Asked, 0) /\ Rested(Fresh, Asked, 0)
       /\ Promised(Fresh, kept, 0) /\ Rested(Fresh, kept, 0)
       /\ Metered(Fresh, 0, 0, 0)
  <2>1. 0 * Cost = 0
    BY Constants
  <2>2. Metered(Fresh, 0, 0, 0)
    BY <1>3, <1>5, <2>1 DEF Metered
  <2> QED
    BY <1>1, <1>9, <2>2 DEF Promised, Rested
<1>12. EngineInv
  BY <1>1, <1>10, <1>11 DEF EngineInv
<1>13. SavedInv
  BY <1>1, <1>10, <1>11 DEF SavedInv
<1>14. CallInv
  BY <1>6 DEF CallInv, HasWaited
<1> QED
  BY <1>7, <1>8, <1>12, <1>13, <1>14 DEF IInv

\* The clock moves: a wait that is over stays over, a time of the engine comes
\* no sooner in real time.
LEMMA ClockIsKept ==
    ASSUME IInv, Tick \/ SetBack
    PROVE  IInv'
<1>1. /\ eng' = eng /\ call' = call /\ saved' = saved
      /\ now' \in 0..MaxTime /\ behind' \in 0..MaxJump
      /\ now' >= now /\ behind' >= behind /\ now \in Nat /\ behind \in Nat
      /\ UNCHANGED past
  BY Constants DEF IInv, EngineOK, Tick, SetBack
<1>2. EngineOK' /\ PastOK'
  BY <1>1 DEF IInv, EngineOK, PastOK, past
<1>3. Asked' = Asked /\ Charged' = Charged /\ Told' = Told /\ kept' = kept
  BY <1>1 DEF past, Asked, Later, Charged, Told, Busy
<1>4. SavedInv'
  BY <1>1, <1>3, SavedStays DEF IInv
<1>5. /\ eng \in Engines /\ Charged \in Int
      /\ eng.tokens \in Int /\ eng.refill \in Int /\ eng.until \in Int
      /\ \A h \in Hosts : Asked.must[h] \in Nat /\ eng.cooldown[h] \in Int
      /\ Asked.rest \in Nat
  BY EngineFields, StateFacts
<1>6. /\ Burst * Cost \in Nat /\ Charged * Cost \in Int
      /\ (Charged + 1) * Cost \in Int
  BY <1>5, OneMore
<1>7. EngineInv'
  <2>1. Promised(eng, Asked, behind)'
    BY <1>1, <1>3, <1>5, StateFacts DEF Promised
  <2>2. Rested(eng, Asked, behind)'
    BY <1>1, <1>3, <1>5, StateFacts DEF Rested
  <2>3. Metered(eng, Charged, behind, now)'
    BY <1>1, <1>3, <1>5, <1>6, StateFacts DEF Metered
  <2> QED
    BY <2>1, <2>2, <2>3 DEF EngineInv
<1>8. CallInv'
  <2>1. SUFFICES ASSUME NEW c \in Callers PROVE HasWaited(c)'
    BY DEF CallInv
  <2>2. call[c] \in Calls /\ call[c].wake \in Int /\ call[c].host \in Hosts
    BY StateFacts DEF Calls
  <2>3. Asked.must[call[c].host] \in Nat
    BY <1>5, <2>2
  <2>4. ASSUME Metered(eng, Charged + 1, behind, now)
        PROVE  Metered(eng, Charged + 1, behind, now)'
    BY <1>1, <1>3, <1>5, <1>6, <2>4 DEF Metered
  <2> QED
    BY <1>1, <1>3, <1>5, <2>2, <2>3, <2>4 DEF IInv, CallInv, HasWaited
<1> QED
  BY <1>2, <1>4, <1>7, <1>8 DEF IInv

\* The circuit changes, once the rest after a trip is over.
LEMMA CircuitIsKept ==
    ASSUME IInv, NEW h \in Hosts, Asked.rest <= now, NEW circuit \in Circuits
    PROVE  Ready(h, [eng EXCEPT !.circuit = circuit])
<1> DEFINE e == [eng EXCEPT !.circuit = circuit]
<1>1. eng \in Engines
  BY StateFacts
<1>2. /\ e \in Engines
      /\ e.cooldown = eng.cooldown /\ e.tokens = eng.tokens
      /\ e.refill = eng.refill
  BY <1>1 DEF Engines
<1> HIDE DEF e
<1>3. Promised(e, Asked, behind) /\ Metered(e, Charged, behind, now)
  BY <1>2, StateFacts DEF Promised, Metered
<1>4. Ready(h, e)
  BY <1>2, <1>3 DEF Ready
<1> QED
  BY <1>4 DEF e

LEMMA AcquireIsKept ==
    ASSUME OneCaller, IInv, NEW c \in Callers, NEW h \in Hosts, Acquire(c, h)
    PROVE  IInv'
<1>1. /\ UNCHANGED <<now, behind, saved, past>> /\ EngineOK
      /\ call[c].at \notin Asking
  BY DEF IInv, Acquire, Asking
<1>2. CASE eng.circuit = "TRIPPED" /\ clock < eng.until
  <2>1. eng' = eng /\ Sleep(c, h, "cooling", eng.until - clock)
    BY <1>2 DEF Acquire
  <2>2. /\ call' \in [Callers -> Calls] /\ call'[c].at = "cooling"
        /\ call'[c].host = h /\ call'[c].wake = now + (eng.until - clock)
    BY <1>1, <1>2, <2>1, SleepIsLong, StateFacts DEF Sleeping
  <2>3. Asked.rest <= call'[c].wake
    BY <1>2, <2>2, StateFacts DEF Rested
  <2> QED
    BY <1>1, <2>1, <2>2, <2>3, StageEnds, StateFacts DEF Asking
<1>3. CASE ~ (eng.circuit = "TRIPPED" /\ clock < eng.until)
  <2>1. CheckHost(c, h, HalfOpen(eng))
    BY <1>3 DEF Acquire
  <2>2. Asked.rest <= now
    BY <1>3, StateFacts DEF Rested
  <2>3. Ready(h, HalfOpen(eng))
    <3>1. Ready(h, [eng EXCEPT !.circuit = "HALF_OPEN"])
      BY <2>2, CircuitIsKept DEF Circuits
    <3>2. Ready(h, eng)
      BY <2>2, StateFacts DEF Ready
    <3> QED
      BY <3>1, <3>2 DEF HalfOpen
  <2> QED
    BY <1>1, <2>1, <2>3, CheckHostIsKept
<1> QED
  BY <1>2, <1>3

\* A caller that waits for its slot, and then is permitted its request.
LEMMA PermitIsKept ==
    ASSUME OneCaller, IInv, NEW c \in Callers, Awake(c), call[c].at = "slot"
    PROVE  IInv'
<1>1. /\ UNCHANGED <<now, behind, saved, kept, heard, interrupted>>
      /\ HasWaited(c) /\ eng' = eng /\ granted' = granted + 1
      /\ call' = [call EXCEPT ![c].at = "request"]
  BY DEF IInv, Awake, CallInv
<1>2. /\ call' \in [Callers -> Calls] /\ call'[c].at = "request"
      /\ call'[c].host = call[c].host /\ call[c].host \in Hosts
  BY <1>1, StateFacts DEF Calls, Asking
<1>3. Asked' = Asked /\ PastOK'
  BY <1>1 DEF Asked, Later, PastOK, IInv
<1>4. Charged' = Charged + 1 /\ Told' = Told
  <2>1. Busy = 0 /\ Busy' = 1
    BY <1>2, BusyCounts DEF Busy, Asking
  <2>2. granted \in Nat /\ interrupted \in Nat
    BY DEF IInv, PastOK
  <2> QED
    BY <1>1, <2>1, <2>2 DEF Charged, Told
<1>5. /\ Promised(eng, Asked, behind)' /\ Rested(eng, Asked, behind)'
  BY <1>1, <1>3, StateFacts DEF Promised, Rested
<1>6. Metered(eng, Charged, behind, now)'
  BY <1>1, <1>4 DEF HasWaited, Metered
<1>7. HasWaited(c)'
  BY <1>1, <1>2, <1>3 DEF HasWaited
<1> QED
  BY <1>1, <1>2, <1>3, <1>4, <1>5, <1>6, <1>7, CallerEnds, StateFacts

LEMMA AwakeIsKept ==
    ASSUME OneCaller, IInv, NEW c \in Callers, Awake(c)
    PROVE  IInv'
<1> DEFINE h == call[c].host
<1>1. /\ EngineOK /\ UNCHANGED <<now, behind, saved>>
      /\ call[c].at \in Sleeping /\ now >= call[c].wake /\ HasWaited(c)
      /\ call[c].at # "slot" => UNCHANGED past
      /\ call[c].at \notin Asking
  BY DEF IInv, Awake, CallInv, past, Sleeping, Asking
<1>2. call[c] \in Calls /\ h \in Hosts /\ call[c].wake \in Int
  BY StateFacts DEF Calls
<1>3. Asked.must[h] \in Nat /\ Asked.rest \in Nat
  BY <1>2, StateFacts
<1>4. Asked.rest <= now
  BY <1>1, <1>2, <1>3, StateFacts DEF HasWaited, Sleeping
<1>5. CASE call[c].at = "cooling"
  <2>1. CheckHost(c, h, [eng EXCEPT !.circuit = "HALF_OPEN"])
    BY <1>5 DEF Awake
  <2>2. Ready(h, [eng EXCEPT !.circuit = "HALF_OPEN"])
    BY <1>2, <1>4, CircuitIsKept DEF Circuits
  <2> QED
    BY <1>1, <1>2, <1>5, <2>1, <2>2, CheckHostIsKept
<1>6. CASE call[c].at = "host"
  <2> DEFINE e == [eng EXCEPT !.cooldown[h] = 0]
  <2>1. TakeToken(c, h, e)
    BY <1>6 DEF Awake
  <2>2. Asked.must[h] <= now
    BY <1>1, <1>2, <1>3, <1>6, StateFacts DEF HasWaited
  <2>3. /\ e \in Engines
        /\ e.tokens = eng.tokens /\ e.refill = eng.refill
        /\ \A g \in Hosts : g # h => e.cooldown[g] = eng.cooldown[g]
    BY <1>2, StateFacts DEF Engines
  <2> HIDE DEF e
  <2>4. Promised(e, Asked, behind)
    BY <2>2, <2>3, StateFacts DEF Promised
  <2>5. Metered(e, Charged, behind, now)
    BY <2>3, StateFacts DEF Metered
  <2>6. Ready(h, e)
    BY <1>4, <2>3, <2>4, <2>5 DEF Ready
  <2> QED
    BY <1>1, <1>2, <1>6, <2>1, <2>2, <2>6, TakeTokenIsKept
<1>7. CASE call[c].at = "tokens"
  <2> DEFINE e == Refill(eng)
  <2>1. Reserve(c, h, e)
    BY <1>7 DEF Awake
  <2>2. Asked.must[h] <= now
    BY <1>1, <1>7 DEF HasWaited
  <2>3. (Charged + 1) * Cost <= Burst * Cost + now
    <3>1. (Charged + 1) * Cost <= Burst * Cost + call[c].wake
      BY <1>1, <1>7 DEF HasWaited
    <3>2. (Charged + 1) * Cost \in Int /\ Burst * Cost \in Nat
      BY OneMore, StateFacts
    <3> QED
      BY <1>1, <1>2, <3>1, <3>2, StateFacts
  <2>4. /\ e \in Engines /\ Metered(e, Charged, behind, now)
        /\ e.cooldown = eng.cooldown
    BY <1>1, RefillIsMetered, StateFacts
  <2> HIDE DEF e
  <2>5. Ready(h, e)
    BY <1>4, <2>4, StateFacts DEF Ready, Promised
  <2> QED
    BY <1>1, <1>2, <1>7, <2>1, <2>2, <2>3, <2>5, ReserveIsKept
<1>8. CASE call[c].at = "slot"
  BY <1>8, PermitIsKept
<1> QED
  BY <1>1, <1>5, <1>6, <1>7, <1>8 DEF Sleeping

LEMMA AbortIsKept ==
    ASSUME OneCaller, IInv, NEW c \in Callers, Abort(c)
    PROVE  IInv'
<1>1. /\ UNCHANGED <<now, behind, saved, past>> /\ eng' = eng
      /\ call' = [call EXCEPT ![c].at = "idle"]
      /\ call[c].at \notin Asking
  BY DEF Abort, Sleeping, Asking
<1>2. /\ call' \in [Callers -> Calls] /\ call'[c].at = "idle"
      /\ call'[c].host = call[c].host /\ call[c].host \in Hosts
  BY <1>1, StateFacts DEF Calls
<1> QED
  BY <1>1, <1>2, StageEnds, StateFacts DEF Asking

\* An answer that asks for nothing leaves what is promised as it is.
LEMMA AnswerIsKept ==
    ASSUME OneCaller, IInv, NEW c \in Callers,
           RecordSuccess(c) \/ RecordOther(c)
    PROVE  IInv'
<1>1. /\ call[c].at = "request" /\ UNCHANGED <<now, behind, saved, past>>
      /\ call' = [call EXCEPT ![c].at = "answered"]
  BY DEF RecordSuccess, RecordOther
<1>2. Asked.rest <= now
  BY <1>1 DEF IInv, CallInv, HasWaited
<1>3. /\ eng' \in Engines /\ eng'.cooldown = eng.cooldown
      /\ eng'.tokens = eng.tokens /\ eng'.refill = eng.refill
  <2>1. CASE eng' = eng
    BY <2>1, StateFacts
  <2>2. CASE RecordSuccess(c)
    <3>1. PICK strained \in BOOLEAN :
            eng' = [eng EXCEPT !.errors = 0, !.backoff = MinDelay,
                               !.strained = strained,
                               !.circuit = IF @ \in {"HALF_OPEN", "THROTTLED"}
                                           THEN "NOMINAL" ELSE @]
      BY <2>2 DEF RecordSuccess
    <3>2. 0 \in 0..MaxErrors /\ MinDelay \in MinDelay..MaxBackoff
      BY Constants
    <3> QED
      BY <3>1, <3>2, StateFacts DEF Engines, Circuits
  <2> QED
    BY <2>1, <2>2 DEF RecordOther
<1>4. /\ call' \in [Callers -> Calls] /\ call'[c].at = "answered"
      /\ call'[c].host = call[c].host
  BY <1>1, StateFacts DEF Calls, Asking
<1>5. Asked' = Asked /\ Charged' = Charged /\ Told' = Told /\ PastOK'
  BY <1>1, <1>4, PastStays DEF IInv, Asking
<1>6. Promised(eng, Asked, behind)' /\ Rested(eng, Asked, behind)'
  BY <1>1, <1>2, <1>3, <1>5, StateFacts DEF Promised, Rested
<1>7. Metered(eng, Charged, behind, now)'
  BY <1>1, <1>3, <1>5, StateFacts DEF Metered
<1>8. HasWaited(c)'
  BY <1>1, <1>2, <1>4, <1>5 DEF HasWaited
<1> QED
  BY <1>1, <1>3, <1>4, <1>5, <1>6, <1>7, <1>8, CallerEnds DEF past

\* What a Retry-After makes of an engine.
LEMMA CooledFields ==
    ASSUME EngineOK, NEW e \in Engines, NEW h \in Hosts, NEW retry \in RetryAfters
    PROVE  /\ Wait(retry) \in Nat
           /\ Cooled(e, h, retry) \in Engines
           /\ Cooled(e, h, retry).until = e.until
           /\ Cooled(e, h, retry).next = e.next
           /\ Cooled(e, h, retry).circuit = e.circuit
           /\ Cooled(e, h, retry).tokens = e.tokens
           /\ Cooled(e, h, retry).refill = e.refill
           /\ Cooled(e, h, retry).backoff = e.backoff
           /\ retry # 0 => Cooled(e, h, retry).cooldown[h] = clock + Wait(retry)
           /\ retry = 0 => Cooled(e, h, retry).cooldown = e.cooldown
           /\ \A g \in Hosts : g # h =>
                 Cooled(e, h, retry).cooldown[g] = e.cooldown[g]
<1>1. Wait(retry) \in Nat
  BY Constants DEF Wait, Smaller, RetryAfters
<1>2. CASE retry = 0
  BY <1>1, <1>2 DEF Cooled
<1>3. CASE retry # 0
  <2>1. Cooled(e, h, retry) = [e EXCEPT !.cooldown[h] = clock + Wait(retry)]
    BY <1>3 DEF Cooled
  <2>2. clock + Wait(retry) \in Int
    BY <1>1, ClockIsInt
  <2> QED
    BY <1>1, <1>3, <2>1, <2>2 DEF Engines
<1> QED
  BY <1>2, <1>3

\* What a failure makes of the engine.
LEMMA FailureFields ==
    ASSUME EngineOK, NEW c \in Callers, NEW retry \in RetryAfters,
           NEW e, e = Cooled([eng EXCEPT !.errors = Smaller(@ + 1, MaxErrors)],
                             call[c].host, retry),
           eng' \in IF e.errors >= Tripwire THEN Tripped(e) ELSE Throttled(e)
    PROVE  /\ eng' \in Engines /\ eng'.next = eng.next
           /\ eng'.tokens = eng.tokens /\ eng'.refill = eng.refill
           /\ retry # 0 => eng'.cooldown[call[c].host] = clock + Wait(retry)
           /\ retry = 0 => eng'.cooldown = eng.cooldown
           /\ \A g \in Hosts : g # call[c].host =>
                 eng'.cooldown[g] = eng.cooldown[g]
           /\ e.errors >= Tripwire =>
                 eng'.circuit = "TRIPPED" /\ eng'.until = clock + Cooldown
           /\ Wait(retry) \in Nat
<1> DEFINE counted == [eng EXCEPT !.errors = Smaller(@ + 1, MaxErrors)]
           h == call[c].host
<1>1. eng \in Engines /\ h \in Hosts
  BY DEF EngineOK, Calls
<1>2. /\ counted \in Engines /\ counted.next = eng.next
      /\ counted.cooldown = eng.cooldown /\ counted.tokens = eng.tokens
      /\ counted.refill = eng.refill
  <2>1. Smaller(eng.errors + 1, MaxErrors) \in 0..MaxErrors
    BY <1>1, Constants DEF Engines, Smaller
  <2>2. counted = [eng EXCEPT !.errors = Smaller(eng.errors + 1, MaxErrors)]
    BY <1>1 DEF Engines
  <2> QED
    BY <1>1, <2>1, <2>2 DEF Engines
<1>3. e = Cooled(counted, h, retry)
  OBVIOUS
<1> HIDE DEF counted, h
<1>4. /\ e \in Engines /\ e.next = eng.next
      /\ e.tokens = eng.tokens /\ e.refill = eng.refill
      /\ retry # 0 => e.cooldown[h] = clock + Wait(retry)
      /\ retry = 0 => e.cooldown = eng.cooldown
      /\ \A g \in Hosts : g # h => e.cooldown[g] = eng.cooldown[g]
      /\ Wait(retry) \in Nat
  BY <1>1, <1>2, <1>3, CooledFields
<1>5. CASE e.errors >= Tripwire
  <2>1. eng' = [e EXCEPT !.circuit = "TRIPPED", !.until = clock + Cooldown]
    BY <1>5 DEF Tripped
  <2>2. clock + Cooldown \in Int
    BY ClockIsInt, Constants
  <2>3. /\ eng' \in Engines /\ eng'.next = e.next /\ eng'.cooldown = e.cooldown
        /\ eng'.tokens = e.tokens /\ eng'.refill = e.refill
        /\ eng'.circuit = "TRIPPED" /\ eng'.until = clock + Cooldown
    BY <1>4, <2>1, <2>2 DEF Engines, Circuits
  <2> QED
    BY <1>4, <2>3 DEF h
<1>6. CASE ~ (e.errors >= Tripwire)
  <2>1. PICK b \in MinDelay..Smaller(MaxBackoff, Larger(MinDelay, 3 * e.backoff)) :
          eng' = [e EXCEPT !.circuit = "THROTTLED", !.backoff = b]
    BY <1>6 DEF Throttled
  <2>2. b \in MinDelay..MaxBackoff
    <3>1. e.backoff \in Int
      BY <1>4, EngineFields, Constants
    <3> QED
      BY <2>1, <3>1, Constants DEF Smaller, Larger
  <2>3. /\ eng' \in Engines /\ eng'.next = e.next /\ eng'.cooldown = e.cooldown
        /\ eng'.tokens = e.tokens /\ eng'.refill = e.refill
    BY <1>4, <2>1, <2>2 DEF Engines, Circuits
  <2> QED
    BY <1>4, <1>6, <2>3 DEF h
<1> QED
  BY <1>5, <1>6

\* What is heard is a wait.
LEMMA HeardIsWaits ==
    ASSUME EngineOK, PastOK, NEW h \in Hosts, NEW retry \in RetryAfters,
           NEW trips \in BOOLEAN
    PROVE  /\ Heard(h, retry, trips) \in Waits
           /\ retry # 0 => Heard(h, retry, trips).must[h] = now + Wait(retry)
           /\ retry = 0 => Heard(h, retry, trips).must = heard.must
           /\ \A g \in Hosts : g # h =>
                 Heard(h, retry, trips).must[g] = heard.must[g]
           /\ Heard(h, retry, trips).rest =
                 IF trips THEN now + Cooldown ELSE heard.rest
<1> DEFINE must == IF retry = 0 THEN heard.must
                   ELSE [heard.must EXCEPT ![h] = now + Wait(retry)]
           rest == IF trips THEN now + Cooldown ELSE heard.rest
<1>1. /\ heard.must \in [Hosts -> Nat] /\ heard.rest \in Nat
      /\ now \in Nat /\ Cooldown \in Nat /\ Wait(retry) \in Nat
  BY Constants DEF PastOK, Waits, EngineOK, Wait, Smaller, RetryAfters
<1>2. /\ must \in [Hosts -> Nat]
      /\ retry # 0 => must[h] = now + Wait(retry)
      /\ retry = 0 => must = heard.must
      /\ \A g \in Hosts : g # h => must[g] = heard.must[g]
  <2>1. now + Wait(retry) \in Nat
    BY <1>1
  <2> QED
    BY <1>1, <2>1
<1>3. rest \in Nat
  BY <1>1
<1>4. Heard(h, retry, trips) = [must |-> must, rest |-> rest]
  BY DEF Heard
<1> HIDE DEF must, rest
<1>5. /\ Heard(h, retry, trips) \in Waits
      /\ Heard(h, retry, trips).must = must /\ Heard(h, retry, trips).rest = rest
  BY <1>2, <1>3, <1>4 DEF Waits
<1> QED
  BY <1>2, <1>5 DEF rest

LEMMA FailureIsKept ==
    ASSUME OneCaller, IInv, NEW c \in Callers, RecordFailure(c)
    PROVE  IInv'
<1> DEFINE h == call[c].host
<1>1. /\ call[c].at \in {"request", "answered"}
      /\ UNCHANGED <<now, behind, saved, kept, granted, interrupted>>
      /\ call' = [call EXCEPT ![c].at = "failed"] /\ EngineOK /\ PastOK
      /\ h \in Hosts
  BY StateFacts DEF RecordFailure, IInv, Calls
<1>2. 0 \in RetryAfters
  BY Constants DEF RetryAfters
<1>3. PICK retry \in RetryAfters :
        LET e == Cooled([eng EXCEPT !.errors = Smaller(@ + 1, MaxErrors)], h, retry)
            trips == e.errors >= Tripwire
        IN /\ eng' \in IF trips THEN Tripped(e) ELSE Throttled(e)
           /\ heard' = Heard(h, retry, trips)
           /\ call[c].at = "answered" => retry = 0
  BY <1>1, <1>2 DEF RecordFailure
<1> DEFINE e == Cooled([eng EXCEPT !.errors = Smaller(@ + 1, MaxErrors)], h, retry)
           trips == e.errors >= Tripwire
<1>4. /\ eng' \in Engines
      /\ eng'.tokens = eng.tokens /\ eng'.refill = eng.refill
      /\ retry # 0 => eng'.cooldown[h] = clock + Wait(retry)
      /\ retry = 0 => eng'.cooldown = eng.cooldown
      /\ \A g \in Hosts : g # h => eng'.cooldown[g] = eng.cooldown[g]
      /\ trips => eng'.circuit = "TRIPPED" /\ eng'.until = clock + Cooldown
      /\ Wait(retry) \in Nat
  BY <1>1, <1>3, FailureFields
<1>5. /\ heard' \in Waits
      /\ retry # 0 => heard'.must[h] = now + Wait(retry)
      /\ retry = 0 => heard'.must = heard.must
      /\ \A g \in Hosts : g # h => heard'.must[g] = heard.must[g]
      /\ heard'.rest = IF trips THEN now + Cooldown ELSE heard.rest
  <2>1. trips \in BOOLEAN
    OBVIOUS
  <2> HIDE DEF trips
  <2>2. heard' = Heard(h, retry, trips)
    BY <1>3 DEF trips
  <2> QED
    BY <1>1, <2>1, <2>2, HeardIsWaits
<1> HIDE DEF e, trips
<1>6. PastOK'
  BY <1>1, <1>5 DEF PastOK
<1>7. /\ Asked'.rest = Larger(kept.rest, heard'.rest)
      /\ \A g \in Hosts : Asked'.must[g] = Larger(kept.must[g], heard'.must[g])
  <2>1. kept \in Waits
    BY <1>1 DEF PastOK
  <2> QED
    BY <1>1, <1>5, <2>1, WaitsAreTimes DEF Asked
<1>8. Charged' = Charged
  BY <1>1 DEF Charged
<1>9. /\ call' \in [Callers -> Calls] /\ call'[c].at = "failed"
  BY <1>1, StateFacts DEF Calls, Asking
<1>10. Told' = Told
  <2>1. Busy = 1 /\ Busy' = 1
    BY <1>1, <1>9, BusyCounts DEF Busy, Asking
  <2> QED
    BY <1>8, <2>1 DEF Told
<1>11. /\ Asked.rest <= now /\ call[c].at = "request" => Asked.must[h] <= now
       /\ Asked.rest <= now
  BY <1>1 DEF IInv, CallInv, HasWaited
<1>12. Promised(eng, Asked, behind)'
  <2>1. SUFFICES ASSUME NEW g \in Hosts
                 PROVE  Asked'.must[g] <= now \/ Asked'.must[g] <= eng'.cooldown[g] + behind
    BY <1>1 DEF Promised
  <2>2. Asked.must[g] <= now \/ Asked.must[g] <= eng.cooldown[g] + behind
    BY StateFacts DEF Promised
  <2>3. CASE g # h \/ retry = 0
    BY <1>1, <1>4, <1>5, <1>7, <2>2, <2>3, AskedIsAll
  <2>4. CASE g = h /\ retry # 0
    <3>1. kept.must[h] <= Asked.must[h] /\ Asked.must[h] <= now
      BY <1>1, <1>3, <1>11, <2>4, AskedIsAll
    <3>2. kept.must[h] \in Nat /\ Asked.must[h] \in Nat
      BY <1>1, StateFacts, WaitsAreTimes DEF PastOK
    <3>3. Asked'.must[g] = now + Wait(retry)
      BY <1>4, <1>5, <1>7, <2>4, <3>1, <3>2, StateFacts DEF Larger
    <3> QED
      BY <1>4, <2>4, <3>3, StateFacts
  <2> QED
    BY <2>3, <2>4
<1>13. Rested(eng, Asked, behind)'
  <2>1. kept.rest \in Nat /\ heard.rest \in Nat /\ Cooldown \in Nat
    BY <1>1, WaitsAreTimes, Constants DEF PastOK
  <2>2. kept.rest <= now /\ heard.rest <= now
    BY <1>1, <1>11, <2>1, AskedIsAll, StateFacts
  <2>3. CASE trips
    <3>1. Asked'.rest = now + Cooldown
      BY <1>5, <1>7, <2>1, <2>2, <2>3, StateFacts DEF Larger
    <3> QED
      BY <1>1, <1>4, <2>1, <2>3, <3>1, StateFacts DEF Rested
  <2>4. CASE ~ trips
    <3>1. Asked'.rest <= now
      BY <1>5, <1>7, <2>1, <2>2, <2>4, StateFacts DEF Larger
    <3> QED
      BY <1>1, <3>1 DEF Rested
  <2> QED
    BY <2>3, <2>4
<1>14. Metered(eng, Charged, behind, now)'
  BY <1>1, <1>4, <1>8, StateFacts DEF Metered
<1>15. HasWaited(c)'
  BY <1>9 DEF HasWaited
<1> QED
  BY <1>1, <1>4, <1>6, <1>9, <1>10, <1>12, <1>13, <1>14, <1>15, CallerEnds

\* A call ends unsaved: its permission is written off.
LEMMA EndUnsavedIsKept ==
    ASSUME OneCaller, IInv, NEW c \in Callers, EndUnsaved(c)
    PROVE  IInv'
<1>1. /\ call[c].at \in Asking /\ call' = [call EXCEPT ![c].at = "idle"]
      /\ interrupted' = interrupted + 1
      /\ UNCHANGED <<now, behind, eng, saved, heard, kept, granted>>
  BY DEF EndUnsaved
<1>2. call' \in [Callers -> Calls] /\ call'[c].at = "idle"
  BY <1>1, StateFacts DEF Calls
<1>3. Asked' = Asked /\ PastOK'
  BY <1>1 DEF Asked, Later, PastOK, IInv
<1>4. granted \in Nat /\ interrupted \in Nat
  BY DEF IInv, PastOK
<1>5. Charged' = Charged - 1 /\ Told' = Told
  <2>1. call[c].at \in Asking /\ call'[c].at \notin Asking
    BY <1>1, <1>2 DEF Asking
  <2>2. Busy = 1
    BY <2>1, BusyCounts DEF Busy
  <2>3. Busy' = 0
    BY <2>1, BusyCounts DEF Busy
  <2> QED
    BY <1>1, <1>4, <2>2, <2>3 DEF Charged, Told
<1>6. Promised(eng, Asked, behind)' /\ Rested(eng, Asked, behind)'
  BY <1>1, <1>3, StateFacts DEF Promised, Rested
<1>7. Metered(eng, Charged, behind, now)'
  <2> DEFINE n == Charged - 1
  <2>1. n \in Int /\ n + 1 = Charged /\ Charged \in Int
    BY StateFacts
  <2>2. n * Cost \in Int /\ Charged * Cost = n * Cost + Cost
    <3> HIDE DEF n
    <3> QED
      BY <2>1, OneMore
  <2>3. eng.tokens \in Int /\ eng.refill \in Int /\ Cost \in Nat /\ Burst * Cost \in Nat
    BY EngineFields, Constants, OneMore, StateFacts
  <2>4. /\ Charged * Cost <= Burst * Cost + now
        /\ Charged * Cost + eng.tokens <= Burst * Cost + now
        /\ Charged * Cost + eng.tokens <= Burst * Cost + eng.refill + behind
    BY StateFacts DEF Metered
  <2>5. Charged' = n
    BY <1>5
  <2> HIDE DEF n
  <2>6. Metered(eng, n, behind, now)
    BY <2>2, <2>3, <2>4, StateFacts DEF Metered
  <2> QED
    BY <1>1, <2>5, <2>6 DEF Metered
<1>8. HasWaited(c)'
  BY <1>2 DEF HasWaited
<1> QED
  BY <1>1, <1>2, <1>3, <1>5, <1>6, <1>7, <1>8, CallerEnds, StateFacts

\* The engine is saved, with all that is asked and all that is granted.
LEMMA SaveIsKept ==
    ASSUME OneCaller, IInv, NEW c \in Callers, Save(c)
    PROVE  IInv'
<1>1. /\ saved' = [eng |-> eng, time |-> clock] /\ kept' = Asked
      /\ call[c].at \in {"answered", "failed"}
      /\ call' \in {call, [call EXCEPT ![c].at = "idle"]}
      /\ UNCHANGED <<now, behind, eng, heard, granted, interrupted>>
  BY DEF Save, Asked
<1>2. /\ call' \in [Callers -> Calls]
      /\ call'[c].at = "idle" \/ call'[c] = call[c]
  BY <1>1, StateFacts DEF Calls
<1>3. /\ Asked'.rest = Asked.rest
      /\ \A h \in Hosts : Asked'.must[h] = Asked.must[h]
      /\ kept' \in Waits /\ PastOK'
  <2>1. heard \in Waits /\ kept \in Waits /\ Asked \in Waits
    BY StateFacts DEF IInv, PastOK
  <2>2. heard.rest \in Nat /\ kept.rest \in Nat
    BY <2>1, WaitsAreTimes
  <2>3. Asked' = Later(Asked, heard)
    BY <1>1 DEF Asked
  <2>4. Larger(Larger(kept.rest, heard.rest), heard.rest) = Larger(kept.rest, heard.rest)
    BY <2>2 DEF Larger
  <2>5. \A h \in Hosts :
          Larger(Larger(kept.must[h], heard.must[h]), heard.must[h])
             = Larger(kept.must[h], heard.must[h])
    BY <2>1, WaitsAreTimes DEF Larger
  <2>6. Asked'.rest = Asked.rest
    BY <2>3, <2>4 DEF Asked, Later
  <2>7. \A h \in Hosts : Asked'.must[h] = Asked.must[h]
    <3>1. SUFFICES ASSUME NEW h \in Hosts PROVE Asked'.must[h] = Asked.must[h]
      OBVIOUS
    <3>2. Asked'.must[h] = Larger(Asked.must[h], heard.must[h])
      BY <2>1, <2>3, WaitsAreTimes
    <3>3. Asked.must[h] = Larger(kept.must[h], heard.must[h])
      BY AskedIsAll DEF IInv
    <3> QED
      BY <2>5, <3>2, <3>3
  <2> QED
    BY <1>1, <2>1, <2>6, <2>7 DEF PastOK, IInv
<1>4. Charged' = Charged
  BY <1>1 DEF Charged
<1>5. EngineOK'
  BY <1>1, <1>2, StateFacts DEF IInv, EngineOK
<1>6. EngineInv'
  <2>1. Promised(eng, Asked, behind)' /\ Rested(eng, Asked, behind)'
    BY <1>1, <1>3, StateFacts DEF Promised, Rested
  <2>2. Metered(eng, Charged, behind, now)'
    BY <1>1, <1>4, StateFacts DEF Metered
  <2> QED
    BY <2>1, <2>2 DEF EngineInv
<1>7. CallInv'
  <2>1. HasWaited(c)'
    <3>1. CASE call'[c].at = "idle"
      BY <3>1 DEF HasWaited
    <3>2. CASE call'[c] = call[c]
      <4>1. HasWaited(c)
        BY DEF IInv, CallInv
      <4> QED
        BY <1>1, <1>3, <3>2, <4>1 DEF HasWaited
    <3> QED
      BY <1>2, <3>1, <3>2
  <2> QED
    BY <2>1 DEF CallInv, OneCaller
<1>8. Metered(eng, Told', behind, now)
  <2>1. Busy' \in {0, 1}
    BY <1>2, BusyCounts DEF Busy
  <2>2. Told' = Charged \/ Told' = Charged - 1
    BY <1>4, <2>1, StateFacts DEF Told
  <2>3. Metered(eng, Charged, behind, now)
    BY StateFacts
  <2>4. Metered(eng, Charged - 1, behind, now)
    <3> DEFINE n == Charged - 1
    <3>1. n \in Int /\ n + 1 = Charged /\ Charged \in Int
      BY StateFacts
    <3>2. n * Cost \in Int /\ Charged * Cost = n * Cost + Cost
      <4> HIDE DEF n
      <4> QED
        BY <3>1, OneMore
    <3>3. eng.tokens \in Int /\ eng.refill \in Int /\ Cost \in Nat /\ Burst * Cost \in Nat
      BY EngineFields, Constants, OneMore, StateFacts
    <3> HIDE DEF n
    <3>4. Metered(eng, n, behind, now)
      BY <2>3, <3>2, <3>3, StateFacts DEF Metered
    <3> QED
      BY <3>4 DEF n
  <2> QED
    BY <2>2, <2>3, <2>4
<1>9. SavedInv'
  <2>1. behind \in 0..behind' /\ saved'.time + behind = now'
    BY <1>1, StateFacts
  <2>2. /\ \A h \in Hosts : kept'.must[h] <= now'
               \/ kept'.must[h] <= saved'.eng.cooldown[h] + behind
        /\ \/ kept'.rest <= now'
           \/ /\ saved'.eng.circuit = "TRIPPED"
              /\ kept'.rest <= saved'.eng.until + behind
    BY <1>1, StateFacts DEF Promised, Rested
  <2>3. Metered(saved'.eng, Told', behind, saved'.time + behind)
    BY <1>1, <1>8, <2>1, StateFacts DEF Metered
  <2>4. saved'.time + behind <= now'
    BY <1>1, <2>1, StateFacts
  <2> QED
    BY <2>1, <2>2, <2>3, <2>4 DEF SavedInv, Promised, Rested, Metered
<1> QED
  BY <1>3, <1>5, <1>6, <1>7, <1>9 DEF IInv

\* A new process takes the state: its deadlines come no sooner.
LEMMA DeadlineIsLate ==
    ASSUME EngineOK, NEW v \in Int
    PROVE  Deadline(v) \in Int /\ Deadline(v) >= v
<1>1. clock \in Int /\ saved.time \in Int
  BY ClockIsInt DEF EngineOK
<1> QED
  BY <1>1 DEF Deadline, Larger

\* What Merged makes of an engine.
LEMMA MergedFields ==
    ASSUME EngineOK, NEW s \in Engines
    PROVE  /\ Merged(s) \in Engines
           /\ Merged(s).tokens = s.tokens
           /\ Merged(s).circuit = s.circuit
           /\ Merged(s).until >= s.until
           /\ \A h \in Hosts : Merged(s).cooldown[h] >= s.cooldown[h]
           /\ Merged(s).refill = IF clock >= saved.time
                                 THEN Smaller(clock, s.refill) ELSE clock
<1> DEFINE until == IF s.until = 0 THEN 0 ELSE Deadline(s.until)
           cooldown == [h \in Hosts |-> Deadline(s.cooldown[h])]
           refill == IF clock >= saved.time THEN Smaller(clock, s.refill) ELSE clock
<1>1. /\ s.until \in Int /\ s.next \in Int /\ s.refill \in Int
      /\ s.cooldown \in [Hosts -> Int]
  BY EngineFields
<1>2. until \in Int /\ until >= s.until
  BY <1>1, DeadlineIsLate
<1>3. /\ cooldown \in [Hosts -> Int]
      /\ \A h \in Hosts : cooldown[h] >= s.cooldown[h]
  BY <1>1, DeadlineIsLate
<1>4. refill \in Int
  BY <1>1, ClockIsInt DEF Smaller
<1>5. Deadline(s.next) \in Int
  BY <1>1, DeadlineIsLate
<1>6. Merged(s) = [s EXCEPT !.until = until, !.next = Deadline(s.next),
                            !.cooldown = cooldown, !.refill = refill]
  BY DEF Merged, Engines
<1> HIDE DEF until, cooldown, refill
<1>7. /\ Merged(s) \in Engines
      /\ Merged(s).tokens = s.tokens
      /\ Merged(s).circuit = s.circuit
      /\ Merged(s).until = until /\ Merged(s).cooldown = cooldown
      /\ Merged(s).refill = refill
  BY <1>2, <1>3, <1>4, <1>5, <1>6 DEF Engines
<1> QED
  BY <1>2, <1>3, <1>7 DEF refill

\* What is asked after a restore is what was saved, and the permissions that
\* are written off are those the saved state need not know of.
LEMMA RestoreIsKept ==
    ASSUME IInv, Restore
    PROVE  IInv'
<1> DEFINE s == saved.eng
<1>1. /\ eng' = Merged(s) /\ Acceptable(saved)
      /\ call' = [c \in Callers |-> [call[c] EXCEPT !.at = "idle"]]
      /\ heard' = NoWaits /\ interrupted' = interrupted + Busy
      /\ UNCHANGED <<now, behind, saved, kept, granted>>
  BY DEF Restore
<1>2. EngineOK /\ PastOK /\ s \in Engines /\ saved.time \in Int
  BY DEF IInv, EngineOK
<1>3. PICK b \in 0..behind :
        /\ saved.time + b <= now
        /\ Promised(s, kept, b) /\ Rested(s, kept, b)
        /\ Metered(s, Told, b, saved.time + b)
  BY DEF IInv, SavedInv
<1>4. /\ eng' \in Engines
      /\ eng'.tokens = s.tokens
      /\ eng'.circuit = s.circuit /\ eng'.until >= s.until
      /\ \A h \in Hosts : eng'.cooldown[h] >= s.cooldown[h]
      /\ eng'.refill = IF clock >= saved.time THEN Smaller(clock, s.refill) ELSE clock
  BY <1>1, <1>2, MergedFields
<1> HIDE DEF s
<1>5. /\ s.until \in Int /\ kept.rest \in Nat /\ s.refill \in Int
      /\ s.tokens \in Int /\ Told \in Int
      /\ eng'.until \in Int /\ now \in Nat /\ behind \in Nat
      /\ clock \in Int /\ now = clock + behind
      /\ \A h \in Hosts : kept.must[h] \in Nat /\ s.cooldown[h] \in Int
      /\ \A h \in Hosts : eng'.cooldown[h] \in Int
  BY <1>2, <1>4, EngineFields, StateFacts, WaitsAreTimes DEF PastOK
<1>6. call' \in [Callers -> Calls] /\ \A c \in Callers : call'[c].at = "idle"
  BY <1>1, StateFacts DEF Calls
<1>7. EngineOK'
  BY <1>1, <1>2, <1>4, <1>6 DEF EngineOK
<1>8. heard' \in Waits /\ heard'.rest = 0 /\ \A h \in Hosts : heard'.must[h] = 0
  BY <1>1 DEF NoWaits, Waits
<1>9. PastOK'
  BY <1>1, <1>2, <1>8, BusyIsNat DEF PastOK
<1>10. Asked'.rest = kept.rest /\ \A h \in Hosts : Asked'.must[h] = kept.must[h]
  <2>1. kept \in Waits
    BY <1>2 DEF PastOK
  <2>2. /\ Asked'.rest = Larger(kept.rest, heard'.rest)
        /\ \A h \in Hosts : Asked'.must[h] = Larger(kept.must[h], heard'.must[h])
    BY <1>1, <1>8, <2>1, WaitsAreTimes DEF Asked, Later
  <2> QED
    BY <1>5, <1>8, <2>2 DEF Larger
<1>11. Charged' = Told /\ Told' = Told
  <2>1. Busy' = 0
    <3>1. {c \in Callers : call'[c].at \in Asking} = {}
      BY <1>6 DEF Asking
    <3> QED
      BY <3>1, FS_EmptySet DEF Busy
  <2>2. Busy \in Nat /\ granted \in Nat /\ interrupted \in Nat
    BY <1>2, BusyIsNat DEF PastOK
  <2> QED
    BY <1>1, <2>1, <2>2 DEF Charged, Told
<1>12. Promised(eng, Asked, behind)' /\ Rested(eng, Asked, behind)'
  BY <1>1, <1>3, <1>4, <1>5, <1>10 DEF Promised, Rested
<1>13. Metered(eng', Told, behind, now)
  <2>1. Burst * Cost \in Nat /\ Told * Cost \in Int
    BY <1>5, OneMore
  <2>2. /\ Told * Cost <= Burst * Cost + (saved.time + b)
        /\ Told * Cost + s.tokens <= Burst * Cost + (saved.time + b)
        /\ Told * Cost + s.tokens <= Burst * Cost + s.refill + b
    BY <1>3 DEF Metered
  <2>3. s.refill <= saved.time
    BY <1>1 DEF Acceptable, s
  <2>4. CASE clock >= saved.time
    <3>1. eng'.refill = s.refill
      BY <1>2, <1>4, <1>5, <2>3, <2>4 DEF Smaller
    <3> QED
      BY <1>2, <1>3, <1>4, <1>5, <2>1, <2>2, <3>1 DEF Metered
  <2>5. CASE ~ (clock >= saved.time)
    <3>1. eng'.refill = clock
      BY <1>4, <2>5
    <3> QED
      BY <1>2, <1>3, <1>4, <1>5, <2>1, <2>2, <3>1 DEF Metered
  <2> QED
    BY <2>4, <2>5
<1>14. Metered(eng, Charged, behind, now)'
  BY <1>1, <1>11, <1>13 DEF Metered
<1>15. EngineInv'
  BY <1>12, <1>14 DEF EngineInv
<1>16. SavedInv'
  BY <1>1, <1>2, <1>5, <1>11, SavedStays DEF IInv
<1>17. CallInv'
  BY <1>6 DEF CallInv, HasWaited
<1> QED
  BY <1>7, <1>9, <1>15, <1>16, <1>17 DEF IInv

LEMMA StepIsKept ==
    ASSUME OneCaller, IInv, [Next]_vars
    PROVE  IInv'
<1>1. CASE UNCHANGED vars
  BY <1>1 DEF vars, IInv, EngineOK, PastOK, EngineInv, SavedInv, CallInv, HasWaited,
              Promised, Rested, Metered, Asked, Later, Charged, Told, Busy
<1>2. CASE \E c \in Callers : CallNext(c)
  BY <1>2, AcquireIsKept, AwakeIsKept, AbortIsKept, AnswerIsKept, FailureIsKept,
     SaveIsKept, EndUnsavedIsKept DEF CallNext
<1>3. CASE Restore
  BY <1>3, RestoreIsKept
<1>4. CASE Tick \/ SetBack
  BY <1>4, ClockIsKept
<1> QED
  BY <1>1, <1>2, <1>3, <1>4 DEF Next

-----------------------------------------------------------------------------
(* Theorems *)

\* With one caller every reachable state satisfies the invariant.
THEOREM PacingInvariant == OneCaller => (Spec => []IInv)
<1>1. Init => IInv
  BY InitIsKept
<1>2. OneCaller /\ IInv /\ [Next]_vars => IInv'
  BY StepIsKept
<1>3. OneCaller => OneCaller'
  BY DEF OneCaller
<1> QED
  BY <1>1, <1>2, <1>3, PTL DEF Spec

\* Whoever is permitted a request has waited as long as the newest Retry-After
\* of the host asks, in real time, of all that this process has heard and of
\* all that any process has saved: neither is part of the engine, and no
\* restore puts it back (acquire_permission, persist_pacing, restore_state).
THEOREM RetryAfterIsAlwaysHonoured ==
    OneCaller => (Spec => []RetryAfterIsHonoured)
<1>1. ASSUME IInv, NEW c \in Permitted
      PROVE  now >= heard.must[call[c].host] /\ now >= kept.must[call[c].host]
  <2>1. c \in Callers /\ call[c].at = "request" /\ HasWaited(c)
    BY <1>1 DEF Permitted, IInv, CallInv
  <2>2. call[c].host \in Hosts
    BY <1>1, <2>1, StateFacts DEF Calls
  <2>3. Asked.must[call[c].host] <= now
    BY <2>1 DEF HasWaited
  <2>4. /\ heard.must[call[c].host] \in Nat /\ kept.must[call[c].host] \in Nat
        /\ now \in Nat
    BY <1>1, <2>2, StateFacts, WaitsAreTimes DEF IInv, PastOK
  <2> QED
    BY <1>1, <2>2, <2>3, <2>4, AskedIsAll DEF IInv
<1>2. IInv => RetryAfterIsHonoured
  BY <1>1 DEF RetryAfterIsHonoured
<1> QED
  BY <1>2, PacingInvariant, PTL

\* After a trip of the circuit nothing is permitted for the cooldown, by the
\* process that saw it or by one that starts from what was saved of it
\* (record_failure, acquire_permission).
THEOREM TripsAlwaysRest == OneCaller => (Spec => []TrippedRests)
<1>1. ASSUME IInv, NEW c \in Permitted
      PROVE  now >= heard.rest /\ now >= kept.rest
  <2>1. c \in Callers /\ call[c].at = "request" /\ HasWaited(c)
    BY <1>1 DEF Permitted, IInv, CallInv
  <2>2. call[c].host \in Hosts
    BY <1>1, <2>1, StateFacts DEF Calls
  <2>3. Asked.rest <= now
    BY <2>1 DEF HasWaited
  <2>4. heard.rest \in Nat /\ kept.rest \in Nat /\ now \in Nat
    BY <1>1, StateFacts, WaitsAreTimes DEF IInv, PastOK
  <2> QED
    BY <1>1, <2>2, <2>3, <2>4, AskedIsAll DEF IInv
<1>2. IInv => TrippedRests
  BY <1>1 DEF TrippedRests
<1> QED
  BY <1>2, PacingInvariant, PTL

\* All processes together permit no more requests than the burst and real time
\* pay for, and one for each call that was cut off before its state was saved,
\* whatever the clock does and whatever is restored (refill_tokens).
THEOREM RateIsAlwaysBounded == OneCaller => (Spec => []RateIsBounded)
<1>1. ASSUME IInv PROVE RateIsBounded
  <2>1. Charged * Cost <= Burst * Cost + now
    BY <1>1, StateFacts DEF Metered
  <2>2. /\ granted \in Nat /\ interrupted \in Nat /\ Charged = granted - interrupted
        /\ Burst \in Nat /\ Cost \in Nat
    BY <1>1, Constants DEF IInv, PastOK, Charged
  <2>3. /\ Charged * Cost = granted * Cost - interrupted * Cost
        /\ (Burst + interrupted) * Cost = Burst * Cost + interrupted * Cost
    BY <2>2
  <2>4. now \in Nat /\ granted * Cost \in Int /\ interrupted * Cost \in Int /\ Burst * Cost \in Int
    BY <1>1, <2>2, StateFacts, OneMore
  <2>5. granted * Cost <= (Burst + interrupted) * Cost + now
    BY <2>1, <2>3, <2>4
  <2> QED
    BY <2>5 DEF RateIsBounded
<1>2. IInv => RateIsBounded
  BY <1>1
<1> QED
  BY <1>2, PacingInvariant, PTL

-----------------------------------------------------------------------------
(* Slots, for any number of callers *)

\* Every slot that is waited for is the engine's newest one or before it.
SlotInv ==
    /\ EngineOK
    /\ SlotsAreDistinct
    /\ \A c \in Callers : call[c].at = "slot" => call[c].wake <= eng.next + behind

\* A step that reserves no slot.
LEMMA SlotsStay ==
    ASSUME SlotInv, now' = now, behind' = behind,
           saved'.eng \in Engines, saved'.time \in Int,
           eng' \in Engines, eng'.next = eng.next, call' \in [Callers -> Calls],
           \A d \in Callers : call'[d].at = "slot" => call'[d] = call[d]
    PROVE  SlotInv'
<1>1. EngineOK'
  BY DEF SlotInv, EngineOK
<1>2. SlotsAreDistinct'
  BY DEF SlotInv, SlotsAreDistinct
<1>3. \A d \in Callers : call'[d].at = "slot" => call'[d].wake <= eng'.next + behind'
  BY DEF SlotInv
<1> QED
  BY <1>1, <1>2, <1>3 DEF SlotInv

\* A slot that is reserved is min_delay after the newest one.
LEMMA SlotIsReserved ==
    ASSUME SlotInv, UNCHANGED <<now, behind, saved>>,
           NEW c \in Callers, NEW h \in Hosts, NEW e \in Engines,
           e.next = eng.next, Reserve(c, h, e)
    PROVE  SlotInv'
<1>1. PICK jitter \in Jitters, stretch \in {1, 3} :
        LET circuit == IF stretch > 1 /\ e.circuit = "NOMINAL"
                       THEN "THROTTLED" ELSE e.circuit
            delay == IF circuit = "THROTTLED"
                     THEN Larger(jitter * stretch, e.backoff) ELSE jitter * stretch
            slot == Larger(clock, e.next) + delay
        IN /\ eng' = [e EXCEPT !.tokens = @ - Cost, !.circuit = circuit,
                               !.next = slot]
           /\ Sleep(c, h, "slot", slot - clock)
  BY DEF Reserve, NextSlot
<1> DEFINE circuit == IF stretch > 1 /\ e.circuit = "NOMINAL"
                      THEN "THROTTLED" ELSE e.circuit
           delay == IF circuit = "THROTTLED"
                    THEN Larger(jitter * stretch, e.backoff) ELSE jitter * stretch
           slot == Larger(clock, e.next) + delay
<1>2. /\ EngineOK /\ clock \in Int /\ now \in Nat /\ behind \in Nat
      /\ now = clock + behind
  BY Constants, ClockIsInt DEF SlotInv, EngineOK
<1>3. circuit \in Circuits
  BY EngineFields DEF Circuits
<1>4. delay \in Int /\ delay >= MinDelay
  <2>1. jitter \in Nat /\ jitter >= MinDelay /\ MinDelay \in Nat
    BY Constants DEF Jitters
  <2>2. jitter * stretch \in Nat /\ jitter * stretch >= MinDelay
    BY <2>1
  <2>3. e.backoff \in Int
    BY EngineFields, Constants
  <2> QED
    BY <2>1, <2>2, <2>3 DEF Larger
<1>5. e.next \in Int /\ eng.next \in Int
  BY EngineFields DEF SlotInv, EngineOK
<1>6. slot \in Int /\ slot >= eng.next + MinDelay /\ slot >= clock
  <2> HIDE DEF delay
  <2> QED
    BY <1>2, <1>4, <1>5, Constants DEF Larger
<1> HIDE DEF circuit, delay, slot
<1>7. eng' = [e EXCEPT !.tokens = @ - Cost, !.circuit = circuit, !.next = slot]
      /\ Sleep(c, h, "slot", slot - clock)
  BY <1>1 DEF circuit, delay, slot
<1>8. eng' \in Engines /\ eng'.next = slot
  <2>1. e.tokens - Cost \in Int
    BY EngineFields, Constants
  <2>2. eng' = [e EXCEPT !.tokens = e.tokens - Cost, !.circuit = circuit,
                         !.next = slot]
    BY <1>7
  <2> QED
    BY <1>3, <1>6, <2>1, <2>2 DEF Engines
<1>9. /\ call' \in [Callers -> Calls] /\ call'[c].wake = slot + behind
      /\ \A d \in Callers : d # c => call'[d] = call[d]
  <2>1. slot - clock \in Int /\ slot - clock >= 0
    BY <1>2, <1>6
  <2>2. /\ call' \in [Callers -> Calls] /\ call'[c].wake = now + (slot - clock)
        /\ \A d \in Callers : d # c => call'[d] = call[d]
    BY <1>2, <1>7, <2>1, SleepIsLong DEF Sleeping
  <2> QED
    BY <1>2, <1>6, <2>2
<1>10. EngineOK'
  BY <1>8, <1>9 DEF SlotInv, EngineOK
<1>11. \A d \in Callers :
          d # c /\ call[d].at = "slot" =>
             call[d].wake \in Int /\ call[d].wake <= eng.next + behind
  BY DEF SlotInv, EngineOK, Calls
<1>12. SlotsAreDistinct'
  <2>1. SUFFICES ASSUME NEW a \in Callers, NEW d \in Callers, a # d,
                        call'[a].at = "slot", call'[d].at = "slot"
                 PROVE  \/ call'[a].wake >= call'[d].wake + MinDelay
                        \/ call'[d].wake >= call'[a].wake + MinDelay
    BY DEF SlotsAreDistinct
  <2>2. CASE a # c /\ d # c
    BY <1>9, <2>1, <2>2 DEF SlotInv, SlotsAreDistinct
  <2>3. CASE a = c
    BY <1>2, <1>5, <1>6, <1>9, <1>11, <2>1, <2>3, Constants
  <2>4. CASE d = c
    BY <1>2, <1>5, <1>6, <1>9, <1>11, <2>1, <2>4, Constants
  <2> QED
    BY <2>2, <2>3, <2>4
<1>13. \A d \in Callers : call'[d].at = "slot" => call'[d].wake <= eng'.next + behind'
  <2>1. SUFFICES ASSUME NEW d \in Callers, call'[d].at = "slot"
                 PROVE  call'[d].wake <= slot + behind
    BY <1>8
  <2>2. CASE d = c
    BY <1>2, <1>6, <1>9, <2>2
  <2>3. CASE d # c
    BY <1>2, <1>5, <1>6, <1>9, <1>11, <2>1, <2>3, Constants
  <2> QED
    BY <2>2, <2>3
<1> QED
  BY <1>10, <1>12, <1>13 DEF SlotInv

\* A caller goes to sleep elsewhere.
LEMMA SlotsSleep ==
    ASSUME SlotInv, UNCHANGED <<now, behind, saved>>, NEW c \in Callers,
           NEW h \in Hosts, NEW place \in Sleeping \ {"slot"}, NEW ticks \in Int,
           Sleep(c, h, place, ticks), eng' \in Engines, eng'.next = eng.next
    PROVE  SlotInv'
<1>1. EngineOK
  BY DEF SlotInv
<1>2. /\ call' \in [Callers -> Calls] /\ call'[c].at # "slot"
      /\ \A d \in Callers : d # c => call'[d] = call[d]
  BY <1>1, SleepIsLong
<1>3. saved'.eng \in Engines /\ saved'.time \in Int
  BY <1>1 DEF EngineOK
<1> QED
  BY <1>2, <1>3, SlotsStay

LEMMA TakeTokenSlots ==
    ASSUME SlotInv, UNCHANGED <<now, behind, saved>>, NEW c \in Callers,
           NEW h \in Hosts, NEW e \in Engines, e.next = eng.next, TakeToken(c, h, e)
    PROVE  SlotInv'
<1>1. /\ clock \in Int /\ e.tokens \in Int /\ e.refill \in Int
      /\ Burst * Cost \in Nat /\ Cost \in Nat
  BY ClockIsInt, EngineFields, OneMore, Constants DEF SlotInv
<1>2. Refill(e) \in Engines /\ Refill(e).next = eng.next
  <2>1. Smaller(Burst * Cost, e.tokens + (clock - e.refill)) \in Int
    BY <1>1 DEF Smaller
  <2>2. Refill(e) = [e EXCEPT !.tokens = Smaller(Burst * Cost, e.tokens + (clock - e.refill)),
                              !.refill = clock]
    BY DEF Refill
  <2> QED
    BY <1>1, <2>1, <2>2 DEF Engines
<1>3. CASE Refill(e).tokens < Cost
  <2>1. eng' = Refill(e) /\ Sleep(c, h, "tokens", Cost - Refill(e).tokens)
    BY <1>3 DEF TakeToken
  <2>2. Cost - Refill(e).tokens \in Int
    BY <1>1, <1>2, EngineFields
  <2> QED
    BY <1>2, <2>1, <2>2, SlotsSleep DEF Sleeping
<1>4. CASE ~ (Refill(e).tokens < Cost)
  <2>1. Reserve(c, h, Refill(e))
    BY <1>4 DEF TakeToken
  <2> QED
    BY <1>2, <2>1, SlotIsReserved
<1> QED
  BY <1>3, <1>4

LEMMA CheckHostSlots ==
    ASSUME SlotInv, UNCHANGED <<now, behind, saved>>, NEW c \in Callers,
           NEW h \in Hosts, NEW e \in Engines, e.next = eng.next, CheckHost(c, h, e)
    PROVE  SlotInv'
<1>1. e.cooldown[h] - clock \in Int
  BY ClockIsInt, EngineFields DEF SlotInv
<1>2. CASE clock < e.cooldown[h]
  <2>1. eng' = e /\ Sleep(c, h, "host", e.cooldown[h] - clock)
    BY <1>2 DEF CheckHost
  <2> QED
    BY <1>1, <2>1, SlotsSleep DEF Sleeping
<1>3. CASE ~ (clock < e.cooldown[h])
  BY <1>3, TakeTokenSlots DEF CheckHost
<1> QED
  BY <1>2, <1>3

LEMMA CallerSlots ==
    ASSUME SlotInv, NEW c \in Callers, CallNext(c)
    PROVE  SlotInv'
<1>1. /\ EngineOK /\ eng \in Engines /\ call \in [Callers -> Calls]
      /\ saved.eng \in Engines /\ saved.time \in Int /\ clock \in Int
  BY ClockIsInt DEF SlotInv, EngineOK
<1>2. call[c].host \in Hosts
  BY <1>1 DEF Calls
<1>3. ASSUME NEW at \in {"idle"} \union Asking, call' = [call EXCEPT ![c].at = at],
             eng' \in Engines, eng'.next = eng.next,
             now' = now, behind' = behind, saved'.eng \in Engines, saved'.time \in Int
      PROVE  SlotInv'
  <2>1. /\ call' \in [Callers -> Calls] /\ call'[c].at # "slot"
        /\ \A d \in Callers : d # c => call'[d] = call[d]
    BY <1>1, <1>3 DEF Calls, Asking
  <2> QED
    BY <1>1, <1>3, <2>1, SlotsStay
<1>4. ASSUME NEW h \in Hosts, Acquire(c, h) PROVE SlotInv'
  <2> UNCHANGED <<now, behind, saved>>
    BY <1>4 DEF Acquire
  <2>1. CASE eng.circuit = "TRIPPED" /\ clock < eng.until
    <3>1. eng' = eng /\ Sleep(c, h, "cooling", eng.until - clock)
      BY <1>4, <2>1 DEF Acquire
    <3>2. eng.until - clock \in Int
      BY <1>1, EngineFields
    <3> QED
      BY <1>1, <3>1, <3>2, SlotsSleep DEF Sleeping
  <2>2. CASE ~ (eng.circuit = "TRIPPED" /\ clock < eng.until)
    <3>1. CheckHost(c, h, HalfOpen(eng))
      BY <1>4, <2>2 DEF Acquire
    <3>2. HalfOpen(eng) \in Engines /\ HalfOpen(eng).next = eng.next
      BY <1>1 DEF HalfOpen, Engines, Circuits
    <3> QED
      BY <1>1, <3>1, <3>2, CheckHostSlots
  <2> QED
    BY <2>1, <2>2
<1>5. CASE Awake(c)
  <2> DEFINE h == call[c].host
  <2> UNCHANGED <<now, behind, saved>>
    BY <1>5 DEF Awake
  <2>1. CASE CheckHost(c, h, [eng EXCEPT !.circuit = "HALF_OPEN"])
    <3>1. /\ [eng EXCEPT !.circuit = "HALF_OPEN"] \in Engines
          /\ [eng EXCEPT !.circuit = "HALF_OPEN"].next = eng.next
      BY <1>1 DEF Engines, Circuits
    <3> QED
      BY <1>1, <1>2, <2>1, <3>1, CheckHostSlots
  <2>2. CASE TakeToken(c, h, [eng EXCEPT !.cooldown[h] = 0])
    <3>1. /\ [eng EXCEPT !.cooldown[h] = 0] \in Engines
          /\ [eng EXCEPT !.cooldown[h] = 0].next = eng.next
      BY <1>1 DEF Engines
    <3> QED
      BY <1>1, <1>2, <2>2, <3>1, TakeTokenSlots
  <2>3. CASE Reserve(c, h, Refill(eng))
    <3>1. Refill(eng) \in Engines /\ Refill(eng).next = eng.next
      <4>1. Smaller(Burst * Cost, eng.tokens + (clock - eng.refill)) \in Int
        BY <1>1, EngineFields, OneMore DEF Smaller
      <4>2. Refill(eng) = [eng EXCEPT !.tokens = Smaller(Burst * Cost, eng.tokens + (clock - eng.refill)),
                                      !.refill = clock]
        BY DEF Refill
      <4> QED
        BY <1>1, <4>1, <4>2 DEF Engines
    <3> QED
      BY <1>1, <1>2, <2>3, <3>1, SlotIsReserved
  <2>4. CASE call' = [call EXCEPT ![c].at = "request"] /\ eng' = eng
    BY <1>1, <1>3, <2>4 DEF Asking
  <2> QED
    BY <1>5, <2>1, <2>2, <2>3, <2>4 DEF Awake
<1>6. CASE Abort(c)
  BY <1>1, <1>3, <1>6 DEF Abort
<1>7. CASE RecordOther(c)
  BY <1>1, <1>3, <1>7 DEF RecordOther, Asking
<1>8. CASE RecordSuccess(c)
  <2>1. 0 \in 0..MaxErrors /\ MinDelay \in MinDelay..MaxBackoff
    BY Constants
  <2>2. eng' \in Engines /\ eng'.next = eng.next
    <3>1. PICK strained \in BOOLEAN, circuit \in Circuits :
             eng' = [eng EXCEPT !.errors = 0, !.backoff = MinDelay,
                                !.strained = strained, !.circuit = circuit]
      BY <1>1, <1>8 DEF RecordSuccess, Engines, Circuits
    <3> QED
      BY <1>1, <2>1, <3>1 DEF Engines
  <2> QED
    BY <1>1, <1>3, <1>8, <2>2 DEF RecordSuccess, Asking
<1>9. CASE RecordFailure(c)
  <2>1. 0 \in RetryAfters
    BY Constants DEF RetryAfters
  <2>2. PICK retry \in RetryAfters :
          LET e == Cooled([eng EXCEPT !.errors = Smaller(@ + 1, MaxErrors)],
                          call[c].host, retry)
          IN eng' \in IF e.errors >= Tripwire THEN Tripped(e) ELSE Throttled(e)
    BY <1>9, <2>1 DEF RecordFailure
  <2>3. eng' \in Engines /\ eng'.next = eng.next
    BY <1>1, <2>2, FailureFields
  <2> QED
    BY <1>1, <1>3, <1>9, <2>3 DEF RecordFailure, Asking
<1>10. CASE Save(c)
  <2>1. /\ eng' = eng /\ now' = now /\ behind' = behind
        /\ saved'.eng \in Engines /\ saved'.time \in Int
        /\ call[c].at # "slot"
    BY <1>1, <1>10 DEF Save
  <2>2. CASE call' = call
    BY <1>1, <2>1, <2>2, SlotsStay
  <2>3. CASE call' = [call EXCEPT ![c].at = "idle"]
    BY <1>1, <1>3, <2>1, <2>3
  <2> QED
    BY <1>10, <2>2, <2>3 DEF Save
<1>11. CASE EndUnsaved(c)
  BY <1>1, <1>3, <1>11 DEF EndUnsaved
<1> QED
  BY <1>4, <1>5, <1>6, <1>7, <1>8, <1>9, <1>10, <1>11 DEF CallNext

LEMMA StepSlots ==
    ASSUME SlotInv, [Next]_vars
    PROVE  SlotInv'
<1>1. /\ eng \in Engines /\ call \in [Callers -> Calls] /\ eng.next \in Int
      /\ saved.eng \in Engines /\ saved.time \in Int /\ clock \in Int
      /\ EngineOK /\ now \in Nat /\ behind \in Nat
      /\ \A c \in Callers : call[c].wake \in Int
  BY ClockIsInt, EngineFields, Constants DEF SlotInv, EngineOK, Calls
<1>2. CASE UNCHANGED vars
  BY <1>1, <1>2, SlotsStay DEF vars
<1>3. CASE \E c \in Callers : CallNext(c)
  BY <1>3, CallerSlots
<1>4. CASE Restore
  <2>1. /\ call' \in [Callers -> Calls] /\ \A c \in Callers : call'[c].at = "idle"
        /\ eng' \in Engines /\ now' = now /\ behind' = behind /\ saved' = saved
    BY <1>1, <1>4, MergedFields DEF Restore, Calls
  <2>2. EngineOK'
    BY <1>1, <2>1 DEF EngineOK
  <2> QED
    BY <2>1, <2>2 DEF SlotInv, SlotsAreDistinct
<1>5. CASE Tick \/ SetBack
  <2>1. /\ eng' = eng /\ call' = call /\ saved' = saved
        /\ now' \in 0..MaxTime /\ behind' \in 0..MaxJump /\ behind' >= behind
    BY <1>1, <1>5, Constants DEF Tick, SetBack, EngineOK
  <2>2. EngineOK'
    BY <1>1, <2>1 DEF EngineOK
  <2>3. SlotsAreDistinct'
    BY <2>1 DEF SlotInv, SlotsAreDistinct
  <2>4. behind' \in Nat
    BY <2>1, Constants
  <2> QED
    BY <1>1, <2>1, <2>2, <2>3, <2>4 DEF SlotInv
<1> QED
  BY <1>2, <1>3, <1>4, <1>5 DEF Next

LEMMA SlotInvariant == Spec => []SlotInv
<1>1. Init => SlotInv
  BY InitIsKept DEF IInv, Init, SlotInv, SlotsAreDistinct
<1>2. SlotInv /\ [Next]_vars => SlotInv'
  BY StepSlots
<1> QED
  BY <1>1, <1>2, PTL DEF Spec

\* So has the history.
LEMMA PastIsTyped ==
    ASSUME EngineOK, PastOK, [Next]_vars
    PROVE  PastOK'
<1>1. CASE UNCHANGED past
  BY <1>1 DEF PastOK, past
<1>2. ASSUME NEW c \in Callers, RecordFailure(c) PROVE PastOK'
  <2>1. call[c].host \in Hosts /\ 0 \in RetryAfters
    BY Constants DEF EngineOK, Calls, RetryAfters
  <2>2. PICK retry \in RetryAfters :
          LET e == Cooled([eng EXCEPT !.errors = Smaller(@ + 1, MaxErrors)],
                          call[c].host, retry)
          IN heard' = Heard(call[c].host, retry, e.errors >= Tripwire)
    BY <1>2, <2>1 DEF RecordFailure
  <2> DEFINE e == Cooled([eng EXCEPT !.errors = Smaller(@ + 1, MaxErrors)],
                         call[c].host, retry)
             trips == e.errors >= Tripwire
  <2> HIDE DEF e
  <2>3. heard' \in Waits
    <3>1. heard' = Heard(call[c].host, retry, trips) /\ trips \in BOOLEAN
      BY <2>2 DEF e
    <3> HIDE DEF trips
    <3> QED
      BY <2>1, <3>1, HeardIsWaits
  <2> QED
    BY <1>2, <2>3 DEF RecordFailure, PastOK
<1>3. ASSUME NEW c \in Callers, Save(c) PROVE PastOK'
  <2>1. kept' \in Waits
    BY <1>3, WaitsAreTimes DEF Save, PastOK
  <2> QED
    BY <1>3, <2>1 DEF Save, PastOK
<1>4. CASE Restore
  <2>1. heard' \in Waits
    BY <1>4 DEF Restore, NoWaits, Waits
  <2> QED
    BY <1>4, <2>1, BusyIsNat DEF Restore, PastOK
<1>5. ASSUME NEW c \in Callers, CallNext(c) PROVE PastOK'
  <2>1. CASE Awake(c)
    BY <2>1 DEF Awake, PastOK
  <2>2. CASE EndUnsaved(c)
    BY <2>2 DEF EndUnsaved, PastOK
  <2>3. CASE \E h \in Hosts : Acquire(c, h)
    BY <1>1, <2>3 DEF Acquire
  <2>4. CASE Abort(c) \/ RecordSuccess(c) \/ RecordOther(c)
    BY <1>1, <2>4 DEF Abort, RecordSuccess, RecordOther
  <2> QED
    BY <1>2, <1>3, <1>5, <2>1, <2>2, <2>3, <2>4 DEF CallNext
<1>6. CASE Tick \/ SetBack \/ UNCHANGED vars
  BY <1>1, <1>6 DEF Tick, SetBack, vars, past
<1> QED
  BY <1>4, <1>5, <1>6 DEF Next

\* The state has its type, for any number of callers.
THEOREM PacingTypesAreKept == Spec => []TypeOK
<1>1. Init => PastOK
  BY InitIsKept DEF IInv
<1>2. SlotInv /\ PastOK /\ [Next]_vars => PastOK'
  BY PastIsTyped DEF SlotInv
<1>3. SlotInv /\ PastOK => TypeOK
  BY DEF SlotInv, TypeOK
<1> QED
  BY <1>1, <1>2, <1>3, SlotInvariant, PTL DEF Spec

\* However many callers wait for a slot, no two slots are closer than
\* min_delay (acquirePermission, where a slot is read and written between two
\* awaits).
THEOREM SlotsStayApart == Spec => []SlotsAreDistinct
<1>1. SlotInv => SlotsAreDistinct
  BY DEF SlotInv
<1> QED
  BY <1>1, SlotInvariant, PTL

-----------------------------------------------------------------------------
(* The debug journal *)
(***************************************************************************)
(* The station has nothing of the frozen batch or all of it, so that an    *)
(* old request is never the one it expects; the number of the file's last  *)
(* row is the place in the queue where the batch ends or begins.           *)
(***************************************************************************)

(* Rows that follow one another *)

\* The rows of s follow one another, the first one being of the event a.
Chain(s, a) ==
    \A i \in 1..Len(s) : s[i][1] = IF i = 1 THEN a ELSE s[i - 1][1] + s[i - 1][2]

\* The event that comes after them.
After(s, a) == IF s = <<>> THEN a ELSE s[Len(s)][1] + s[Len(s)][2]

-----------------------------------------------------------------------------
(* The invariant *)

\* Of the events in the queue, which begin at event a, the first k are in the
\* file, too.
Queued(k, a) ==
    /\ Chain(queue, a)
    /\ After(SubSeq(queue, 1, k), a) = After(journal, 1)
    /\ After(queue, a) + dropped = recorded + 1

\* The station has nothing of the frozen batch, or all of it.
Agrees(k) ==
    known /\ ~failed =>
        \/ k = 0 /\ next = sequence
        \/ /\ batch > 0 /\ k = batch /\ next = sequence + batch
           /\ last = <<sequence, SubSeq(queue, 1, batch)>>

FileInv ==
    /\ Chain(journal, 1)
    /\ \E k \in 0..batch, a \in Nat : Queued(k, a) /\ Agrees(k)

\* A request is the frozen batch or an old one.
RequestInv ==
    \A r \in requests :
        /\ r.at <= sequence
        /\ r.at = sequence => batch > 0 /\ r.events = SubSeq(queue, 1, batch)

\* What is acknowledged is stored.
ReplyInv ==
    /\ ~sending => reply = NoReply
    /\ sending => batch > 0
    /\ reply.kind = "ok" /\ reply.next = sequence + batch =>
          known /\ ~failed /\ next = sequence + batch

\* Events are dropped only while the queue is full, and nothing is sent
\* before the page has a client.
PageInv ==
    /\ dropped > 0 => Len(queue) = QueueLimit
    /\ page = "off" => /\ queue = <<>> /\ batch = 0 /\ sequence = 0
                       /\ dropped = 0 /\ recorded = 0 /\ requests = {}
                       /\ journal = <<>> /\ next = 0 /\ ~known
    /\ known => page # "off"

JournalInv == JournalTypeOK /\ FileInv /\ RequestInv /\ ReplyInv /\ PageInv

-----------------------------------------------------------------------------
(* Lemmas about rows *)

LEMMA AfterIsNat ==
    ASSUME NEW s \in Seq(Events), NEW a \in Nat
    PROVE  After(s, a) \in Nat
BY DEF After, Events

LEMMA AfterConcat ==
    ASSUME NEW s \in Seq(Events), NEW t \in Seq(Events), NEW a \in Nat
    PROVE  After(s \o t, a) = After(t, After(s, a))
<1>1. CASE t = <<>>
  <2>1. s \o t = s
    BY <1>1
  <2> QED BY <1>1, <2>1 DEF After
<1>2. CASE t # <<>>
  <2>1. /\ Len(t) \in Nat \ {0}
        /\ Len(s \o t) = Len(s) + Len(t)
        /\ s \o t # <<>>
    BY <1>2
  <2>2. (s \o t)[Len(s) + Len(t)] = t[Len(t)]
    BY <2>1
  <2> QED BY <1>2, <2>1, <2>2 DEF After
<1> QED BY <1>1, <1>2

\* What follows from a, in two parts.
LEMMA ChainConcat ==
    ASSUME NEW s \in Seq(Events), NEW t \in Seq(Events), NEW a \in Nat
    PROVE  Chain(s \o t, a) <=> Chain(s, a) /\ Chain(t, After(s, a))
<1> DEFINE u == s \o t
           b == After(s, a)
<1>1. /\ Len(u) = Len(s) + Len(t)
      /\ Len(s) \in Nat /\ Len(t) \in Nat
      /\ \A i \in 1..Len(s) : u[i] = s[i]
      /\ \A i \in 1..Len(t) : u[Len(s) + i] = t[i]
  OBVIOUS
<1>2. Len(s) > 0 => b = u[Len(s)][1] + u[Len(s)][2]
  BY <1>1 DEF After
<1>3. Len(s) = 0 => b = a
  BY DEF After
<1> HIDE DEF u, b
<1>4. ASSUME Chain(u, a)
      PROVE  Chain(s, a) /\ Chain(t, b)
  <2>1. Chain(s, a)
    BY <1>1, <1>4 DEF Chain
  <2>2. ASSUME NEW i \in 1..Len(t)
        PROVE  t[i][1] = IF i = 1 THEN b ELSE t[i - 1][1] + t[i - 1][2]
    <3>1. u[Len(s) + i][1] = IF Len(s) + i = 1 THEN a
                ELSE u[Len(s) + i - 1][1] + u[Len(s) + i - 1][2]
      BY <1>1, <1>4 DEF Chain
    <3>2. CASE i = 1
      BY <1>1, <1>2, <1>3, <3>1, <3>2
    <3>3. CASE i # 1
      <4>1. i - 1 \in 1..Len(t) /\ Len(s) + i - 1 = Len(s) + (i - 1)
        BY <1>1, <3>3
      <4>2. u[Len(s) + i - 1] = t[i - 1]
        BY <1>1, <4>1
      <4> QED BY <1>1, <3>1, <3>3, <4>2
    <3> QED BY <3>2, <3>3
  <2> QED BY <2>1, <2>2 DEF Chain
<1>5. ASSUME Chain(s, a), Chain(t, b)
      PROVE  Chain(u, a)
  <2>1. ASSUME NEW i \in 1..Len(u)
        PROVE  u[i][1] = IF i = 1 THEN a ELSE u[i - 1][1] + u[i - 1][2]
    <3>1. CASE i <= Len(s)
      <4>1. i \in 1..Len(s) /\ (i # 1 => i - 1 \in 1..Len(s))
        BY <1>1, <3>1
      <4> QED BY <1>1, <1>5, <4>1 DEF Chain
    <3>2. CASE i > Len(s)
      <4> DEFINE j == i - Len(s)
      <4>1. j \in 1..Len(t) /\ i = Len(s) + j
        BY <1>1, <3>2
      <4> HIDE DEF j
      <4>2. u[i] = t[j]
        BY <1>1, <4>1
      <4>3. CASE j = 1
        <5>1. t[j][1] = b
          BY <1>5, <4>1, <4>3 DEF Chain
        <5>2. i - 1 = Len(s)
          BY <1>1, <4>1, <4>3
        <5> QED BY <1>1, <1>2, <1>3, <4>2, <5>1, <5>2
      <4>4. CASE j # 1
        <5>1. j - 1 \in 1..Len(t) /\ i - 1 = Len(s) + (j - 1)
          BY <1>1, <4>1, <4>4
        <5>2. u[i - 1] = t[j - 1]
          BY <1>1, <5>1
        <5>3. t[j][1] = t[j - 1][1] + t[j - 1][2]
          BY <1>5, <4>1, <4>4 DEF Chain
        <5>4. i # 1
          BY <1>1, <4>1, <4>4
        <5> QED BY <4>2, <5>2, <5>3, <5>4
      <4> QED BY <4>3, <4>4
    <3> QED BY <1>1, <3>1, <3>2
  <2> QED BY <2>1 DEF Chain
<1> QED BY <1>4, <1>5 DEF u, b

\* A queue is its first k rows and the rest.
LEMMA RowsSplit ==
    ASSUME NEW s \in Seq(Events), NEW k \in 0..Len(s)
    PROVE  /\ SubSeq(s, 1, k) \in Seq(Events) /\ Len(SubSeq(s, 1, k)) = k
           /\ SubSeq(s, k + 1, Len(s)) \in Seq(Events)
           /\ Len(SubSeq(s, k + 1, Len(s))) = Len(s) - k
           /\ SubSeq(s, 1, k) \o SubSeq(s, k + 1, Len(s)) = s
<1> DEFINE p == SubSeq(s, 1, k)
           q == SubSeq(s, k + 1, Len(s))
           u == p \o q
<1>0. k \in Nat /\ Len(s) \in Nat /\ k <= Len(s)
  OBVIOUS
<1>1. /\ p \in Seq(Events) /\ Len(p) = k
      /\ \A i \in 1..k : p[i] = s[i]
  OBVIOUS
<1>2. /\ q \in Seq(Events) /\ Len(q) = Len(s) - k
      /\ \A i \in 1..Len(s) - k : q[i] = s[k + i]
  OBVIOUS
<1> HIDE DEF p, q
<1>3. u \in Seq(Events) /\ Len(u) = Len(s)
  <2>1. p \in Seq(Events) /\ q \in Seq(Events)
    BY <1>1, <1>2
  <2>2. u \in Seq(Events) /\ Len(u) = Len(p) + Len(q)
    BY <2>1
  <2> QED BY <1>0, <1>1, <1>2, <2>2
<1>4. ASSUME NEW i \in 1..Len(s)
      PROVE  u[i] = s[i]
  <2>1. CASE i <= k
    BY <1>1, <1>2, <2>1
  <2>2. CASE i > k
    <3>1. i - k \in 1..Len(s) - k /\ k + (i - k) = i
      BY <2>2
    <3>2. u[i] = q[i - k]
      BY <1>1, <1>2, <2>2
    <3>3. q[i - k] = s[k + (i - k)]
      BY <1>2, <3>1
    <3> QED BY <3>1, <3>2, <3>3
  <2>3. i <= k \/ i > k
    BY <1>0
  <2> QED BY <2>1, <2>2, <2>3
<1> HIDE DEF u
<1>5. u = s
  BY <1>3, <1>4
<1> QED BY <1>1, <1>2, <1>5 DEF p, q, u

\* Rows that are added at the end do not change the first ones.
LEMMA RowsBefore ==
    ASSUME NEW s \in Seq(Events), NEW e \in Events, NEW k \in 0..Len(s)
    PROVE  /\ SubSeq(Append(s, e), 1, k) = SubSeq(s, 1, k)
           /\ Append(s, e) = s \o <<e>>
<1>1. Append(s, e) = s \o <<e>>
  OBVIOUS
<1>2. SubSeq(Append(s, e), 1, k) = SubSeq(s, 1, k)
  OBVIOUS
<1> QED BY <1>1, <1>2

LEMMA NoRows ==
    ASSUME NEW s \in Seq(Events), NEW a \in Nat
    PROVE  /\ SubSeq(s, 1, 0) = <<>>
           /\ Chain(<<>>, a) /\ After(<<>>, a) = a
           /\ \A n, m \in Nat : /\ Chain(<<<<n, m>>>>, a) <=> n = a
                                /\ After(<<<<n, m>>>>, a) = n + m
BY DEF Chain, After

\* One more row, of m events.
LEMMA OneMoreRow ==
    ASSUME NEW s \in Seq(Events), NEW n \in Nat, NEW m \in Nat, NEW a \in Nat,
           Chain(s, a), After(s, a) = n
    PROVE  /\ Append(s, <<n, m>>) \in Seq(Events)
           /\ Len(Append(s, <<n, m>>)) = Len(s) + 1
           /\ Chain(Append(s, <<n, m>>), a)
           /\ After(Append(s, <<n, m>>), a) = n + m
<1> DEFINE e == <<n, m>>
<1>1. e \in Events
  BY DEF Events
<1>2. Chain(<<e>>, n) /\ After(<<e>>, n) = n + m
  BY NoRows
<1> HIDE DEF e
<1>3. <<e>> \in Seq(Events) /\ Append(s, e) = s \o <<e>>
  BY <1>1
<1>4. Append(s, e) \in Seq(Events) /\ Len(Append(s, e)) = Len(s) + 1
  BY <1>1
<1>5. Chain(Append(s, e), a) /\ After(Append(s, e), a) = n + m
  <2>1. Chain(s \o <<e>>, a) <=> Chain(s, a) /\ Chain(<<e>>, After(s, a))
    BY <1>3, ChainConcat
  <2>2. After(s \o <<e>>, a) = After(<<e>>, After(s, a))
    BY <1>3, AfterConcat
  <2> QED BY <1>2, <1>3, <2>1, <2>2
<1> QED BY <1>4, <1>5 DEF e

-----------------------------------------------------------------------------
(* The invariant is kept *)

\* The constants and the types that every step below uses.
LEMMA JournalConstants ==
    /\ QueueLimit \in Nat /\ QueueLimit > 0
    /\ BatchSize \in Nat /\ BatchSize > 0
    /\ ClientLimit \in Nat /\ MaxEvents \in Nat /\ MaxFaults \in Nat
BY JournalAssumption

LEMMA JournalInitIsKept == JournalInit => JournalInv
<1> SUFFICES ASSUME JournalInit PROVE JournalInv
  OBVIOUS
<1>1. JournalTypeOK
  <2>1. queue \in Seq(Events) /\ Len(queue) = 0 /\ journal \in Seq(Events)
    BY DEF JournalInit
  <2>2. batch \in 0..Len(queue)
    BY <2>1 DEF JournalInit
  <2>3. reply \in [kind : {"none", "ok", "storage", "invalid"}, next : Nat]
    BY DEF JournalInit, NoReply
  <2>4. {sequence, dropped, recorded, next, clients, faults} \subseteq Nat
    BY DEF JournalInit
  <2>5. /\ page \in {"off", "on", "terminal"} /\ sending \in BOOLEAN
        /\ {known, failed} \subseteq BOOLEAN /\ requests = {}
    BY DEF JournalInit
  <2> QED BY <2>1, <2>2, <2>3, <2>4, <2>5, JournalConstants DEF JournalTypeOK
<1>2. FileInv
  <2>1. Queued(0, 1) /\ Agrees(0) /\ Chain(journal, 1)
    BY DEF JournalInit, Queued, Agrees, Chain, After
  <2> QED BY <2>1 DEF JournalInit, FileInv
<1>3. RequestInv /\ ReplyInv /\ PageInv
  BY DEF JournalInit, RequestInv, ReplyInv, PageInv, NoReply
<1> QED BY <1>1, <1>2, <1>3 DEF JournalInv

\* What the frozen batch and the place of the file in the queue say.
LEMMA OpenKeepsJournal == JournalInv /\ Open => JournalInv'
<1> SUFFICES ASSUME JournalInv, Open PROVE JournalInv'
  OBVIOUS
<1> USE JournalConstants DEF JournalInv, Open
<1>1. JournalTypeOK'
  <2>1. CASE page' = "on" /\ known' = TRUE /\ queue' = <<<<1, 1>>>> /\ recorded' = 1
             /\ UNCHANGED faults
    <3>1. queue' \in Seq(Events) /\ Len(queue') = 1
      BY <2>1 DEF Events
    <3>2. batch' \in 0..Len(queue')
      BY <2>1, <3>1 DEF PageInv
    <3> QED BY <2>1, <3>1, <3>2 DEF JournalTypeOK
  <2>2. CASE Spend /\ UNCHANGED <<page, known, queue, recorded>>
    BY <2>2, SMTT(30) DEF JournalTypeOK, Spend
  <2> QED BY <2>1, <2>2
<1>2. FileInv'
  <2>1. CASE page' = "on" /\ known' = TRUE /\ queue' = <<<<1, 1>>>> /\ recorded' = 1
             /\ UNCHANGED faults
    <3>1. /\ journal = <<>> /\ batch = 0 /\ dropped = 0 /\ next = sequence
      BY DEF PageInv
    <3>2. Queued(0, 1)'
      BY <2>1, <3>1 DEF Queued, Chain, After
    <3>3. Agrees(0)' /\ Chain(journal, 1)'
      BY <2>1, <3>1 DEF Agrees, Chain
    <3> QED BY <3>1, <3>2, <3>3 DEF FileInv
  <2>2. CASE Spend /\ UNCHANGED <<page, known, queue, recorded>>
    BY <2>2 DEF FileInv, Queued, Agrees, Spend
  <2> QED BY <2>1, <2>2
<1>3. RequestInv' /\ ReplyInv'
  BY DEF RequestInv, ReplyInv, PageInv, Spend
<1>4. PageInv'
  BY DEF PageInv, Spend
<1> QED BY <1>1, <1>2, <1>3, <1>4

LEMMA RecordKeepsJournal == JournalInv /\ Record => JournalInv'
<1> SUFFICES ASSUME JournalInv, Record PROVE JournalInv'
  OBVIOUS
<1> USE JournalConstants DEF JournalInv, Record, stationVars
<1> DEFINE e == <<recorded + 1, 1>>
<1>1. CASE Len(queue) >= QueueLimit
  <2>1. dropped' = dropped + 1 /\ UNCHANGED queue
    BY <1>1
  <2>2. JournalTypeOK'
    BY <2>1, SMTT(30) DEF JournalTypeOK
  <2>3. PICK k \in 0..batch, a \in Nat : Queued(k, a) /\ Agrees(k)
    BY DEF FileInv
  <2>4. After(queue, a) \in Nat
    BY AfterIsNat DEF JournalTypeOK
  <2>5. Queued(k, a)'
    BY <2>1, <2>3, <2>4, SMTT(30) DEF Queued, JournalTypeOK
  <2>6. Agrees(k)' /\ Chain(journal, 1)'
    BY <2>1, <2>3 DEF Agrees, FileInv
  <2>7. RequestInv' /\ ReplyInv' /\ PageInv'
    BY <1>1, <2>1, SMTT(30) DEF RequestInv, ReplyInv, PageInv, JournalTypeOK
  <2> QED BY <2>2, <2>5, <2>6, <2>7 DEF FileInv
<1>2. CASE ~(Len(queue) >= QueueLimit)
  <2>1. queue' = Append(queue, e) /\ dropped' = dropped /\ dropped = 0
    <3>1. queue' = Append(queue, e) /\ dropped' = dropped
      BY <1>2
    <3>2. dropped \in Nat /\ Len(queue) # QueueLimit
      BY <1>2 DEF JournalTypeOK
    <3>3. ~(dropped > 0)
      BY <3>2 DEF PageInv
    <3> QED BY <3>1, <3>2, <3>3
  <2>2. /\ e \in Events /\ queue \in Seq(Events) /\ queue' \in Seq(Events)
        /\ <<e>> \in Seq(Events)
        /\ Len(queue') = Len(queue) + 1
    BY <2>1 DEF JournalTypeOK, Events
  <2>3. JournalTypeOK'
    BY <1>2, <2>1, <2>2 DEF JournalTypeOK
  <2>4. PICK k \in 0..batch, a \in Nat : Queued(k, a) /\ Agrees(k)
    BY DEF FileInv
  <2>5. k \in 0..Len(queue) /\ batch \in 0..Len(queue)
    BY DEF JournalTypeOK
  <2>6. /\ SubSeq(queue', 1, k) = SubSeq(queue, 1, k)
        /\ SubSeq(queue', 1, batch) = SubSeq(queue, 1, batch)
        /\ queue' = queue \o <<e>>
    BY <2>1, <2>2, <2>5, RowsBefore
  <2>7. Queued(k, a)'
    <3>1. After(queue, a) = recorded + 1
      BY <2>1, <2>4, AfterIsNat, <2>2, SMTT(30) DEF Queued, JournalTypeOK
    <3>2. Chain(<<e>>, recorded + 1) /\ After(<<e>>, recorded + 1) = recorded + 2
      BY NoRows DEF JournalTypeOK
    <3>3. Chain(queue', a) /\ After(queue', a) = recorded + 2
      <4>1. Chain(queue \o <<e>>, a) <=> Chain(queue, a) /\ Chain(<<e>>, After(queue, a))
        BY <2>2, ChainConcat
      <4>2. After(queue \o <<e>>, a) = After(<<e>>, After(queue, a))
        BY <2>2, AfterConcat
      <4> QED BY <2>4, <2>6, <3>1, <3>2, <4>1, <4>2 DEF Queued
    <3>4. After(queue', a) + dropped' = recorded' + 1
      BY <2>1, <3>3 DEF JournalTypeOK
    <3> QED BY <2>4, <2>6, <3>3, <3>4 DEF Queued
  <2>8. Agrees(k)' /\ Chain(journal, 1)'
    BY <2>4, <2>6 DEF Agrees, FileInv
  <2>9. RequestInv' /\ ReplyInv'
    BY <2>6 DEF RequestInv, ReplyInv
  <2>10. PageInv'
    BY <2>1 DEF PageInv, JournalTypeOK
  <2> QED BY <2>3, <2>7, <2>8, <2>9, <2>10 DEF FileInv
<1> QED BY <1>1, <1>2

LEMMA FlushKeepsJournal == JournalInv /\ Flush => JournalInv'
<1> SUFFICES ASSUME JournalInv, Flush PROVE JournalInv'
  OBVIOUS
<1> USE JournalConstants DEF JournalInv, Flush, stationVars
<1>1. /\ batch' \in 1..Len(queue)
      /\ batch > 0 => batch' = batch
  BY DEF JournalTypeOK, Freeze
<1>2. JournalTypeOK'
  <2>1. SubSeq(queue, 1, batch') \in Seq(Events)
    BY <1>1 DEF JournalTypeOK
  <2>2. [at |-> sequence, events |-> SubSeq(queue, 1, batch'), try |-> faults]
            \in [at : Nat, events : Seq(Events), try : Nat]
    BY <2>1 DEF JournalTypeOK
  <2>3. \A r \in requests' : r \in [at : Nat, events : Seq(Events), try : Nat]
    <3> SUFFICES ASSUME NEW r \in requests'
                 PROVE  r \in [at : Nat, events : Seq(Events), try : Nat]
      OBVIOUS
    <3>1. CASE r \in requests
      BY <3>1 DEF JournalTypeOK
    <3>2. CASE r = [at |-> sequence, events |-> SubSeq(queue, 1, batch'), try |-> faults]
      BY <2>2, <3>2
    <3> QED BY <3>1, <3>2
  <2>4. batch' \in 0..Len(queue')
    BY <1>1
  <2> QED BY <2>3, <2>4 DEF JournalTypeOK
<1>3. FileInv'
  <2>1. PICK k \in 0..batch, a \in Nat : Queued(k, a) /\ Agrees(k)
    BY DEF FileInv
  <2>2. k \in 0..batch'
    BY <1>1 DEF JournalTypeOK
  <2>3. Queued(k, a)' /\ Agrees(k)' /\ Chain(journal, 1)'
    BY <1>1, <2>1 DEF Queued, Agrees, FileInv
  <2> QED BY <2>2, <2>3 DEF FileInv
<1>4. RequestInv'
  BY <1>1, SMTT(30) DEF RequestInv, JournalTypeOK
<1>5. ReplyInv'
  <2>1. reply' = NoReply
    BY DEF ReplyInv
  <2> QED BY <1>1, <2>1 DEF ReplyInv, NoReply, JournalTypeOK
<1>6. PageInv'
  BY DEF PageInv
<1> QED BY <1>2, <1>3, <1>4, <1>5, <1>6

LEMMA AcknowledgedKeepsJournal == JournalInv /\ Acknowledged => JournalInv'
<1> SUFFICES ASSUME JournalInv, Acknowledged PROVE JournalInv'
  OBVIOUS
<1> DEFINE rest == SubSeq(queue, batch + 1, Len(queue))
           e == <<recorded - dropped + 1, dropped>>
<1>1. /\ JournalTypeOK /\ FileInv /\ RequestInv /\ ReplyInv /\ PageInv
  BY DEF JournalInv
<1>2. /\ sending /\ sequence' = sequence + batch /\ batch' = 0
      /\ dropped' = 0 /\ sending' = FALSE /\ reply' = NoReply
      /\ queue' = IF dropped = 0 THEN rest ELSE Append(rest, e)
      /\ UNCHANGED <<page, recorded, requests, journal, next, last, known,
                     clients, failed, faults>>
  BY DEF Acknowledged, Gap, stationVars
<1>3. /\ batch > 0 /\ batch \in 0..Len(queue) /\ batch \in Nat /\ sequence \in Nat
      /\ dropped \in Nat /\ recorded \in Nat /\ queue \in Seq(Events)
      /\ Len(queue) <= QueueLimit /\ next \in Nat /\ Len(queue) \in Nat
      /\ journal \in Seq(Events)
  BY <1>1, <1>2 DEF ReplyInv, JournalTypeOK
<1>4. known /\ ~failed /\ next = sequence + batch
  BY <1>1 DEF ReplyInv, Acknowledged
<1>5. PICK k \in 0..batch, a \in Nat : Queued(k, a) /\ Agrees(k)
  BY <1>1 DEF FileInv
<1>6. k = batch
  BY <1>3, <1>4, <1>5 DEF Agrees
<1>7. /\ SubSeq(queue, 1, batch) \in Seq(Events)
      /\ rest \in Seq(Events) /\ Len(rest) = Len(queue) - batch
      /\ SubSeq(queue, 1, batch) \o rest = queue
  BY <1>3, RowsSplit
<1> HIDE DEF rest, e
<1>8. PICK b \in Nat : /\ b = After(SubSeq(queue, 1, batch), a)
                     /\ b = After(journal, 1)
  <2>1. After(SubSeq(queue, 1, batch), a) \in Nat
    BY <1>7, AfterIsNat
  <2> QED BY <1>5, <1>6, <2>1 DEF Queued
<1>9. Chain(rest, b) /\ After(rest, b) + dropped = recorded + 1 /\ After(rest, b) \in Nat
  <2>1. Chain(queue, a) /\ After(queue, a) + dropped = recorded + 1
    BY <1>5 DEF Queued
  <2> DEFINE sent == SubSeq(queue, 1, batch)
  <2>2. /\ sent \in Seq(Events) /\ rest \in Seq(Events) /\ b = After(sent, a)
        /\ Chain(sent \o rest, a) /\ sent \o rest = queue
    BY <1>7, <1>8, <2>1
  <2> HIDE DEF sent
  <2>3. Chain(rest, b) /\ After(rest, b) = After(sent \o rest, a)
    <3>1. Chain(sent \o rest, a) <=> Chain(sent, a) /\ Chain(rest, After(sent, a))
      BY <2>2, ChainConcat
    <3>2. After(sent \o rest, a) = After(rest, After(sent, a))
      BY <2>2, AfterConcat
    <3> QED BY <2>2, <3>1, <3>2
  <2>4. After(rest, b) \in Nat
    BY <1>7, <1>8, AfterIsNat
  <2> QED BY <2>1, <2>2, <2>3, <2>4
<1>10. /\ queue' \in Seq(Events) /\ Len(queue') <= QueueLimit
       /\ Chain(queue', b) /\ After(queue', b) = recorded + 1
  <2>1. CASE dropped = 0
    <3>1. queue' = rest
      BY <1>2, <2>1
    <3>2. After(rest, b) = recorded + 1
      BY <1>3, <1>9, <2>1
    <3>3. Len(rest) <= QueueLimit
      BY <1>3, <1>7, JournalConstants
    <3> QED BY <1>7, <1>9, <3>1, <3>2, <3>3
  <2>2. CASE dropped # 0
    <3>1. e = <<After(rest, b), dropped>>
      BY <1>3, <1>9 DEF e
    <3>2. queue' = Append(rest, <<After(rest, b), dropped>>)
      BY <1>2, <2>2, <3>1
    <3>3. /\ queue' \in Seq(Events) /\ Len(queue') = Len(rest) + 1
          /\ Chain(queue', b) /\ After(queue', b) = After(rest, b) + dropped
      <4>1. /\ Append(rest, <<After(rest, b), dropped>>) \in Seq(Events)
            /\ Len(Append(rest, <<After(rest, b), dropped>>)) = Len(rest) + 1
            /\ Chain(Append(rest, <<After(rest, b), dropped>>), b)
            /\ After(Append(rest, <<After(rest, b), dropped>>), b)
                  = After(rest, b) + dropped
        BY <1>3, <1>7, <1>9, OneMoreRow
      <4> QED BY <3>2, <4>1
    <3> QED BY <1>3, <1>7, <1>9, <3>3, JournalConstants
  <2> QED BY <2>1, <2>2
<1>11. JournalTypeOK'
  <2>1. reply' \in [kind : {"none", "ok", "storage", "invalid"}, next : Nat]
    BY <1>2 DEF NoReply
  <2>2. batch' \in 0..Len(queue')
    BY <1>2, <1>10
  <2>3. {sequence', dropped', recorded', next', clients', faults'} \subseteq Nat
    BY <1>1, <1>2, <1>3 DEF JournalTypeOK
  <2> QED BY <1>1, <1>2, <1>10, <2>1, <2>2, <2>3 DEF JournalTypeOK
<1>12. FileInv'
  <2>1. Queued(0, b)'
    <3>1. SubSeq(queue', 1, 0) = <<>>
      BY <1>10, NoRows
    <3>2. After(SubSeq(queue', 1, 0), b) = After(journal, 1)
      BY <1>8, <1>10, <3>1, NoRows
    <3>3. After(queue', b) + dropped' = recorded' + 1
      BY <1>2, <1>3, <1>10
    <3> QED BY <1>2, <1>10, <3>2, <3>3 DEF Queued
  <2>2. Agrees(0)' /\ Chain(journal, 1)'
    BY <1>1, <1>2, <1>4 DEF Agrees, FileInv
  <2>3. 0 \in 0..batch'
    BY <1>2
  <2> QED BY <1>8, <2>1, <2>2, <2>3 DEF FileInv
<1>13. RequestInv'
  <2> SUFFICES ASSUME NEW r \in requests
               PROVE  r.at < sequence'
    BY <1>2, <1>1, SMTT(30) DEF RequestInv, JournalTypeOK
  <2> QED BY <1>1, <1>2, <1>3 DEF RequestInv, JournalTypeOK
<1>14. ReplyInv'
  BY <1>2 DEF ReplyInv, NoReply
<1>15. PageInv'
  BY <1>1, <1>2, <1>3, <1>4 DEF PageInv
<1> QED BY <1>11, <1>12, <1>13, <1>14, <1>15 DEF JournalInv

LEMMA RefusedKeepsJournal == JournalInv /\ Refused => JournalInv'
<1> SUFFICES ASSUME JournalInv, Refused PROVE JournalInv'
  OBVIOUS
<1> USE DEF JournalInv, Refused, stationVars
<1>1. JournalTypeOK'
  BY DEF JournalTypeOK, NoReply
<1>2. FileInv'
  BY DEF FileInv, Queued, Agrees
<1>3. RequestInv' /\ ReplyInv'
  BY DEF RequestInv, ReplyInv, NoReply
<1>4. PageInv'
  BY DEF PageInv, ReplyInv, JournalTypeOK
<1> QED BY <1>1, <1>2, <1>3, <1>4

LEMMA TimeoutKeepsJournal == JournalInv /\ Timeout => JournalInv'
<1> SUFFICES ASSUME JournalInv, Timeout PROVE JournalInv'
  OBVIOUS
<1> USE DEF JournalInv, Timeout, stationVars, Spend
<1>0. requests' \subseteq requests
  OBVIOUS
<1>1. JournalTypeOK'
  <2>1. reply' \in [kind : {"none", "ok", "storage", "invalid"}, next : Nat]
    BY DEF NoReply
  <2>2. \A r \in requests' : r \in [at : Nat, events : Seq(Events), try : Nat]
    BY <1>0 DEF JournalTypeOK
  <2>3. faults' \in Nat /\ batch' \in 0..Len(queue')
    BY DEF JournalTypeOK
  <2> QED BY <2>1, <2>2, <2>3 DEF JournalTypeOK
<1>2. FileInv'
  BY DEF FileInv, Queued, Agrees
<1>3. RequestInv' /\ ReplyInv'
  BY <1>0 DEF RequestInv, ReplyInv, NoReply
<1>4. PageInv'
  BY <1>0 DEF PageInv
<1> QED BY <1>1, <1>2, <1>3, <1>4

LEMMA RestartKeepsJournal == JournalInv /\ Restart => JournalInv'
<1> SUFFICES ASSUME JournalInv, Restart PROVE JournalInv'
  OBVIOUS
<1> USE DEF JournalInv, Restart, Spend
<1>1. JournalTypeOK'
  <2>1. reply' \in [kind : {"none", "ok", "storage", "invalid"}, next : Nat]
    BY DEF NoReply
  <2>2. faults' \in Nat /\ clients' \in Nat /\ batch' \in 0..Len(queue')
    BY DEF JournalTypeOK
  <2> QED BY <2>1, <2>2 DEF JournalTypeOK
<1>2. FileInv'
  BY DEF FileInv, Queued, Agrees
<1>3. RequestInv' /\ ReplyInv' /\ PageInv'
  BY DEF RequestInv, ReplyInv, PageInv, NoReply
<1> QED BY <1>1, <1>2, <1>3

\* What the station still expects is the frozen batch.
LEMMA ExpectedIsFrozen ==
    ASSUME JournalInv, known, ~failed, NEW r \in requests, Expected(r),
           NEW k \in 0..batch, NEW a \in Nat, Queued(k, a), Agrees(k)
    PROVE  /\ k = 0 /\ batch > 0 /\ batch \in 0..Len(queue)
           /\ next = sequence /\ next \in Nat
           /\ a = After(journal, 1)
           /\ r.events = SubSeq(queue, 1, batch)
           /\ r.events \in Seq(Events) /\ Len(r.events) = batch
           /\ ~(reply.kind = "ok" /\ reply.next = sequence + batch)
<1>1. /\ batch \in 0..Len(queue) /\ batch \in Nat /\ sequence \in Nat /\ next \in Nat
      /\ queue \in Seq(Events) /\ r \in [at : Nat, events : Seq(Events), try : Nat]
  BY DEF JournalInv, JournalTypeOK
<1>2. r.at = next /\ r.at <= sequence
  BY DEF JournalInv, RequestInv, Expected
<1>3. k = 0 /\ next = sequence
  BY <1>1, <1>2 DEF Agrees
<1>4. batch > 0 /\ r.events = SubSeq(queue, 1, batch)
  BY <1>2, <1>3 DEF JournalInv, RequestInv
<1>5. r.events \in Seq(Events) /\ Len(r.events) = batch
  BY <1>1, <1>4, RowsSplit
<1>6. SubSeq(queue, 1, 0) = <<>> /\ After(<<>>, a) = a
  BY <1>1, NoRows
<1>7. a = After(journal, 1)
  BY <1>3, <1>6 DEF Queued
<1>8. ~(reply.kind = "ok" /\ reply.next = sequence + batch)
  BY <1>1, <1>3, <1>4 DEF JournalInv, ReplyInv
<1> QED BY <1>1, <1>3, <1>4, <1>5, <1>7, <1>8

\* The events of a frozen batch, up to some number of them, in the file.
LEMMA BatchInTheFile ==
    ASSUME JournalInv, NEW a \in Nat, Queued(0, a), a = After(journal, 1),
           NEW n \in 0..batch
    PROVE  /\ journal \o SubSeq(queue, 1, n) \in Seq(Events)
           /\ Chain(journal \o SubSeq(queue, 1, n), 1)
           /\ After(journal \o SubSeq(queue, 1, n), 1) = After(SubSeq(queue, 1, n), a)
<1>1. /\ batch \in 0..Len(queue) /\ batch \in Nat /\ Len(queue) \in Nat
      /\ queue \in Seq(Events) /\ journal \in Seq(Events)
  BY DEF JournalInv, JournalTypeOK
<1>2. n \in 0..Len(queue)
  BY <1>1
<1> DEFINE p == SubSeq(queue, 1, n)
           q == SubSeq(queue, n + 1, Len(queue))
<1>3. p \in Seq(Events) /\ q \in Seq(Events) /\ p \o q = queue
  BY <1>1, <1>2, RowsSplit
<1> HIDE DEF p, q
<1>4. Chain(p \o q, a) <=> Chain(p, a) /\ Chain(q, After(p, a))
  BY <1>3, ChainConcat
<1>5. Chain(p, a) /\ Chain(journal, 1)
  BY <1>3, <1>4 DEF Queued, JournalInv, FileInv
<1>6. Chain(journal \o p, 1) <=> Chain(journal, 1) /\ Chain(p, After(journal, 1))
  BY <1>1, <1>3, ChainConcat
<1>7. After(journal \o p, 1) = After(p, After(journal, 1))
  BY <1>1, <1>3, AfterConcat
<1>8. journal \o p \in Seq(Events)
  BY <1>1, <1>3
<1> QED BY <1>5, <1>6, <1>7, <1>8 DEF p

LEMMA StoreKeepsJournal ==
    ASSUME JournalInv, NEW r \in requests, Store(r) PROVE JournalInv'
<1>1. /\ JournalTypeOK /\ FileInv /\ RequestInv /\ ReplyInv /\ PageInv
  BY DEF JournalInv
<1>2. PICK k \in 0..batch, a \in Nat : Queued(k, a) /\ Agrees(k)
  BY <1>1 DEF FileInv
<1>3. ~failed /\ known /\ Expected(r)
  BY DEF Store
<1>4. /\ k = 0 /\ batch > 0 /\ batch \in 0..Len(queue)
      /\ next = sequence /\ next \in Nat
      /\ a = After(journal, 1)
      /\ r.events = SubSeq(queue, 1, batch)
      /\ r.events \in Seq(Events) /\ Len(r.events) = batch
      /\ ~(reply.kind = "ok" /\ reply.next = sequence + batch)
  BY <1>2, <1>3, ExpectedIsFrozen
<1>5. /\ journal' = journal \o SubSeq(queue, 1, batch)
      /\ last' = <<sequence, SubSeq(queue, 1, batch)>>
      /\ next' = sequence + batch
      /\ requests' = requests \ {r}
      /\ reply' = reply \/ (sending /\ reply' = [kind |-> "ok", next |-> next'])
      /\ UNCHANGED <<page, queue, batch, sending, sequence, dropped, recorded,
                     known, clients, failed, faults>>
  BY <1>1, <1>3, <1>4 DEF Store, Answer, pageVars, Expected, RequestInv
<1>6. /\ journal' \in Seq(Events) /\ Chain(journal', 1)
      /\ After(journal', 1) = After(SubSeq(queue, 1, batch), a)
  BY <1>2, <1>4, <1>5, BatchInTheFile
<1>7. next' \in Nat
  BY <1>1, <1>4, <1>5 DEF JournalTypeOK
<1>8. JournalTypeOK'
  <2>1. reply' \in [kind : {"none", "ok", "storage", "invalid"}, next : Nat]
    <3>1. CASE reply' = reply
      BY <1>1, <3>1 DEF JournalTypeOK
    <3>2. CASE reply' = [kind |-> "ok", next |-> next']
      BY <1>7, <3>2
    <3> QED BY <1>5, <3>1, <3>2
  <2> QED BY <1>1, <1>5, <1>6, <1>7, <2>1 DEF JournalTypeOK
<1>9. FileInv'
  <2>1. Queued(batch, a)'
    BY <1>2, <1>5, <1>6 DEF Queued
  <2>2. Agrees(batch)' /\ batch' \in 0..batch'
    BY <1>4, <1>5 DEF Agrees
  <2> QED BY <1>5, <1>6, <2>1, <2>2 DEF FileInv
<1>10. RequestInv'
  BY <1>1, <1>5 DEF RequestInv
<1>11. ReplyInv'
  <2>1. CASE reply' = reply
    BY <1>1, <1>4, <1>5, <2>1 DEF ReplyInv
  <2>2. CASE sending /\ reply' = [kind |-> "ok", next |-> next']
    BY <1>1, <1>3, <1>5, <2>2 DEF ReplyInv
  <2> QED BY <1>5, <2>1, <2>2
<1>12. PageInv'
  BY <1>1, <1>3, <1>5 DEF PageInv
<1> QED BY <1>8, <1>9, <1>10, <1>11, <1>12 DEF JournalInv

LEMMA AppendFailsKeepsJournal ==
    ASSUME JournalInv, NEW r \in requests, AppendFails(r) PROVE JournalInv'
<1>1. /\ JournalTypeOK /\ FileInv /\ RequestInv /\ ReplyInv /\ PageInv
  BY DEF JournalInv
<1>2. PICK k \in 0..batch, a \in Nat : Queued(k, a) /\ Agrees(k)
  BY <1>1 DEF FileInv
<1>3. ~failed /\ known /\ Expected(r)
  BY DEF AppendFails
<1>4. /\ k = 0 /\ batch > 0 /\ batch \in 0..Len(queue)
      /\ next = sequence /\ next \in Nat
      /\ a = After(journal, 1)
      /\ r.events = SubSeq(queue, 1, batch)
      /\ r.events \in Seq(Events) /\ Len(r.events) = batch
      /\ ~(reply.kind = "ok" /\ reply.next = sequence + batch)
  BY <1>2, <1>3, ExpectedIsFrozen
<1>5. PICK n \in 0..batch : journal' = journal \o SubSeq(r.events, 1, n)
  BY <1>4 DEF AppendFails
<1>6. SubSeq(r.events, 1, n) = SubSeq(queue, 1, n)
  BY <1>1, <1>4 DEF JournalTypeOK
<1>7. /\ journal' = journal \o SubSeq(queue, 1, n)
      /\ failed' = TRUE /\ faults' = faults + 1
      /\ requests' = requests \ {r}
      /\ reply' = reply \/ (sending /\ reply' = [kind |-> "storage", next |-> 0])
      /\ UNCHANGED <<page, queue, batch, sending, sequence, dropped, recorded,
                     known, clients, next, last>>
  BY <1>5, <1>6 DEF AppendFails, Answer, pageVars, Spend
<1>8. /\ journal' \in Seq(Events) /\ Chain(journal', 1)
      /\ After(journal', 1) = After(SubSeq(queue, 1, n), a)
  BY <1>2, <1>4, <1>7, BatchInTheFile
<1>9. JournalTypeOK'
  <2>1. reply' \in [kind : {"none", "ok", "storage", "invalid"}, next : Nat]
    BY <1>1, <1>7, SMTT(30) DEF JournalTypeOK
  <2>2. faults' \in Nat
    BY <1>1, <1>7, SMTT(30) DEF JournalTypeOK
  <2> QED BY <1>1, <1>7, <1>8, <2>1, <2>2 DEF JournalTypeOK
<1>10. FileInv'
  <2>1. Queued(n, a)'
    BY <1>2, <1>7, <1>8 DEF Queued
  <2>2. Agrees(n)'
    BY <1>7 DEF Agrees
  <2> QED BY <1>7, <1>8, <2>1, <2>2 DEF FileInv
<1>11. RequestInv'
  BY <1>1, <1>7 DEF RequestInv
<1>12. ReplyInv'
  <2>1. CASE reply' = reply
    BY <1>1, <1>4, <1>7, <2>1 DEF ReplyInv
  <2>2. CASE sending /\ reply' = [kind |-> "storage", next |-> 0]
    BY <1>1, <1>7, <2>2 DEF ReplyInv
  <2> QED BY <1>7, <2>1, <2>2
<1>13. PageInv'
  BY <1>1, <1>3, <1>7 DEF PageInv
<1> QED BY <1>9, <1>10, <1>11, <1>12, <1>13 DEF JournalInv

LEMMA RepeatKeepsJournal ==
    ASSUME JournalInv, NEW r \in requests, Repeat(r) PROVE JournalInv'
<1>1. /\ JournalTypeOK /\ FileInv /\ RequestInv /\ ReplyInv /\ PageInv
  BY DEF JournalInv
<1>2. PICK kind \in {"ok", "storage", "invalid"}, n \in {next, 0} :
         /\ kind = "ok" => known /\ ~failed /\ n = next
         /\ Answer(r, kind, n)
  BY DEF Repeat
<1>3. UNCHANGED <<page, queue, batch, sending, sequence, dropped, recorded,
                  journal, next, last, known, clients, failed, faults>>
  BY DEF Repeat, pageVars, stationVars
<1>4. /\ requests' = requests \ {r}
      /\ reply' = reply \/ (sending /\ reply' = [kind |-> kind, next |-> n])
  BY <1>2 DEF Answer
<1>5. JournalTypeOK'
  <2>1. reply' \in [kind : {"none", "ok", "storage", "invalid"}, next : Nat]
    BY <1>1, <1>4 DEF JournalTypeOK
  <2> QED BY <1>1, <1>3, <1>4, <2>1 DEF JournalTypeOK
<1>6. FileInv'
  BY <1>1, <1>3 DEF FileInv, Queued, Agrees
<1>7. RequestInv' /\ PageInv'
  BY <1>1, <1>3, <1>4 DEF RequestInv, PageInv
<1>8. ReplyInv'
  <2>1. CASE reply' = reply
    BY <1>1, <1>3, <2>1 DEF ReplyInv
  <2>2. CASE sending /\ reply' = [kind |-> kind, next |-> n]
    BY <1>1, <1>2, <1>3, <2>2 DEF ReplyInv
  <2> QED BY <1>4, <2>1, <2>2
<1> QED BY <1>5, <1>6, <1>7, <1>8 DEF JournalInv

LEMMA JournalNextIsKept == JournalInv /\ [JournalNext]_journalVars => JournalInv'
<1> SUFFICES ASSUME JournalInv, [JournalNext]_journalVars PROVE JournalInv'
  OBVIOUS
<1>1. CASE Open        BY <1>1, OpenKeepsJournal
<1>2. CASE Record      BY <1>2, RecordKeepsJournal
<1>3. CASE Flush       BY <1>3, FlushKeepsJournal
<1>4. CASE Acknowledged  BY <1>4, AcknowledgedKeepsJournal
<1>5. CASE Refused     BY <1>5, RefusedKeepsJournal
<1>6. CASE Timeout     BY <1>6, TimeoutKeepsJournal
<1>7. CASE Restart     BY <1>7, RestartKeepsJournal
<1>8. CASE Handle
  BY <1>8, StoreKeepsJournal, RepeatKeepsJournal DEF Handle
<1>9. CASE \E r \in requests : AppendFails(r)
  BY <1>9, AppendFailsKeepsJournal
<1>10. CASE UNCHANGED journalVars
  BY <1>10 DEF journalVars, pageVars, stationVars, JournalInv, JournalTypeOK,
     FileInv, Queued, Agrees, RequestInv, ReplyInv, PageInv
<1> QED
  BY <1>1, <1>2, <1>3, <1>4, <1>5, <1>6, <1>7, <1>8, <1>9, <1>10 DEF JournalNext

THEOREM JournalInvariant == JournalSpec => []JournalInv
<1>1. JournalInit => JournalInv
  BY JournalInitIsKept
<1>2. JournalInv /\ [JournalNext]_journalVars => JournalInv'
  BY JournalNextIsKept
<1> QED BY <1>1, <1>2, PTL DEF JournalSpec

\* The types of the journal's state (DebugRecorder, DebugJournal).
THEOREM JournalTypesAreKept == JournalSpec => []JournalTypeOK
<1>1. JournalInv => JournalTypeOK
  BY DEF JournalInv
<1> QED BY <1>1, JournalInvariant, PTL

-----------------------------------------------------------------------------
(* What follows *)

\* The file never holds an event twice or out of order, and says of every
\* event that is missing that it is (DebugJournal.batch, DebugRecorder.flush).
THEOREM JournalIsAlwaysUnbroken == JournalSpec => []JournalIsUnbroken
<1>1. JournalInv => JournalIsUnbroken
  BY DEF JournalInv, FileInv, JournalIsUnbroken, Unbroken, Chain
<1> QED BY <1>1, JournalInvariant, PTL

LEMMA NothingIsLostNow == JournalInv => NothingIsLost
<1> SUFFICES ASSUME JournalInv PROVE NothingIsLost
  OBVIOUS
<1>1. PICK k \in 0..batch, a \in Nat : Queued(k, a)
  BY DEF JournalInv, FileInv
<1>2. /\ queue \in Seq(Events) /\ journal \in Seq(Events)
      /\ batch \in 0..Len(queue) /\ Len(queue) \in Nat /\ batch \in Nat
      /\ Chain(journal, 1)
  BY DEF JournalInv, JournalTypeOK, FileInv
<1>3. k \in 0..Len(queue)
  BY <1>2
<1> DEFINE p == SubSeq(queue, 1, k)
           q == SubSeq(queue, k + 1, Len(queue))
           rows == journal \o q
<1>4. p \in Seq(Events) /\ q \in Seq(Events) /\ p \o q = queue
  BY <1>2, <1>3, RowsSplit
<1>5. /\ Chain(queue, a) /\ After(p, a) = After(journal, 1)
      /\ After(queue, a) + dropped = recorded + 1
  BY <1>1 DEF Queued
<1> HIDE DEF p, q
<1>6. Chain(p \o q, a) <=> Chain(p, a) /\ Chain(q, After(p, a))
  BY <1>4, ChainConcat
<1>7. After(p \o q, a) = After(q, After(p, a))
  BY <1>4, AfterConcat
<1>8. Chain(rows, 1) <=> Chain(journal, 1) /\ Chain(q, After(journal, 1))
  BY <1>2, <1>4, ChainConcat
<1>9. After(rows, 1) = After(q, After(journal, 1))
  BY <1>2, <1>4, AfterConcat
<1>10. rows \in Seq(Events)
  BY <1>2, <1>4
<1> HIDE DEF rows
<1>11. Chain(rows, 1) /\ After(rows, 1) + dropped = recorded + 1
  BY <1>2, <1>4, <1>5, <1>6, <1>7, <1>8, <1>9
<1>12. Unbroken(rows)
  BY <1>11 DEF Unbroken, Chain
<1>13. rows # <<>> => Last(rows)[1] + Last(rows)[2] + dropped = recorded + 1
  BY <1>11 DEF After, Last
<1> QED BY <1>12, <1>13 DEF NothingIsLost, rows, q

\* Whatever is lost, late or refused on the way, every event that was recorded
\* is in the file, in the queue or counted as dropped (DebugRecorder.flush
\* keeps the batch until it is acknowledged).
THEOREM NothingIsEverLost == JournalSpec => []NothingIsLost
<1> QED BY NothingIsLostNow, JournalInvariant, PTL

=============================================================================
