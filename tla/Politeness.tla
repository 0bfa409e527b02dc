----------------------------- MODULE Politeness ------------------------------
(***************************************************************************)
(* The politeness engine (cli/politeness.py, and the same algorithm in     *)
(* web/lib/politeness_engine.js): circuit breaker, Retry-After cooldowns,  *)
(* token bucket and paced slots, and the export and restore of its state.  *)
(*                                                                         *)
(* now is real time, in which sleeps elapse.  The engine sees clock, which *)
(* may be set back.                                                        *)
(*                                                                         *)
(* A process saves its engine before a call that was answered returns      *)
(* (cli/capture_bridge.py, fetch and persist_pacing), and the engine of    *)
(* the next process starts from what was saved last (configure).  heard,   *)
(* kept, granted and interrupted are history, which no code reads and no   *)
(* restore puts back: what the servers asked for and what was granted.     *)
(***************************************************************************)
EXTENDS Integers, FiniteSets

CONSTANTS
    Callers, Hosts,
    MinDelay, MaxDelay,     \* min_delay_ms, max_delay_ms
    MaxBackoff,             \* the cap of the decorrelated back-off
    Burst,                  \* burst_limit
    Cost,                   \* a token: what the bucket gains in Cost ticks
    Tripwire,               \* consecutive_error_tripwire
    Cooldown,               \* cooldown_seconds
    MaxRetryAfter,          \* the cap of Retry-After: 10 times Cooldown there
    MaxTime,                \* bound: real time
    MaxJump,                \* bound: how far the clock is set back, in all
    MaxErrors               \* bound: errors that are told apart

ASSUME PolitenessAssumption ==
    /\ {MinDelay, MaxDelay, MaxBackoff, Burst, Cost, Tripwire, Cooldown,
        MaxRetryAfter, MaxErrors} \subseteq Nat \ {0}
    /\ {MaxTime, MaxJump} \subseteq Nat
    /\ MinDelay <= MaxDelay
    /\ MinDelay <= MaxBackoff
    /\ IsFiniteSet(Callers)

VARIABLES
    now,    \* real time
    behind, \* how far the clock has been set back
    eng,    \* the engine
    call,   \* of each caller: where it is, for which host, until when it sleeps
    saved,  \* the state last exported, with its time
    heard,  \* until when the answers to this process ask it to wait, in real time
    kept,   \* the same of every answer there was, once a state is saved after it
    granted,        \* the permissions of all processes
    interrupted     \* the calls that were permitted and ended without a save

past == <<heard, kept, granted, interrupted>>
vars == <<now, behind, eng, call, saved, heard, kept, granted, interrupted>>

-----------------------------------------------------------------------------
Circuits == {"NOMINAL", "HALF_OPEN", "THROTTLED", "TRIPPED"}
Sleeping == {"cooling", "host", "tokens", "slot"}

Engines ==
    [circuit : Circuits, until : Int, errors : 0..MaxErrors,
     cooldown : [Hosts -> Int], tokens : Int, refill : Int, next : Int,
     backoff : MinDelay..MaxBackoff, strained : BOOLEAN]

\* A call that was permitted: the request is out, it is answered, or the answer
\* has counted as a failure.
Asking == {"request", "answered", "failed"}

Calls == [at : {"idle"} \union Sleeping \union Asking, host : Hosts, wake : Int]

Waits == [must : [Hosts -> Nat], rest : Nat]

EngineOK ==
    /\ now \in 0..MaxTime
    /\ behind \in 0..MaxJump
    /\ eng \in Engines
    /\ call \in [Callers -> Calls]
    /\ saved.eng \in Engines
    /\ saved.time \in Int

PastOK ==
    /\ heard \in Waits
    /\ kept \in Waits
    /\ granted \in Nat
    /\ interrupted \in Nat

TypeOK == EngineOK /\ PastOK

clock == now - behind

Larger(m, n) == IF m >= n THEN m ELSE n
Smaller(m, n) == IF m <= n THEN m ELSE n

\* A new engine.
Fresh ==
    [circuit |-> "NOMINAL", until |-> 0, errors |-> 0,
     cooldown |-> [h \in Hosts |-> 0], tokens |-> Burst * Cost,
     refill |-> clock, next |-> 0, backoff |-> MinDelay, strained |-> FALSE]

NoWaits == [must |-> [h \in Hosts |-> 0], rest |-> 0]

Init ==
    /\ now = 0
    /\ behind = 0
    /\ eng = Fresh
    /\ \E h \in Hosts :
          call = [c \in Callers |-> [at |-> "idle", host |-> h, wake |-> 0]]
    /\ saved = [eng |-> Fresh, time |-> 0]
    /\ heard = NoWaits
    /\ kept = NoWaits
    /\ granted = 0
    /\ interrupted = 0

-----------------------------------------------------------------------------
(* acquire_permission.  The stages hand the engine on, up to a sleep. *)

\* Mutant: the bucket fills too fast, and over its rim.
RefillOver(e) ==
    [e EXCEPT !.tokens = @ + 2 * (clock - e.refill), !.refill = clock]

\* refill_tokens.
Refill(e) ==
    [e EXCEPT !.tokens = Smaller(Burst * Cost, @ + (clock - e.refill)),
              !.refill = clock]

Sleep(c, h, place, ticks) ==
    call' = [call EXCEPT ![c] =
                [at |-> place, host |-> h, wake |-> now + Larger(0, ticks)]]

\* calculateJitter.
Jitters == MinDelay..MaxDelay

\* Mutant: every caller waits for a slot of its own reckoning.
NextSlotOwn(e, delay) == clock + delay

NextSlot(e, delay) == Larger(clock, e.next) + delay

\* A token is taken and a slot reserved.  Strain is latency above 1.35 times
\* the baseline; it stretches the delay up to three times.
Reserve(c, h, e) ==
    \E jitter \in Jitters :
    \E stretch \in IF e.strained THEN {1, 3} ELSE {1} :
        LET circuit == IF stretch > 1 /\ e.circuit = "NOMINAL"
                       THEN "THROTTLED" ELSE e.circuit
            delay == IF circuit = "THROTTLED"
                     THEN Larger(jitter * stretch, e.backoff) ELSE jitter * stretch
            slot == NextSlot(e, delay)
        IN /\ eng' = [e EXCEPT !.tokens = @ - Cost, !.circuit = circuit,
                               !.next = slot]
           /\ Sleep(c, h, "slot", slot - clock)

TakeToken(c, h, e) ==
    LET r == Refill(e)
    IN IF r.tokens < Cost
       THEN eng' = r /\ Sleep(c, h, "tokens", Cost - r.tokens)
       ELSE Reserve(c, h, r)

CheckHost(c, h, e) ==
    IF clock < e.cooldown[h]
    THEN eng' = e /\ Sleep(c, h, "host", e.cooldown[h] - clock)
    ELSE TakeToken(c, h, e)

HalfOpen(e) == IF e.circuit = "TRIPPED" THEN [e EXCEPT !.circuit = "HALF_OPEN"]
                                        ELSE e

Acquire(c, h) ==
    /\ call[c].at = "idle"
    /\ IF eng.circuit = "TRIPPED" /\ clock < eng.until
       THEN eng' = eng /\ Sleep(c, h, "cooling", eng.until - clock)
       ELSE CheckHost(c, h, HalfOpen(eng))
    /\ UNCHANGED <<now, behind, saved, past>>

\* The sleep has elapsed; the caller goes on, or is permitted its request.
Awake(c) ==
    LET h == call[c].host
    IN /\ call[c].at \in Sleeping
       /\ now >= call[c].wake
       /\ \/ call[c].at = "cooling" /\ CheckHost(c, h, [eng EXCEPT !.circuit = "HALF_OPEN"])
          \/ call[c].at = "host" /\ TakeToken(c, h, [eng EXCEPT !.cooldown[h] = 0])
          \/ call[c].at = "tokens" /\ Reserve(c, h, Refill(eng))
          \/ /\ call[c].at = "slot"
             /\ call' = [call EXCEPT ![c].at = "request"]
             /\ UNCHANGED eng
       /\ granted' = IF call[c].at = "slot" THEN granted + 1 ELSE granted
       /\ UNCHANGED <<now, behind, saved, heard, kept, interrupted>>

\* stop_event, or abort: the sleep ends, and what was reserved stays so.
Abort(c) ==
    /\ call[c].at \in Sleeping
    /\ call' = [call EXCEPT ![c].at = "idle"]
    /\ UNCHANGED <<now, behind, eng, saved, past>>

-----------------------------------------------------------------------------
(* record_success and record_failure *)

RecordSuccess(c) ==
    /\ call[c].at = "request"
    /\ call' = [call EXCEPT ![c].at = "answered"]
    /\ \E strained \in BOOLEAN :
          eng' = [eng EXCEPT !.errors = 0, !.backoff = MinDelay,
                             !.strained = strained,
                             !.circuit = IF @ \in {"HALF_OPEN", "THROTTLED"}
                                         THEN "NOMINAL" ELSE @]
    /\ UNCHANGED <<now, behind, saved, past>>

\* Another status changes nothing.
RecordOther(c) ==
    /\ call[c].at = "request"
    /\ call' = [call EXCEPT ![c].at = "answered"]
    /\ UNCHANGED <<now, behind, eng, saved, past>>

\* What a Retry-After header says in seconds or as a date, or 0.
RetryAfters == 0..MaxRetryAfter + 1

Wait(retry) == Smaller(retry, MaxRetryAfter)

\* The host says Retry-After; 0 is that it does not.
Cooled(e, h, retry) ==
    IF retry = 0 THEN e ELSE [e EXCEPT !.cooldown[h] = clock + Wait(retry)]

\* calculate_decorrelated_backoff gives any delay up to three times the last.
Throttled(e) ==
    {[e EXCEPT !.circuit = "THROTTLED", !.backoff = b] :
        b \in MinDelay..Smaller(MaxBackoff, Larger(MinDelay, 3 * e.backoff))}

Tripped(e) == {[e EXCEPT !.circuit = "TRIPPED", !.until = clock + Cooldown]}

\* What is asked of this process from now on.
Heard(h, retry, trips) ==
    [must |-> IF retry = 0 THEN heard.must
              ELSE [heard.must EXCEPT ![h] = now + Wait(retry)],
     rest |-> IF trips THEN now + Cooldown ELSE heard.rest]

\* A failure that counts, once for a call: 429 or 5xx, or no answer; that may
\* also be the end of an answer that began well.
RecordFailure(c) ==
    /\ call[c].at \in {"request", "answered"}
    /\ \E retry \in IF call[c].at = "request" THEN RetryAfters ELSE {0} :
          LET h == call[c].host
              e == Cooled([eng EXCEPT !.errors = Smaller(@ + 1, MaxErrors)], h, retry)
              trips == e.errors >= Tripwire
          IN /\ eng' \in IF trips THEN Tripped(e) ELSE Throttled(e)
             /\ heard' = Heard(h, retry, trips)
    /\ call' = [call EXCEPT ![c].at = "failed"]
    /\ UNCHANGED <<now, behind, saved, kept, granted, interrupted>>

-----------------------------------------------------------------------------
(* export_state and restore_state, as fetch and configure call them *)

\* What is known of both.
Later(v, w) ==
    [must |-> [h \in Hosts |-> Larger(v.must[h], w.must[h])],
     rest |-> Larger(v.rest, w.rest)]

\* The engine is saved, at the end of a call or before the body is read.
Save(c) ==
    /\ call[c].at \in {"answered", "failed"}
    /\ saved' = [eng |-> eng, time |-> clock]
    /\ kept' = Later(kept, heard)
    /\ call' \in {call, [call EXCEPT ![c].at = "idle"]}
    /\ UNCHANGED <<now, behind, eng, heard, granted, interrupted>>

\* The call ends and nothing is saved: an event cannot be logged before the
\* request, or the journal cannot be written after it.
EndUnsaved(c) ==
    /\ call[c].at \in Asking
    /\ call' = [call EXCEPT ![c].at = "idle"]
    /\ interrupted' = interrupted + 1
    /\ UNCHANGED <<now, behind, eng, saved, heard, kept, granted>>

\* What restore_state accepts.
Acceptable(s) ==
    /\ s.eng.refill <= s.time
    /\ s.eng.tokens \in 0..Burst * Cost
    /\ s.eng.backoff \in MinDelay..MaxBackoff

\* Mutant: what is left of the wait is taken for the deadline.
DeadlineLeft(value) == Larger(0, value - saved.time)

\* A deadline, where the clock may have been set back since it was saved.
Deadline(value) ==
    IF clock < saved.time
    THEN Larger(value, clock + Larger(0, value - saved.time)) ELSE value

\* A new engine takes the state.
Merged(s) ==
    [s EXCEPT !.until = IF s.until = 0 THEN 0 ELSE Deadline(s.until),
              !.next = Deadline(s.next),
              !.cooldown = [h \in Hosts |-> Deadline(s.cooldown[h])],
              !.refill = IF clock >= saved.time THEN Smaller(clock, @) ELSE clock]

\* The calls that were permitted and have not ended.
Busy == Cardinality({c \in Callers : call[c].at \in Asking})

\* A new engine, of another session or another process, takes what was saved
\* last.  Whoever asked the former one is cut off.
Restore ==
    /\ Acceptable(saved)
    /\ eng' = Merged(saved.eng)
    /\ call' = [c \in Callers |-> [call[c] EXCEPT !.at = "idle"]]
    /\ heard' = NoWaits
    /\ interrupted' = interrupted + Busy
    /\ UNCHANGED <<now, behind, saved, kept, granted>>

-----------------------------------------------------------------------------
Tick ==
    /\ now < MaxTime
    /\ now' = now + 1
    /\ UNCHANGED <<behind, eng, call, saved, past>>

SetBack ==
    /\ \E jump \in 1..MaxJump - behind : behind' = behind + jump
    /\ UNCHANGED <<now, eng, call, saved, past>>

CallNext(c) ==
    \/ \E h \in Hosts : Acquire(c, h)
    \/ Awake(c) \/ Abort(c) \/ RecordSuccess(c) \/ RecordFailure(c) \/ RecordOther(c)
    \/ Save(c) \/ EndUnsaved(c)

Next == (\E c \in Callers : CallNext(c)) \/ Restore \/ Tick \/ SetBack

Spec == Init /\ [][Next]_vars

-----------------------------------------------------------------------------
(* Properties *)

Permitted == {c \in Callers : call[c].at = "request"}

\* A request is permitted only when the newest Retry-After of its host is over
\* in real time: of what this process has heard, and of everything that was
\* saved by any process, whatever state is restored and wherever the clock is
\* set.  What is lost is what was heard by a call that ended without a save.
RetryAfterIsHonoured ==
    \A c \in Permitted : LET h == call[c].host
                         IN now >= heard.must[h] /\ now >= kept.must[h]

\* After the circuit has tripped nothing is permitted for the cooldown, with
\* the same exception.
TrippedRests == Permitted # {} => now >= heard.rest /\ now >= kept.rest

\* The permissions of all processes together are at most a burst and what real
\* time refills, and one for each call that was cut off before its state was
\* saved.
RateIsBounded == granted * Cost <= (Burst + interrupted) * Cost + now

\* "Reserve distinct output slots even when more than one caller is waiting"
\* (politeness_engine.js:361): of the slots that callers wait for, no two are
\* closer than min_delay.
SlotsAreDistinct ==
    \A c, d \in Callers :
        c # d /\ call[c].at = "slot" /\ call[d].at = "slot" =>
           \/ call[c].wake >= call[d].wake + MinDelay
           \/ call[d].wake >= call[c].wake + MinDelay

=============================================================================
