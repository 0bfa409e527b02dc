---------------------------- MODULE DebugJournal -----------------------------
(***************************************************************************)
(* The debug journal: DebugRecorder in a page (web/lib/debug_recorder.js)  *)
(* queues events and sends them in batches to the station, whose           *)
(* DebugJournal (cli/debug_journal.py) appends them to a file.  Requests   *)
(* and replies are lost or late; the file may fail; the station may be     *)
(* started again and forget its clients.                                   *)
(*                                                                         *)
(* An event is the pair of its number and 1; <<n, k>> is the debug_gap     *)
(* that stands for the k events from n on.                                 *)
(***************************************************************************)
EXTENDS Naturals, Sequences, SequencesExt

CONSTANTS
    QueueLimit,     \* 1024
    BatchSize,      \* 4
    ClientLimit,    \* 64
    MaxEvents,      \* bound: events recorded
    MaxFaults       \* bound: faults

ASSUME JournalAssumption ==
    /\ {QueueLimit, BatchSize, ClientLimit} \subseteq Nat \ {0}
    /\ {MaxEvents, MaxFaults} \subseteq Nat

VARIABLES
    page,       \* "off", "on" (active), "terminal"
    queue,
    batch,      \* length of the frozen batch, 0 without one
    sending,
    sequence,
    dropped,
    recorded,   \* history: events so far
    requests,   \* debug-events requests on their way, old ones too
    reply,      \* the answer to the newest one, if it is of a kind
    journal,    \* the rows of this client in the file
    next, last, \* the station's state of the client
    known,      \* the station knows the client
    clients,    \* clients it has given out
    failed,     \* the journal has failed
    faults

pageVars == <<page, queue, batch, sending, sequence, dropped, recorded>>
stationVars == <<journal, next, last, known, clients, failed>>
journalVars == <<pageVars, requests, reply, stationVars, faults>>

Events == Nat \X Nat

JournalTypeOK ==
    /\ page \in {"off", "on", "terminal"}
    /\ queue \in Seq(Events)
    /\ Len(queue) <= QueueLimit
    /\ batch \in 0..Len(queue)
    /\ sending \in BOOLEAN
    /\ {sequence, dropped, recorded, next, clients, faults} \subseteq Nat
    /\ \A r \in requests : r \in [at : Nat, events : Seq(Events), try : Nat]
    /\ reply \in [kind : {"none", "ok", "storage", "invalid"}, next : Nat]
    /\ journal \in Seq(Events)
    /\ {known, failed} \subseteq BOOLEAN

NoReply == [kind |-> "none", next |-> 0]

JournalInit ==
    /\ page = "off"
    /\ queue = <<>>
    /\ batch = 0
    /\ sending = FALSE
    /\ sequence = 0
    /\ dropped = 0
    /\ recorded = 0
    /\ requests = {}
    /\ reply = NoReply
    /\ journal = <<>>
    /\ next = 0
    /\ last = <<>>
    /\ known = FALSE
    /\ clients = 0
    /\ failed = FALSE
    /\ faults = 0

Spend == faults < MaxFaults /\ faults' = faults + 1

-----------------------------------------------------------------------------
(* The page *)

\* open: debug-start gives the page a client, and it records the event of it.
\* The reply may be lost: the client stays unused.
Open ==
    /\ page = "off"
    /\ ~failed
    /\ clients < ClientLimit
    /\ clients' = clients + 1
    /\ \/ /\ page' = "on"
          /\ known' = TRUE
          /\ queue' = <<<<1, 1>>>>
          /\ recorded' = 1
          /\ UNCHANGED faults
       \/ /\ Spend
          /\ UNCHANGED <<page, known, queue, recorded>>
    /\ UNCHANGED <<batch, sending, sequence, dropped, requests, reply, journal,
                   next, last, failed>>

Record ==
    /\ page = "on"
    /\ recorded < MaxEvents
    /\ recorded' = recorded + 1
    /\ IF Len(queue) >= QueueLimit
       THEN dropped' = dropped + 1 /\ UNCHANGED queue
       ELSE queue' = Append(queue, <<recorded + 1, 1>>) /\ UNCHANGED dropped
    /\ UNCHANGED <<page, batch, sending, sequence, requests, reply, stationVars,
                   faults>>

\* The batch is frozen until it is acknowledged.
Freeze == IF batch > 0 THEN batch
          ELSE IF Len(queue) <= BatchSize THEN Len(queue) ELSE BatchSize

\* flush, from record, from itself or from the timer.
Flush ==
    /\ page = "on"
    /\ ~sending
    /\ queue # <<>>
    /\ sending' = TRUE
    /\ batch' = Freeze
    /\ requests' = requests \union
          {[at |-> sequence, events |-> SubSeq(queue, 1, Freeze), try |-> faults]}
    /\ UNCHANGED <<page, queue, sequence, dropped, recorded, reply, stationVars,
                   faults>>

\* Mutant: the gap is told again with the next batch.
GapAgain(rest) ==
    /\ queue' = IF dropped = 0 THEN rest
                ELSE Append(rest, <<recorded - dropped + 1, dropped>>)
    /\ UNCHANGED dropped

\* The events that were dropped while the queue was full are told.
Gap(rest) ==
    /\ queue' = IF dropped = 0 THEN rest
                ELSE Append(rest, <<recorded - dropped + 1, dropped>>)
    /\ dropped' = 0

Acknowledged ==
    /\ sending
    /\ reply = [kind |-> "ok", next |-> sequence + batch]
    /\ sequence' = reply.next
    /\ Gap(SubSeq(queue, batch + 1, Len(queue)))
    /\ batch' = 0
    /\ sending' = FALSE
    /\ reply' = NoReply
    /\ UNCHANGED <<page, recorded, requests, stationVars, faults>>

\* An error, or another number than expected.  The batch stays frozen.
Refused ==
    /\ sending
    /\ reply \notin {NoReply, [kind |-> "ok", next |-> sequence + batch]}
    /\ page' = IF reply.kind = "storage" THEN "terminal" ELSE "on"
    /\ sending' = FALSE
    /\ reply' = NoReply
    /\ UNCHANGED <<queue, batch, sequence, dropped, recorded, requests,
                   stationVars, faults>>

\* No answer in time.  The request is lost, or it may still arrive.
Timeout ==
    /\ sending
    /\ Spend
    /\ sending' = FALSE
    /\ reply' = NoReply
    /\ \/ UNCHANGED requests
       \/ requests' = {r \in requests : r.try # faults}
    /\ UNCHANGED <<page, queue, batch, sequence, dropped, recorded, stationVars>>

-----------------------------------------------------------------------------
(* The station: batch *)

\* The answer reaches the page if it still waits for this attempt.
Answer(r, kind, n) ==
    /\ requests' = requests \ {r}
    /\ reply' = IF sending /\ r.try = faults THEN [kind |-> kind, next |-> n]
                ELSE reply

\* Mutant: the last batch is not remembered.
RepeatedNever(r) == FALSE

\* The last batch, sent again.
Repeated(r) == last = <<r.at, r.events>>

Expected(r) == r.at = next

Store(r) ==
    /\ ~failed /\ known /\ ~Repeated(r) /\ Expected(r)
    /\ journal' = journal \o r.events
    /\ last' = <<r.at, r.events>>
    /\ next' = next + Len(r.events)
    /\ Answer(r, "ok", next')
    /\ UNCHANGED <<pageVars, known, clients, failed, faults>>

\* Some of the rows are in the file when the write or its sync fails.
AppendFails(r) ==
    /\ ~failed /\ known /\ ~Repeated(r) /\ Expected(r)
    /\ Spend
    /\ failed' = TRUE
    /\ \E k \in 0..Len(r.events) : journal' = journal \o SubSeq(r.events, 1, k)
    /\ Answer(r, "storage", 0)
    /\ UNCHANGED <<pageVars, next, last, known, clients>>

\* It is there already; or it is refused.
Repeat(r) ==
    /\ failed \/ ~known \/ Repeated(r) \/ ~Expected(r)
    /\ Answer(r, IF failed THEN "storage"
                 ELSE IF known /\ Repeated(r) THEN "ok" ELSE "invalid",
              IF ~failed /\ known /\ Repeated(r) THEN next ELSE 0)
    /\ UNCHANGED <<pageVars, stationVars, faults>>

\* The station is started again, with another file and no clients.
Restart ==
    /\ known
    /\ Spend
    /\ known' = FALSE
    /\ failed' = FALSE
    /\ clients' = 0
    /\ requests' = {}
    /\ reply' = NoReply
    /\ sending' = FALSE
    /\ UNCHANGED <<page, queue, batch, sequence, dropped, recorded, journal,
                   next, last>>

-----------------------------------------------------------------------------
Handle == \E r \in requests : Store(r) \/ Repeat(r)

JournalNext ==
    \/ Open \/ Record \/ Flush \/ Acknowledged \/ Refused \/ Timeout
    \/ Handle \/ (\E r \in requests : AppendFails(r)) \/ Restart

JournalSpec == JournalInit /\ [][JournalNext]_journalVars

\* The timer flushes, the station answers, the page takes the answer.
FairJournalSpec ==
    /\ JournalSpec
    /\ WF_journalVars(Flush) /\ WF_journalVars(Handle)
    /\ WF_journalVars(Acknowledged) /\ WF_journalVars(Refused)

-----------------------------------------------------------------------------
(* Properties *)

\* Each row begins where the one before ended.
Unbroken(rows) ==
    \A i \in 1..Len(rows) :
        rows[i][1] = IF i = 1 THEN 1 ELSE rows[i - 1][1] + rows[i - 1][2]

\* The file holds each event once and in order, and where events are missing
\* a gap that says how many, whatever was lost, late or sent twice (batch,
\* flush, record).
JournalIsUnbroken == Unbroken(journal)

\* With the events that are queued: what was recorded is in the file, in the
\* queue or counted as dropped.  Some of the frozen batch may be in both.
NothingIsLost ==
    \E k \in 0..batch :
        LET rows == journal \o SubSeq(queue, k + 1, Len(queue))
        IN /\ Unbroken(rows)
           /\ rows # <<>> =>
                 Last(rows)[1] + Last(rows)[2] + dropped = recorded + 1

\* Every event is saved, or told by a gap, unless the journal fails or the
\* station is started again.
EventsAreSaved ==
    \A n \in 1..MaxEvents :
        recorded >= n ~> \/ page = "terminal" \/ failed \/ ~known
                         \/ journal # <<>> /\ Last(journal)[1] + Last(journal)[2] > n

=============================================================================
