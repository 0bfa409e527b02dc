----------------------------- MODULE UsbStreamer -----------------------------
(***************************************************************************)
(* A capture seen from the browser: pages write one archive through a      *)
(* UsbArchiveStreamer (web/lib/native_capture.js), call by call, and the   *)
(* station serves the calls (cli/capture_bridge.py, cli/usb_archive.py).   *)
(*                                                                         *)
(* A page waits for one call at a time.  A connection may break while it   *)
(* waits: the request or its reply is lost, or the request is still served *)
(* later, when nobody waits for the reply.  A page may be reloaded and     *)
(* other pages may open the archive again from its checkpoint.             *)
(*                                                                         *)
(* The station serves a call in one step.  UsbArchiveStore has its disk    *)
(* steps, and what a failure between them leaves.                          *)
(***************************************************************************)
EXTENDS Naturals, FiniteSets, SequencesExt

CONSTANTS
    Pages,
    Nobody,         \* the sender of a request whose page waits no more
    Chunks,
    Records,        \* WARC records, as sequences of chunks
    CdxTexts,       \* CDX files, the same way; one may be empty
    NoChunk,
    MaxLength,      \* bound: chunks of WARC records a page appends
    MaxGeneration,  \* bound: checkpoint generations (2^53 - 1 in the code)
    MaxLeases,      \* bound: sessions opened on the archive
    MaxFaults       \* bound: faults of each sort

Kinds == {"warc", "cdx"}
FaultSorts == {"connection", "storage", "restart"}

ASSUME StreamerAssumption ==
    /\ Nobody \notin Pages
    /\ Records \subseteq Seq(Chunks) \ {<<>>}
    /\ CdxTexts \subseteq Seq(Chunks)
    /\ MaxLength \in Nat
    /\ MaxGeneration \in Nat
    /\ MaxLeases \in Nat
    /\ MaxFaults \in [FaultSorts -> Nat]

VARIABLES
    phase,      \* what a page does with its streamer
    written,    \* what its crawler gave writeChunk
    offsets,    \* streamer.offsets: what of it was acknowledged
    lease,      \* streamer.lease
    generation, \* streamer.generation
    closing,    \* the crawl is over, finalize is under way
    call,       \* the payload of the last call
    net,        \* requests that were sent and not served
    reply,      \* replies on their way
    stored,     \* station: the archive files
    hashed,     \* station: item['sizes'], ['hashes'], ['last'] of its session
    ckpt,       \* station: checkpoint.json
    receipt,    \* station: receipt.json, or archives renamed without one
    open,       \* station: there is a writable session
    current,    \* station: item['generation'] of that session
    issued,     \* station: leases so far; a session has the newest
    faults

pageVars == <<phase, written, offsets, lease, generation, closing, call>>
stationVars == <<stored, hashed, ckpt, receipt, open, current, issued>>
vars == <<pageVars, net, reply, stationVars, faults>>

-----------------------------------------------------------------------------
(* Types *)

Phases == {"idle", "ready", "calling", "failed", "finished"}
Archives == [Kinds -> Seq(Chunks)]
Empty == [k \in Kinds |-> <<>>]
Zero == [k \in Kinds |-> 0]

\* A request names its page, if that still waits.  The fields its operation
\* does not carry have their defaults.
Requests ==
    {r \in [from : Pages \union {Nobody}, try : {1, 2},
            op : {"none", "reopen", "chunk", "checkpoint", "finalize"},
            lease : Nat, kind : Kinds, offset : Nat,
            raw : Chunks \union {NoChunk}, generation : Nat,
            state : Seq(Chunks)] :
        r.op = "chunk" => r.raw \in Chunks}

NoCall ==
    [from |-> Nobody, try |-> 1, op |-> "none", lease |-> 0, kind |-> "warc",
     offset |-> 0, raw |-> NoChunk, generation |-> 0, state |-> <<>>]

\* refused is a ValueError of the station, failed an OSError.
Results == {"none", "ok", "refused", "failed"}
Replies ==
    [result : Results, lease : Nat, generation : Nat, offsets : [Kinds -> Nat],
     state : Seq(Chunks)]

JustResult(result) ==
    [result |-> result, lease |-> 0, generation |-> 0, offsets |-> Zero,
     state |-> <<>>]

Checkpoints == [generation : Nat, state : Seq(Chunks), prefix : Archives]
Receipts == [stage : {"none", "stranded", "final"}, archives : Archives]

TypeOK ==
    /\ phase \in [Pages -> Phases]
    /\ written \in [Pages -> Archives]
    /\ offsets \in [Pages -> [Kinds -> Nat]]
    /\ lease \in [Pages -> Nat]
    /\ generation \in [Pages -> Nat]
    /\ closing \in [Pages -> BOOLEAN]
    /\ call \in [Pages -> Requests]
    /\ net \in SUBSET Requests
    /\ reply \in [Pages -> Replies]
    /\ stored \in Archives
    /\ hashed \in Archives
    /\ ckpt \in Checkpoints
    /\ receipt \in Receipts
    /\ open \in BOOLEAN
    /\ current \in Nat
    /\ issued \in Nat
    /\ faults \in [FaultSorts -> Nat]

-----------------------------------------------------------------------------
(* Helpers *)

\* The next offset in each file.
Lengths(archives) == [k \in Kinds |-> Len(archives[k])]

\* Mutant: the CDX file is not waited for.
AcknowledgedWarc(p) == offsets[p]["warc"] = Len(written[p]["warc"])

\* Nothing is left of what the crawler wrote.
Acknowledged(p) == offsets[p] = Lengths(written[p])

\* session.call: the request is on its way and the page waits.
Send(p, request) ==
    /\ call' = [call EXCEPT ![p] = request]
    /\ net' = net \union {request}
    /\ phase' = [phase EXCEPT ![p] = "calling"]

\* The station is done with a request.
Answer(request, answer) ==
    /\ net' = net \ {request}
    /\ reply' = IF request.from \in Pages
                THEN [reply EXCEPT ![request.from] = answer]
                ELSE reply

\* The requests in the network, when page p waits no more.
Detached(p) ==
    {[from |-> IF r.from = p THEN Nobody ELSE r.from, try |-> r.try,
      op |-> r.op, lease |-> r.lease, kind |-> r.kind, offset |-> r.offset,
      raw |-> r.raw, generation |-> r.generation, state |-> r.state] :
        r \in net}

Withdrawn(p) == {r \in net : r.from # p}

\* The request once more, with the same payload.
Again(request) ==
    [from |-> request.from, try |-> 2, op |-> request.op,
     lease |-> request.lease, kind |-> request.kind,
     offset |-> request.offset, raw |-> request.raw,
     generation |-> request.generation, state |-> request.state]

\* Mutant: only writeChunk passes an error on.
GiveUpChunk(p) ==
    phase' = [phase EXCEPT ![p] = IF call[p].op = "chunk" THEN "failed" ELSE @]

\* The awaited call throws: a capture that runs has failed; one that was
\* still to be opened has not begun.
GiveUp(p) ==
    phase' = [phase EXCEPT ![p] = IF call[p].op = "reopen" THEN "idle" ELSE "failed"]

\* fetch throws a TypeError.  writeChunk repeats a chunk once.
Disconnected(p, rest) ==
    \/ /\ call[p].op = "chunk"
       /\ call[p].try = 1
       /\ call' = [call EXCEPT ![p] = Again(call[p])]
       /\ net' = rest \union {call'[p]}
       /\ UNCHANGED phase
    \/ /\ call[p].op # "chunk" \/ call[p].try = 2
       /\ net' = rest
       /\ GiveUp(p)
       /\ UNCHANGED call

Spend(f) ==
    /\ faults[f] < MaxFaults[f]
    /\ faults' = [faults EXCEPT ![f] = @ + 1]

\* One page has just started the archive (archive-start, with lease 1).
Init ==
    /\ \E starter \in Pages :
          /\ phase = [p \in Pages |-> IF p = starter THEN "ready" ELSE "idle"]
          /\ lease = [p \in Pages |-> IF p = starter THEN 1 ELSE 0]
    /\ written = [p \in Pages |-> Empty]
    /\ offsets = [p \in Pages |-> Zero]
    /\ generation = [p \in Pages |-> 0]
    /\ closing = [p \in Pages |-> FALSE]
    /\ call = [p \in Pages |-> NoCall]
    /\ net = {}
    /\ reply = [p \in Pages |-> JustResult("none")]
    /\ stored = Empty
    /\ hashed = Empty
    /\ ckpt = [generation |-> 0, state |-> <<>>, prefix |-> Empty]
    /\ receipt = [stage |-> "none", archives |-> Empty]
    /\ open = TRUE
    /\ current = 0
    /\ issued = 1
    /\ faults = [f \in FaultSorts |-> 0]

-----------------------------------------------------------------------------
(* The page *)

\* appendRecord: the writer counts the whole record, then writeChunk begins.
AppendRecord(p) ==
    /\ phase[p] = "ready"
    /\ ~closing[p]
    /\ Acknowledged(p)
    /\ \E record \in Records :
          /\ Len(written[p]["warc"]) + Len(record) <= MaxLength
          /\ written' = [written EXCEPT ![p]["warc"] = @ \o record]
    /\ UNCHANGED <<phase, offsets, lease, generation, closing, call, net, reply,
                   stationVars, faults>>

\* finalize: the CDX file goes through writeChunk first.
BeginFinalize(p) ==
    /\ phase[p] = "ready"
    /\ ~closing[p]
    /\ Acknowledged(p)
    /\ written[p]["warc"] # <<>>
    /\ \E text \in CdxTexts : written' = [written EXCEPT ![p]["cdx"] = text]
    /\ closing' = [closing EXCEPT ![p] = TRUE]
    /\ UNCHANGED <<phase, offsets, lease, generation, call, net, reply,
                   stationVars, faults>>

\* writeChunk: the next part, at the offset the station acknowledged.
SendChunk(p, k) ==
    /\ phase[p] = "ready"
    /\ offsets[p][k] < Len(written[p][k])
    /\ Send(p, [from |-> p, try |-> 1, op |-> "chunk", lease |-> lease[p],
                kind |-> k, offset |-> offsets[p][k],
                raw |-> written[p][k][offsets[p][k] + 1],
                generation |-> 0, state |-> <<>>])
    /\ UNCHANGED <<written, offsets, lease, generation, closing, reply,
                   stationVars, faults>>

\* onRecoveryCheckpoint after a URL.  exportState has checked that the bytes
\* the writer counts are acknowledged; the warcinfo record is among them.
SendCheckpoint(p) ==
    /\ phase[p] = "ready"
    /\ ~closing[p]
    /\ Acknowledged(p)
    /\ written[p]["warc"] # <<>>
    /\ Send(p, [from |-> p, try |-> 1, op |-> "checkpoint", lease |-> lease[p],
                kind |-> "warc", offset |-> 0, raw |-> NoChunk,
                generation |-> generation[p], state |-> written[p]["warc"]])
    /\ UNCHANGED <<written, offsets, lease, generation, closing, reply,
                   stationVars, faults>>

SendFinalize(p) ==
    /\ phase[p] = "ready"
    /\ closing[p]
    /\ Acknowledged(p)
    /\ Send(p, [from |-> p, try |-> 1, op |-> "finalize", lease |-> lease[p],
                kind |-> "warc", offset |-> 0, raw |-> NoChunk,
                generation |-> 0, state |-> <<>>])
    /\ UNCHANGED <<written, offsets, lease, generation, closing, reply,
                   stationVars, faults>>

\* A new streamer reopens the archive at the checkpoint discover found.
SendReopen(p) ==
    /\ phase[p] = "idle"
    /\ receipt.stage = "none"
    /\ ckpt.generation > 0
    /\ issued + Cardinality({r \in net : r.op = "reopen"}) < MaxLeases
    /\ Send(p, [from |-> p, try |-> 1, op |-> "reopen", lease |-> 0,
                kind |-> "warc", offset |-> 0, raw |-> NoChunk,
                generation |-> ckpt.generation, state |-> <<>>])
    /\ UNCHANGED <<written, offsets, lease, generation, closing, reply,
                   stationVars, faults>>

\* A reply that is not an error.
Accept(p) ==
    LET op == call[p].op
        r == reply[p]
        k == call[p].kind
    IN  \/ /\ op = "reopen"
           \* restoreState accepts the writer state only at these offsets.
           /\ r.offsets = [j \in Kinds |-> IF j = "warc" THEN Len(r.state) ELSE 0]
           /\ r.state # <<>>
           /\ phase' = [phase EXCEPT ![p] = "ready"]
           /\ written' = [written EXCEPT ![p] =
                             [j \in Kinds |-> IF j = "warc" THEN r.state ELSE <<>>]]
           /\ offsets' = [offsets EXCEPT ![p] = r.offsets]
           /\ lease' = [lease EXCEPT ![p] = r.lease]
           /\ generation' = [generation EXCEPT ![p] = r.generation]
           /\ closing' = [closing EXCEPT ![p] = FALSE]
        \/ /\ op = "reopen"
           /\ \/ r.offsets # [j \in Kinds |-> IF j = "warc" THEN Len(r.state) ELSE 0]
              \/ r.state = <<>>
           /\ phase' = [phase EXCEPT ![p] = "idle"]
           /\ UNCHANGED <<written, offsets, lease, generation, closing>>
        \/ /\ op = "chunk"
           /\ r.offsets[k] = offsets[p][k] + 1
           /\ phase' = [phase EXCEPT ![p] = "ready"]
           /\ offsets' = [offsets EXCEPT ![p][k] = r.offsets[k]]
           /\ UNCHANGED <<written, lease, generation, closing>>
        \/ /\ op = "chunk"
           /\ r.offsets[k] # offsets[p][k] + 1
           /\ phase' = [phase EXCEPT ![p] = "failed"]
           /\ UNCHANGED <<written, offsets, lease, generation, closing>>
        \/ /\ op = "checkpoint"
           /\ phase' = [phase EXCEPT ![p] = "ready"]
           /\ generation' = [generation EXCEPT ![p] = r.generation]
           /\ UNCHANGED <<written, offsets, lease, closing>>
        \/ /\ op = "finalize"
           /\ phase' = [phase EXCEPT ![p] = "finished"]
           /\ UNCHANGED <<written, offsets, lease, generation, closing>>

Receive(p) ==
    /\ phase[p] = "calling"
    /\ reply[p].result # "none"
    /\ reply' = [reply EXCEPT ![p] = JustResult("none")]
    /\ IF reply[p].result = "ok"
       THEN Accept(p)
       ELSE /\ GiveUp(p)
            /\ UNCHANGED <<written, offsets, lease, generation, closing>>
    /\ UNCHANGED <<call, net, stationVars, faults>>

\* The page is reloaded or its capture given up.  A request in flight is
\* served after all, or not.
Reload(p) ==
    /\ phase[p] # "idle"
    /\ phase' = [phase EXCEPT ![p] = "idle"]
    /\ written' = [written EXCEPT ![p] = Empty]
    /\ offsets' = [offsets EXCEPT ![p] = Zero]
    /\ lease' = [lease EXCEPT ![p] = 0]
    /\ generation' = [generation EXCEPT ![p] = 0]
    /\ closing' = [closing EXCEPT ![p] = FALSE]
    /\ call' = [call EXCEPT ![p] = NoCall]
    /\ net' \in {Detached(p), Withdrawn(p)}
    /\ reply' = [reply EXCEPT ![p] = JustResult("none")]
    /\ UNCHANGED <<stationVars, faults>>

-----------------------------------------------------------------------------
(* The network *)

\* The connection breaks while the page waits.
ConnectionLost(p) ==
    /\ phase[p] = "calling"
    /\ Spend("connection")
    /\ reply' = [reply EXCEPT ![p] = JustResult("none")]
    /\ Disconnected(p, Detached(p)) \/ Disconnected(p, Withdrawn(p))
    /\ UNCHANGED <<written, offsets, lease, generation, closing, stationVars>>

\* The station is gone that had the request: the system closes the connection.
ConnectionClosed(p) ==
    /\ phase[p] = "calling"
    /\ reply[p].result = "none"
    /\ \A r \in net : r.from # p
    /\ Disconnected(p, net)
    /\ UNCHANGED <<written, offsets, lease, generation, closing, reply,
                   stationVars, faults>>

-----------------------------------------------------------------------------
(* The station *)

\* Mutant: no lease is checked.
AdmittedAnyLease(r) == open /\ r.lease \in 0..MaxLeases

\* session and check_lease, for a call that carries a lease.
Admitted(r) == open /\ r.lease = issued

\* The chunk is the next one.
IsNext(r) == r.offset = Len(hashed[r.kind])

\* The chunk is the last one again.
IsLast(r) ==
    /\ r.offset + 1 = Len(hashed[r.kind])
    /\ r.raw = hashed[r.kind][r.offset + 1]

\* Mutant: the size of the file is not compared.
MatchesAny(k) == k \in Kinds

\* open_partial: the file has the size the session accounts for.
Matches(k) == Len(stored[k]) = Len(hashed[k])

Intact == \A k \in Kinds : Matches(k)

With(archives, r) == [archives EXCEPT ![r.kind] = Append(@, r.raw)]

\* The reply to a chunk that is saved.
Saved(archives) ==
    [result |-> "ok", lease |-> 0, generation |-> 0,
     offsets |-> Lengths(archives), state |-> <<>>]

ServeChunk(r) ==
    /\ r.op = "chunk"
    /\ \/ /\ Admitted(r) /\ IsNext(r) /\ Matches(r.kind)
          /\ stored' = With(stored, r)
          /\ hashed' = With(hashed, r)
          /\ Answer(r, Saved(hashed'))
          /\ UNCHANGED open
       \/ /\ Admitted(r) /\ IsNext(r) /\ ~Matches(r.kind)
          /\ open' = FALSE
          /\ Answer(r, JustResult("failed"))
          /\ UNCHANGED <<stored, hashed>>
       \/ /\ Admitted(r) /\ IsLast(r)
          /\ Answer(r, IF Matches(r.kind) THEN Saved(hashed)
                                         ELSE JustResult("failed"))
          /\ UNCHANGED <<stored, hashed, open>>
       \/ /\ ~(Admitted(r) /\ (IsNext(r) \/ IsLast(r)))
          /\ Answer(r, JustResult("refused"))
          /\ UNCHANGED <<stored, hashed, open>>
    /\ UNCHANGED <<pageVars, ckpt, receipt, current, issued, faults>>

\* The lease and the generation fit.
Checkpointable(r) ==
    /\ Admitted(r)
    /\ r.generation = current
    /\ current < MaxGeneration

NewCheckpoint(r) ==
    [generation |-> current + 1, state |-> r.state, prefix |-> stored]

ServeCheckpoint(r) ==
    /\ r.op = "checkpoint"
    /\ \/ /\ Checkpointable(r) /\ Intact
          /\ ckpt' = NewCheckpoint(r)
          /\ current' = current + 1
          /\ Answer(r, [result |-> "ok", lease |-> 0, generation |-> current',
                        offsets |-> Lengths(hashed), state |-> <<>>])
       \/ /\ ~(Checkpointable(r) /\ Intact)
          /\ Answer(r, JustResult(IF Checkpointable(r) THEN "failed"
                                                       ELSE "refused"))
          /\ UNCHANGED <<ckpt, current>>
    /\ UNCHANGED <<pageVars, stored, hashed, receipt, open, issued, faults>>

\* Mutant: the station relies on what discover has seen.
ReopenableReceipted(r) ==
    /\ r.generation \in 1..(MaxGeneration - 1)
    /\ r.generation = ckpt.generation

\* The archive has no receipt and the checkpoint is the one discovered.
Reopenable(r) ==
    /\ receipt.stage = "none"
    /\ r.generation \in 1..(MaxGeneration - 1)
    /\ r.generation = ckpt.generation

\* The discovered generation is used up.
Consumed ==
    [generation |-> ckpt.generation + 1, state |-> ckpt.state,
     prefix |-> ckpt.prefix]

\* Back to the checkpoint, under a new generation and a new lease.  The bridge
\* refuses as well while a source request of the old capture is not settled.
ServeReopen(r) ==
    /\ r.op = "reopen"
    /\ \/ /\ Reopenable(r)
          /\ stored' = ckpt.prefix
          /\ hashed' = ckpt.prefix
          /\ ckpt' = Consumed
          /\ current' = ckpt.generation + 1
          /\ open' = TRUE
          /\ issued' = issued + 1
          /\ Answer(r, [result |-> "ok", lease |-> issued + 1,
                        generation |-> ckpt.generation + 1,
                        offsets |-> Lengths(ckpt.prefix), state |-> ckpt.state])
       \/ /\ Answer(r, JustResult("refused"))
          /\ UNCHANGED <<stored, hashed, ckpt, current, open, issued>>
    /\ UNCHANGED <<pageVars, receipt, faults>>

Stranded == [stage |-> "stranded", archives |-> Empty]
Final == [stage |-> "final", archives |-> stored]

ServeFinalize(r) ==
    /\ r.op = "finalize"
    /\ \/ /\ Admitted(r) /\ Intact
          /\ receipt' = Final
          /\ open' = FALSE
          /\ Answer(r, JustResult("ok"))
       \/ /\ Admitted(r) /\ ~Intact
          /\ receipt' = IF Matches("warc") THEN Stranded ELSE receipt
          /\ open' = FALSE
          /\ Answer(r, JustResult("failed"))
       \/ /\ ~Admitted(r)
          /\ Answer(r, JustResult("refused"))
          /\ UNCHANGED <<receipt, open>>
    /\ UNCHANGED <<pageVars, stored, hashed, ckpt, current, issued, faults>>

\* A call the session admits ends in an OSError: of the store, which has done
\* all, part or nothing of it, or of the debug journal afterwards.
StorageFault(r) ==
    /\ Admitted(r)
    /\ Spend("storage")
    /\ \/ /\ r.op = "chunk" /\ IsNext(r) /\ Matches(r.kind)
          /\ \/ /\ stored' \in {stored, With(stored, r)}
                /\ open' = FALSE
                /\ UNCHANGED hashed
             \/ /\ stored' = With(stored, r)
                /\ hashed' = With(hashed, r)
                /\ UNCHANGED open
          /\ UNCHANGED <<ckpt, receipt>>
       \/ /\ r.op = "chunk" /\ IsLast(r)
          /\ UNCHANGED <<stored, hashed, open, ckpt, receipt>>
       \/ /\ r.op = "checkpoint" /\ Checkpointable(r) /\ Intact
          /\ ckpt' \in {ckpt, NewCheckpoint(r)}
          /\ UNCHANGED <<stored, hashed, receipt, open>>
       \/ /\ r.op = "finalize" /\ Intact
          /\ receipt' \in {receipt, Stranded, Final}
          /\ open' = FALSE
          /\ UNCHANGED <<stored, hashed, ckpt>>
    /\ Answer(r, JustResult("failed"))
    /\ UNCHANGED <<pageVars, current, issued>>

\* reopen ends in an OSError when the files may be cut back and the generation
\* used up, and the session there was is left as it is.
ReopenFault(r) ==
    /\ r.op = "reopen"
    /\ Reopenable(r)
    /\ Spend("storage")
    /\ \/ /\ stored' \in {stored, ckpt.prefix,
                         [k \in Kinds |-> IF k = "warc" THEN ckpt.prefix[k]
                                                      ELSE stored[k]]}
          /\ UNCHANGED ckpt
       \/ /\ stored' = ckpt.prefix
          /\ ckpt' = Consumed
    /\ Answer(r, JustResult("failed"))
    /\ UNCHANGED <<pageVars, hashed, receipt, open, current, issued>>

\* The station dies with all it has not served, and is started again.
Restart ==
    /\ Spend("restart")
    /\ open' = FALSE
    /\ net' = {}
    /\ reply' \in {reply, [p \in Pages |-> JustResult("none")]}
    /\ UNCHANGED <<pageVars, stored, hashed, ckpt, receipt, current, issued>>

-----------------------------------------------------------------------------
Serve(r) ==
    ServeChunk(r) \/ ServeCheckpoint(r) \/ ServeReopen(r) \/ ServeFinalize(r)

Next ==
    \/ \E p \in Pages : \/ AppendRecord(p) \/ BeginFinalize(p)
                        \/ \E k \in Kinds : SendChunk(p, k)
                        \/ SendCheckpoint(p) \/ SendFinalize(p) \/ SendReopen(p)
                        \/ Receive(p) \/ Reload(p)
                        \/ ConnectionLost(p) \/ ConnectionClosed(p)
    \/ \E r \in net : Serve(r) \/ StorageFault(r) \/ ReopenFault(r)
    \/ Restart

Spec == Init /\ [][Next]_vars

\* The station serves what it has received, one thread to a request, and a
\* page handles what it is told.  No page has to do anything of its own.
Fairness ==
    \A p \in Pages :
        /\ WF_vars(Receive(p))
        /\ WF_vars(ConnectionClosed(p))
        /\ WF_vars(\E r \in net : r.from = p /\ Serve(r))

FairSpec == Spec /\ Fairness

-----------------------------------------------------------------------------
(* Properties *)

\* The page whose streamer has the newest lease.
Owner(p) == phase[p] # "idle" /\ lease[p] = issued

\* "A lost acknowledgement can be retried once with the exact same bytes"
\* (native_capture.js:131): what the owner wrote is stored exactly once and
\* in order, up to what was acknowledged or the one chunk after it; unless
\* another page's reopen failed when it had cut the file back.
ExactlyOnce ==
    \A p \in Pages : Owner(p) =>
        \A k \in Kinds :
            /\ IsPrefix(stored[k], written[p][k])
            /\ \/ Len(stored[k]) \in {offsets[p][k], offsets[p][k] + 1}
               \/ stored[k] = ckpt.prefix[k]

\* Whatever arrived late or twice, restoreState accepts the checkpoint that
\* reopen returns (warc_writer.js:156): its writer state counts the very
\* bytes of the archive it goes with, and no CDX.
CheckpointRestorable ==
    ckpt.generation > 0 =>
        /\ ckpt.state = ckpt.prefix["warc"]
        /\ ckpt.state # <<>>
        /\ ckpt.prefix["cdx"] = <<>>

\* The station refuses a call of a page that waits for it only because the
\* session is another one's, is over, or is out of generations; never
\* because of what was lost or came late.
RefusalsAreFencing ==
    \A p \in Pages :
        (reply[p].result = "refused" /\ call[p].op # "reopen") =>
            \/ ~Owner(p)
            \/ ~open
            \/ generation[p] = MaxGeneration

\* A page that is told of a receipt wrote all of what the receipt states.
ReceiptIsWhole ==
    \A p \in Pages : phase[p] = "finished" =>
        /\ receipt.stage = "final"
        /\ receipt.archives = written[p]

\* Nothing a page sends changes an archive that has its receipt.
ReceiptStays ==
    [][receipt.stage = "final" => UNCHANGED <<receipt, stored, ckpt>>]_vars

\* Every call is answered or fails: no page waits for ever.
CallsSettle == \A p \in Pages : phase[p] = "calling" ~> phase[p] # "calling"

\* "No successful archive receipt was produced." (native_capture.js:173), in
\* the report of a page whose capture failed while it had the session.
FailureReportTrue ==
    \A p \in Pages :
        phase[p] = "failed" /\ Owner(p) => receipt.stage # "final"

=============================================================================
