--------------------------- MODULE UsbStreamerProofs ---------------------------
(***************************************************************************)
(* Proofs about UsbStreamer, for any pages, records, bounds and faults.    *)
(*                                                                         *)
(* ExactlyOnce is a fact about the page that holds the newest lease.  The  *)
(* inductive invariant IInv says who that can be, what the calls, requests *)
(* and replies that carry the lease may still do to the archive, and that  *)
(* a checkpoint request counts the very bytes that are stored.             *)
(***************************************************************************)
EXTENDS UsbStreamer, TLAPS

-----------------------------------------------------------------------------
(* Prefixes: an archive file and what was once known of it *)

\* A prefix agrees with the longer sequence at each of its places.
LEMMA PrefixPointwise ==
    ASSUME NEW S, NEW s \in Seq(S), NEW t \in Seq(S)
    PROVE  IsPrefix(s, t) <=>
              Len(s) <= Len(t) /\ \A i \in 1..Len(s) : s[i] = t[i]
  BY DEF IsPrefix

\* A prefix of a prefix is a prefix.
LEMMA PrefixTransitive ==
    ASSUME NEW S, NEW s \in Seq(S), NEW t \in Seq(S), NEW u \in Seq(S),
           IsPrefix(s, t), IsPrefix(t, u)
    PROVE  IsPrefix(s, u)
  BY PrefixPointwise

\* A file that grows keeps its prefixes.
LEMMA PrefixOfExtension ==
    ASSUME NEW S, NEW s \in Seq(S), NEW t \in Seq(S), NEW u \in Seq(S),
           IsPrefix(s, t)
    PROVE  IsPrefix(s, t \o u)
<1>1. t \o u \in Seq(S) /\ Len(t \o u) = Len(t) + Len(u)
  OBVIOUS
<1>2. \A i \in 1..Len(t) : (t \o u)[i] = t[i]
  OBVIOUS
<1>3. Len(s) <= Len(t) /\ \A i \in 1..Len(s) : s[i] = t[i]
  BY PrefixPointwise
<1>4. Len(s) <= Len(t \o u) /\ \A i \in 1..Len(s) : s[i] = (t \o u)[i]
  BY <1>1, <1>2, <1>3
<1> QED
  BY <1>1, <1>4, PrefixPointwise

\* A file that grows by one chunk keeps its prefixes.
LEMMA PrefixOfAppend ==
    ASSUME NEW S, NEW s \in Seq(S), NEW t \in Seq(S), NEW x \in S,
           IsPrefix(s, t)
    PROVE  IsPrefix(s, Append(t, x))
<1>1. /\ Append(t, x) \in Seq(S) /\ Len(Append(t, x)) = Len(t) + 1
      /\ \A i \in 1..Len(t) : Append(t, x)[i] = t[i]
  OBVIOUS
<1>2. Len(s) <= Len(t) /\ \A i \in 1..Len(s) : s[i] = t[i]
  BY PrefixPointwise
<1>3. Len(s) <= Len(Append(t, x))
      /\ \A i \in 1..Len(s) : s[i] = Append(t, x)[i]
  BY <1>1, <1>2
<1> QED
  BY <1>1, <1>3, PrefixPointwise

\* A prefix and the element that comes next.
LEMMA PrefixGrows ==
    ASSUME NEW S, NEW s \in Seq(S), NEW t \in Seq(S), IsPrefix(s, t),
           Len(s) < Len(t)
    PROVE  IsPrefix(Append(s, t[Len(s) + 1]), t)
<1> DEFINE u == Append(s, t[Len(s) + 1])
<1>1. /\ u \in Seq(S) /\ Len(u) = Len(s) + 1
      /\ u[Len(s) + 1] = t[Len(s) + 1]
      /\ \A i \in 1..Len(s) : u[i] = s[i]
  OBVIOUS
<1>2. \A i \in 1..Len(s) : s[i] = t[i]
  BY PrefixPointwise
<1>3. Len(u) <= Len(t) /\ \A i \in 1..Len(u) : u[i] = t[i]
  BY <1>1, <1>2
<1> HIDE DEF u
<1> QED
  BY <1>1, <1>3, PrefixPointwise DEF u

\* Every sequence is its own prefix.
LEMMA PrefixReflexive == \A s : IsPrefix(s, s)
  BY DEF IsPrefix

\* A prefix of full length is the whole.
LEMMA PrefixSameLength ==
    ASSUME NEW S, NEW s \in Seq(S), NEW t \in Seq(S), IsPrefix(s, t),
           Len(s) = Len(t)
    PROVE  s = t
  BY DEF IsPrefix

-----------------------------------------------------------------------------
(* The inductive invariant *)

\* p has the newest lease; or a reply gives it to p.
Holder(p) == lease[p] = issued
Granted(p) == reply[p].lease = issued

\* One page at most has the newest lease or is about to get it.
LeaseInv ==
    /\ issued >= 1
    /\ \A p \in Pages : lease[p] <= issued /\ reply[p].lease <= issued
    /\ \A r \in net : r.lease <= issued
    /\ \A p \in Pages : phase[p] = "idle" => lease[p] = 0
    /\ \A p, q \in Pages : Holder(p) /\ Holder(q) => p = q
    /\ \A p, q \in Pages : Granted(p) => ~Holder(q)
    /\ \A p, q \in Pages : Granted(p) /\ Granted(q) => p = q
    /\ \A p \in Pages, r \in net : Granted(p) => r.lease # issued

\* What a page has written and had acknowledged.
WriteInv ==
    \A p \in Pages :
        /\ ~closing[p] => written[p]["cdx"] = <<>>
        /\ \A k \in Kinds : offsets[p][k] <= Len(written[p][k])

\* The last call fits the state of its page.
CallFits(p) ==
    /\ phase[p] = "calling" =>
          /\ call[p].from = p /\ call[p].op # "none"
          /\ call[p].lease = lease[p]
    /\ phase[p] \in {"calling", "failed"} =>
          /\ call[p].op = "reopen" => lease[p] = 0
          /\ call[p].op = "chunk" =>
                /\ call[p].offset = offsets[p][call[p].kind]
                /\ call[p].offset < Len(written[p][call[p].kind])
                /\ call[p].raw = written[p][call[p].kind][call[p].offset + 1]
          /\ call[p].op = "checkpoint" =>
                /\ Acknowledged(p) /\ ~closing[p]
                /\ call[p].state = written[p]["warc"]
                /\ call[p].state # <<>>
                /\ call[p].generation = generation[p]
          /\ call[p].op = "finalize" => Acknowledged(p)

CallInv == \A p \in Pages : CallFits(p)

\* A page has one request that it waits for, or one reply.
NetInv ==
    /\ \A r \in net : r.from \in Pages =>
          phase[r.from] = "calling" /\ r = call[r.from]
    /\ \A r \in net : r.op = "reopen" => r.lease = 0
    /\ \A p \in Pages : reply[p].result # "none" =>
          phase[p] = "calling" /\ \A r \in net : r.from # p

\* The bytes a writer state counts, as the files of an archive.
Counted(state) == [k \in Kinds |-> IF k = "warc" THEN state ELSE <<>>]

\* What an accepted call means for the state of its page.
ReplyFits(p) ==
    /\ reply[p].lease # 0 => reply[p].result = "ok" /\ call[p].op = "reopen"
    /\ Granted(p) =>
          /\ stored = Counted(reply[p].state)
          /\ stored = ckpt.prefix
          /\ reply[p].offsets = Lengths(stored)
          /\ open => reply[p].generation = current /\ hashed = stored
    /\ reply[p].result = "ok" =>
          /\ call[p].op = "chunk" /\ Holder(p) =>
                LET k == call[p].kind IN
                /\ \/ Len(stored[k]) = offsets[p][k] + 1
                   \/ stored[k] = ckpt.prefix[k]
                /\ open => Len(hashed[k]) = offsets[p][k] + 1
          /\ call[p].op = "checkpoint" /\ Holder(p) /\ open =>
                reply[p].generation = current
          /\ call[p].op = "finalize" =>
                receipt.stage = "final" /\ receipt.archives = written[p]

ReplyInv == \A p \in Pages : ReplyFits(p)

\* ExactlyOnce, of the holder.
StoredInv ==
    \A p \in Pages : Holder(p) =>
        \A k \in Kinds :
            /\ IsPrefix(stored[k], written[p][k])
            /\ \/ Len(stored[k]) \in {offsets[p][k], offsets[p][k] + 1}
               \/ stored[k] = ckpt.prefix[k]

\* The checkpoint is of bytes that are stored.
PrefixInv == \A k \in Kinds : IsPrefix(ckpt.prefix[k], stored[k])

\* What the session accounts for; a reopen that failed leaves less of it.
SessionInv ==
    open => \A k \in Kinds :
        /\ IsPrefix(stored[k], hashed[k])
        /\ \A p \in Pages : Holder(p) =>
              /\ IsPrefix(hashed[k], written[p][k])
              /\ Len(hashed[k]) \in {offsets[p][k], offsets[p][k] + 1}

\* A chunk request with the newest lease is older than the holder's call, or
\* is that call.
ChunkInv ==
    \A r \in net : r.lease = issued /\ r.op = "chunk" =>
        \A p \in Pages : Holder(p) =>
            \/ r.offset < offsets[p][r.kind]
            \/ /\ phase[p] \in {"calling", "failed"}
               /\ call[p].op = "chunk"
               /\ r.kind = call[p].kind
               /\ r.offset = call[p].offset
               /\ r.raw = call[p].raw

\* A checkpoint request with the newest lease counts the bytes the session
\* accounts for, and no chunk request can add to them before it is served.
CheckpointInv ==
    \A r \in net : r.lease = issued /\ r.op = "checkpoint" =>
        /\ r.state # <<>>
        /\ open => /\ hashed = Counted(r.state)
                   /\ \A q \in net : q.lease = issued /\ q.op = "chunk" =>
                         q.offset < Len(hashed[q.kind])
        /\ \A p \in Pages : Holder(p) =>
              /\ call[p].op = "checkpoint"
              /\ phase[p] = "failed" \/ (phase[p] = "calling" /\ r.from = p)

\* While the session is open its generation is the holder's.
GenerationInv ==
    /\ current <= MaxGeneration
    /\ \A p \in Pages :
          /\ Holder(p)
          /\ open
          /\ \/ phase[p] = "ready"
             \/ /\ phase[p] = "calling"
                /\ reply[p].result = "none" \/ call[p].op # "checkpoint"
          => generation[p] = current

SealedInv == receipt.stage # "none" => ~open

RefusedInv ==
    \A p \in Pages :
        reply[p].result = "refused" /\ call[p].op # "reopen" =>
            ~Holder(p) \/ ~open \/ generation[p] = MaxGeneration

IInv ==
    /\ TypeOK
    /\ LeaseInv
    /\ WriteInv
    /\ CallInv
    /\ NetInv
    /\ ReplyInv
    /\ StoredInv
    /\ PrefixInv
    /\ SessionInv
    /\ ChunkInv
    /\ CheckpointInv
    /\ CheckpointRestorable
    /\ GenerationInv
    /\ SealedInv
    /\ RefusedInv
    /\ ReceiptIsWhole

-----------------------------------------------------------------------------
(* Types *)

\* The fields of a request, and of a reply.
LEMMA RequestFields ==
    ASSUME NEW r \in Requests
    PROVE  /\ r.from \in Pages \union {Nobody} /\ r.try \in {1, 2}
           /\ r.op \in {"none", "reopen", "chunk", "checkpoint", "finalize"}
           /\ r.lease \in Nat /\ r.kind \in Kinds /\ r.offset \in Nat
           /\ r.raw \in Chunks \union {NoChunk} /\ r.generation \in Nat
           /\ r.state \in Seq(Chunks)
           /\ r.op = "chunk" => r.raw \in Chunks
  BY DEF Requests

\* A reply has the fields of its type.
LEMMA ReplyFields ==
    ASSUME NEW a \in Replies
    PROVE  /\ a.result \in Results /\ a.lease \in Nat /\ a.generation \in Nat
           /\ a.offsets \in [Kinds -> Nat] /\ a.state \in Seq(Chunks)
  BY DEF Replies

\* A checkpoint has the fields of its type.
LEMMA CheckpointFields ==
    ASSUME NEW c \in Checkpoints
    PROVE  /\ c.generation \in Nat /\ c.state \in Seq(Chunks)
           /\ c.prefix \in [Kinds -> Seq(Chunks)]
  BY DEF Checkpoints, Archives

\* A reply that only states its result is one.
LEMMA JustResultType ==
    ASSUME NEW result \in Results
    PROVE  JustResult(result) \in Replies
  BY DEF JustResult, Replies, Zero

\* The sizes of archive files are numbers.
LEMMA LengthsType ==
    ASSUME NEW archives \in Archives
    PROVE  Lengths(archives) \in [Kinds -> Nat]
  BY DEF Lengths, Archives

\* The reply to a saved chunk is one.
LEMMA SavedType ==
    ASSUME NEW archives \in Archives
    PROVE  Saved(archives) \in Replies
  BY LengthsType DEF Saved, Replies, Results

\* What finalize writes is a receipt.
LEMMA ReceiptTypes ==
    ASSUME TypeOK
    PROVE  Stranded \in Receipts /\ Final \in Receipts
  BY DEF TypeOK, Stranded, Final, Receipts, Archives, Empty

\* A repeated request differs from the first in its try only.
LEMMA AgainType ==
    ASSUME NEW r \in Requests
    PROVE  /\ Again(r) \in Requests
           /\ Again(r).from = r.from /\ Again(r).op = r.op
           /\ Again(r).lease = r.lease /\ Again(r).kind = r.kind
           /\ Again(r).offset = r.offset /\ Again(r).raw = r.raw
           /\ Again(r).generation = r.generation /\ Again(r).state = r.state
  BY DEF Again, Requests

\* A request whose page waits no more is otherwise the same.
LEMMA DetachedFields ==
    ASSUME TypeOK, NEW p \in Pages
    PROVE  /\ Detached(p) \in SUBSET Requests
           /\ \A d \in Detached(p) : \E r \in net :
                 /\ d.from = IF r.from = p THEN Nobody ELSE r.from
                 /\ r.from # p => d = r
                 /\ d.op = r.op /\ d.lease = r.lease /\ d.kind = r.kind
                 /\ d.offset = r.offset /\ d.raw = r.raw
                 /\ d.generation = r.generation /\ d.state = r.state
<1>1. net \subseteq Requests
  BY DEF TypeOK
<1>2. Detached(p) \in SUBSET Requests
  BY <1>1 DEF Detached, Requests
<1>3. ASSUME NEW d \in Detached(p)
      PROVE  \E r \in net :
                 /\ d.from = IF r.from = p THEN Nobody ELSE r.from
                 /\ r.from # p => d = r
                 /\ d.op = r.op /\ d.lease = r.lease /\ d.kind = r.kind
                 /\ d.offset = r.offset /\ d.raw = r.raw
                 /\ d.generation = r.generation /\ d.state = r.state
  <2>1. PICK r \in net :
          d = [from |-> IF r.from = p THEN Nobody ELSE r.from, try |-> r.try,
               op |-> r.op, lease |-> r.lease, kind |-> r.kind,
               offset |-> r.offset, raw |-> r.raw,
               generation |-> r.generation, state |-> r.state]
    BY DEF Detached
  <2>2. r.from # p => d = r
    BY <1>1, <2>1 DEF Requests
  <2> QED
    BY <2>1, <2>2
<1> QED
  BY <1>2, <1>3

\* What Send, Answer and Disconnected do to the messages.
LEMMA SendType ==
    ASSUME TypeOK, NEW p \in Pages, NEW q \in Requests, Send(p, q)
    PROVE  /\ call' \in [Pages -> Requests]
           /\ net' \in SUBSET Requests
           /\ phase' \in [Pages -> Phases]
  BY DEF Send, TypeOK, Phases

\* An answer keeps the types of requests and replies.
LEMMA AnswerType ==
    ASSUME TypeOK, NEW r \in net, NEW a \in Replies, Answer(r, a)
    PROVE  /\ net' \in SUBSET Requests
           /\ reply' \in [Pages -> Replies]
  BY DEF Answer, TypeOK

\* So does a broken connection.
LEMMA DisconnectedType ==
    ASSUME TypeOK, NEW p \in Pages, NEW rest \in SUBSET Requests,
           Disconnected(p, rest)
    PROVE  /\ call' \in [Pages -> Requests]
           /\ net' \in SUBSET Requests
           /\ phase' \in [Pages -> Phases]
<1>1. call[p] \in Requests
  BY DEF TypeOK
<1>2. Again(call[p]) \in Requests
  BY <1>1, AgainType
<1> QED
  BY <1>2 DEF Disconnected, GiveUp, TypeOK, Phases

\* An answer changes the reply of the sender alone.
LEMMA AnswerFields ==
    ASSUME TypeOK, NEW r \in net, NEW a, Answer(r, a)
    PROVE  /\ net' = net \ {r}
           /\ \A p \in Pages : reply'[p] = IF p = r.from THEN a ELSE reply[p]
  BY DEF Answer, TypeOK

\* The replies of calls other than reopen carry no lease.
LEMMA JustResultFields ==
    ASSUME NEW result
    PROVE  /\ JustResult(result).result = result
           /\ JustResult(result).lease = 0
  BY DEF JustResult

\* The variables have their types at first,
LEMMA InitTypeOK == Init => TypeOK
<1> SUFFICES ASSUME Init PROVE TypeOK
  OBVIOUS
<1>1. NoCall \in Requests
  BY DEF NoCall, Requests, Kinds
<1>2. JustResult("none") \in Replies
  BY JustResultType DEF Results
<1>3. ckpt \in Checkpoints /\ receipt \in Receipts
  BY DEF Init, Checkpoints, Receipts, Archives, Empty
<1>4. /\ phase \in [Pages -> Phases] /\ written \in [Pages -> Archives]
      /\ offsets \in [Pages -> [Kinds -> Nat]]
      /\ lease \in [Pages -> Nat]
      /\ stored \in Archives /\ hashed \in Archives
  BY DEF Init, Phases, Archives, Empty, Zero
<1> QED
  BY <1>1, <1>2, <1>3, <1>4 DEF Init, TypeOK, FaultSorts

\* and after every step.
LEMMA StepTypeOK == TypeOK /\ [Next]_vars => TypeOK'
<1> SUFFICES ASSUME TypeOK, [Next]_vars PROVE TypeOK'
  OBVIOUS
<1> USE DEF pageVars, stationVars
<1>a. /\ \A p \in Pages : /\ lease[p] \in Nat /\ generation[p] \in Nat
                          /\ call[p] \in Requests /\ reply[p] \in Replies
                          /\ written[p] \in [Kinds -> Seq(Chunks)]
                          /\ offsets[p] \in [Kinds -> Nat]
      /\ net \subseteq Requests
      /\ stored \in [Kinds -> Seq(Chunks)]
      /\ hashed \in [Kinds -> Seq(Chunks)]
  BY DEF TypeOK, Archives
<1>b. /\ \A result \in Results : JustResult(result) \in Replies
      /\ {"none", "ok", "refused", "failed"} = Results
  BY JustResultType DEF Results
<1>1. ASSUME NEW p \in Pages, AppendRecord(p) PROVE TypeOK'
  <2>1. PICK record \in Records :
          written' = [written EXCEPT ![p]["warc"] = @ \o record]
    BY <1>1 DEF AppendRecord
  <2>2. record \in Seq(Chunks)
    BY StreamerAssumption
  <2>3. written' \in [Pages -> Archives]
    BY <1>a, <2>1, <2>2 DEF TypeOK, Archives, Kinds
  <2> QED
    BY <1>1, <2>3 DEF AppendRecord, TypeOK
<1>2. ASSUME NEW p \in Pages, BeginFinalize(p) PROVE TypeOK'
  <2>1. written' \in [Pages -> Archives]
    BY <1>2, <1>a, StreamerAssumption DEF BeginFinalize, TypeOK, Archives, Kinds
  <2> QED
    BY <1>2, <2>1 DEF BeginFinalize, TypeOK
<1>3. ASSUME NEW p \in Pages, NEW k \in Kinds, SendChunk(p, k) PROVE TypeOK'
  <2>1. written[p][k] \in Seq(Chunks) /\ offsets[p][k] \in Nat
    BY <1>a
  <2>2. written[p][k][offsets[p][k] + 1] \in Chunks
    BY <1>3, <2>1 DEF SendChunk
  <2> DEFINE q == [from |-> p, try |-> 1, op |-> "chunk", lease |-> lease[p],
                kind |-> k, offset |-> offsets[p][k],
                raw |-> written[p][k][offsets[p][k] + 1],
                generation |-> 0, state |-> <<>>]
  <2>3. q \in Requests
    BY <1>a, <2>1, <2>2 DEF Requests
  <2>4. Send(p, q)
    BY <1>3 DEF SendChunk
  <2> HIDE DEF q
  <2>5. call' \in [Pages -> Requests] /\ net' \in SUBSET Requests
        /\ phase' \in [Pages -> Phases]
    BY <2>3, <2>4, SendType
  <2> QED
    BY <1>3, <2>5 DEF SendChunk, TypeOK
<1>4. ASSUME NEW p \in Pages, SendCheckpoint(p) PROVE TypeOK'
  <2> DEFINE q == [from |-> p, try |-> 1, op |-> "checkpoint", lease |-> lease[p],
                kind |-> "warc", offset |-> 0, raw |-> NoChunk,
                generation |-> generation[p], state |-> written[p]["warc"]]
  <2>1. q \in Requests
    BY <1>a DEF Requests, Kinds
  <2>2. Send(p, q)
    BY <1>4 DEF SendCheckpoint
  <2> HIDE DEF q
  <2>3. call' \in [Pages -> Requests] /\ net' \in SUBSET Requests
        /\ phase' \in [Pages -> Phases]
    BY <2>1, <2>2, SendType
  <2> QED
    BY <1>4, <2>3 DEF SendCheckpoint, TypeOK
<1>5. ASSUME NEW p \in Pages, SendFinalize(p) PROVE TypeOK'
  <2> DEFINE q == [from |-> p, try |-> 1, op |-> "finalize", lease |-> lease[p],
                kind |-> "warc", offset |-> 0, raw |-> NoChunk,
                generation |-> 0, state |-> <<>>]
  <2>1. q \in Requests
    BY <1>a DEF Requests, Kinds
  <2>2. Send(p, q)
    BY <1>5 DEF SendFinalize
  <2> HIDE DEF q
  <2>3. call' \in [Pages -> Requests] /\ net' \in SUBSET Requests
        /\ phase' \in [Pages -> Phases]
    BY <2>1, <2>2, SendType
  <2> QED
    BY <1>5, <2>3 DEF SendFinalize, TypeOK
<1>6. ASSUME NEW p \in Pages, SendReopen(p) PROVE TypeOK'
  <2> DEFINE q == [from |-> p, try |-> 1, op |-> "reopen", lease |-> 0,
                kind |-> "warc", offset |-> 0, raw |-> NoChunk,
                generation |-> ckpt.generation, state |-> <<>>]
  <2>1. ckpt.generation \in Nat
    BY CheckpointFields DEF TypeOK
  <2>2. q \in Requests
    BY <2>1 DEF Requests, Kinds
  <2>3. Send(p, q)
    BY <1>6 DEF SendReopen
  <2> HIDE DEF q
  <2>4. call' \in [Pages -> Requests] /\ net' \in SUBSET Requests
        /\ phase' \in [Pages -> Phases]
    BY <2>2, <2>3, SendType
  <2> QED
    BY <1>6, <2>4 DEF SendReopen, TypeOK
<1>7. ASSUME NEW p \in Pages, Receive(p) PROVE TypeOK'
  <2>1. reply' \in [Pages -> Replies]
    BY <1>7, <1>b DEF Receive, TypeOK
  <2>2. CASE reply[p].result # "ok"
    BY <1>7, <2>1, <2>2 DEF Receive, GiveUp, TypeOK, Phases
  <2>3. CASE reply[p].result = "ok"
    <3>1. Accept(p)
      BY <1>7, <2>3 DEF Receive
    <3>2. /\ reply[p].lease \in Nat /\ reply[p].generation \in Nat
          /\ reply[p].offsets \in [Kinds -> Nat] /\ reply[p].state \in Seq(Chunks)
          /\ call[p].kind \in Kinds
      BY <1>a, ReplyFields, RequestFields
    <3>3. [j \in Kinds |-> IF j = "warc" THEN reply[p].state ELSE <<>>] \in Archives
      BY <3>2 DEF Archives
    <3>4. phase' \in [Pages -> Phases]
      BY <3>1 DEF Accept, TypeOK, Phases
    <3>5. written' \in [Pages -> Archives]
      <4>1. \/ written' = [written EXCEPT ![p] =
                   [j \in Kinds |-> IF j = "warc" THEN reply[p].state ELSE <<>>]]
            \/ written' = written
        BY <3>1 DEF Accept
      <4> QED
        BY <3>3, <4>1 DEF TypeOK
    <3>6. offsets' \in [Pages -> [Kinds -> Nat]]
      <4>1. reply[p].offsets[call[p].kind] \in Nat
        BY <3>2
      <4>2. \/ offsets' = [offsets EXCEPT ![p] = reply[p].offsets]
            \/ offsets' = [offsets EXCEPT ![p][call[p].kind] =
                              reply[p].offsets[call[p].kind]]
            \/ offsets' = offsets
        BY <3>1 DEF Accept
      <4>3. call[p].kind \in Kinds /\ offsets \in [Pages -> [Kinds -> Nat]]
        BY <3>2 DEF TypeOK
      <4>4. [offsets EXCEPT ![p][call[p].kind] =
               reply[p].offsets[call[p].kind]] \in [Pages -> [Kinds -> Nat]]
        BY <4>1, <4>3
      <4> QED
        BY <3>2, <4>2, <4>3, <4>4
    <3>7. /\ lease' \in [Pages -> Nat] /\ generation' \in [Pages -> Nat]
          /\ closing' \in [Pages -> BOOLEAN]
      BY <3>1, <3>2 DEF Accept, TypeOK
    <3> QED
      BY <1>7, <2>1, <3>4, <3>5, <3>6, <3>7 DEF Receive, TypeOK
  <2> QED
    BY <2>2, <2>3
<1>8. ASSUME NEW p \in Pages, Reload(p) PROVE TypeOK'
  <2>1. NoCall \in Requests /\ Empty \in Archives /\ Zero \in [Kinds -> Nat]
    BY DEF NoCall, Requests, Kinds, Empty, Archives, Zero
  <2>2. net' \in SUBSET Requests
    BY <1>8, <1>a, DetachedFields DEF Reload, Withdrawn
  <2>3. reply' \in [Pages -> Replies]
    BY <1>8, <1>b DEF Reload, TypeOK
  <2>4. /\ phase' \in [Pages -> Phases] /\ written' \in [Pages -> Archives]
        /\ offsets' \in [Pages -> [Kinds -> Nat]]
        /\ call' \in [Pages -> Requests]
    BY <1>8, <2>1 DEF Reload, TypeOK, Phases
  <2>5. /\ lease' \in [Pages -> Nat] /\ generation' \in [Pages -> Nat]
        /\ closing' \in [Pages -> BOOLEAN]
    BY <1>8 DEF Reload, TypeOK
  <2> QED
    BY <1>8, <2>2, <2>3, <2>4, <2>5 DEF Reload, TypeOK
<1>9. ASSUME NEW p \in Pages, ConnectionLost(p) PROVE TypeOK'
  <2>1. Detached(p) \in SUBSET Requests /\ Withdrawn(p) \in SUBSET Requests
    BY <1>a, DetachedFields DEF Withdrawn
  <2>2. call' \in [Pages -> Requests] /\ net' \in SUBSET Requests
        /\ phase' \in [Pages -> Phases]
    BY <1>9, <2>1, DisconnectedType DEF ConnectionLost
  <2>3. reply' \in [Pages -> Replies]
    BY <1>9, <1>b DEF ConnectionLost, TypeOK
  <2>4. faults' \in [FaultSorts -> Nat]
    BY <1>9 DEF ConnectionLost, Spend, TypeOK, FaultSorts
  <2> QED
    BY <1>9, <2>2, <2>3, <2>4 DEF ConnectionLost, TypeOK
<1>10. ASSUME NEW p \in Pages, ConnectionClosed(p) PROVE TypeOK'
  <2>1. call' \in [Pages -> Requests] /\ net' \in SUBSET Requests
        /\ phase' \in [Pages -> Phases]
    BY <1>10, <1>a, DisconnectedType DEF ConnectionClosed
  <2> QED
    BY <1>10, <2>1 DEF ConnectionClosed, TypeOK
<1>c. \A r \in net : r \in Requests /\ r.kind \in Kinds
                     /\ r.state \in Seq(Chunks)
                     /\ (r.op = "chunk" => r.raw \in Chunks)
  BY <1>a, RequestFields
<1>d. /\ Lengths(hashed) \in [Kinds -> Nat]
      /\ current \in Nat /\ issued \in Nat /\ open \in BOOLEAN
  BY LengthsType DEF TypeOK
<1>e. ckpt.generation \in Nat /\ ckpt.state \in Seq(Chunks)
      /\ ckpt.prefix \in Archives /\ Consumed \in Checkpoints
  BY CheckpointFields DEF TypeOK, Archives, Consumed, Checkpoints
<1>11. ASSUME NEW r \in net, ServeChunk(r) PROVE TypeOK'
  <2>1. With(stored, r) \in Archives /\ With(hashed, r) \in Archives
    BY <1>11, <1>a, <1>c DEF ServeChunk, With, Archives
  <2>2. stored' \in Archives /\ hashed' \in Archives /\ open' \in BOOLEAN
    BY <1>11, <2>1 DEF ServeChunk, TypeOK
  <2>3. Saved(hashed) \in Replies /\ Saved(hashed') \in Replies
    BY <1>d, <2>2, SavedType DEF TypeOK
  <2>4. \E answer \in Replies : Answer(r, answer)
    BY <1>11, <1>b, <2>3 DEF ServeChunk
  <2>5. net' \in SUBSET Requests /\ reply' \in [Pages -> Replies]
    BY <2>4, AnswerType
  <2> QED
    BY <1>11, <2>2, <2>5 DEF ServeChunk, TypeOK
<1>12. ASSUME NEW r \in net, ServeCheckpoint(r) PROVE TypeOK'
  <2>1. NewCheckpoint(r) \in Checkpoints
    BY <1>a, <1>c, <1>d DEF NewCheckpoint, Checkpoints, Archives
  <2>2. ckpt' \in Checkpoints /\ current' \in Nat
    BY <1>12, <1>d, <2>1 DEF ServeCheckpoint, TypeOK
  <2>3. [result |-> "ok", lease |-> 0, generation |-> current',
         offsets |-> Lengths(hashed), state |-> <<>>] \in Replies
    BY <1>d, <2>2 DEF Replies, Results
  <2>4. \E answer \in Replies : Answer(r, answer)
    BY <1>12, <1>b, <2>3 DEF ServeCheckpoint
  <2>5. net' \in SUBSET Requests /\ reply' \in [Pages -> Replies]
    BY <2>4, AnswerType
  <2> QED
    BY <1>12, <2>2, <2>5 DEF ServeCheckpoint, TypeOK
<1>13. ASSUME NEW r \in net, ServeReopen(r) PROVE TypeOK'
  <2>1. /\ ckpt' \in Checkpoints /\ stored' \in Archives /\ hashed' \in Archives
        /\ open' \in BOOLEAN /\ issued' \in Nat /\ current' \in Nat
    <3>1. CASE UNCHANGED <<stored, hashed, ckpt, current, open, issued>>
      BY <3>1 DEF TypeOK
    <3>2. CASE /\ stored' = ckpt.prefix /\ hashed' = ckpt.prefix
               /\ ckpt' = Consumed /\ current' = ckpt.generation + 1
               /\ open' = TRUE /\ issued' = issued + 1
      BY <1>d, <1>e, <3>2
    <3> QED
      BY <1>13, <3>1, <3>2 DEF ServeReopen
  <2>2. [result |-> "ok", lease |-> issued + 1,
         generation |-> ckpt.generation + 1,
         offsets |-> Lengths(ckpt.prefix), state |-> ckpt.state] \in Replies
    BY <1>d, <1>e, LengthsType DEF Replies, Results
  <2>3. \E answer \in Replies : Answer(r, answer)
    BY <1>13, <1>b, <2>2 DEF ServeReopen
  <2>4. net' \in SUBSET Requests /\ reply' \in [Pages -> Replies]
    BY <2>3, AnswerType
  <2> QED
    BY <1>13, <2>1, <2>4 DEF ServeReopen, TypeOK
<1>14. ASSUME NEW r \in net, ServeFinalize(r) PROVE TypeOK'
  <2>1. receipt' \in Receipts /\ open' \in BOOLEAN
    BY <1>14, ReceiptTypes DEF ServeFinalize, TypeOK
  <2>2. \E answer \in Replies : Answer(r, answer)
    BY <1>14, <1>b DEF ServeFinalize
  <2>3. net' \in SUBSET Requests /\ reply' \in [Pages -> Replies]
    BY <2>2, AnswerType
  <2> QED
    BY <1>14, <2>1, <2>3 DEF ServeFinalize, TypeOK
<1>15. ASSUME NEW r \in net, StorageFault(r) PROVE TypeOK'
  <2>1. r.op = "chunk" =>
          With(stored, r) \in Archives /\ With(hashed, r) \in Archives
    BY <1>a, <1>c DEF With, Archives
  <2>2. NewCheckpoint(r) \in Checkpoints
    BY <1>a, <1>c, <1>d DEF NewCheckpoint, Checkpoints, Archives
  <2>3. stored' \in Archives /\ hashed' \in Archives /\ open' \in BOOLEAN
    BY <1>15, <2>1 DEF StorageFault, TypeOK
  <2>4. ckpt' \in Checkpoints /\ receipt' \in Receipts
    BY <1>15, <2>2, ReceiptTypes DEF StorageFault, TypeOK
  <2>5. net' \in SUBSET Requests /\ reply' \in [Pages -> Replies]
    BY <1>15, <1>b, AnswerType DEF StorageFault
  <2>6. faults' \in [FaultSorts -> Nat]
    BY <1>15 DEF StorageFault, Spend, TypeOK, FaultSorts
  <2> QED
    BY <1>15, <2>3, <2>4, <2>5, <2>6 DEF StorageFault, TypeOK
<1>16. ASSUME NEW r \in net, ReopenFault(r) PROVE TypeOK'
  <2>1. [k \in Kinds |-> IF k = "warc" THEN ckpt.prefix[k] ELSE stored[k]]
           \in Archives
    BY <1>a, <1>e DEF Archives
  <2>2. stored' \in Archives /\ ckpt' \in Checkpoints
    BY <1>16, <1>e, <2>1 DEF ReopenFault, TypeOK
  <2>3. net' \in SUBSET Requests /\ reply' \in [Pages -> Replies]
    BY <1>16, <1>b, AnswerType DEF ReopenFault
  <2>4. faults' \in [FaultSorts -> Nat]
    BY <1>16 DEF ReopenFault, Spend, TypeOK, FaultSorts
  <2> QED
    BY <1>16, <2>2, <2>3, <2>4 DEF ReopenFault, TypeOK
<1>17. ASSUME Restart PROVE TypeOK'
  <2>1. reply' \in [Pages -> Replies] /\ open' \in BOOLEAN
    BY <1>17, <1>b DEF Restart, TypeOK
  <2>2. faults' \in [FaultSorts -> Nat]
    BY <1>17 DEF Restart, Spend, TypeOK, FaultSorts
  <2> QED
    BY <1>17, <2>1, <2>2 DEF Restart, TypeOK
<1>18. CASE UNCHANGED vars
  BY <1>18 DEF vars, TypeOK
<1> QED
  BY <1>1, <1>2, <1>3, <1>4, <1>5, <1>6, <1>7, <1>8, <1>9, <1>10, <1>11,
     <1>12, <1>13, <1>14, <1>15, <1>16, <1>17, <1>18 DEF Next, Serve

-----------------------------------------------------------------------------
(* What the actions do, page by page *)

\* The same request, perhaps of a page that waits no more.
Like(r, o) ==
    /\ r.op = o.op /\ r.lease = o.lease /\ r.kind = o.kind
    /\ r.offset = o.offset /\ r.raw = o.raw
    /\ r.generation = o.generation /\ r.state = o.state

\* Nothing of page q changes but its reply; nor that.
Alone(q) ==
    /\ phase'[q] = phase[q] /\ written'[q] = written[q]
    /\ offsets'[q] = offsets[q] /\ lease'[q] = lease[q]
    /\ generation'[q] = generation[q] /\ closing'[q] = closing[q]
    /\ call'[q] = call[q]
Untouched(q) == Alone(q) /\ reply'[q] = reply[q]

\* The requests after a page's connection broke.
Cut(p) ==
    \A d \in net' : \E o \in net :
        /\ Like(d, o)
        /\ \/ d = o /\ o.from # p
           \/ d.from = Nobody /\ o.from = p

\* Either way a connection breaks, other pages' requests stay as they are.
LEMMA CutNetwork ==
    ASSUME TypeOK, NEW p \in Pages, net' \in {Detached(p), Withdrawn(p)}
    PROVE  Cut(p)
<1>1. CASE net' = Detached(p)
  BY <1>1, DetachedFields DEF Cut, Like
<1>2. CASE net' = Withdrawn(p)
  BY <1>2 DEF Cut, Like, Withdrawn
<1> QED
  BY <1>1, <1>2

\* AppendRecord and BeginFinalize add to what the page has written.
LEMMA WriteEffect ==
    ASSUME TypeOK, WriteInv, NEW p \in Pages,
           AppendRecord(p) \/ BeginFinalize(p)
    PROVE  /\ phase[p] = "ready"
           /\ \A q \in Pages : q # p => written'[q] = written[q]
           /\ \A k \in Kinds : /\ IsPrefix(written[p][k], written'[p][k])
                               /\ Len(written[p][k]) <= Len(written'[p][k])
           /\ ~closing'[p] => written'[p]["cdx"] = <<>>
           /\ \A q \in Pages : q # p => closing'[q] = closing[q]
           /\ UNCHANGED <<phase, offsets, lease, generation, call, net, reply,
                          stationVars>>
<1>1. /\ written[p] \in [Kinds -> Seq(Chunks)] /\ "warc" \in Kinds /\ "cdx" \in Kinds
      /\ \A k \in Kinds : k = "warc" \/ k = "cdx"
      /\ written \in [Pages -> Archives] /\ closing \in [Pages -> BOOLEAN]
  BY DEF TypeOK, Archives, Kinds
<1>2. CASE AppendRecord(p)
  <2>1. PICK record \in Records :
          written' = [written EXCEPT ![p]["warc"] = @ \o record]
    BY <1>2 DEF AppendRecord
  <2>2. record \in Seq(Chunks)
    BY StreamerAssumption
  <2>3. /\ \A q \in Pages : q # p => written'[q] = written[q]
        /\ written'[p]["warc"] = written[p]["warc"] \o record
        /\ written'[p]["cdx"] = written[p]["cdx"]
    BY <1>1, <2>1 DEF Archives
  <2>4. \A k \in Kinds : written[p][k] \in Seq(Chunks)
    BY <1>1
  <2>5. /\ IsPrefix(written[p]["warc"], written'[p]["warc"])
        /\ Len(written[p]["warc"]) <= Len(written'[p]["warc"])
    <3>1. written[p]["warc"] \in Seq(Chunks)
      BY <1>1
    <3>2. IsPrefix(written[p]["warc"], written[p]["warc"] \o record)
      BY <2>2, <3>1, PrefixReflexive, PrefixOfExtension
    <3>3. Len(written[p]["warc"] \o record) = Len(written[p]["warc"]) + Len(record)
          /\ Len(record) \in Nat /\ Len(written[p]["warc"]) \in Nat
      BY <2>2, <3>1
    <3> QED
      BY <2>3, <3>2, <3>3
  <2>6. IsPrefix(written[p]["cdx"], written'[p]["cdx"])
    BY <1>1, <2>3, <2>4, PrefixReflexive
  <2>7. closing' = closing /\ (~closing[p] => written[p]["cdx"] = <<>>)
    BY <1>2 DEF AppendRecord, WriteInv
  <2> QED
    BY <1>1, <1>2, <2>3, <2>4, <2>5, <2>6, <2>7 DEF AppendRecord
<1>3. CASE BeginFinalize(p)
  <2>1. PICK text \in CdxTexts : written' = [written EXCEPT ![p]["cdx"] = text]
    BY <1>3 DEF BeginFinalize
  <2>2. text \in Seq(Chunks)
    BY StreamerAssumption
  <2>3. /\ \A q \in Pages : q # p => written'[q] = written[q]
        /\ written'[p]["cdx"] = text
        /\ written'[p]["warc"] = written[p]["warc"]
    BY <1>1, <2>1 DEF Archives
  <2>4. written[p]["cdx"] = <<>>
    BY <1>3 DEF BeginFinalize, WriteInv
  <2>5. IsPrefix(<<>>, text) /\ Len(<<>>) <= Len(text)
    <3>1. <<>> \in Seq(Chunks) /\ Len(<<>>) = 0 /\ Len(text) \in Nat
      BY <2>2
    <3>2. <<>> \o text = text
      BY <2>2
    <3>3. IsPrefix(<<>>, <<>> \o text)
      BY <2>2, <3>1, PrefixReflexive, PrefixOfExtension
    <3> QED
      BY <3>1, <3>2, <3>3
  <2>6. /\ IsPrefix(written[p]["cdx"], written'[p]["cdx"])
        /\ Len(written[p]["cdx"]) <= Len(written'[p]["cdx"])
    BY <2>3, <2>4, <2>5
  <2>7. \A k \in Kinds : written[p][k] \in Seq(Chunks)
    BY <1>1
  <2>8. IsPrefix(written[p]["warc"], written'[p]["warc"])
    BY <1>1, <2>3, <2>7, PrefixReflexive
  <2>9. closing' = [closing EXCEPT ![p] = TRUE]
    BY <1>3 DEF BeginFinalize
  <2> QED
    BY <1>1, <1>3, <2>3, <2>6, <2>7, <2>8, <2>9 DEF BeginFinalize
<1> QED
  BY <1>2, <1>3

\* A page that gives up its capture.
LEMMA ReloadEffect ==
    ASSUME TypeOK, NEW p \in Pages, Reload(p)
    PROVE  /\ phase'[p] = "idle" /\ lease'[p] = 0 /\ ~closing'[p]
           /\ written'[p] = Empty /\ offsets'[p] = Zero /\ call'[p] = NoCall
           /\ reply'[p].result = "none" /\ reply'[p].lease = 0
           /\ \A q \in Pages : q # p => Untouched(q)
           /\ Cut(p)
           /\ UNCHANGED <<stationVars>>
<1>1. JustResult("none").result = "none" /\ JustResult("none").lease = 0
  BY JustResultFields
<1>2. Cut(p)
  BY CutNetwork DEF Reload
<1> QED
  BY <1>1, <1>2 DEF Reload, Untouched, Alone, TypeOK

\* A page whose connection breaks.
LEMMA DropEffect ==
    ASSUME TypeOK, NetInv, ReplyInv, CallInv, NEW p \in Pages,
           ConnectionLost(p) \/ ConnectionClosed(p)
    PROVE  /\ phase[p] = "calling"
           /\ \/ phase'[p] = "calling" /\ call[p].op = "chunk"
              \/ phase'[p] = "failed" /\ call[p].op # "reopen"
              \/ phase'[p] = "idle" /\ call[p].op = "reopen"
           /\ Like(call'[p], call[p]) /\ call'[p].from = call[p].from
           /\ reply'[p].result = "none" /\ reply'[p].lease = 0
           /\ \A q \in Pages : q # p => Untouched(q)
           /\ \A d \in net' :
                 \/ d = call'[p] /\ phase'[p] = "calling"
                 \/ \E o \in net : /\ Like(d, o)
                                   /\ \/ d = o /\ o.from # p
                                      \/ d.from = Nobody /\ o.from = p
           /\ UNCHANGED <<written, offsets, lease, generation, closing,
                          stationVars>>
<1>1. JustResult("none").result = "none" /\ JustResult("none").lease = 0
  BY JustResultFields
<1>2. phase[p] = "calling"
  BY DEF ConnectionLost, ConnectionClosed
<1>3. /\ reply'[p].result = "none" /\ reply'[p].lease = 0
      /\ \A q \in Pages : q # p => reply'[q] = reply[q]
  <2>1. CASE ConnectionLost(p)
    BY <1>1, <2>1 DEF ConnectionLost, TypeOK
  <2>2. CASE ConnectionClosed(p)
    BY <2>2 DEF ConnectionClosed, ReplyInv, ReplyFits
  <2> QED
    BY <2>1, <2>2
<1>4. \E rest :
        /\ Disconnected(p, rest)
        /\ \A d \in rest : \E o \in net :
              /\ Like(d, o)
              /\ \/ d = o /\ o.from # p
                 \/ d.from = Nobody /\ o.from = p
  <2>1. CASE ConnectionLost(p)
    BY <2>1, DetachedFields DEF ConnectionLost, Withdrawn, Like
  <2>2. CASE ConnectionClosed(p)
    BY <2>2 DEF ConnectionClosed, Like
  <2> QED
    BY <2>1, <2>2
<1>5. PICK rest :
        /\ Disconnected(p, rest)
        /\ \A d \in rest : \E o \in net :
              /\ Like(d, o)
              /\ \/ d = o /\ o.from # p
                 \/ d.from = Nobody /\ o.from = p
  BY <1>4
<1>6. /\ call[p] \in Requests /\ call \in [Pages -> Requests]
      /\ phase \in [Pages -> Phases]
  BY DEF TypeOK
<1>7. Like(Again(call[p]), call[p]) /\ Again(call[p]).from = call[p].from
  BY <1>6, AgainType DEF Like
<1>8. UNCHANGED <<written, offsets, lease, generation, closing, stationVars>>
  BY DEF ConnectionLost, ConnectionClosed
<1>9. CASE /\ call[p].op = "chunk"
           /\ call' = [call EXCEPT ![p] = Again(call[p])]
           /\ net' = rest \union {call'[p]}
           /\ UNCHANGED phase
  BY <1>2, <1>3, <1>5, <1>6, <1>7, <1>8, <1>9 DEF Untouched, Alone
<1>10. CASE net' = rest /\ GiveUp(p) /\ UNCHANGED call
  <2>1. Like(call[p], call[p])
    BY DEF Like
  <2> QED
    BY <1>2, <1>3, <1>5, <1>6, <1>8, <1>10, <2>1 DEF Untouched, Alone, GiveUp
<1> QED
  BY <1>5, <1>9, <1>10 DEF Disconnected

\* A page that waits for nothing else.
LEMMA ReceiveEffect ==
    ASSUME TypeOK, NEW p \in Pages, Receive(p)
    PROVE  /\ phase[p] = "calling" /\ reply[p].result # "none"
           /\ reply'[p].result = "none" /\ reply'[p].lease = 0
           /\ \A q \in Pages : q # p => Untouched(q)
           /\ UNCHANGED <<call, net, stationVars>>
<1>1. JustResult("none").result = "none" /\ JustResult("none").lease = 0
  BY JustResultFields
<1>2. /\ phase[p] = "calling" /\ reply[p].result # "none"
      /\ UNCHANGED <<call, net, stationVars>>
      /\ reply' = [reply EXCEPT ![p] = JustResult("none")]
      /\ Accept(p) \/ (/\ GiveUp(p)
                       /\ UNCHANGED <<written, offsets, lease, generation, closing>>)
  BY DEF Receive
<1>3. /\ reply'[p].result = "none" /\ reply'[p].lease = 0
      /\ \A q \in Pages : q # p => reply'[q] = reply[q]
  BY <1>1, <1>2 DEF TypeOK
<1>4. \A q \in Pages : q # p => Alone(q)
  <2>1. CASE Accept(p)
    <3>1. \A q \in Pages : q # p => offsets'[q] = offsets[q]
      BY <2>1 DEF Accept, TypeOK
    <3> QED
      BY <1>2, <2>1, <3>1 DEF Accept, Alone, TypeOK
  <2>2. CASE GiveUp(p) /\ UNCHANGED <<written, offsets, lease, generation, closing>>
    BY <1>2, <2>2 DEF GiveUp, Alone, TypeOK
  <2> QED
    BY <1>2, <2>1, <2>2
<1> QED
  BY <1>2, <1>3, <1>4 DEF Untouched

\* What becomes of the page, by the operation it called.
LEMMA ReceiveCases ==
    ASSUME TypeOK, NEW p \in Pages, Receive(p), call[p].op # "none"
    PROVE  \/ /\ call[p].op = "reopen" /\ reply[p].result = "ok"
              /\ phase'[p] = "ready" /\ ~closing'[p]
              /\ written'[p] = Counted(reply[p].state)
              /\ offsets'[p] = Lengths(written'[p])
              /\ lease'[p] = reply[p].lease
              /\ generation'[p] = reply[p].generation
           \/ /\ call[p].op = "reopen" /\ phase'[p] = "idle"
              /\ UNCHANGED <<written, offsets, lease, generation, closing>>
           \/ /\ call[p].op # "reopen" /\ phase'[p] = "failed"
              /\ UNCHANGED <<written, offsets, lease, generation, closing>>
           \/ /\ call[p].op = "chunk" /\ reply[p].result = "ok"
              /\ phase'[p] = "ready"
              /\ offsets'[p][call[p].kind] = offsets[p][call[p].kind] + 1
              /\ \A k \in Kinds : k # call[p].kind => offsets'[p][k] = offsets[p][k]
              /\ UNCHANGED <<written, lease, generation, closing>>
           \/ /\ call[p].op = "checkpoint" /\ reply[p].result = "ok"
              /\ phase'[p] = "ready" /\ generation'[p] = reply[p].generation
              /\ UNCHANGED <<written, offsets, lease, closing>>
           \/ /\ call[p].op = "finalize" /\ reply[p].result = "ok"
              /\ phase'[p] = "finished"
              /\ UNCHANGED <<written, offsets, lease, generation, closing>>
<1>1. /\ phase \in [Pages -> Phases] /\ written \in [Pages -> Archives]
      /\ offsets \in [Pages -> [Kinds -> Nat]] /\ lease \in [Pages -> Nat]
      /\ generation \in [Pages -> Nat] /\ closing \in [Pages -> BOOLEAN]
      /\ call[p] \in Requests
      /\ call[p].kind \in Kinds
      /\ call[p].op \in {"none", "reopen", "chunk", "checkpoint", "finalize"}
  BY RequestFields DEF TypeOK
<1>2. CASE reply[p].result # "ok"
  BY <1>1, <1>2 DEF Receive, GiveUp
<1>3. CASE reply[p].result = "ok"
  <2>1. Accept(p)
    BY <1>3 DEF Receive
  <2>2. CASE call[p].op = "reopen"
    <3>1. [k \in Kinds |-> IF k = "warc" THEN Len(reply[p].state) ELSE 0] =
          Lengths(Counted(reply[p].state))
      BY DEF Lengths, Counted
    <3> QED
      BY <1>1, <1>3, <2>1, <2>2, <3>1 DEF Accept, Counted
  <2>3. CASE call[p].op = "chunk"
    <3>1. CASE reply[p].offsets[call[p].kind] # offsets[p][call[p].kind] + 1
      BY <1>1, <2>1, <2>3, <3>1 DEF Accept
    <3>2. CASE reply[p].offsets[call[p].kind] = offsets[p][call[p].kind] + 1
      <4>1. /\ phase' = [phase EXCEPT ![p] = "ready"]
            /\ offsets' = [offsets EXCEPT ![p][call[p].kind] =
                              reply[p].offsets[call[p].kind]]
            /\ UNCHANGED <<written, lease, generation, closing>>
        BY <2>1, <2>3, <3>2 DEF Accept
      <4>2. /\ offsets'[p][call[p].kind] = offsets[p][call[p].kind] + 1
            /\ \A k \in Kinds : k # call[p].kind => offsets'[p][k] = offsets[p][k]
        BY <1>1, <3>2, <4>1
      <4> QED
        BY <1>1, <1>3, <2>3, <4>1, <4>2
    <3> QED
      BY <3>1, <3>2
  <2>4. CASE call[p].op = "checkpoint"
    BY <1>1, <1>3, <2>1, <2>4 DEF Accept
  <2>5. CASE call[p].op = "finalize"
    BY <1>1, <1>3, <2>1, <2>5 DEF Accept
  <2> QED
    BY <1>1, <2>2, <2>3, <2>4, <2>5
<1> QED
  BY <1>2, <1>3

\* The page that sent r, if it still waits, gets this result and no lease.
Replied(r, result) ==
    \A p \in Pages : p = r.from =>
        reply'[p].result = result /\ reply'[p].lease = 0

\* What a request can do to the station: a chunk is appended,
StepAppend(r) ==
    /\ r.op = "chunk" /\ Admitted(r) /\ IsNext(r) /\ Matches(r.kind)
    /\ stored' = With(stored, r)
    /\ \/ /\ hashed' = With(hashed, r) /\ open' = open
          /\ Replied(r, "ok") \/ Replied(r, "failed")
       \/ hashed' = hashed /\ ~open' /\ Replied(r, "failed")
    /\ UNCHANGED <<ckpt, receipt, current, issued>>

\* nothing, or the session fails,
Refusable(r) ==
    /\ r.op = "chunk" => ~(Admitted(r) /\ (IsNext(r) \/ IsLast(r)))
    /\ r.op = "checkpoint" => ~Checkpointable(r)
    /\ r.op = "finalize" => ~Admitted(r)
StepNothing(r) ==
    /\ UNCHANGED <<stored, hashed, ckpt, receipt, current, issued>>
    /\ \/ /\ r.op = "chunk" /\ Admitted(r) /\ IsLast(r) /\ Matches(r.kind)
          /\ open' = open /\ Replied(r, "ok")
       \/ (open' = open \/ ~open') /\ Replied(r, "failed")
       \/ open' = open /\ Refusable(r) /\ Replied(r, "refused")

\* a checkpoint is published,
StepPublish(r) ==
    /\ r.op = "checkpoint" /\ Checkpointable(r) /\ Intact
    /\ ckpt' = NewCheckpoint(r)
    /\ \/ /\ current' = current + 1 /\ Replied(r, "ok")
          /\ \A p \in Pages : p = r.from => reply'[p].generation = current'
       \/ current' = current /\ Replied(r, "failed")
    /\ UNCHANGED <<stored, hashed, receipt, open, issued>>

\* the archive is reopened,
StepReopen(r) ==
    /\ r.op = "reopen" /\ Reopenable(r)
    /\ stored' = ckpt.prefix /\ hashed' = ckpt.prefix
    /\ ckpt' = Consumed
    /\ current' = ckpt.generation + 1 /\ issued' = issued + 1 /\ open' = TRUE
    /\ \A p \in Pages : p = r.from =>
          /\ reply'[p].result = "ok" /\ reply'[p].lease = issued'
          /\ reply'[p].generation = current'
          /\ reply'[p].offsets = Lengths(ckpt.prefix)
          /\ reply'[p].state = ckpt.state
    /\ UNCHANGED receipt

\* or only cut back,
StepCutBack(r) ==
    /\ r.op = "reopen" /\ Reopenable(r)
    /\ stored' \in Archives
    /\ \A k \in Kinds : stored'[k] \in {stored[k], ckpt.prefix[k]}
    /\ ckpt' \in {ckpt, Consumed}
    /\ Replied(r, "failed")
    /\ UNCHANGED <<hashed, receipt, open, current, issued>>

\* or the archive is finalized, with or without a receipt.
StepFinalize(r) ==
    /\ r.op = "finalize" /\ Admitted(r) /\ ~open'
    /\ \/ Intact /\ receipt' = Final /\ (Replied(r, "ok") \/ Replied(r, "failed"))
       \/ receipt' = Stranded /\ Replied(r, "failed")
    /\ UNCHANGED <<stored, hashed, ckpt, current, issued>>

StationStep(r) ==
    \/ StepAppend(r) \/ StepNothing(r) \/ StepPublish(r)
    \/ StepReopen(r) \/ StepCutBack(r) \/ StepFinalize(r)

\* An answer that only states its result reaches the sender.
LEMMA AnswerReplied ==
    ASSUME TypeOK, NEW r \in net, NEW result, Answer(r, JustResult(result))
    PROVE  Replied(r, result)
  BY AnswerFields, JustResultFields DEF Replied

\* The answer to a saved chunk is an ok.
LEMMA SavedReplied ==
    ASSUME TypeOK, NEW r \in net, NEW archives, Answer(r, Saved(archives))
    PROVE  Replied(r, "ok")
<1>1. Saved(archives).result = "ok" /\ Saved(archives).lease = 0
  BY DEF Saved
<1> QED
  BY <1>1, AnswerFields DEF Replied

\* Whatever is served, nothing but the sender's reply changes for a page.
LEMMA ServeEffect ==
    ASSUME TypeOK, NetInv, NEW r \in net,
           Serve(r) \/ StorageFault(r) \/ ReopenFault(r)
    PROVE  /\ net' = net \ {r}
           /\ \A p \in Pages : Alone(p)
           /\ \A p \in Pages : p # r.from => reply'[p] = reply[p]
           /\ \A p \in Pages : p = r.from =>
                 phase[p] = "calling" /\ r = call[p] /\ reply[p].result = "none"
           /\ UNCHANGED pageVars
<1>1. /\ \E a : Answer(r, a)
      /\ UNCHANGED pageVars
  BY DEF Serve, ServeChunk, ServeCheckpoint, ServeReopen, ServeFinalize,
         StorageFault, ReopenFault
<1>2. \A p \in Pages : Alone(p)
  BY <1>1 DEF Alone, pageVars
<1> QED
  BY <1>1, <1>2, AnswerFields DEF NetInv

\* Every request that is served, or fails, is one of the station's steps.
LEMMA ServeCases ==
    ASSUME TypeOK, NEW r \in net,
           Serve(r) \/ StorageFault(r) \/ ReopenFault(r)
    PROVE  StationStep(r)
<1>1. CASE ServeChunk(r)
  <2>1. /\ r.op = "chunk"
        /\ UNCHANGED <<ckpt, receipt, current, issued>>
    BY <1>1 DEF ServeChunk
  <2>2. CASE /\ Admitted(r) /\ IsNext(r) /\ Matches(r.kind)
             /\ stored' = With(stored, r) /\ hashed' = With(hashed, r)
             /\ Answer(r, Saved(hashed')) /\ UNCHANGED open
    BY <2>1, <2>2, SavedReplied DEF StationStep, StepAppend
  <2>3. CASE /\ open' = FALSE /\ Answer(r, JustResult("failed"))
             /\ UNCHANGED <<stored, hashed>>
    BY <2>1, <2>3, AnswerReplied DEF StationStep, StepNothing
  <2>4. CASE /\ Admitted(r) /\ IsLast(r)
             /\ Answer(r, IF Matches(r.kind) THEN Saved(hashed)
                                            ELSE JustResult("failed"))
             /\ UNCHANGED <<stored, hashed, open>>
    BY <2>1, <2>4, AnswerReplied, SavedReplied DEF StationStep, StepNothing
  <2>5. CASE /\ ~(Admitted(r) /\ (IsNext(r) \/ IsLast(r)))
             /\ Answer(r, JustResult("refused"))
             /\ UNCHANGED <<stored, hashed, open>>
    BY <2>1, <2>5, AnswerReplied DEF StationStep, StepNothing, Refusable
  <2> QED
    BY <1>1, <2>2, <2>3, <2>4, <2>5 DEF ServeChunk
<1>2. CASE ServeCheckpoint(r)
  <2>1. /\ r.op = "checkpoint"
        /\ UNCHANGED <<stored, hashed, receipt, open, issued>>
    BY <1>2 DEF ServeCheckpoint
  <2>2. CASE Checkpointable(r) /\ Intact
    <3> DEFINE a == [result |-> "ok", lease |-> 0, generation |-> current',
                     offsets |-> Lengths(hashed), state |-> <<>>]
    <3>1. /\ Answer(r, a) /\ ckpt' = NewCheckpoint(r) /\ current' = current + 1
      BY <1>2, <2>2 DEF ServeCheckpoint
    <3>2. a.result = "ok" /\ a.lease = 0 /\ a.generation = current'
      OBVIOUS
    <3> HIDE DEF a
    <3>3. Replied(r, "ok")
          /\ \A p \in Pages : p = r.from => reply'[p].generation = current'
      BY <3>1, <3>2, AnswerFields DEF Replied
    <3> QED
      BY <2>1, <2>2, <3>1, <3>3 DEF StationStep, StepPublish
  <2>3. CASE Checkpointable(r) /\ ~Intact
    <3>1. Answer(r, JustResult("failed")) /\ UNCHANGED <<ckpt, current>>
      BY <1>2, <2>3 DEF ServeCheckpoint
    <3> QED
      BY <2>1, <3>1, AnswerReplied DEF StationStep, StepNothing
  <2>4. CASE ~Checkpointable(r)
    <3>1. Answer(r, JustResult("refused")) /\ UNCHANGED <<ckpt, current>>
      BY <1>2, <2>4 DEF ServeCheckpoint
    <3> QED
      BY <2>1, <2>4, <3>1, AnswerReplied DEF StationStep, StepNothing, Refusable
  <2> QED
    BY <2>2, <2>3, <2>4
<1>3. CASE ServeReopen(r)
  <2>1. r.op = "reopen" /\ UNCHANGED receipt
    BY <1>3 DEF ServeReopen
  <2>2. CASE /\ Answer(r, JustResult("refused"))
             /\ UNCHANGED <<stored, hashed, ckpt, current, open, issued>>
    BY <2>1, <2>2, AnswerReplied DEF StationStep, StepNothing, Refusable
  <2> DEFINE a == [result |-> "ok", lease |-> issued + 1,
                   generation |-> ckpt.generation + 1,
                   offsets |-> Lengths(ckpt.prefix), state |-> ckpt.state]
  <2>3. CASE /\ Reopenable(r)
             /\ stored' = ckpt.prefix /\ hashed' = ckpt.prefix
             /\ ckpt' = Consumed
             /\ current' = ckpt.generation + 1
             /\ open' = TRUE /\ issued' = issued + 1
             /\ Answer(r, a)
    <3>1. /\ a.result = "ok" /\ a.lease = issued + 1
          /\ a.generation = ckpt.generation + 1
          /\ a.offsets = Lengths(ckpt.prefix) /\ a.state = ckpt.state
      OBVIOUS
    <3> HIDE DEF a
    <3>2. \A p \in Pages : p = r.from => reply'[p] = a
      BY <2>3, AnswerFields
    <3> QED
      BY <2>1, <2>3, <3>1, <3>2 DEF StationStep, StepReopen
  <2> QED
    BY <1>3, <2>2, <2>3 DEF ServeReopen
<1>4. CASE ServeFinalize(r)
  <2>1. /\ r.op = "finalize"
        /\ UNCHANGED <<stored, hashed, ckpt, current, issued>>
    BY <1>4 DEF ServeFinalize
  <2>2. CASE /\ Admitted(r) /\ Intact /\ receipt' = Final /\ open' = FALSE
             /\ Answer(r, JustResult("ok"))
    BY <2>1, <2>2, AnswerReplied DEF StationStep, StepFinalize
  <2>3. CASE /\ Admitted(r) /\ receipt' \in {receipt, Stranded}
             /\ open' = FALSE /\ Answer(r, JustResult("failed"))
    BY <2>1, <2>3, AnswerReplied DEF StationStep, StepFinalize, StepNothing
  <2>4. CASE /\ ~Admitted(r) /\ Answer(r, JustResult("refused"))
             /\ UNCHANGED <<receipt, open>>
    BY <2>1, <2>4, AnswerReplied DEF StationStep, StepNothing, Refusable
  <2> QED
    BY <1>4, <2>2, <2>3, <2>4 DEF ServeFinalize
<1>5. CASE StorageFault(r)
  <2>1. /\ Replied(r, "failed") /\ Admitted(r)
        /\ UNCHANGED <<current, issued>>
    BY <1>5, AnswerReplied DEF StorageFault
  <2>2. CASE /\ r.op = "chunk" /\ IsNext(r) /\ Matches(r.kind)
             /\ stored' = With(stored, r) /\ UNCHANGED <<ckpt, receipt>>
             /\ \/ open' = FALSE /\ UNCHANGED hashed
                \/ hashed' = With(hashed, r) /\ UNCHANGED open
    BY <2>1, <2>2 DEF StationStep, StepAppend
  <2>3. CASE /\ UNCHANGED <<stored, hashed, ckpt, receipt>>
             /\ open' = FALSE \/ UNCHANGED open
    BY <2>1, <2>3 DEF StationStep, StepNothing
  <2>4. CASE /\ r.op = "checkpoint" /\ Checkpointable(r) /\ Intact
             /\ ckpt' = NewCheckpoint(r)
             /\ UNCHANGED <<stored, hashed, receipt, open>>
    BY <2>1, <2>4 DEF StationStep, StepPublish
  <2>5. CASE /\ r.op = "finalize" /\ Intact /\ receipt' \in {Stranded, Final}
             /\ open' = FALSE /\ UNCHANGED <<stored, hashed, ckpt>>
    BY <2>1, <2>5 DEF StationStep, StepFinalize
  <2> QED
    BY <1>5, <2>2, <2>3, <2>4, <2>5 DEF StorageFault
<1>6. CASE ReopenFault(r)
  <2>1. /\ r.op = "reopen" /\ Reopenable(r)
        /\ Replied(r, "failed")
        /\ UNCHANGED <<hashed, receipt, open, current, issued>>
    BY <1>6, AnswerReplied DEF ReopenFault
  <2>2. stored \in Archives /\ ckpt.prefix \in Archives
    BY CheckpointFields DEF TypeOK, Archives
  <2>3. [k \in Kinds |-> IF k = "warc" THEN ckpt.prefix[k] ELSE stored[k]]
          \in Archives
    BY <2>2 DEF Archives
  <2>4. /\ stored' \in Archives
        /\ \A k \in Kinds : stored'[k] \in {stored[k], ckpt.prefix[k]}
        /\ ckpt' \in {ckpt, Consumed}
    <3>1. CASE stored' = stored /\ ckpt' = ckpt
      BY <2>2, <3>1
    <3>2. CASE stored' = ckpt.prefix /\ ckpt' \in {ckpt, Consumed}
      BY <2>2, <3>2
    <3>3. CASE /\ stored' = [k \in Kinds |-> IF k = "warc" THEN ckpt.prefix[k]
                                                       ELSE stored[k]]
               /\ ckpt' = ckpt
      BY <2>3, <3>3
    <3> QED
      BY <1>6, <3>1, <3>2, <3>3 DEF ReopenFault
  <2> QED
    BY <2>1, <2>4 DEF StationStep, StepCutBack
<1> QED
  BY <1>1, <1>2, <1>3, <1>4, <1>5, <1>6 DEF Serve

\* A page sends a request.
Sends(p) ==
    \/ \E k \in Kinds : SendChunk(p, k)
    \/ SendCheckpoint(p) \/ SendFinalize(p) \/ SendReopen(p)

\* A page that sends waits, with the call its state asks for.
LEMMA SendEffect ==
    ASSUME TypeOK, NEW p \in Pages, Sends(p)
    PROVE  /\ phase'[p] = "calling"
           /\ call'[p].from = p
           /\ net' = net \union {call'[p]}
           /\ \/ /\ call'[p].op = "chunk" /\ phase[p] = "ready"
                 /\ call'[p].lease = lease[p] /\ call'[p].kind \in Kinds
                 /\ call'[p].offset = offsets[p][call'[p].kind]
                 /\ call'[p].offset < Len(written[p][call'[p].kind])
                 /\ call'[p].raw = written[p][call'[p].kind][call'[p].offset + 1]
              \/ /\ call'[p].op = "checkpoint" /\ phase[p] = "ready"
                 /\ call'[p].lease = lease[p]
                 /\ Acknowledged(p) /\ ~closing[p]
                 /\ call'[p].state = written[p]["warc"]
                 /\ written[p]["warc"] # <<>>
                 /\ call'[p].generation = generation[p]
              \/ /\ call'[p].op = "finalize" /\ phase[p] = "ready"
                 /\ call'[p].lease = lease[p] /\ Acknowledged(p)
              \/ /\ call'[p].op = "reopen" /\ phase[p] = "idle"
                 /\ call'[p].lease = 0
           /\ \A q \in Pages : q # p => Alone(q)
           /\ UNCHANGED <<written, offsets, lease, generation, closing, reply,
                          stationVars>>
<1>1. phase \in [Pages -> Phases] /\ call \in [Pages -> Requests]
  BY DEF TypeOK
<1>2. ASSUME NEW c, Send(p, c)
      PROVE  /\ phase'[p] = "calling" /\ call'[p] = c
             /\ net' = net \union {c}
             /\ \A q \in Pages : q # p => phase'[q] = phase[q] /\ call'[q] = call[q]
  BY <1>1, <1>2 DEF Send
<1>3. ASSUME NEW k \in Kinds, SendChunk(p, k)
      PROVE  /\ \E c : /\ Send(p, c) /\ c.from = p /\ c.op = "chunk"
                       /\ c.lease = lease[p] /\ c.kind = k
                       /\ c.offset = offsets[p][k]
                       /\ c.raw = written[p][k][offsets[p][k] + 1]
             /\ phase[p] = "ready" /\ offsets[p][k] < Len(written[p][k])
  BY <1>3 DEF SendChunk
<1>4. ASSUME SendCheckpoint(p)
      PROVE  /\ \E c : /\ Send(p, c) /\ c.from = p /\ c.op = "checkpoint"
                       /\ c.lease = lease[p] /\ c.state = written[p]["warc"]
                       /\ c.generation = generation[p]
             /\ phase[p] = "ready" /\ Acknowledged(p) /\ ~closing[p]
             /\ written[p]["warc"] # <<>>
  BY <1>4 DEF SendCheckpoint
<1>5. ASSUME SendFinalize(p)
      PROVE  /\ \E c : /\ Send(p, c) /\ c.from = p /\ c.op = "finalize"
                       /\ c.lease = lease[p]
             /\ phase[p] = "ready" /\ Acknowledged(p)
  BY <1>5 DEF SendFinalize
<1>6. ASSUME SendReopen(p)
      PROVE  /\ \E c : /\ Send(p, c) /\ c.from = p /\ c.op = "reopen"
                       /\ c.lease = 0
             /\ phase[p] = "idle"
  BY <1>6 DEF SendReopen
<1>7. UNCHANGED <<written, offsets, lease, generation, closing, reply, stationVars>>
  BY DEF Sends, SendChunk, SendCheckpoint, SendFinalize, SendReopen
<1>8. /\ phase'[p] = "calling"
      /\ \A q \in Pages : q # p => Alone(q)
  BY <1>2, <1>3, <1>4, <1>5, <1>6, <1>7 DEF Sends, Alone
<1>9. CASE \E k \in Kinds : SendChunk(p, k)
  BY <1>2, <1>3, <1>7, <1>8, <1>9
<1>10. CASE SendCheckpoint(p)
  BY <1>2, <1>4, <1>7, <1>8, <1>10
<1>11. CASE SendFinalize(p)
  BY <1>2, <1>5, <1>7, <1>8, <1>11
<1>12. CASE SendReopen(p)
  BY <1>2, <1>6, <1>7, <1>8, <1>12
<1> QED
  BY <1>9, <1>10, <1>11, <1>12 DEF Sends

\* A restart leaves the pages alone, but not their replies.
LEMMA RestartEffect ==
    ASSUME TypeOK, Restart
    PROVE  /\ net' = {} /\ ~open'
           /\ \A p \in Pages :
                 \/ reply'[p] = reply[p]
                 \/ reply'[p].result = "none" /\ reply'[p].lease = 0
           /\ UNCHANGED <<pageVars, stored, hashed, ckpt, receipt, current, issued>>
<1>1. JustResult("none").result = "none" /\ JustResult("none").lease = 0
  BY JustResultFields
<1> QED
  BY <1>1 DEF Restart

\* The steps, as the lemmas below tell them apart.
LEMMA NextCases ==
    ASSUME TypeOK, [Next]_vars
    PROVE  \/ \E p \in Pages : AppendRecord(p) \/ BeginFinalize(p)
           \/ \E p \in Pages : Sends(p)
           \/ \E p \in Pages : Receive(p)
           \/ \E p \in Pages : Reload(p)
           \/ \E p \in Pages : ConnectionLost(p) \/ ConnectionClosed(p)
           \/ \E r \in net : Serve(r) \/ StorageFault(r) \/ ReopenFault(r)
           \/ Restart
           \/ UNCHANGED vars
  BY DEF Next, Sends

\* The sorts of what the invariant speaks of.
LEMMA PageTypes ==
    ASSUME TypeOK
    PROVE  /\ issued \in Nat /\ current \in Nat
           /\ \A p \in Pages : /\ lease[p] \in Nat /\ reply[p].lease \in Nat
                               /\ generation[p] \in Nat
                               /\ call[p] \in Requests /\ call[p].kind \in Kinds
           /\ \A r \in net : r \in Requests /\ r.lease \in Nat
           /\ Nobody \notin Pages
  BY RequestFields, ReplyFields, StreamerAssumption DEF TypeOK

\* What every waiting page has sent.
LEMMA CallFields ==
    ASSUME CallInv
    PROVE  \A p \in Pages : phase[p] = "calling" =>
              /\ call[p].from = p /\ call[p].op # "none"
              /\ call[p].lease = lease[p]
              /\ call[p].op = "reopen" => lease[p] = 0
  BY DEF CallInv, CallFits

\* Lengths and offsets are numbers, and after a step too.
LEMMA SizeTypes ==
    ASSUME TypeOK, [Next]_vars
    PROVE  \A p \in Pages, k \in Kinds :
              /\ Len(written[p][k]) \in Nat /\ offsets[p][k] \in Nat
              /\ written'[p][k] \in Seq(Chunks)
              /\ Len(written'[p][k]) \in Nat /\ offsets'[p][k] \in Nat
  BY StepTypeOK DEF TypeOK, Archives

\* reopen uses a generation up and leaves the bytes of the checkpoint.
LEMMA ConsumedFields ==
    /\ Consumed.prefix = ckpt.prefix /\ Consumed.state = ckpt.state
    /\ Consumed.generation = ckpt.generation + 1
  BY DEF Consumed

\* The files a writer state counts.
LEMMA CountedFields ==
    ASSUME NEW state
    PROVE  Counted(state)["warc"] = state /\ Counted(state)["cdx"] = <<>>
  BY DEF Counted, Kinds

-----------------------------------------------------------------------------
(* The inductive invariant, conjunct by conjunct *)

\* One page at most has the newest lease or is about to get it.
LEMMA StepLease ==
    ASSUME IInv, [Next]_vars
    PROVE  LeaseInv'
<1> USE DEF pageVars, stationVars, Alone, Untouched
<1>i. TypeOK /\ WriteInv /\ CallInv /\ LeaseInv /\ NetInv /\ ReplyInv
  BY DEF IInv
<1>1. ASSUME NEW p \in Pages, AppendRecord(p) \/ BeginFinalize(p)
      PROVE LeaseInv'
  BY <1>1, <1>i, PageTypes, CallFields, WriteEffect
     DEF LeaseInv, Holder, Granted, Like, Cut
<1>2. ASSUME NEW p \in Pages, Sends(p) PROVE LeaseInv'
  BY <1>2, <1>i, PageTypes, CallFields, SendEffect
     DEF LeaseInv, Holder, Granted, Like, Cut
<1>3. ASSUME NEW p \in Pages, Receive(p) PROVE LeaseInv'
  <2>1. \/ lease'[p] = reply[p].lease /\ phase'[p] = "ready"
        \/ lease'[p] = lease[p] /\ (phase'[p] = "idle" => lease[p] = 0)
    BY <1>3, <1>i, CallFields, ReceiveEffect, ReceiveCases
  <2> QED
    BY <1>3, <1>i, PageTypes, <2>1, ReceiveEffect DEF LeaseInv, Holder, Granted
<1>4. ASSUME NEW p \in Pages, Reload(p) PROVE LeaseInv'
  BY <1>4, <1>i, PageTypes, CallFields, ReloadEffect
     DEF LeaseInv, Holder, Granted, Like, Cut
<1>5. ASSUME NEW p \in Pages, ConnectionLost(p) \/ ConnectionClosed(p)
      PROVE LeaseInv'
  BY <1>5, <1>i, PageTypes, CallFields, DropEffect
     DEF LeaseInv, Holder, Granted, Like, Cut
<1>6. ASSUME NEW r \in net, Serve(r) \/ StorageFault(r) \/ ReopenFault(r)
      PROVE LeaseInv'
  <2>e. /\ net' = net \ {r} /\ UNCHANGED pageVars
        /\ \A p \in Pages : p # r.from => reply'[p] = reply[p]
        /\ \A p \in Pages : p = r.from =>
              phase[p] = "calling" /\ r = call[p] /\ reply[p].result = "none"
    BY <1>6, <1>i, ServeEffect
  <2>1. CASE StepAppend(r)
    BY <2>1, <2>e, <1>i, PageTypes, CallFields
       DEF LeaseInv, Holder, Granted, Like, Cut, StepAppend, Replied
  <2>2. CASE StepNothing(r)
    BY <2>2, <2>e, <1>i, PageTypes, CallFields
       DEF LeaseInv, Holder, Granted, Like, Cut, StepNothing, Replied
  <2>3. CASE StepPublish(r)
    BY <2>3, <2>e, <1>i, PageTypes, CallFields
       DEF LeaseInv, Holder, Granted, Like, Cut, StepPublish, Replied
  <2>4. CASE StepReopen(r)
    BY <2>4, <2>e, <1>i, PageTypes, CallFields
       DEF LeaseInv, Holder, Granted, Like, Cut, StepReopen, Replied
  <2>5. CASE StepCutBack(r)
    BY <2>5, <2>e, <1>i, PageTypes, CallFields
       DEF LeaseInv, Holder, Granted, Like, Cut, StepCutBack, Replied
  <2>6. CASE StepFinalize(r)
    BY <2>6, <2>e, <1>i, PageTypes, CallFields
       DEF LeaseInv, Holder, Granted, Like, Cut, StepFinalize, Replied
  <2> QED
    BY <1>6, <1>i, <2>1, <2>2, <2>3, <2>4, <2>5, <2>6, ServeCases
       DEF StationStep
<1>7. ASSUME Restart PROVE LeaseInv'
  BY <1>7, <1>i, PageTypes, CallFields, RestartEffect
     DEF LeaseInv, Holder, Granted, Like, Cut
<1>8. CASE UNCHANGED vars
  BY <1>8, <1>i DEF LeaseInv, Holder, Granted, Like, Cut, vars
<1> QED
  BY <1>1, <1>2, <1>3, <1>4, <1>5, <1>6, <1>7, <1>8, <1>i, NextCases

\* What a page has written covers what was acknowledged.
LEMMA StepWrite ==
    ASSUME IInv, [Next]_vars
    PROVE  WriteInv'
<1> USE DEF pageVars, stationVars, Alone, Untouched
<1>i. TypeOK /\ WriteInv /\ CallInv /\ LeaseInv /\ NetInv /\ ReplyInv
  BY DEF IInv
<1>1. ASSUME NEW p \in Pages, AppendRecord(p) \/ BeginFinalize(p)
      PROVE WriteInv'
  <2>1. /\ \A k \in Kinds : Len(written[p][k]) <= Len(written'[p][k])
        /\ offsets' = offsets
    BY <1>1, <1>i, WriteEffect
  <2>2. \A k \in Kinds : offsets'[p][k] <= Len(written'[p][k])
    BY <1>i, SizeTypes, <2>1 DEF WriteInv
  <2>3. \A q \in Pages : q # p =>
           /\ written'[q] = written[q] /\ closing'[q] = closing[q]
           /\ offsets'[q] = offsets[q]
    BY <1>1, <1>i, WriteEffect
  <2>4. ~closing'[p] => written'[p]["cdx"] = <<>>
    BY <1>1, <1>i, WriteEffect
  <2> QED
    BY <1>i, <2>2, <2>3, <2>4 DEF WriteInv
<1>2. ASSUME NEW p \in Pages, Sends(p) PROVE WriteInv'
  BY <1>2, <1>i, PageTypes, CallFields, SizeTypes, SendEffect DEF WriteInv
<1>3. ASSUME NEW p \in Pages, Receive(p) PROVE WriteInv'
  <2>1. \A k \in Kinds : Lengths(written'[p])[k] = Len(written'[p][k])
    BY DEF Lengths
  <2>2. \A k \in Kinds : offsets'[p][k] <= Len(written'[p][k])
    <3>1. CASE offsets'[p] = Lengths(written'[p])
      BY <1>i, SizeTypes, <2>1, <3>1
    <3>2. CASE UNCHANGED <<written, offsets>>
      BY <1>i, <3>2 DEF WriteInv
    <3>3. CASE /\ call[p].op = "chunk" /\ written' = written
               /\ offsets'[p][call[p].kind] = offsets[p][call[p].kind] + 1
               /\ \A k \in Kinds : k # call[p].kind => offsets'[p][k] = offsets[p][k]
      <4>1. offsets[p][call[p].kind] < Len(written[p][call[p].kind])
        BY <1>3, <1>i, <3>3, ReceiveEffect DEF CallInv, CallFits
      <4>2. ASSUME NEW k \in Kinds PROVE offsets'[p][k] <= Len(written[p][k])
        <5>1. CASE k = call[p].kind
          BY <1>i, SizeTypes, <3>3, <4>1, <5>1
        <5>2. CASE k # call[p].kind
          BY <1>i, <3>3, <5>2 DEF WriteInv
        <5> QED
          BY <5>1, <5>2
      <4> QED
        BY <3>3, <4>2
    <3> QED
      BY <1>3, <1>i, CallFields, <3>1, <3>2, <3>3, ReceiveEffect, ReceiveCases
  <2>3. ~closing'[p] => written'[p]["cdx"] = <<>>
    <3>1. CASE written'[p] = Counted(reply[p].state)
      BY <3>1, CountedFields
    <3>2. CASE UNCHANGED <<written, closing>>
      BY <1>i, <3>2 DEF WriteInv
    <3> QED
      BY <1>3, <1>i, CallFields, <3>1, <3>2, ReceiveEffect, ReceiveCases
  <2> QED
    BY <1>3, <1>i, <2>2, <2>3, ReceiveEffect DEF WriteInv
<1>4. ASSUME NEW p \in Pages, Reload(p) PROVE WriteInv'
  <2>1. Empty["cdx"] = <<>> /\ \A k \in Kinds : Zero[k] = 0 /\ Empty[k] = <<>>
    BY DEF Empty, Zero, Kinds
  <2>2. \A k \in Kinds : offsets'[p][k] <= Len(written'[p][k])
    BY <1>4, <1>i, SizeTypes, <2>1, ReloadEffect
  <2> QED
    BY <1>4, <1>i, <2>1, <2>2, ReloadEffect DEF WriteInv
<1>5. ASSUME NEW p \in Pages, ConnectionLost(p) \/ ConnectionClosed(p)
      PROVE WriteInv'
  BY <1>5, <1>i, PageTypes, CallFields, SizeTypes, DropEffect DEF WriteInv
<1>6. ASSUME NEW r \in net, Serve(r) \/ StorageFault(r) \/ ReopenFault(r)
      PROVE WriteInv'
  BY <1>6, <1>i, ServeEffect DEF WriteInv
<1>7. ASSUME Restart PROVE WriteInv'
  BY <1>7, <1>i, PageTypes, CallFields, SizeTypes, RestartEffect DEF WriteInv
<1>8. CASE UNCHANGED vars
  BY <1>8, <1>i DEF WriteInv, vars
<1> QED
  BY <1>1, <1>2, <1>3, <1>4, <1>5, <1>6, <1>7, <1>8, <1>i, NextCases

\* The last call of a page fits its state.
LEMMA StepCall ==
    ASSUME IInv, [Next]_vars
    PROVE  CallInv'
<1> USE DEF pageVars, stationVars, Alone, Untouched
<1>i. TypeOK /\ WriteInv /\ CallInv /\ LeaseInv /\ NetInv /\ ReplyInv
  BY DEF IInv
<1>1. ASSUME NEW p \in Pages, AppendRecord(p) \/ BeginFinalize(p)
      PROVE CallInv'
  <2>1. /\ UNCHANGED <<phase, offsets, lease, generation, call>>
        /\ phase[p] = "ready"
        /\ \A q \in Pages : q # p =>
              written'[q] = written[q] /\ closing'[q] = closing[q]
    BY <1>1, <1>i, WriteEffect
  <2>2. CallFits(p)'
    BY <2>1 DEF CallFits
  <2>3. ASSUME NEW q \in Pages, q # p PROVE CallFits(q)'
    <3>1. CallFits(q)
      BY <1>i DEF CallInv
    <3> QED
      BY <2>1, <2>3, <3>1 DEF CallFits, Acknowledged
  <2> QED
    BY <2>2, <2>3 DEF CallInv
<1>2. ASSUME NEW p \in Pages, Sends(p) PROVE CallInv'
  <2>1. \A q \in Pages : q # p => Alone(q)
    BY <1>2, <1>i, SendEffect
  <2>2. UNCHANGED <<written, offsets, lease, generation, closing>>
    BY <1>2, <1>i, SendEffect
  <2>3. /\ phase'[p] = "calling" /\ call'[p].from = p /\ call'[p].op # "none"
        /\ call'[p].lease = lease[p]
    BY <1>2, <1>i, SendEffect DEF LeaseInv
  <2>4. /\ call'[p].op = "reopen" => lease[p] = 0
        /\ call'[p].op = "chunk" =>
              /\ call'[p].offset = offsets[p][call'[p].kind]
              /\ call'[p].offset < Len(written[p][call'[p].kind])
              /\ call'[p].raw = written[p][call'[p].kind][call'[p].offset + 1]
    BY <1>2, <1>i, SendEffect DEF LeaseInv
  <2>5. /\ call'[p].op = "checkpoint" =>
              /\ Acknowledged(p) /\ ~closing[p]
              /\ call'[p].state = written[p]["warc"]
              /\ call'[p].state # <<>>
              /\ call'[p].generation = generation[p]
        /\ call'[p].op = "finalize" => Acknowledged(p)
    BY <1>2, <1>i, SendEffect
  <2> QED
    BY <1>i, <2>1, <2>2, <2>3, <2>4, <2>5 DEF CallInv, CallFits, Acknowledged
<1>3. ASSUME NEW p \in Pages, Receive(p) PROVE CallInv'
  <2>1. phase'[p] # "calling"
    BY <1>3, <1>i, CallFields, ReceiveEffect, ReceiveCases
  <2>2. phase'[p] = "failed" =>
           UNCHANGED <<written, offsets, lease, generation, closing>>
           /\ call[p].op # "reopen"
    BY <1>3, <1>i, CallFields, ReceiveEffect, ReceiveCases
  <2> QED
    BY <1>3, <1>i, <2>1, <2>2, ReceiveEffect
       DEF CallInv, CallFits, Acknowledged
<1>4. ASSUME NEW p \in Pages, Reload(p) PROVE CallInv'
  <2>1. /\ phase'[p] = "idle" /\ \A q \in Pages : q # p => Untouched(q)
    BY <1>4, <1>i, ReloadEffect
  <2> QED
    BY <1>i, <2>1 DEF CallInv, CallFits, Acknowledged
<1>5. ASSUME NEW p \in Pages, ConnectionLost(p) \/ ConnectionClosed(p)
      PROVE CallInv'
  <2>1. /\ UNCHANGED <<written, offsets, lease, generation, closing>>
        /\ \A q \in Pages : q # p => Untouched(q)
        /\ phase[p] = "calling" /\ Like(call'[p], call[p])
        /\ call'[p].from = call[p].from
    BY <1>5, <1>i, DropEffect
  <2>2. CallFits(p)
    BY <1>i DEF CallInv, CallFits
  <2>3. CallFits(p)'
    BY <2>1, <2>2 DEF CallFits, Like, Acknowledged
  <2>4. ASSUME NEW q \in Pages, q # p PROVE CallFits(q)'
    <3>1. CallFits(q)
      BY <1>i DEF CallInv, CallFits
    <3> QED
      BY <2>1, <2>4, <3>1 DEF CallFits, Acknowledged
  <2> QED
    BY <2>3, <2>4 DEF CallInv, CallFits
<1>6. ASSUME NEW r \in net, Serve(r) \/ StorageFault(r) \/ ReopenFault(r)
      PROVE CallInv'
  BY <1>6, <1>i, ServeEffect DEF CallInv, CallFits, Like, NoCall, Acknowledged
<1>7. ASSUME Restart PROVE CallInv'
  BY <1>7, <1>i, PageTypes, CallFields, RestartEffect
     DEF CallInv, CallFits, Like, NoCall, Acknowledged
<1>8. CASE UNCHANGED vars
  BY <1>8, <1>i DEF CallInv, CallFits, Like, NoCall, Acknowledged, vars
<1> QED
  BY <1>1, <1>2, <1>3, <1>4, <1>5, <1>6, <1>7, <1>8, <1>i, NextCases

\* A page waits for one request or one reply.
LEMMA StepNet ==
    ASSUME IInv, [Next]_vars
    PROVE  NetInv'
<1> USE DEF pageVars, stationVars, Alone, Untouched
<1>i. TypeOK /\ WriteInv /\ CallInv /\ LeaseInv /\ NetInv /\ ReplyInv
  BY DEF IInv
<1>1. ASSUME NEW p \in Pages, AppendRecord(p) \/ BeginFinalize(p) PROVE NetInv'
  BY <1>1, <1>i, PageTypes, CallFields, WriteEffect DEF NetInv, Like, Cut
<1>2. ASSUME NEW p \in Pages, Sends(p) PROVE NetInv'
  <2>1. /\ phase'[p] = "calling" /\ call'[p].from = p
        /\ net' = net \union {call'[p]}
        /\ phase[p] \in {"ready", "idle"}
        /\ call'[p].op = "reopen" => call'[p].lease = 0
        /\ \A q \in Pages : q # p => Alone(q)
        /\ UNCHANGED reply
    BY <1>2, <1>i, SendEffect
  <2>2. \A r \in net : r.from # p
    BY <1>i, <2>1 DEF NetInv
  <2>3. reply[p].result = "none"
    BY <1>i, <2>1 DEF NetInv
  <2> QED
    BY <1>i, <2>1, <2>2, <2>3 DEF NetInv
<1>3. ASSUME NEW p \in Pages, Receive(p) PROVE NetInv'
  BY <1>3, <1>i, PageTypes, CallFields, ReceiveEffect, ReceiveCases
     DEF NetInv, Like, Cut
<1>4. ASSUME NEW p \in Pages, Reload(p) PROVE NetInv'
  BY <1>4, <1>i, PageTypes, CallFields, ReloadEffect DEF NetInv, Like, Cut
<1>5. ASSUME NEW p \in Pages, ConnectionLost(p) \/ ConnectionClosed(p)
      PROVE NetInv'
  BY <1>5, <1>i, PageTypes, CallFields, DropEffect DEF NetInv, Like, Cut
<1>6. ASSUME NEW r \in net, Serve(r) \/ StorageFault(r) \/ ReopenFault(r)
      PROVE NetInv'
  <2>e. /\ net' = net \ {r} /\ UNCHANGED pageVars
        /\ \A p \in Pages : p # r.from => reply'[p] = reply[p]
        /\ \A p \in Pages : p = r.from =>
              phase[p] = "calling" /\ r = call[p] /\ reply[p].result = "none"
    BY <1>6, <1>i, ServeEffect
  <2>1. CASE StepAppend(r)
    BY <2>1, <2>e, <1>i, PageTypes, CallFields
       DEF NetInv, Like, Cut, StepAppend, Replied
  <2>2. CASE StepNothing(r)
    BY <2>2, <2>e, <1>i, PageTypes, CallFields
       DEF NetInv, Like, Cut, StepNothing, Replied
  <2>3. CASE StepPublish(r)
    BY <2>3, <2>e, <1>i, PageTypes, CallFields
       DEF NetInv, Like, Cut, StepPublish, Replied
  <2>4. CASE StepReopen(r)
    BY <2>4, <2>e, <1>i, PageTypes, CallFields
       DEF NetInv, Like, Cut, StepReopen, Replied
  <2>5. CASE StepCutBack(r)
    BY <2>5, <2>e, <1>i, PageTypes, CallFields
       DEF NetInv, Like, Cut, StepCutBack, Replied
  <2>6. CASE StepFinalize(r)
    BY <2>6, <2>e, <1>i, PageTypes, CallFields
       DEF NetInv, Like, Cut, StepFinalize, Replied
  <2> QED
    BY <1>6, <1>i, <2>1, <2>2, <2>3, <2>4, <2>5, <2>6, ServeCases
       DEF StationStep
<1>7. ASSUME Restart PROVE NetInv'
  BY <1>7, <1>i, PageTypes, CallFields, RestartEffect DEF NetInv, Like, Cut
<1>8. CASE UNCHANGED vars
  BY <1>8, <1>i DEF NetInv, Like, Cut, vars
<1> QED
  BY <1>1, <1>2, <1>3, <1>4, <1>5, <1>6, <1>7, <1>8, <1>i, NextCases

\* The lemmas below use the parts of the invariant by name.
LEMMA ArchiveTypes ==
    ASSUME TypeOK
    PROVE  /\ stored \in Archives /\ hashed \in Archives
           /\ ckpt.prefix \in Archives
           /\ \A p \in Pages : written[p] \in Archives
           /\ \A k \in Kinds :
                 /\ stored[k] \in Seq(Chunks) /\ Len(stored[k]) \in Nat
                 /\ hashed[k] \in Seq(Chunks) /\ Len(hashed[k]) \in Nat
                 /\ ckpt.prefix[k] \in Seq(Chunks)
           /\ \A p \in Pages, k \in Kinds :
                 /\ written[p][k] \in Seq(Chunks) /\ Len(written[p][k]) \in Nat
                 /\ offsets[p][k] \in Nat
  BY CheckpointFields DEF TypeOK, Archives

\* A chunk more in one file.
LEMMA WithFields ==
    ASSUME NEW archives \in Archives, NEW r \in Requests, r.op = "chunk"
    PROVE  /\ r.kind \in Kinds /\ r.raw \in Chunks
           /\ With(archives, r) \in Archives
           /\ With(archives, r)[r.kind] = Append(archives[r.kind], r.raw)
           /\ Len(With(archives, r)[r.kind]) = Len(archives[r.kind]) + 1
           /\ \A k \in Kinds :
                 /\ k # r.kind => With(archives, r)[k] = archives[k]
                 /\ IsPrefix(archives[k], With(archives, r)[k])
<1>1. r.kind \in Kinds /\ r.raw \in Chunks
  BY RequestFields
<1>2. \A k \in Kinds : archives[k] \in Seq(Chunks)
  BY DEF Archives
<1>3. /\ With(archives, r) \in Archives
      /\ With(archives, r)[r.kind] = Append(archives[r.kind], r.raw)
      /\ \A k \in Kinds : k # r.kind => With(archives, r)[k] = archives[k]
  BY <1>1, <1>2 DEF With, Archives
<1>4. Len(Append(archives[r.kind], r.raw)) = Len(archives[r.kind]) + 1
  BY <1>1, <1>2
<1>5. IsPrefix(archives[r.kind], Append(archives[r.kind], r.raw))
  BY <1>1, <1>2, PrefixReflexive, PrefixOfAppend
<1> QED
  BY <1>1, <1>3, <1>4, <1>5, PrefixReflexive

\* A file of the accounted size has the accounted bytes.
LEMMA MatchingFile ==
    ASSUME TypeOK, SessionInv, open, NEW k \in Kinds, Matches(k)
    PROVE  stored[k] = hashed[k]
<1>1. IsPrefix(stored[k], hashed[k])
  BY DEF SessionInv
<1> QED
  BY <1>1, ArchiveTypes, PrefixSameLength DEF Matches

\* When both files have the accounted sizes, the archive is accounted for.
LEMMA IntactFiles ==
    ASSUME TypeOK, SessionInv, open, Intact
    PROVE  stored = hashed
<1>1. \A k \in Kinds : stored[k] = hashed[k]
  BY MatchingFile DEF Intact
<1> QED
  BY <1>1, ArchiveTypes DEF Archives

\* A page that waits for nothing has in the session all that it wrote.
LEMMA AllAccounted ==
    ASSUME TypeOK, SessionInv, open, NEW p \in Pages, Holder(p), Acknowledged(p)
    PROVE  hashed = written[p]
<1>1. ASSUME NEW k \in Kinds PROVE hashed[k] = written[p][k]
  <2>1. offsets[p][k] = Len(written[p][k])
    BY DEF Acknowledged, Lengths
  <2>2. /\ IsPrefix(hashed[k], written[p][k])
        /\ Len(hashed[k]) \in {offsets[p][k], offsets[p][k] + 1}
    BY DEF SessionInv
  <2>3. Len(hashed[k]) <= Len(written[p][k])
    BY <2>2, ArchiveTypes, PrefixPointwise
  <2>4. Len(hashed[k]) = Len(written[p][k])
    BY <2>1, <2>2, <2>3, ArchiveTypes
  <2> QED
    BY <2>2, <2>4, ArchiveTypes, PrefixSameLength
<1> QED
  BY <1>1, ArchiveTypes DEF Archives

\* A chunk that is appended is the one the holder calls for.
LEMMA AppendIsCalled ==
    ASSUME TypeOK, CallInv, SessionInv, ChunkInv, NEW r \in net,
           r.op = "chunk", Admitted(r), IsNext(r),
           NEW p \in Pages, Holder(p)
    PROVE  /\ call[p].op = "chunk" /\ r.kind = call[p].kind
           /\ r.offset = offsets[p][r.kind]
           /\ Len(hashed[r.kind]) = offsets[p][r.kind]
           /\ r.raw = written[p][r.kind][offsets[p][r.kind] + 1]
           /\ offsets[p][r.kind] < Len(written[p][r.kind])
<1>1. r.kind \in Kinds
  BY RequestFields DEF TypeOK
<1>2. /\ open /\ r.lease = issued /\ r.offset = Len(hashed[r.kind])
      /\ Len(hashed[r.kind]) \in {offsets[p][r.kind], offsets[p][r.kind] + 1}
  BY <1>1 DEF Admitted, IsNext, SessionInv
<1>3. ~(r.offset < offsets[p][r.kind])
  BY <1>1, <1>2, ArchiveTypes
<1>4. /\ phase[p] \in {"calling", "failed"} /\ call[p].op = "chunk"
      /\ r.kind = call[p].kind /\ r.offset = call[p].offset
      /\ r.raw = call[p].raw
  BY <1>2, <1>3 DEF ChunkInv
<1> QED
  BY <1>2, <1>4 DEF CallInv, CallFits

\* The size of one file.
LEMMA LengthsFields ==
    ASSUME NEW archives, NEW k \in Kinds
    PROVE  Lengths(archives)[k] = Len(archives[k])
  BY DEF Lengths

\* The checkpoint is of bytes that are stored.
LEMMA StepPrefix ==
    ASSUME IInv, [Next]_vars
    PROVE  PrefixInv'
<1> USE DEF pageVars, stationVars, Alone, Untouched
<1>i. TypeOK /\ WriteInv /\ CallInv /\ LeaseInv /\ NetInv /\ ReplyInv /\
      StoredInv /\ PrefixInv /\ SessionInv /\ ChunkInv
  BY DEF IInv
<1>1. ASSUME NEW p \in Pages, AppendRecord(p) \/ BeginFinalize(p)
      PROVE PrefixInv'
  BY <1>1, <1>i, ArchiveTypes, ConsumedFields, WriteEffect DEF PrefixInv
<1>2. ASSUME NEW p \in Pages, Sends(p) PROVE PrefixInv'
  BY <1>2, <1>i, ArchiveTypes, ConsumedFields, SendEffect DEF PrefixInv
<1>3. ASSUME NEW p \in Pages, Receive(p) PROVE PrefixInv'
  BY <1>3, <1>i, ArchiveTypes, ConsumedFields, ReceiveEffect, ReceiveCases
     DEF PrefixInv
<1>4. ASSUME NEW p \in Pages, Reload(p) PROVE PrefixInv'
  BY <1>4, <1>i, ArchiveTypes, ConsumedFields, ReloadEffect DEF PrefixInv
<1>5. ASSUME NEW p \in Pages, ConnectionLost(p) \/ ConnectionClosed(p)
      PROVE PrefixInv'
  BY <1>5, <1>i, ArchiveTypes, ConsumedFields, DropEffect DEF PrefixInv
<1>6. ASSUME NEW r \in net, Serve(r) \/ StorageFault(r) \/ ReopenFault(r)
      PROVE PrefixInv'
  <2>e. /\ net' = net \ {r} /\ UNCHANGED pageVars
        /\ \A p \in Pages : p # r.from => reply'[p] = reply[p]
        /\ \A p \in Pages : p = r.from =>
              phase[p] = "calling" /\ r = call[p] /\ reply[p].result = "none"
    BY <1>6, <1>i, ServeEffect
  <2>1. CASE StepAppend(r)
    <3>1. /\ ckpt' = ckpt /\ stored' = With(stored, r) /\ r.op = "chunk"
      BY <2>1 DEF StepAppend
    <3>2. \A k \in Kinds : /\ IsPrefix(stored[k], stored'[k])
                           /\ stored'[k] \in Seq(Chunks)
      <4>1. r \in Requests /\ stored \in Archives
        BY <1>i, PageTypes, ArchiveTypes
      <4>2. stored' \in Archives /\ \A k \in Kinds : IsPrefix(stored[k], stored'[k])
        BY <3>1, <4>1, WithFields
      <4> QED
        BY <4>2 DEF Archives
    <3> QED
      BY <1>i, ArchiveTypes, <3>1, <3>2, PrefixTransitive DEF PrefixInv
  <2>2. CASE StepNothing(r)
    BY <2>2, <2>e, <1>i, ArchiveTypes, ConsumedFields
       DEF PrefixInv, StepNothing, Replied
  <2>3. CASE StepPublish(r)
    <3>1. stored' = stored /\ ckpt'.prefix = stored
      BY <2>3 DEF StepPublish, NewCheckpoint
    <3> QED
      BY <3>1, PrefixReflexive DEF PrefixInv
  <2>4. CASE StepReopen(r)
    BY <2>4, ConsumedFields, PrefixReflexive DEF StepReopen, PrefixInv
  <2>5. CASE StepCutBack(r)
    <3>1. ckpt'.prefix = ckpt.prefix
      BY <2>5, ConsumedFields DEF StepCutBack
    <3> QED
      BY <2>5, <1>i, <3>1, PrefixReflexive DEF StepCutBack, PrefixInv
  <2>6. CASE StepFinalize(r)
    BY <2>6, <2>e, <1>i, ArchiveTypes, ConsumedFields
       DEF PrefixInv, StepFinalize, Replied
  <2> QED
    BY <1>6, <1>i, <2>1, <2>2, <2>3, <2>4, <2>5, <2>6, ServeCases
       DEF StationStep
<1>7. ASSUME Restart PROVE PrefixInv'
  BY <1>7, <1>i, ArchiveTypes, ConsumedFields, RestartEffect DEF PrefixInv
<1>8. CASE UNCHANGED vars
  BY <1>8, <1>i DEF PrefixInv, vars
<1> QED
  BY <1>1, <1>2, <1>3, <1>4, <1>5, <1>6, <1>7, <1>8, <1>i, NextCases

\* The holder's bytes are stored exactly once.
LEMMA StepStored ==
    ASSUME IInv, [Next]_vars
    PROVE  StoredInv'
<1> USE DEF pageVars, stationVars, Alone, Untouched
<1>i. TypeOK /\ WriteInv /\ CallInv /\ LeaseInv /\ NetInv /\ ReplyInv /\
      StoredInv /\ PrefixInv /\ SessionInv /\ ChunkInv
  BY DEF IInv
<1>1. ASSUME NEW p \in Pages, AppendRecord(p) \/ BeginFinalize(p)
      PROVE StoredInv'
  <2>1. ASSUME NEW q \in Pages, Holder(q)', NEW k \in Kinds
        PROVE  /\ IsPrefix(stored[k], written'[q][k])
               /\ \/ Len(stored[k]) \in {offsets'[q][k], offsets'[q][k] + 1}
                  \/ stored[k] = ckpt.prefix[k]
    <3>1. Holder(q) /\ offsets' = offsets
      BY <1>1, <1>i, <2>1, WriteEffect DEF Holder
    <3>2. IsPrefix(written[q][k], written'[q][k])
      BY <1>1, <1>i, WriteEffect, PrefixReflexive
    <3>3. IsPrefix(stored[k], written'[q][k])
      BY <1>i, ArchiveTypes, SizeTypes, <3>1, <3>2, PrefixTransitive
         DEF StoredInv
    <3> QED
      BY <1>i, <3>1, <3>3 DEF StoredInv
  <2>2. UNCHANGED stationVars
    BY <1>1, <1>i, WriteEffect
  <2> QED
    BY <2>1, <2>2 DEF StoredInv
<1>2. ASSUME NEW p \in Pages, Sends(p) PROVE StoredInv'
  <2>1. UNCHANGED <<stationVars, written, offsets, lease>>
    BY <1>2, <1>i, SendEffect
  <2> QED
    BY <1>i, <2>1 DEF StoredInv, Holder
<1>3. ASSUME NEW p \in Pages, Receive(p) PROVE StoredInv'
  <2>1. UNCHANGED stationVars /\ \A q \in Pages : q # p => Untouched(q)
    BY <1>3, <1>i, ReceiveEffect
  <2>2. ASSUME NEW k \in Kinds, Holder(p)'
        PROVE  /\ IsPrefix(stored[k], written'[p][k])
               /\ \/ Len(stored[k]) \in {offsets'[p][k], offsets'[p][k] + 1}
                  \/ stored[k] = ckpt.prefix[k]
    <3>1. CASE /\ call[p].op = "reopen" /\ lease'[p] = reply[p].lease
               /\ written'[p] = Counted(reply[p].state)
               /\ offsets'[p] = Lengths(written'[p])
      <4>1. stored = written'[p]
        BY <1>i, <2>1, <2>2, <3>1 DEF ReplyInv, ReplyFits, Granted, Holder
      <4>2. offsets'[p][k] = Len(stored[k])
        BY <3>1, <4>1, LengthsFields
      <4> QED
        BY <4>1, <4>2, PrefixReflexive
    <3>2. CASE UNCHANGED <<written, offsets, lease>>
      BY <1>i, <2>1, <2>2, <3>2 DEF StoredInv, Holder
    <3>3. CASE /\ call[p].op = "chunk" /\ reply[p].result = "ok"
               /\ offsets'[p][call[p].kind] = offsets[p][call[p].kind] + 1
               /\ \A j \in Kinds : j # call[p].kind => offsets'[p][j] = offsets[p][j]
               /\ UNCHANGED <<written, lease>>
      <4>1. Holder(p)
        BY <2>1, <2>2, <3>3 DEF Holder
      <4>2. CASE k # call[p].kind
        BY <1>i, <3>3, <4>1, <4>2 DEF StoredInv
      <4>3. CASE k = call[p].kind
        <5>1. \/ Len(stored[k]) = offsets[p][k] + 1
              \/ stored[k] = ckpt.prefix[k]
          BY <1>i, <3>3, <4>1, <4>3 DEF ReplyInv, ReplyFits
        <5> QED
          BY <1>i, <3>3, <4>1, <4>3, <5>1 DEF StoredInv
      <4> QED
        BY <4>2, <4>3
    <3> QED
      BY <1>3, <1>i, CallFields, <3>1, <3>2, <3>3, ReceiveEffect, ReceiveCases
  <2> QED
    BY <1>i, <2>1, <2>2 DEF StoredInv, Holder
<1>4. ASSUME NEW p \in Pages, Reload(p) PROVE StoredInv'
  <2>1. UNCHANGED stationVars /\ \A q \in Pages : q # p => Untouched(q)
    BY <1>4, <1>i, ReloadEffect
  <2>2. ~(Holder(p)')
    BY <1>4, <1>i, ReloadEffect DEF Holder, LeaseInv
  <2> QED
    BY <1>i, <2>1, <2>2 DEF StoredInv, Holder
<1>5. ASSUME NEW p \in Pages, ConnectionLost(p) \/ ConnectionClosed(p)
      PROVE StoredInv'
  <2>1. UNCHANGED <<stationVars, written, offsets, lease>>
    BY <1>5, <1>i, DropEffect
  <2> QED
    BY <1>i, <2>1 DEF StoredInv, Holder
<1>6. ASSUME NEW r \in net, Serve(r) \/ StorageFault(r) \/ ReopenFault(r)
      PROVE StoredInv'
  <2>e. /\ net' = net \ {r} /\ UNCHANGED pageVars
        /\ \A p \in Pages : p # r.from => reply'[p] = reply[p]
        /\ \A p \in Pages : p = r.from =>
              phase[p] = "calling" /\ r = call[p] /\ reply[p].result = "none"
    BY <1>6, <1>i, ServeEffect
  <2>1. CASE StepAppend(r)
    <3>1. /\ ckpt' = ckpt /\ stored' = With(stored, r) /\ r.op = "chunk"
          /\ issued' = issued /\ Admitted(r) /\ IsNext(r) /\ Matches(r.kind)
      BY <2>1 DEF StepAppend
    <3>2. ASSUME NEW p \in Pages, Holder(p), NEW k \in Kinds
          PROVE  /\ IsPrefix(stored'[k], written[p][k])
                 /\ \/ Len(stored'[k]) \in {offsets[p][k], offsets[p][k] + 1}
                    \/ stored'[k] = ckpt.prefix[k]
      <4>1. CASE k # r.kind
        <5>1. stored'[k] = stored[k]
          BY <1>i, PageTypes, ArchiveTypes, <3>1, <4>1, WithFields
        <5> QED
          BY <1>i, <3>2, <5>1 DEF StoredInv
      <4>2. CASE k = r.kind
        <5>1. /\ Len(hashed[k]) = offsets[p][k]
              /\ r.raw = written[p][k][offsets[p][k] + 1]
              /\ offsets[p][k] < Len(written[p][k])
          BY <1>i, <3>1, <3>2, <4>2, AppendIsCalled
        <5>2. stored[k] = hashed[k]
          BY <1>i, <3>1, <4>2, MatchingFile DEF Admitted
        <5>3. /\ stored'[k] = Append(stored[k], written[p][k][Len(stored[k]) + 1])
              /\ Len(stored'[k]) = offsets[p][k] + 1
          <6>1. r \in Requests
            BY <1>i, PageTypes
          <6>2. /\ stored'[k] = Append(stored[k], r.raw)
                /\ Len(stored'[k]) = Len(stored[k]) + 1
            BY <1>i, ArchiveTypes, <3>1, <4>2, <6>1, WithFields
          <6> QED
            BY <5>1, <5>2, <6>2
        <5>4. IsPrefix(stored[k], written[p][k])
          BY <1>i, <3>2 DEF StoredInv
        <5>5. IsPrefix(stored'[k], written[p][k])
          BY <1>i, ArchiveTypes, <5>1, <5>2, <5>3, <5>4, PrefixGrows
        <5> QED
          BY <5>3, <5>5
      <4> QED
        BY <4>1, <4>2
    <3> QED
      BY <2>e, <3>1, <3>2 DEF StoredInv, Holder
  <2>2. CASE StepNothing(r)
    BY <2>2, <2>e, <1>i, PageTypes, ArchiveTypes
       DEF StoredInv, Holder, StepNothing, Replied
  <2>3. CASE StepPublish(r)
    <3>1. stored' = stored /\ ckpt'.prefix = stored /\ issued' = issued
      BY <2>3 DEF StepPublish, NewCheckpoint
    <3> QED
      BY <1>i, <2>e, <3>1 DEF StoredInv, Holder
  <2>4. CASE StepReopen(r)
    <3>1. \A p \in Pages : ~(Holder(p)')
      BY <2>4, <1>i, PageTypes, <2>e DEF StepReopen, LeaseInv, Holder
    <3> QED
      BY <3>1 DEF StoredInv
  <2>5. CASE StepCutBack(r)
    <3>1. ckpt'.prefix = ckpt.prefix /\ issued' = issued
          /\ \A k \in Kinds : stored'[k] \in {stored[k], ckpt.prefix[k]}
      BY <2>5, ConsumedFields DEF StepCutBack
    <3>2. ASSUME NEW p \in Pages, Holder(p), NEW k \in Kinds
          PROVE  IsPrefix(ckpt.prefix[k], written[p][k])
      BY <1>i, ArchiveTypes, <3>2, PrefixTransitive DEF StoredInv, PrefixInv
    <3> QED
      BY <1>i, <2>e, <3>1, <3>2 DEF StoredInv, Holder
  <2>6. CASE StepFinalize(r)
    BY <2>6, <2>e, <1>i, PageTypes, ArchiveTypes
       DEF StoredInv, Holder, StepFinalize, Replied
  <2> QED
    BY <1>6, <1>i, <2>1, <2>2, <2>3, <2>4, <2>5, <2>6, ServeCases
       DEF StationStep
<1>7. ASSUME Restart PROVE StoredInv'
  BY <1>7, <1>i, PageTypes, ArchiveTypes, RestartEffect DEF StoredInv, Holder
<1>8. CASE UNCHANGED vars
  BY <1>8, <1>i DEF StoredInv, Holder, vars
<1> QED
  BY <1>1, <1>2, <1>3, <1>4, <1>5, <1>6, <1>7, <1>8, <1>i, NextCases

\* What the session accounts for.
LEMMA StepSession ==
    ASSUME IInv, [Next]_vars
    PROVE  SessionInv'
<1> USE DEF pageVars, stationVars, Alone, Untouched
<1>i. TypeOK /\ WriteInv /\ CallInv /\ LeaseInv /\ NetInv /\ ReplyInv /\
      StoredInv /\ PrefixInv /\ SessionInv /\ ChunkInv
  BY DEF IInv
<1>1. ASSUME NEW p \in Pages, AppendRecord(p) \/ BeginFinalize(p)
      PROVE SessionInv'
  <2>1. UNCHANGED stationVars /\ UNCHANGED <<offsets, lease>>
    BY <1>1, <1>i, WriteEffect
  <2>2. ASSUME NEW q \in Pages, Holder(q), NEW k \in Kinds, open
        PROVE  IsPrefix(hashed[k], written'[q][k])
    <3>1. IsPrefix(written[q][k], written'[q][k])
      BY <1>1, <1>i, WriteEffect, PrefixReflexive
    <3> QED
      BY <1>i, ArchiveTypes, SizeTypes, <2>2, <3>1, PrefixTransitive
         DEF SessionInv
  <2> QED
    BY <1>i, <2>1, <2>2 DEF SessionInv, Holder
<1>2. ASSUME NEW p \in Pages, Sends(p) PROVE SessionInv'
  <2>1. UNCHANGED <<stationVars, written, offsets, lease>>
    BY <1>2, <1>i, SendEffect
  <2> QED
    BY <1>i, <2>1 DEF SessionInv, Holder
<1>3. ASSUME NEW p \in Pages, Receive(p) PROVE SessionInv'
  <2>1. UNCHANGED stationVars /\ \A q \in Pages : q # p => Untouched(q)
    BY <1>3, <1>i, ReceiveEffect
  <2>2. ASSUME NEW k \in Kinds, Holder(p)', open
        PROVE  /\ IsPrefix(hashed[k], written'[p][k])
               /\ Len(hashed[k]) \in {offsets'[p][k], offsets'[p][k] + 1}
    <3>1. CASE /\ call[p].op = "reopen" /\ lease'[p] = reply[p].lease
               /\ written'[p] = Counted(reply[p].state)
               /\ offsets'[p] = Lengths(written'[p])
      <4>1. hashed = written'[p]
        BY <1>i, <2>1, <2>2, <3>1 DEF ReplyInv, ReplyFits, Granted, Holder
      <4>2. offsets'[p][k] = Len(hashed[k])
        BY <3>1, <4>1, LengthsFields
      <4> QED
        BY <4>1, <4>2, PrefixReflexive
    <3>2. CASE UNCHANGED <<written, offsets, lease>>
      BY <1>i, <2>1, <2>2, <3>2 DEF SessionInv, Holder
    <3>3. CASE /\ call[p].op = "chunk" /\ reply[p].result = "ok"
               /\ offsets'[p][call[p].kind] = offsets[p][call[p].kind] + 1
               /\ \A j \in Kinds : j # call[p].kind => offsets'[p][j] = offsets[p][j]
               /\ UNCHANGED <<written, lease>>
      <4>1. Holder(p)
        BY <2>1, <2>2, <3>3 DEF Holder
      <4>2. CASE k # call[p].kind
        BY <1>i, <2>2, <3>3, <4>1, <4>2 DEF SessionInv
      <4>3. CASE k = call[p].kind
        <5>1. Len(hashed[k]) = offsets[p][k] + 1
          BY <1>i, <2>2, <3>3, <4>1, <4>3 DEF ReplyInv, ReplyFits
        <5> QED
          BY <1>i, <2>2, <3>3, <4>1, <4>3, <5>1 DEF SessionInv
      <4> QED
        BY <4>2, <4>3
    <3> QED
      BY <1>3, <1>i, CallFields, <3>1, <3>2, <3>3, ReceiveEffect, ReceiveCases
  <2> QED
    BY <1>i, <2>1, <2>2 DEF SessionInv, Holder
<1>4. ASSUME NEW p \in Pages, Reload(p) PROVE SessionInv'
  <2>1. UNCHANGED stationVars /\ \A q \in Pages : q # p => Untouched(q)
    BY <1>4, <1>i, ReloadEffect
  <2>2. ~(Holder(p)')
    BY <1>4, <1>i, ReloadEffect DEF Holder, LeaseInv
  <2> QED
    BY <1>i, <2>1, <2>2 DEF SessionInv, Holder
<1>5. ASSUME NEW p \in Pages, ConnectionLost(p) \/ ConnectionClosed(p)
      PROVE SessionInv'
  <2>1. UNCHANGED <<stationVars, written, offsets, lease>>
    BY <1>5, <1>i, DropEffect
  <2> QED
    BY <1>i, <2>1 DEF SessionInv, Holder
<1>6. ASSUME NEW r \in net, Serve(r) \/ StorageFault(r) \/ ReopenFault(r)
      PROVE SessionInv'
  <2>e. /\ net' = net \ {r} /\ UNCHANGED pageVars
        /\ \A p \in Pages : p # r.from => reply'[p] = reply[p]
        /\ \A p \in Pages : p = r.from =>
              phase[p] = "calling" /\ r = call[p] /\ reply[p].result = "none"
    BY <1>6, <1>i, ServeEffect
  <2>1. CASE StepAppend(r)
    <3>1. /\ stored' = With(stored, r) /\ r.op = "chunk"
          /\ issued' = issued /\ Admitted(r) /\ IsNext(r) /\ Matches(r.kind)
          /\ open' => hashed' = With(hashed, r)
          /\ open
      BY <2>1 DEF StepAppend, Admitted
    <3>2. ASSUME open', NEW k \in Kinds PROVE IsPrefix(stored'[k], hashed'[k])
      <4>1. CASE k # r.kind
        BY <1>i, PageTypes, ArchiveTypes, <3>1, <3>2, <4>1, WithFields
           DEF SessionInv
      <4>2. CASE k = r.kind
        <5>1. stored[k] = hashed[k]
          BY <1>i, <3>1, <4>2, MatchingFile
        <5>2. r \in Requests /\ hashed' = With(hashed, r)
          BY <1>i, PageTypes, <3>1, <3>2
        <5>3. /\ stored'[k] = Append(stored[k], r.raw)
              /\ hashed'[k] = Append(hashed[k], r.raw)
          BY <1>i, ArchiveTypes, <3>1, <4>2, <5>2, WithFields
        <5> QED
          BY <5>1, <5>3, PrefixReflexive
      <4> QED
        BY <4>1, <4>2
    <3>3. ASSUME open', NEW p \in Pages, Holder(p), NEW k \in Kinds
          PROVE  /\ IsPrefix(hashed'[k], written[p][k])
                 /\ Len(hashed'[k]) \in {offsets[p][k], offsets[p][k] + 1}
      <4>1. CASE k # r.kind
        <5>1. hashed'[k] = hashed[k]
          BY <1>i, PageTypes, ArchiveTypes, <3>1, <3>3, <4>1, WithFields
        <5> QED
          BY <1>i, <3>1, <3>3, <5>1 DEF SessionInv
      <4>2. CASE k = r.kind
        <5>1. /\ Len(hashed[k]) = offsets[p][k]
              /\ r.raw = written[p][k][offsets[p][k] + 1]
              /\ offsets[p][k] < Len(written[p][k])
          BY <1>i, <3>1, <3>3, <4>2, AppendIsCalled
        <5>2. /\ hashed'[k] = Append(hashed[k], written[p][k][Len(hashed[k]) + 1])
              /\ Len(hashed'[k]) = offsets[p][k] + 1
          <6>1. r \in Requests /\ hashed' = With(hashed, r)
            BY <1>i, PageTypes, <3>1, <3>3
          <6>2. /\ hashed'[k] = Append(hashed[k], r.raw)
                /\ Len(hashed'[k]) = Len(hashed[k]) + 1
            BY <1>i, ArchiveTypes, <3>1, <4>2, <6>1, WithFields
          <6> QED
            BY <5>1, <6>2
        <5>3. IsPrefix(hashed[k], written[p][k])
          BY <1>i, <3>1, <3>3 DEF SessionInv
        <5>4. IsPrefix(hashed'[k], written[p][k])
          BY <1>i, ArchiveTypes, <5>1, <5>2, <5>3, PrefixGrows
        <5> QED
          BY <5>2, <5>4
      <4> QED
        BY <4>1, <4>2
    <3> QED
      BY <2>e, <3>1, <3>2, <3>3 DEF SessionInv, Holder
  <2>2. CASE StepNothing(r)
    BY <2>2, <2>e, <1>i, PageTypes, ArchiveTypes
       DEF SessionInv, Holder, StepNothing, Replied
  <2>3. CASE StepPublish(r)
    BY <2>3, <2>e, <1>i, PageTypes, ArchiveTypes
       DEF SessionInv, Holder, StepPublish, Replied
  <2>4. CASE StepReopen(r)
    <3>1. \A p \in Pages : ~(Holder(p)')
      BY <2>4, <1>i, PageTypes, <2>e DEF StepReopen, LeaseInv, Holder
    <3> QED
      BY <2>4, <3>1, PrefixReflexive DEF StepReopen, SessionInv
  <2>5. CASE StepCutBack(r)
    <3>1. UNCHANGED <<hashed, open, issued>>
          /\ \A k \in Kinds : stored'[k] \in {stored[k], ckpt.prefix[k]}
      BY <2>5 DEF StepCutBack
    <3>2. ASSUME open, NEW k \in Kinds PROVE IsPrefix(ckpt.prefix[k], hashed[k])
      BY <1>i, ArchiveTypes, <3>2, PrefixTransitive DEF SessionInv, PrefixInv
    <3> QED
      BY <1>i, <2>e, <3>1, <3>2 DEF SessionInv, Holder
  <2>6. CASE StepFinalize(r)
    BY <2>6, <2>e, <1>i, PageTypes, ArchiveTypes
       DEF SessionInv, Holder, StepFinalize, Replied
  <2> QED
    BY <1>6, <1>i, <2>1, <2>2, <2>3, <2>4, <2>5, <2>6, ServeCases
       DEF StationStep
<1>7. ASSUME Restart PROVE SessionInv'
  BY <1>7, <1>i, PageTypes, ArchiveTypes, RestartEffect DEF SessionInv, Holder
<1>8. CASE UNCHANGED vars
  BY <1>8, <1>i DEF SessionInv, Holder, vars
<1> QED
  BY <1>1, <1>2, <1>3, <1>4, <1>5, <1>6, <1>7, <1>8, <1>i, NextCases

\* A chunk request with the newest lease is the holder's call or older.
LEMMA StepChunk ==
    ASSUME IInv, [Next]_vars
    PROVE  ChunkInv'
<1> USE DEF pageVars, stationVars, Alone, Untouched
<1>i. TypeOK /\ WriteInv /\ CallInv /\ LeaseInv /\ NetInv /\ ReplyInv /\
      StoredInv /\ PrefixInv /\ SessionInv /\ ChunkInv
  BY DEF IInv
<1>1. ASSUME NEW p \in Pages, AppendRecord(p) \/ BeginFinalize(p)
      PROVE ChunkInv'
  BY <1>1, <1>i, PageTypes, CallFields, WriteEffect
     DEF ChunkInv, Holder, Like, Cut
<1>2. ASSUME NEW p \in Pages, Sends(p) PROVE ChunkInv'
  <2>1. /\ UNCHANGED <<stationVars, offsets, lease>>
        /\ net' = net \union {call'[p]}
        /\ \A q \in Pages : q # p => Alone(q)
        /\ phase[p] \in {"ready", "idle"} /\ phase'[p] = "calling"
    BY <1>2, <1>i, SendEffect
  <2>2. Holder(p) => phase[p] = "ready"
    BY <1>i, <2>1 DEF Holder, LeaseInv
  <2>3. call'[p].lease = issued => Holder(p)
    BY <1>2, <1>i, SendEffect DEF Holder, LeaseInv
  <2>4. call'[p].op = "chunk" => call'[p].offset = offsets[p][call'[p].kind]
    BY <1>2, <1>i, SendEffect
  <2>5. ASSUME NEW r \in net', r.lease = issued, r.op = "chunk",
               NEW q \in Pages, Holder(q)
        PROVE  \/ r.offset < offsets[q][r.kind]
               \/ /\ phase'[q] \in {"calling", "failed"}
                  /\ call'[q].op = "chunk" /\ r.kind = call'[q].kind
                  /\ r.offset = call'[q].offset /\ r.raw = call'[q].raw
    <3>1. CASE r = call'[p]
      BY <1>i, <2>1, <2>3, <2>5, <3>1 DEF LeaseInv
    <3>2. CASE r \in net /\ q = p
      BY <1>i, <2>1, <2>5, <3>2 DEF ChunkInv, LeaseInv
    <3>3. CASE r \in net /\ q # p
      BY <1>i, <2>1, <2>5, <3>3 DEF ChunkInv
    <3> QED
      BY <2>1, <2>5, <3>1, <3>2, <3>3
  <2> QED
    BY <2>1, <2>5 DEF ChunkInv, Holder
<1>3. ASSUME NEW p \in Pages, Receive(p) PROVE ChunkInv'
  <2>1. /\ UNCHANGED <<stationVars, net, call>>
        /\ \A q \in Pages : q # p => Untouched(q)
    BY <1>3, <1>i, ReceiveEffect
  <2>2. ASSUME NEW r \in net, r.lease = issued, r.op = "chunk", Holder(p)'
        PROVE  \/ r.offset < offsets'[p][r.kind]
               \/ /\ phase'[p] = "failed"
                  /\ call[p].op = "chunk" /\ r.kind = call[p].kind
                  /\ r.offset = call[p].offset /\ r.raw = call[p].raw
    <3>1. lease'[p] = lease[p] \/ lease'[p] = reply[p].lease
      BY <1>3, <1>i, CallFields, ReceiveEffect, ReceiveCases
    <3>2. lease'[p] = lease[p] /\ Holder(p)
      BY <1>i, <2>1, <2>2, <3>1 DEF LeaseInv, Granted, Holder
    <3>3. \/ r.offset < offsets[p][r.kind]
          \/ /\ call[p].op = "chunk" /\ r.kind = call[p].kind
             /\ r.offset = call[p].offset /\ r.raw = call[p].raw
             /\ r.offset = offsets[p][r.kind]
      BY <1>i, <2>2, <3>2 DEF ChunkInv, CallInv, CallFits
    <3>4. r.kind \in Kinds /\ offsets[p][r.kind] \in Nat /\ r.offset \in Nat
      BY <1>i, PageTypes, ArchiveTypes, RequestFields
    <3>5. CASE /\ call[p].op = "chunk"
               /\ offsets'[p][call[p].kind] = offsets[p][call[p].kind] + 1
               /\ \A k \in Kinds : k # call[p].kind => offsets'[p][k] = offsets[p][k]
      BY <3>3, <3>4, <3>5
    <3>6. CASE UNCHANGED offsets /\ (call[p].op = "chunk" => phase'[p] = "failed")
      BY <3>3, <3>6
    <3>7. CASE call[p].op = "reopen"
      BY <1>3, <1>i, CallFields, <3>2, <3>7, ReceiveEffect DEF LeaseInv, Holder
    <3> QED
      BY <1>3, <1>i, CallFields, <3>5, <3>6, <3>7, ReceiveEffect, ReceiveCases
  <2> QED
    BY <1>i, <2>1, <2>2 DEF ChunkInv, Holder
<1>4. ASSUME NEW p \in Pages, Reload(p) PROVE ChunkInv'
  <2>1. UNCHANGED stationVars /\ \A q \in Pages : q # p => Untouched(q)
    BY <1>4, <1>i, ReloadEffect
  <2>2. ~(Holder(p)')
    BY <1>4, <1>i, ReloadEffect DEF Holder, LeaseInv
  <2>3. \A d \in net' : \E o \in net : Like(d, o)
    BY <1>4, <1>i, ReloadEffect DEF Cut
  <2> QED
    BY <1>i, <2>1, <2>2, <2>3 DEF ChunkInv, Holder, Like
<1>5. ASSUME NEW p \in Pages, ConnectionLost(p) \/ ConnectionClosed(p)
      PROVE ChunkInv'
  <2>1. /\ UNCHANGED <<stationVars, offsets, lease>>
        /\ \A q \in Pages : q # p => Untouched(q)
        /\ phase[p] = "calling" /\ Like(call'[p], call[p])
        /\ phase'[p] \in {"calling", "failed"} \/ call[p].op # "chunk"
    BY <1>5, <1>i, DropEffect
  <2>2. \A d \in net' : (d = call'[p] /\ phase'[p] = "calling")
                        \/ \E o \in net : Like(d, o)
    BY <1>5, <1>i, DropEffect
  <2>3. call[p].lease = lease[p]
        /\ (call[p].op = "chunk" => call[p].offset = offsets[p][call[p].kind])
    BY <1>i, CallFields, <2>1 DEF CallInv, CallFits
  <2>4. ASSUME NEW r \in net', r.lease = issued, r.op = "chunk",
               NEW q \in Pages, Holder(q)
        PROVE  \/ r.offset < offsets[q][r.kind]
               \/ /\ phase'[q] \in {"calling", "failed"}
                  /\ call'[q].op = "chunk" /\ r.kind = call'[q].kind
                  /\ r.offset = call'[q].offset /\ r.raw = call'[q].raw
    <3>1. CASE r = call'[p] /\ phase'[p] = "calling"
      <4>1. Holder(p)
        BY <2>1, <2>3, <2>4, <3>1 DEF Like, Holder
      <4> QED
        BY <1>i, <2>4, <3>1, <4>1 DEF LeaseInv
    <3>2. ASSUME NEW o \in net, Like(r, o)
          PROVE  \/ r.offset < offsets[q][r.kind]
                 \/ /\ phase'[q] \in {"calling", "failed"}
                    /\ call'[q].op = "chunk" /\ r.kind = call'[q].kind
                    /\ r.offset = call'[q].offset /\ r.raw = call'[q].raw
      <4>1. \/ r.offset < offsets[q][r.kind]
            \/ /\ phase[q] \in {"calling", "failed"}
               /\ call[q].op = "chunk" /\ r.kind = call[q].kind
               /\ r.offset = call[q].offset /\ r.raw = call[q].raw
        BY <1>i, <2>4, <3>2 DEF ChunkInv, Like
      <4>2. CASE q = p
        BY <2>1, <4>1, <4>2 DEF Like
      <4>3. CASE q # p
        BY <2>1, <4>1, <4>3
      <4> QED
        BY <4>2, <4>3
    <3> QED
      BY <2>2, <2>4, <3>1, <3>2
  <2> QED
    BY <2>1, <2>4 DEF ChunkInv, Holder
<1>6. ASSUME NEW r \in net, Serve(r) \/ StorageFault(r) \/ ReopenFault(r)
      PROVE ChunkInv'
  <2>e. /\ net' = net \ {r} /\ UNCHANGED pageVars
        /\ \A p \in Pages : p # r.from => reply'[p] = reply[p]
        /\ \A p \in Pages : p = r.from =>
              phase[p] = "calling" /\ r = call[p] /\ reply[p].result = "none"
    BY <1>6, <1>i, ServeEffect
  <2>1. CASE StepAppend(r)
    BY <2>1, <2>e, <1>i, PageTypes, CallFields
       DEF ChunkInv, Holder, Like, Cut, StepAppend, Replied
  <2>2. CASE StepNothing(r)
    BY <2>2, <2>e, <1>i, PageTypes, CallFields
       DEF ChunkInv, Holder, Like, Cut, StepNothing, Replied
  <2>3. CASE StepPublish(r)
    BY <2>3, <2>e, <1>i, PageTypes, CallFields
       DEF ChunkInv, Holder, Like, Cut, StepPublish, Replied
  <2>4. CASE StepReopen(r)
    BY <2>4, <1>i, PageTypes, <2>e DEF StepReopen, LeaseInv, ChunkInv
  <2>5. CASE StepCutBack(r)
    BY <2>5, <2>e, <1>i, PageTypes, CallFields
       DEF ChunkInv, Holder, Like, Cut, StepCutBack, Replied
  <2>6. CASE StepFinalize(r)
    BY <2>6, <2>e, <1>i, PageTypes, CallFields
       DEF ChunkInv, Holder, Like, Cut, StepFinalize, Replied
  <2> QED
    BY <1>6, <1>i, <2>1, <2>2, <2>3, <2>4, <2>5, <2>6, ServeCases
       DEF StationStep
<1>7. ASSUME Restart PROVE ChunkInv'
  BY <1>7, <1>i, PageTypes, CallFields, RestartEffect
     DEF ChunkInv, Holder, Like, Cut
<1>8. CASE UNCHANGED vars
  BY <1>8, <1>i DEF ChunkInv, Holder, Like, Cut, vars
<1> QED
  BY <1>1, <1>2, <1>3, <1>4, <1>5, <1>6, <1>7, <1>8, <1>i, NextCases

\* A checkpoint counts the bytes it is stored with.
LEMMA StepRestorable ==
    ASSUME IInv, [Next]_vars
    PROVE  CheckpointRestorable'
<1> USE DEF pageVars, stationVars, Alone, Untouched
<1>i. TypeOK /\ WriteInv /\ CallInv /\ LeaseInv /\ NetInv /\ ReplyInv /\
      StoredInv /\ PrefixInv /\ SessionInv /\ ChunkInv /\ CheckpointInv /\
      CheckpointRestorable /\ GenerationInv /\ SealedInv
  BY DEF IInv
<1>1. ASSUME NEW p \in Pages, AppendRecord(p) \/ BeginFinalize(p)
      PROVE CheckpointRestorable'
  BY <1>1, <1>i, WriteEffect DEF CheckpointRestorable
<1>2. ASSUME NEW p \in Pages, Sends(p) PROVE CheckpointRestorable'
  BY <1>2, <1>i, SendEffect DEF CheckpointRestorable
<1>3. ASSUME NEW p \in Pages, Receive(p) PROVE CheckpointRestorable'
  BY <1>3, <1>i, ReceiveEffect, ReceiveCases DEF CheckpointRestorable
<1>4. ASSUME NEW p \in Pages, Reload(p) PROVE CheckpointRestorable'
  BY <1>4, <1>i, ReloadEffect DEF CheckpointRestorable
<1>5. ASSUME NEW p \in Pages, ConnectionLost(p) \/ ConnectionClosed(p)
      PROVE CheckpointRestorable'
  BY <1>5, <1>i, DropEffect DEF CheckpointRestorable
<1>6. ASSUME NEW r \in net, Serve(r) \/ StorageFault(r) \/ ReopenFault(r)
      PROVE CheckpointRestorable'
  <2>e. /\ net' = net \ {r} /\ UNCHANGED pageVars
        /\ \A p \in Pages : p # r.from => reply'[p] = reply[p]
        /\ \A p \in Pages : p = r.from =>
              phase[p] = "calling" /\ r = call[p] /\ reply[p].result = "none"
    BY <1>6, <1>i, ServeEffect
  <2>1. CASE StepAppend(r)
    BY <2>1, <2>e, <1>i DEF CheckpointRestorable, StepAppend, Replied
  <2>2. CASE StepNothing(r)
    BY <2>2, <2>e, <1>i DEF CheckpointRestorable, StepNothing, Replied
  <2>3. CASE StepPublish(r)
    <3>1. /\ r.lease = issued /\ open /\ r.op = "checkpoint" /\ Intact
          /\ ckpt'.state = r.state /\ ckpt'.prefix = stored
      BY <2>3 DEF StepPublish, Checkpointable, Admitted, NewCheckpoint
    <3>2. stored = Counted(r.state)
          /\ r.state # <<>>
      BY <1>i, <3>1, IntactFiles DEF CheckpointInv
    <3>3. stored["warc"] = r.state /\ stored["cdx"] = <<>>
      BY <3>2, CountedFields
    <3> QED
      BY <3>1, <3>2, <3>3 DEF CheckpointRestorable
  <2>4. CASE StepReopen(r)
    <3>1. ckpt' \in {ckpt, Consumed} /\ ckpt.generation \in 1..(MaxGeneration - 1)
      BY <2>4 DEF StepReopen, Reopenable
    <3>2. ckpt.generation > 0
      BY <3>1, StreamerAssumption
    <3> QED
      BY <1>i, ConsumedFields, <3>1, <3>2 DEF CheckpointRestorable
  <2>5. CASE StepCutBack(r)
    <3>1. ckpt' \in {ckpt, Consumed} /\ ckpt.generation \in 1..(MaxGeneration - 1)
      BY <2>5 DEF StepCutBack, Reopenable
    <3>2. ckpt.generation > 0
      BY <3>1, StreamerAssumption
    <3> QED
      BY <1>i, ConsumedFields, <3>1, <3>2 DEF CheckpointRestorable
  <2>6. CASE StepFinalize(r)
    BY <2>6, <2>e, <1>i DEF CheckpointRestorable, StepFinalize, Replied
  <2> QED
    BY <1>6, <1>i, <2>1, <2>2, <2>3, <2>4, <2>5, <2>6, ServeCases
       DEF StationStep
<1>7. ASSUME Restart PROVE CheckpointRestorable'
  BY <1>7, <1>i, RestartEffect DEF CheckpointRestorable
<1>8. CASE UNCHANGED vars
  BY <1>8, <1>i DEF CheckpointRestorable, vars
<1> QED
  BY <1>1, <1>2, <1>3, <1>4, <1>5, <1>6, <1>7, <1>8, <1>i, NextCases

\* The holder knows the generation of the session.
LEMMA StepGeneration ==
    ASSUME IInv, [Next]_vars
    PROVE  GenerationInv'
<1> USE DEF pageVars, stationVars, Alone, Untouched
<1>i. TypeOK /\ WriteInv /\ CallInv /\ LeaseInv /\ NetInv /\ ReplyInv /\
      StoredInv /\ PrefixInv /\ SessionInv /\ ChunkInv /\ CheckpointInv /\
      CheckpointRestorable /\ GenerationInv /\ SealedInv
  BY DEF IInv
<1>1. ASSUME NEW p \in Pages, AppendRecord(p) \/ BeginFinalize(p)
      PROVE GenerationInv'
  BY <1>1, <1>i, PageTypes, CallFields, WriteEffect DEF GenerationInv, Holder
<1>2. ASSUME NEW p \in Pages, Sends(p) PROVE GenerationInv'
  <2>1. /\ UNCHANGED <<stationVars, generation, lease, reply>>
        /\ \A q \in Pages : q # p => Alone(q)
        /\ phase[p] \in {"ready", "idle"}
    BY <1>2, <1>i, SendEffect
  <2>2. Holder(p) => phase[p] = "ready"
    BY <1>i, <2>1 DEF Holder, LeaseInv
  <2> QED
    BY <1>i, <2>1, <2>2 DEF GenerationInv, Holder
<1>3. ASSUME NEW p \in Pages, Receive(p) PROVE GenerationInv'
  <2>1. UNCHANGED stationVars /\ \A q \in Pages : q # p => Untouched(q)
    BY <1>3, <1>i, ReceiveEffect
  <2>2. phase'[p] # "calling"
    BY <1>3, <1>i, CallFields, ReceiveEffect, ReceiveCases
  <2>3. ASSUME Holder(p)', open, phase'[p] = "ready"
        PROVE  generation'[p] = current
    <3>1. phase[p] = "calling"
      BY <1>3, <1>i, ReceiveEffect
    <3>2. CASE /\ call[p].op = "reopen" /\ reply[p].result = "ok"
               /\ lease'[p] = reply[p].lease
               /\ generation'[p] = reply[p].generation
      BY <1>i, <2>1, <2>3, <3>2 DEF ReplyInv, ReplyFits, Granted, Holder
    <3>3. CASE call[p].op = "chunk" /\ UNCHANGED <<lease, generation>>
      BY <1>i, <2>1, <2>3, <3>1, <3>3 DEF GenerationInv, Holder
    <3>4. CASE /\ call[p].op = "checkpoint" /\ reply[p].result = "ok"
               /\ generation'[p] = reply[p].generation /\ UNCHANGED lease
      BY <1>i, <2>1, <2>3, <3>4 DEF ReplyInv, ReplyFits, Holder
    <3> QED
      BY <1>3, <1>i, CallFields, <2>3, <3>1, <3>2, <3>3, <3>4, ReceiveCases
  <2> QED
    BY <1>i, <2>1, <2>2, <2>3 DEF GenerationInv, Holder
<1>4. ASSUME NEW p \in Pages, Reload(p) PROVE GenerationInv'
  BY <1>4, <1>i, PageTypes, CallFields, ReloadEffect DEF GenerationInv, Holder
<1>5. ASSUME NEW p \in Pages, ConnectionLost(p) \/ ConnectionClosed(p)
      PROVE GenerationInv'
  BY <1>5, <1>i, PageTypes, CallFields, DropEffect DEF GenerationInv, Holder
<1>6. ASSUME NEW r \in net, Serve(r) \/ StorageFault(r) \/ ReopenFault(r)
      PROVE GenerationInv'
  <2>e. /\ net' = net \ {r} /\ UNCHANGED pageVars
        /\ \A p \in Pages : p # r.from => reply'[p] = reply[p]
        /\ \A p \in Pages : p = r.from =>
              phase[p] = "calling" /\ r = call[p] /\ reply[p].result = "none"
    BY <1>6, <1>i, ServeEffect
  <2>1. CASE StepAppend(r)
    <3>1. current' = current /\ issued' = issued /\ (open' => open)
      BY <2>1, <1>i DEF StepAppend, SealedInv, Admitted
    <3> QED
      BY <1>i, <2>e, <3>1 DEF GenerationInv, Holder
  <2>2. CASE StepNothing(r)
    <3>1. current' = current /\ issued' = issued /\ (open' => open)
      BY <2>2, <1>i DEF StepNothing, SealedInv, Admitted
    <3> QED
      BY <1>i, <2>e, <3>1 DEF GenerationInv, Holder
  <2>3. CASE StepPublish(r)
    <3>1. /\ r.lease = issued /\ open /\ r.op = "checkpoint"
          /\ current < MaxGeneration /\ current' \in {current, current + 1}
          /\ issued' = issued
          /\ Replied(r, "ok") \/ Replied(r, "failed")
      BY <2>3 DEF StepPublish, Checkpointable, Admitted
    <3>2. current' <= MaxGeneration
      BY <1>i, PageTypes, <3>1, StreamerAssumption
    <3>3. \A p \in Pages : Holder(p) =>
             /\ call[p].op = "checkpoint"
             /\ phase[p] = "failed" \/ (phase[p] = "calling" /\ r.from = p)
      BY <1>i, <3>1 DEF CheckpointInv
    <3>4. \A p \in Pages : r.from = p => reply'[p].result # "none"
      BY <3>1 DEF Replied
    <3> QED
      BY <2>e, <3>1, <3>2, <3>3, <3>4 DEF GenerationInv, Holder
  <2>4. CASE StepReopen(r)
    <3>1. \A p \in Pages : ~(Holder(p)')
      BY <2>4, <1>i, PageTypes, <2>e DEF StepReopen, LeaseInv, Holder
    <3>2. current' = ckpt.generation + 1
          /\ ckpt.generation \in 1..(MaxGeneration - 1)
      BY <2>4 DEF StepReopen, Reopenable
    <3>3. current' <= MaxGeneration
      BY <3>2, StreamerAssumption
    <3> QED
      BY <3>1, <3>3 DEF GenerationInv
  <2>5. CASE StepCutBack(r)
    <3>1. current' = current /\ issued' = issued /\ (open' => open)
      BY <2>5, <1>i DEF StepCutBack, SealedInv, Admitted
    <3> QED
      BY <1>i, <2>e, <3>1 DEF GenerationInv, Holder
  <2>6. CASE StepFinalize(r)
    <3>1. current' = current /\ issued' = issued /\ (open' => open)
      BY <2>6, <1>i DEF StepFinalize, SealedInv, Admitted
    <3> QED
      BY <1>i, <2>e, <3>1 DEF GenerationInv, Holder
  <2> QED
    BY <1>6, <1>i, <2>1, <2>2, <2>3, <2>4, <2>5, <2>6, ServeCases
       DEF StationStep
<1>7. ASSUME Restart PROVE GenerationInv'
  BY <1>7, <1>i, PageTypes, CallFields, RestartEffect DEF GenerationInv, Holder
<1>8. CASE UNCHANGED vars
  BY <1>8, <1>i DEF GenerationInv, Holder, vars
<1> QED
  BY <1>1, <1>2, <1>3, <1>4, <1>5, <1>6, <1>7, <1>8, <1>i, NextCases

\* The holder is refused only when the session is over or worn out.
LEMMA StepRefused ==
    ASSUME IInv, [Next]_vars
    PROVE  RefusedInv'
<1> USE DEF pageVars, stationVars, Alone, Untouched
<1>i. TypeOK /\ WriteInv /\ CallInv /\ LeaseInv /\ NetInv /\ ReplyInv /\
      StoredInv /\ PrefixInv /\ SessionInv /\ ChunkInv /\ CheckpointInv /\
      CheckpointRestorable /\ GenerationInv /\ SealedInv /\ RefusedInv
  BY DEF IInv
<1>1. ASSUME NEW p \in Pages, AppendRecord(p) \/ BeginFinalize(p)
      PROVE RefusedInv'
  BY <1>1, <1>i, PageTypes, CallFields, WriteEffect DEF RefusedInv, Holder
<1>2. ASSUME NEW p \in Pages, Sends(p) PROVE RefusedInv'
  <2>1. /\ UNCHANGED <<stationVars, generation, lease, reply>>
        /\ \A q \in Pages : q # p => Alone(q)
        /\ phase[p] \in {"ready", "idle"}
    BY <1>2, <1>i, SendEffect
  <2>2. reply[p].result = "none"
    BY <1>i, <2>1 DEF NetInv
  <2> QED
    BY <1>i, <2>1, <2>2 DEF RefusedInv, Holder
<1>3. ASSUME NEW p \in Pages, Receive(p) PROVE RefusedInv'
  BY <1>3, <1>i, PageTypes, CallFields, ReceiveEffect, ReceiveCases
     DEF RefusedInv, Holder
<1>4. ASSUME NEW p \in Pages, Reload(p) PROVE RefusedInv'
  BY <1>4, <1>i, PageTypes, CallFields, ReloadEffect DEF RefusedInv, Holder
<1>5. ASSUME NEW p \in Pages, ConnectionLost(p) \/ ConnectionClosed(p)
      PROVE RefusedInv'
  BY <1>5, <1>i, PageTypes, CallFields, DropEffect DEF RefusedInv, Holder
<1>6. ASSUME NEW r \in net, Serve(r) \/ StorageFault(r) \/ ReopenFault(r)
      PROVE RefusedInv'
  <2>e. /\ net' = net \ {r} /\ UNCHANGED pageVars
        /\ \A p \in Pages : p # r.from => reply'[p] = reply[p]
        /\ \A p \in Pages : p = r.from =>
              phase[p] = "calling" /\ r = call[p] /\ reply[p].result = "none"
    BY <1>6, <1>i, ServeEffect
  <2>1. CASE StepAppend(r)
    <3>1. issued' = issued /\ (open' => open)
          /\ \A p \in Pages : p = r.from => reply'[p].result # "refused"
      BY <2>1 DEF StepAppend, Admitted, Replied
    <3> QED
      BY <1>i, <2>e, <3>1 DEF RefusedInv, Holder
  <2>2. CASE StepNothing(r)
    <3>1. issued' = issued /\ (open' => open)
          /\ \A p \in Pages : p = r.from =>
                reply'[p].result # "refused" \/ Refusable(r)
      BY <2>2 DEF StepNothing, Replied, Admitted
    <3>2. ASSUME NEW p \in Pages, p = r.from, Holder(p), open, Refusable(r),
                 call[p].op # "reopen"
          PROVE  generation[p] = MaxGeneration
      <4>1. /\ r = call[p] /\ phase[p] = "calling" /\ reply[p].result = "none"
            /\ r.lease = issued /\ r.op # "none" /\ Admitted(r)
            /\ r \in Requests /\ r.kind \in Kinds
        BY <1>i, PageTypes, CallFields, <2>e, <3>2 DEF Holder, Admitted
      <4>2. r.op # "chunk"
        <5>1. SUFFICES ASSUME r.op = "chunk" PROVE FALSE
          OBVIOUS
        <5>2. /\ r.offset = offsets[p][r.kind]
              /\ r.offset < Len(written[p][r.kind])
              /\ r.raw = written[p][r.kind][r.offset + 1]
          BY <1>i, <4>1, <5>1 DEF CallInv, CallFits
        <5>3. /\ IsPrefix(hashed[r.kind], written[p][r.kind])
              /\ Len(hashed[r.kind]) \in {r.offset, r.offset + 1}
          BY <1>i, <3>2, <4>1, <5>2 DEF SessionInv
        <5>4. CASE Len(hashed[r.kind]) = r.offset
          BY <3>2, <4>1, <5>1, <5>4 DEF Refusable, IsNext
        <5>5. CASE Len(hashed[r.kind]) = r.offset + 1
          <6>1. r.offset + 1 \in 1..Len(hashed[r.kind])
            BY <1>i, ArchiveTypes, <4>1, <5>2, <5>5
          <6>2. \A i \in 1..Len(hashed[r.kind]) :
                   hashed[r.kind][i] = written[p][r.kind][i]
            BY <1>i, ArchiveTypes, <4>1, <5>3, PrefixPointwise
          <6>3. hashed[r.kind][r.offset + 1] = r.raw
            BY <5>2, <6>1, <6>2
          <6> QED
            BY <3>2, <4>1, <5>1, <5>5, <6>3 DEF Refusable, IsLast
        <5> QED
          BY <5>3, <5>4, <5>5
      <4>3. r.op # "finalize"
        BY <3>2, <4>1 DEF Refusable
      <4>4. r.op = "checkpoint"
        BY <3>2, <4>1, <4>2, <4>3, RequestFields
      <4>5. r.generation = generation[p] /\ generation[p] = current
            /\ current <= MaxGeneration
        BY <1>i, <3>2, <4>1, <4>4 DEF CallInv, CallFits, GenerationInv
      <4> QED
        BY <1>i, PageTypes, <3>2, <4>1, <4>4, <4>5, StreamerAssumption
           DEF Refusable, Checkpointable
    <3> QED
      BY <1>i, <2>e, <3>1, <3>2 DEF RefusedInv, Holder
  <2>3. CASE StepPublish(r)
    <3>1. issued' = issued /\ (open' => open)
          /\ \A p \in Pages : p = r.from => reply'[p].result # "refused"
      BY <2>3 DEF StepPublish, Admitted, Replied
    <3> QED
      BY <1>i, <2>e, <3>1 DEF RefusedInv, Holder
  <2>4. CASE StepReopen(r)
    <3>1. \A p \in Pages : ~(Holder(p)')
      BY <2>4, <1>i, PageTypes, <2>e DEF StepReopen, LeaseInv, Holder
    <3> QED
      BY <3>1 DEF RefusedInv
  <2>5. CASE StepCutBack(r)
    <3>1. issued' = issued /\ (open' => open)
          /\ \A p \in Pages : p = r.from => reply'[p].result # "refused"
      BY <2>5 DEF StepCutBack, Admitted, Replied
    <3> QED
      BY <1>i, <2>e, <3>1 DEF RefusedInv, Holder
  <2>6. CASE StepFinalize(r)
    <3>1. issued' = issued /\ (open' => open)
          /\ \A p \in Pages : p = r.from => reply'[p].result # "refused"
      BY <2>6 DEF StepFinalize, Admitted, Replied
    <3> QED
      BY <1>i, <2>e, <3>1 DEF RefusedInv, Holder
  <2> QED
    BY <1>6, <1>i, <2>1, <2>2, <2>3, <2>4, <2>5, <2>6, ServeCases
       DEF StationStep
<1>7. ASSUME Restart PROVE RefusedInv'
  BY <1>7, <1>i, PageTypes, CallFields, RestartEffect DEF RefusedInv, Holder
<1>8. CASE UNCHANGED vars
  BY <1>8, <1>i DEF RefusedInv, Holder, vars
<1> QED
  BY <1>1, <1>2, <1>3, <1>4, <1>5, <1>6, <1>7, <1>8, <1>i, NextCases

\* A finished page wrote what the receipt states.
LEMMA StepReceiptIsWhole ==
    ASSUME IInv, [Next]_vars
    PROVE  ReceiptIsWhole'
<1> USE DEF pageVars, stationVars, Alone, Untouched
<1>i. TypeOK /\ WriteInv /\ CallInv /\ LeaseInv /\ NetInv /\ ReplyInv /\
      StoredInv /\ PrefixInv /\ SessionInv /\ ChunkInv /\ CheckpointInv /\
      CheckpointRestorable /\ GenerationInv /\ SealedInv /\ ReceiptIsWhole
  BY DEF IInv
<1>1. ASSUME NEW p \in Pages, AppendRecord(p) \/ BeginFinalize(p)
      PROVE ReceiptIsWhole'
  BY <1>1, <1>i, PageTypes, CallFields, WriteEffect DEF ReceiptIsWhole
<1>2. ASSUME NEW p \in Pages, Sends(p) PROVE ReceiptIsWhole'
  BY <1>2, <1>i, PageTypes, CallFields, SendEffect DEF ReceiptIsWhole
<1>3. ASSUME NEW p \in Pages, Receive(p) PROVE ReceiptIsWhole'
  <2>1. UNCHANGED receipt /\ \A q \in Pages : q # p => Untouched(q)
    BY <1>3, <1>i, ReceiveEffect
  <2>2. phase'[p] = "finished" =>
           /\ call[p].op = "finalize" /\ reply[p].result = "ok"
           /\ UNCHANGED written
    BY <1>3, <1>i, CallFields, ReceiveEffect, ReceiveCases
  <2>3. phase'[p] = "finished" =>
           receipt.stage = "final" /\ receipt.archives = written'[p]
    BY <1>i, <2>2 DEF ReplyInv, ReplyFits
  <2> QED
    BY <1>i, <2>1, <2>3 DEF ReceiptIsWhole
<1>4. ASSUME NEW p \in Pages, Reload(p) PROVE ReceiptIsWhole'
  BY <1>4, <1>i, PageTypes, CallFields, ReloadEffect DEF ReceiptIsWhole
<1>5. ASSUME NEW p \in Pages, ConnectionLost(p) \/ ConnectionClosed(p)
      PROVE ReceiptIsWhole'
  BY <1>5, <1>i, PageTypes, CallFields, DropEffect DEF ReceiptIsWhole
<1>6. ASSUME NEW r \in net, Serve(r) \/ StorageFault(r) \/ ReopenFault(r)
      PROVE ReceiptIsWhole'
  <2>e. /\ net' = net \ {r} /\ UNCHANGED pageVars
        /\ \A p \in Pages : p # r.from => reply'[p] = reply[p]
        /\ \A p \in Pages : p = r.from =>
              phase[p] = "calling" /\ r = call[p] /\ reply[p].result = "none"
    BY <1>6, <1>i, ServeEffect
  <2>1. CASE StepAppend(r)
    BY <2>1, <2>e, <1>i, PageTypes, CallFields
       DEF ReceiptIsWhole, StepAppend, Replied
  <2>2. CASE StepNothing(r)
    BY <2>2, <2>e, <1>i, PageTypes, CallFields
       DEF ReceiptIsWhole, StepNothing, Replied
  <2>3. CASE StepPublish(r)
    BY <2>3, <2>e, <1>i, PageTypes, CallFields
       DEF ReceiptIsWhole, StepPublish, Replied
  <2>4. CASE StepReopen(r)
    BY <2>4, <2>e, <1>i, PageTypes, CallFields
       DEF ReceiptIsWhole, StepReopen, Replied
  <2>5. CASE StepCutBack(r)
    BY <2>5, <2>e, <1>i, PageTypes, CallFields
       DEF ReceiptIsWhole, StepCutBack, Replied
  <2>6. CASE StepFinalize(r)
    <3>1. receipt.stage = "none"
      BY <2>6, <1>i DEF StepFinalize, Admitted, SealedInv
    <3>2. \A p \in Pages : phase[p] # "finished"
      BY <1>i, <3>1 DEF ReceiptIsWhole
    <3> QED
      BY <2>e, <3>2 DEF ReceiptIsWhole
  <2> QED
    BY <1>6, <1>i, <2>1, <2>2, <2>3, <2>4, <2>5, <2>6, ServeCases
       DEF StationStep
<1>7. ASSUME Restart PROVE ReceiptIsWhole'
  BY <1>7, <1>i, PageTypes, CallFields, RestartEffect DEF ReceiptIsWhole
<1>8. CASE UNCHANGED vars
  BY <1>8, <1>i DEF ReceiptIsWhole, vars
<1> QED
  BY <1>1, <1>2, <1>3, <1>4, <1>5, <1>6, <1>7, <1>8, <1>i, NextCases

\* A checkpoint request counts the bytes it will be stored with.
LEMMA StepCheckpoint ==
    ASSUME IInv, [Next]_vars
    PROVE  CheckpointInv'
<1> USE DEF pageVars, stationVars, Alone, Untouched
<1>i. TypeOK /\ WriteInv /\ CallInv /\ LeaseInv /\ NetInv /\ ReplyInv /\
      StoredInv /\ PrefixInv /\ SessionInv /\ ChunkInv /\ CheckpointInv /\
      CheckpointRestorable /\ GenerationInv /\ SealedInv
  BY DEF IInv
<1>1. ASSUME NEW p \in Pages, AppendRecord(p) \/ BeginFinalize(p)
      PROVE CheckpointInv'
  BY <1>1, <1>i, PageTypes, CallFields, WriteEffect DEF CheckpointInv, Holder
<1>2. ASSUME NEW p \in Pages, Sends(p) PROVE CheckpointInv'
  <2>1. /\ UNCHANGED <<stationVars, offsets, lease>>
        /\ net' = net \union {call'[p]}
        /\ \A q \in Pages : q # p => Alone(q)
        /\ phase[p] \in {"ready", "idle"} /\ phase'[p] = "calling"
        /\ call'[p].from = p
    BY <1>2, <1>i, SendEffect
  <2>2. Holder(p) => phase[p] = "ready"
    BY <1>i, <2>1 DEF Holder, LeaseInv
  <2>3. call'[p].lease = issued => Holder(p)
    BY <1>2, <1>i, SendEffect DEF Holder, LeaseInv
  <2>4. ASSUME NEW r \in net, r.lease = issued, r.op = "checkpoint"
        PROVE  ~Holder(p)
    BY <1>i, <2>1, <2>4 DEF CheckpointInv
  <2>5. ASSUME NEW r \in net, r.lease = issued, r.op = "checkpoint"
        PROVE  /\ r.state # <<>>
               /\ open =>
                     /\ hashed = Counted(r.state)
                     /\ \A q \in net' : q.lease = issued /\ q.op = "chunk" =>
                           q.offset < Len(hashed[q.kind])
               /\ \A q \in Pages : Holder(q) =>
                     /\ call'[q].op = "checkpoint"
                     /\ \/ phase'[q] = "failed"
                        \/ phase'[q] = "calling" /\ r.from = q
    BY <1>i, <2>1, <2>3, <2>4, <2>5 DEF CheckpointInv
  <2>6. ASSUME call'[p].lease = issued, call'[p].op = "checkpoint"
        PROVE  /\ call'[p].state # <<>>
               /\ open =>
                     /\ hashed = Counted(call'[p].state)
                     /\ \A q \in net' : q.lease = issued /\ q.op = "chunk" =>
                           q.offset < Len(hashed[q.kind])
               /\ \A q \in Pages : Holder(q) => q = p
    <3>1. /\ Acknowledged(p) /\ ~closing[p] /\ phase[p] = "ready"
          /\ call'[p].state = written[p]["warc"] /\ written[p]["warc"] # <<>>
      BY <1>2, <1>i, <2>6, SendEffect
    <3>2. Holder(p)
      BY <2>3, <2>6
    <3>3. written[p]["cdx"] = <<>>
      BY <1>i, <3>1 DEF WriteInv
    <3>4. written[p] = Counted(call'[p].state)
      <4>1. written[p] \in [Kinds -> Seq(Chunks)]
        BY <1>i, ArchiveTypes DEF Archives
      <4> QED
        BY <3>1, <3>3, <4>1 DEF Counted, Kinds
    <3>5. open => hashed = written[p]
      BY <1>i, <3>1, <3>2, AllAccounted
    <3>6. ASSUME open, NEW q \in net, q.lease = issued, q.op = "chunk"
          PROVE  q.offset < Len(hashed[q.kind])
      <4>1. q.offset < offsets[p][q.kind]
        BY <1>i, <3>1, <3>2, <3>6 DEF ChunkInv
      <4>2. offsets[p][q.kind] = Len(hashed[q.kind])
        <5>1. q.kind \in Kinds
          BY <1>i, PageTypes, RequestFields
        <5> QED
          BY <3>1, <3>5, <3>6, <5>1 DEF Acknowledged, Lengths
      <4> QED
        BY <4>1, <4>2
    <3> QED
      BY <1>i, <2>1, <2>6, <3>1, <3>2, <3>4, <3>5, <3>6 DEF LeaseInv
  <2> QED
    BY <2>1, <2>5, <2>6 DEF CheckpointInv, Holder
<1>3. ASSUME NEW p \in Pages, Receive(p) PROVE CheckpointInv'
  <2>1. /\ UNCHANGED <<stationVars, net, call>>
        /\ \A q \in Pages : q # p => Untouched(q)
        /\ phase[p] = "calling" /\ reply[p].result # "none"
    BY <1>3, <1>i, ReceiveEffect
  <2>2. ASSUME NEW r \in net, r.lease = issued, r.op = "checkpoint"
        PROVE  ~(Holder(p)')
    <3>1. lease'[p] = lease[p] \/ lease'[p] = reply[p].lease
      BY <1>3, <1>i, CallFields, ReceiveEffect, ReceiveCases
    <3>2. ~Granted(p)
      BY <1>i, <2>2 DEF LeaseInv
    <3>3. ~Holder(p)
      BY <1>i, <2>1, <2>2 DEF CheckpointInv, NetInv
    <3> QED
      BY <2>1, <3>1, <3>2, <3>3 DEF Holder, Granted
  <2> QED
    BY <1>i, <2>1, <2>2 DEF CheckpointInv, Holder
<1>4. ASSUME NEW p \in Pages, Reload(p) PROVE CheckpointInv'
  <2>1. UNCHANGED stationVars /\ \A q \in Pages : q # p => Untouched(q)
    BY <1>4, <1>i, ReloadEffect
  <2>2. ~(Holder(p)')
    BY <1>4, <1>i, ReloadEffect DEF Holder, LeaseInv
  <2>3. \A d \in net' : \E o \in net :
           Like(d, o) /\ (d = o \/ o.from = p)
    BY <1>4, <1>i, ReloadEffect DEF Cut
  <2> QED
    BY <1>i, <2>1, <2>2, <2>3 DEF CheckpointInv, Holder, Like
<1>5. ASSUME NEW p \in Pages, ConnectionLost(p) \/ ConnectionClosed(p)
      PROVE CheckpointInv'
  <2>1. /\ UNCHANGED <<stationVars, offsets, lease>>
        /\ \A q \in Pages : q # p => Untouched(q)
        /\ phase[p] = "calling" /\ Like(call'[p], call[p])
        /\ \/ phase'[p] = "calling" /\ call[p].op = "chunk"
           \/ phase'[p] = "failed"
           \/ call[p].op = "reopen"
    BY <1>5, <1>i, DropEffect
  <2>2. \A d \in net' : \/ d = call'[p] /\ phase'[p] = "calling"
                        \/ \E o \in net : Like(d, o) /\ (d = o \/ o.from = p)
    BY <1>5, <1>i, DropEffect
  <2>3. call[p].lease = lease[p]
    BY <1>i, CallFields, <2>1
  <2>4. ASSUME NEW d \in net', d.lease = issued, d.op = "checkpoint"
        PROVE  \E o \in net : Like(d, o) /\ (d = o \/ o.from = p)
    <3>1. CASE d = call'[p] /\ phase'[p] = "calling"
      BY <2>1, <2>4, <3>1, DropEffect, <1>5, <1>i DEF Like
    <3> QED
      BY <2>2, <3>1
  <2>5. ASSUME NEW r \in net, r.lease = issued, r.op = "checkpoint", open,
               NEW d \in net', d.lease = issued, d.op = "chunk"
        PROVE  d.offset < Len(hashed[d.kind])
    <3>1. CASE d = call'[p] /\ phase'[p] = "calling"
      <4>1. Holder(p) /\ call[p].op = "chunk"
        BY <2>1, <2>3, <2>5, <3>1 DEF Like, Holder
      <4> QED
        BY <1>i, <2>5, <4>1 DEF CheckpointInv
    <3>2. CASE \E o \in net : Like(d, o)
      BY <1>i, <2>5, <3>2 DEF CheckpointInv, Like
    <3> QED
      BY <2>2, <3>1, <3>2
  <2>6. ASSUME NEW d \in net', d.lease = issued, d.op = "checkpoint"
        PROVE  /\ d.state # <<>>
               /\ open =>
                     /\ hashed = Counted(d.state)
                     /\ \A q \in net' : q.lease = issued /\ q.op = "chunk" =>
                           q.offset < Len(hashed[q.kind])
               /\ \A q \in Pages : Holder(q) =>
                     /\ call'[q].op = "checkpoint"
                     /\ \/ phase'[q] = "failed"
                        \/ phase'[q] = "calling" /\ d.from = q
    <3>1. PICK o \in net : Like(d, o) /\ (d = o \/ o.from = p)
      BY <2>4, <2>6
    <3>2. o.lease = issued /\ o.op = "checkpoint" /\ o.state = d.state
      BY <2>6, <3>1 DEF Like
    <3>3. /\ o.state # <<>>
          /\ open => hashed = Counted(o.state)
          /\ \A q \in Pages : Holder(q) =>
                /\ call[q].op = "checkpoint"
                /\ phase[q] = "failed" \/ (phase[q] = "calling" /\ o.from = q)
      BY <1>i, <3>2 DEF CheckpointInv
    <3>4. ASSUME NEW q \in Pages, Holder(q)
          PROVE  /\ call'[q].op = "checkpoint"
                 /\ \/ phase'[q] = "failed"
                    \/ phase'[q] = "calling" /\ d.from = q
      <4>1. CASE q = p
        BY <2>1, <3>3, <3>4, <4>1 DEF Like
      <4>2. CASE q # p
        BY <2>1, <3>1, <3>3, <3>4, <4>2
      <4> QED
        BY <4>1, <4>2
    <3> QED
      BY <2>5, <3>2, <3>3, <3>4
  <2> QED
    BY <2>1, <2>6 DEF CheckpointInv, Holder
<1>6. ASSUME NEW r \in net, Serve(r) \/ StorageFault(r) \/ ReopenFault(r)
      PROVE CheckpointInv'
  <2>e. /\ net' = net \ {r} /\ UNCHANGED pageVars
        /\ \A p \in Pages : p # r.from => reply'[p] = reply[p]
        /\ \A p \in Pages : p = r.from =>
              phase[p] = "calling" /\ r = call[p] /\ reply[p].result = "none"
    BY <1>6, <1>i, ServeEffect
  <2>1. CASE StepAppend(r)
    <3>1. /\ r.lease = issued /\ r.op = "chunk" /\ open
          /\ r.offset = Len(hashed[r.kind]) /\ issued' = issued
      BY <2>1 DEF StepAppend, Admitted, IsNext
    <3>2. Len(hashed[r.kind]) \in Nat
      BY <1>i, PageTypes, ArchiveTypes, RequestFields
    <3>3. \A c \in net : ~(c.lease = issued /\ c.op = "checkpoint")
      BY <1>i, <3>1, <3>2 DEF CheckpointInv
    <3> QED
      BY <2>e, <3>1, <3>3 DEF CheckpointInv
  <2>2. CASE StepNothing(r)
    <3>1. /\ hashed' = hashed /\ (open' => open) /\ issued' = issued
      BY <2>2 DEF StepNothing, Admitted
    <3> QED
      BY <1>i, <2>e, <3>1 DEF CheckpointInv, Holder
  <2>3. CASE StepPublish(r)
    <3>1. /\ hashed' = hashed /\ (open' => open) /\ issued' = issued
      BY <2>3 DEF StepPublish, Admitted
    <3> QED
      BY <1>i, <2>e, <3>1 DEF CheckpointInv, Holder
  <2>4. CASE StepReopen(r)
    BY <2>4, <1>i, PageTypes, <2>e DEF StepReopen, LeaseInv, CheckpointInv
  <2>5. CASE StepCutBack(r)
    <3>1. /\ hashed' = hashed /\ (open' => open) /\ issued' = issued
      BY <2>5 DEF StepCutBack, Admitted
    <3> QED
      BY <1>i, <2>e, <3>1 DEF CheckpointInv, Holder
  <2>6. CASE StepFinalize(r)
    <3>1. /\ hashed' = hashed /\ (open' => open) /\ issued' = issued
      BY <2>6 DEF StepFinalize, Admitted
    <3> QED
      BY <1>i, <2>e, <3>1 DEF CheckpointInv, Holder
  <2> QED
    BY <1>6, <1>i, <2>1, <2>2, <2>3, <2>4, <2>5, <2>6, ServeCases
       DEF StationStep
<1>7. ASSUME Restart PROVE CheckpointInv'
  BY <1>7, <1>i, PageTypes, CallFields, RestartEffect DEF CheckpointInv, Holder
<1>8. CASE UNCHANGED vars
  BY <1>8, <1>i DEF CheckpointInv, Holder, vars
<1> QED
  BY <1>1, <1>2, <1>3, <1>4, <1>5, <1>6, <1>7, <1>8, <1>i, NextCases

\* A page without a reply, and without a change beside it.
LEMMA ReplyTaken ==
    ASSUME ReplyInv, LeaseInv, NEW p \in Pages, UNCHANGED stationVars,
           \A q \in Pages : q # p => Untouched(q),
           reply'[p].result = "none", reply'[p].lease = 0
    PROVE  ReplyInv'
<1> USE DEF stationVars
<1>1. issued' = issued /\ issued # 0
  BY DEF LeaseInv
<1>2. ReplyFits(p)'
  BY <1>1 DEF ReplyFits, Granted
<1>3. ASSUME NEW q \in Pages, q # p PROVE ReplyFits(q)'
  <2>1. ReplyFits(q)
    BY DEF ReplyInv
  <2>2. Untouched(q)
    BY <1>3
  <2> QED
    BY <2>1, <2>2 DEF ReplyFits, Granted, Holder, Untouched, Alone
<1> QED
  BY <1>2, <1>3 DEF ReplyInv

\* An accepted call means for its page what the invariant says.
LEMMA StepReply ==
    ASSUME IInv, [Next]_vars
    PROVE  ReplyInv'
<1> USE DEF pageVars, stationVars, Alone, Untouched
<1>i. TypeOK /\ WriteInv /\ CallInv /\ LeaseInv /\ NetInv /\ ReplyInv /\
      StoredInv /\ PrefixInv /\ SessionInv /\ ChunkInv /\ CheckpointInv /\
      CheckpointRestorable /\ GenerationInv /\ SealedInv
  BY DEF IInv
<1>1. ASSUME NEW p \in Pages, AppendRecord(p) \/ BeginFinalize(p)
      PROVE ReplyInv'
  <2>1. /\ UNCHANGED <<phase, offsets, lease, call, reply, stationVars>>
        /\ \A q \in Pages : q # p => written'[q] = written[q]
        /\ phase[p] = "ready"
    BY <1>1, <1>i, WriteEffect
  <2>2. reply[p].result = "none"
    BY <1>i, <2>1 DEF NetInv
  <2>3. \A q \in Pages : reply[q].result # "none" => written'[q] = written[q]
    BY <2>1, <2>2
  <2> QED
    BY <1>i, <2>1, <2>3 DEF ReplyInv, ReplyFits, Granted, Holder
<1>2. ASSUME NEW p \in Pages, Sends(p) PROVE ReplyInv'
  <2>1. /\ UNCHANGED <<written, offsets, lease, reply, stationVars>>
        /\ \A q \in Pages : q # p => Alone(q)
        /\ phase[p] \in {"ready", "idle"}
    BY <1>2, <1>i, SendEffect
  <2>2. reply[p].result = "none"
    BY <1>i, <2>1 DEF NetInv
  <2>3. reply[p].lease = 0 /\ issued # 0
    BY <1>i, <2>2 DEF ReplyInv, ReplyFits, LeaseInv
  <2> QED
    BY <1>i, <2>1, <2>2, <2>3 DEF ReplyInv, ReplyFits, Granted, Holder
<1>3. ASSUME NEW p \in Pages, Receive(p) PROVE ReplyInv'
  <2>1. /\ UNCHANGED stationVars /\ \A q \in Pages : q # p => Untouched(q)
        /\ reply'[p].result = "none" /\ reply'[p].lease = 0
    BY <1>3, <1>i, ReceiveEffect
  <2> QED
    BY <1>i, <2>1, ReplyTaken
<1>4. ASSUME NEW p \in Pages, Reload(p) PROVE ReplyInv'
  <2>1. /\ UNCHANGED stationVars /\ \A q \in Pages : q # p => Untouched(q)
        /\ reply'[p].result = "none" /\ reply'[p].lease = 0
    BY <1>4, <1>i, ReloadEffect
  <2> QED
    BY <1>i, <2>1, ReplyTaken
<1>5. ASSUME NEW p \in Pages, ConnectionLost(p) \/ ConnectionClosed(p)
      PROVE ReplyInv'
  <2>1. /\ UNCHANGED stationVars /\ \A q \in Pages : q # p => Untouched(q)
        /\ reply'[p].result = "none" /\ reply'[p].lease = 0
    BY <1>5, <1>i, DropEffect
  <2> QED
    BY <1>i, <2>1, ReplyTaken
<1>6. ASSUME NEW r \in net, Serve(r) \/ StorageFault(r) \/ ReopenFault(r)
      PROVE ReplyInv'
  <2>e. /\ net' = net \ {r} /\ UNCHANGED pageVars
        /\ \A p \in Pages : p # r.from => reply'[p] = reply[p]
        /\ \A p \in Pages : p = r.from =>
              phase[p] = "calling" /\ r = call[p] /\ reply[p].result = "none"
    BY <1>6, <1>i, ServeEffect
  <2>1. CASE StepAppend(r)
    <3>1. /\ r.op = "chunk" /\ Admitted(r) /\ IsNext(r) /\ Matches(r.kind)
          /\ open /\ r.lease = issued /\ issued' = issued
          /\ stored' = With(stored, r) /\ UNCHANGED <<ckpt, receipt, current>>
          /\ r \in Requests /\ issued # 0
      BY <2>1, <1>i, PageTypes DEF StepAppend, Admitted, LeaseInv
    <3>2. \A p \in Pages : ~Granted(p)
      BY <1>i, <3>1 DEF LeaseInv
    <3>3. \A p \in Pages : Holder(p) =>
             /\ call[p].op = "chunk" /\ r.kind = call[p].kind
             /\ Len(hashed[r.kind]) = offsets[p][r.kind]
      BY <1>i, <3>1, AppendIsCalled
    <3>4. /\ Len(stored'[r.kind]) = Len(hashed[r.kind]) + 1
          /\ Len(With(hashed, r)[r.kind]) = Len(hashed[r.kind]) + 1
      <4>1. Len(With(stored, r)[r.kind]) = Len(stored[r.kind]) + 1
        BY <1>i, ArchiveTypes, <3>1, WithFields
      <4>2. Len(With(hashed, r)[r.kind]) = Len(hashed[r.kind]) + 1
        BY <1>i, ArchiveTypes, <3>1, WithFields
      <4> QED
        BY <3>1, <4>1, <4>2 DEF Matches
    <3>5. \A p \in Pages : p = r.from =>
             /\ reply'[p].lease = 0 /\ call[p].op = "chunk"
             /\ reply'[p].result = "ok" => hashed' = With(hashed, r)
      BY <2>1, <2>e, <3>1 DEF StepAppend, Replied
    <3>6. \A p \in Pages : p # r.from /\ Holder(p) =>
             ~(reply[p].result = "ok" /\ call[p].op = "chunk")
      BY <1>i, PageTypes, ArchiveTypes, <3>1, <3>3 DEF ReplyInv, ReplyFits
    <3>q. ASSUME NEW q \in Pages PROVE ReplyFits(q)'
      <4>1. CASE q = r.from
        BY <2>e, <3>1, <3>3, <3>4, <3>5, <4>1 DEF ReplyFits, Granted, Holder
      <4>2. CASE q # r.from
        BY <1>i, <2>e, <3>1, <3>2, <3>3, <3>6, <4>2
           DEF ReplyInv, ReplyFits, Granted, Holder
      <4> QED
        BY <4>1, <4>2
    <3> QED
      BY <2>e, <3>q DEF ReplyInv, ReplyFits, Granted, Holder
  <2>2. CASE StepNothing(r)
    <3>1. /\ UNCHANGED <<stored, hashed, ckpt, receipt, current, issued>>
          /\ open' => open
          /\ issued # 0
      BY <2>2, <1>i DEF StepNothing, LeaseInv, Admitted
    <3>2. \A p \in Pages : p = r.from =>
             /\ reply'[p].lease = 0
             /\ reply'[p].result = "ok" =>
                   /\ r.op = "chunk" /\ IsLast(r) /\ Matches(r.kind)
      BY <2>2 DEF StepNothing, Replied
    <3>q. ASSUME NEW q \in Pages PROVE ReplyFits(q)'
      <4>1. CASE q = r.from
        <5>1. ASSUME reply'[q].result = "ok", call[q].op = "chunk"
              PROVE  /\ Len(stored[call[q].kind]) = offsets[q][call[q].kind] + 1
                     /\ Len(hashed[call[q].kind]) = offsets[q][call[q].kind] + 1
          <6>1. r = call[q] /\ phase[q] = "calling"
            BY <2>e, <4>1
          <6>2. r.offset = offsets[q][r.kind]
            BY <1>i, <5>1, <6>1 DEF CallInv, CallFits
          <6> QED
            BY <3>2, <4>1, <5>1, <6>1, <6>2 DEF IsLast, Matches
        <5> QED
          BY <2>e, <3>1, <3>2, <4>1, <5>1 DEF ReplyFits, Granted, Holder
      <4>2. CASE q # r.from
        BY <1>i, <2>e, <3>1, <4>2 DEF ReplyInv, ReplyFits, Granted, Holder
      <4> QED
        BY <4>1, <4>2
    <3> QED
      BY <2>e, <3>q DEF ReplyInv, ReplyFits, Granted, Holder
  <2>3. CASE StepPublish(r)
    <3>1. /\ r.op = "checkpoint" /\ open /\ r.lease = issued /\ issued' = issued
          /\ UNCHANGED <<stored, hashed, receipt>> /\ issued # 0
      BY <2>3, <1>i DEF StepPublish, Checkpointable, Admitted, LeaseInv
    <3>2. \A p \in Pages : ~Granted(p)
      BY <1>i, <3>1 DEF LeaseInv
    <3>3. \A p \in Pages : Holder(p) =>
             /\ call[p].op = "checkpoint"
             /\ phase[p] = "failed" \/ (phase[p] = "calling" /\ r.from = p)
      BY <1>i, <3>1 DEF CheckpointInv
    <3>4. \A p \in Pages : p # r.from /\ Holder(p) => reply[p].result # "ok"
      BY <1>i, <3>3 DEF NetInv
    <3>5. \A p \in Pages : p = r.from =>
             /\ reply'[p].lease = 0 /\ call[p].op = "checkpoint"
             /\ reply'[p].result = "ok" => reply'[p].generation = current'
      BY <2>3, <2>e, <3>1 DEF StepPublish, Replied
    <3>q. ASSUME NEW q \in Pages PROVE ReplyFits(q)'
      <4>1. CASE q = r.from
        BY <2>e, <3>1, <3>5, <4>1 DEF ReplyFits, Granted, Holder
      <4>2. CASE q # r.from
        BY <1>i, <2>e, <3>1, <3>2, <3>4, <4>2
           DEF ReplyInv, ReplyFits, Granted, Holder
      <4> QED
        BY <4>1, <4>2
    <3> QED
      BY <2>e, <3>q DEF ReplyInv, ReplyFits, Granted, Holder
  <2>4. CASE StepReopen(r)
    <3>1. /\ issued' = issued + 1 /\ receipt' = receipt /\ r.op = "reopen"
          /\ stored' = ckpt.prefix /\ hashed' = ckpt.prefix
          /\ ckpt'.prefix = ckpt.prefix
      BY <2>4, ConsumedFields DEF StepReopen
    <3>2. \A p \in Pages : /\ ~(Holder(p)')
                           /\ reply[p].lease # issued'
      BY <1>i, PageTypes, <2>e, <3>1 DEF LeaseInv, Holder
    <3>3. ckpt.prefix = Counted(ckpt.state)
      <4>1. ckpt.generation \in 1..(MaxGeneration - 1)
        BY <2>4 DEF StepReopen, Reopenable
      <4>2. ckpt.generation > 0
        BY <4>1, StreamerAssumption
      <4>3. /\ ckpt.prefix["warc"] = ckpt.state /\ ckpt.prefix["cdx"] = <<>>
            /\ ckpt.prefix \in [Kinds -> Seq(Chunks)]
        BY <1>i, ArchiveTypes, <4>2 DEF CheckpointRestorable, Archives
      <4> QED
        BY <4>3 DEF Counted, Kinds
    <3>q. ASSUME NEW q \in Pages PROVE ReplyFits(q)'
      <4>1. CASE q = r.from
        <5>1. /\ reply'[q].result = "ok" /\ reply'[q].generation = current'
              /\ reply'[q].offsets = Lengths(ckpt.prefix)
              /\ reply'[q].state = ckpt.state /\ call[q].op = "reopen"
          BY <2>4, <2>e, <3>1, <4>1 DEF StepReopen
        <5> QED
          BY <2>e, <3>1, <3>2, <3>3, <5>1 DEF ReplyFits
      <4>2. CASE q # r.from
        BY <1>i, <2>e, <3>1, <3>2, <4>2
           DEF ReplyInv, ReplyFits, Granted, Holder
      <4> QED
        BY <4>1, <4>2
    <3> QED
      BY <2>e, <3>q DEF ReplyInv, ReplyFits, Granted, Holder
  <2>5. CASE StepCutBack(r)
    <3>1. /\ UNCHANGED <<hashed, receipt, open, current, issued>> /\ issued # 0
          /\ stored' \in Archives /\ ckpt'.prefix = ckpt.prefix
          /\ \A k \in Kinds : stored'[k] \in {stored[k], ckpt.prefix[k]}
      BY <2>5, <1>i, ConsumedFields DEF StepCutBack, LeaseInv
    <3>2. stored = ckpt.prefix => stored' = stored
      BY <1>i, ArchiveTypes, <3>1 DEF Archives
    <3>3. \A p \in Pages : p = r.from =>
             reply'[p].lease = 0 /\ reply'[p].result = "failed"
      BY <2>5 DEF StepCutBack, Replied
    <3>q. ASSUME NEW q \in Pages PROVE ReplyFits(q)'
      <4>1. CASE q = r.from
        BY <3>1, <3>3, <4>1 DEF ReplyFits, Granted
      <4>2. CASE q # r.from
        <5>1. /\ reply'[q] = reply[q] /\ (Holder(q)' <=> Holder(q))
              /\ (Granted(q)' <=> Granted(q))
          BY <2>e, <3>1, <4>2 DEF Holder, Granted
        <5>2. Granted(q) => stored' = stored
          BY <1>i, <3>2 DEF ReplyInv, ReplyFits
        <5>3. \/ stored'[call[q].kind] = stored[call[q].kind]
              \/ stored'[call[q].kind] = ckpt.prefix[call[q].kind]
          BY <1>i, PageTypes, <3>1
        <5> QED
          BY <1>i, <2>e, <3>1, <5>1, <5>2, <5>3 DEF ReplyInv, ReplyFits
      <4> QED
        BY <4>1, <4>2
    <3> QED
      BY <2>e, <3>q DEF ReplyInv, ReplyFits, Granted, Holder
  <2>6. CASE StepFinalize(r)
    <3>1. /\ r.op = "finalize" /\ Admitted(r) /\ open /\ r.lease = issued
          /\ UNCHANGED <<stored, hashed, ckpt, current, issued>> /\ issued # 0
          /\ ~open' /\ receipt.stage = "none"
      BY <2>6, <1>i DEF StepFinalize, Admitted, LeaseInv, SealedInv
    <3>2. \A p \in Pages : ~Granted(p)
      BY <1>i, <3>1 DEF LeaseInv
    <3>3. \A p \in Pages : p = r.from =>
             /\ reply'[p].lease = 0
             /\ reply'[p].result = "ok" => receipt' = Final /\ Intact
      BY <2>6 DEF StepFinalize, Replied
    <3>q. ASSUME NEW q \in Pages PROVE ReplyFits(q)'
      <4>1. CASE q = r.from
        <5>1. /\ r = call[q] /\ phase[q] = "calling" /\ call[q].op = "finalize"
              /\ Holder(q)
          BY <1>i, CallFields, <2>e, <3>1, <4>1 DEF Holder
        <5>2. ASSUME reply'[q].result = "ok"
              PROVE  receipt'.stage = "final" /\ receipt'.archives = written[q]
          <6>1. hashed = written[q]
            BY <1>i, <3>1, <5>1, AllAccounted DEF CallInv, CallFits
          <6>2. stored = hashed
            BY <1>i, <3>1, <3>3, <4>1, <5>2, IntactFiles
          <6> QED
            BY <3>3, <4>1, <5>2, <6>1, <6>2 DEF Final
        <5> QED
          BY <2>e, <3>1, <3>3, <4>1, <5>1, <5>2 DEF ReplyFits, Granted
      <4>2. CASE q # r.from
        BY <1>i, <2>e, <3>1, <3>2, <4>2
           DEF ReplyInv, ReplyFits, Granted, Holder
      <4> QED
        BY <4>1, <4>2
    <3> QED
      BY <2>e, <3>q DEF ReplyInv, ReplyFits, Granted, Holder
  <2> QED
    BY <1>6, <1>i, <2>1, <2>2, <2>3, <2>4, <2>5, <2>6, ServeCases
       DEF StationStep
<1>7. ASSUME Restart PROVE ReplyInv'
  <2>1. /\ UNCHANGED <<pageVars, stored, hashed, ckpt, receipt, current, issued>>
        /\ ~open'
        /\ \A p \in Pages : \/ reply'[p] = reply[p]
                            \/ reply'[p].result = "none" /\ reply'[p].lease = 0
    BY <1>7, <1>i, RestartEffect
  <2>2. issued # 0
    BY <1>i DEF LeaseInv
  <2> QED
    BY <1>i, <2>1, <2>2 DEF ReplyInv, ReplyFits, Granted, Holder
<1>8. CASE UNCHANGED vars
  BY <1>8, <1>i DEF ReplyInv, ReplyFits, Granted, Holder, vars
<1> QED
  BY <1>1, <1>2, <1>3, <1>4, <1>5, <1>6, <1>7, <1>8, <1>i, NextCases

-----------------------------------------------------------------------------
(* A receipt closes the archive *)

\* No step opens a session beside a receipt.
LEMMA StepSealed == SealedInv /\ [Next]_vars => SealedInv'
<1> SUFFICES ASSUME SealedInv, [Next]_vars PROVE SealedInv'
  OBVIOUS
<1> USE DEF pageVars, stationVars
<1>1. ASSUME NEW p \in Pages,
             \/ AppendRecord(p) \/ BeginFinalize(p)
             \/ \E k \in Kinds : SendChunk(p, k)
             \/ SendCheckpoint(p) \/ SendFinalize(p) \/ SendReopen(p)
             \/ Receive(p) \/ Reload(p) \/ ConnectionLost(p)
             \/ ConnectionClosed(p)
      PROVE  UNCHANGED stationVars
  BY <1>1 DEF AppendRecord, BeginFinalize, SendChunk, SendCheckpoint,
              SendFinalize, SendReopen, Receive, Reload, ConnectionLost,
              ConnectionClosed
<1>2. ASSUME UNCHANGED stationVars PROVE SealedInv'
  BY <1>2 DEF SealedInv
<1>3. ASSUME NEW r \in net, ServeChunk(r) PROVE SealedInv'
  BY <1>3 DEF ServeChunk, SealedInv
<1>4. ASSUME NEW r \in net, ServeCheckpoint(r) PROVE SealedInv'
  BY <1>4 DEF ServeCheckpoint, SealedInv
<1>5. ASSUME NEW r \in net, ServeReopen(r) PROVE SealedInv'
  BY <1>5 DEF ServeReopen, Reopenable, SealedInv
<1>6. ASSUME NEW r \in net, ServeFinalize(r) PROVE SealedInv'
  BY <1>6 DEF ServeFinalize, SealedInv
<1>7. ASSUME NEW r \in net, StorageFault(r) PROVE SealedInv'
  BY <1>7 DEF StorageFault, SealedInv, Admitted
<1>8. ASSUME NEW r \in net, ReopenFault(r) PROVE SealedInv'
  BY <1>8 DEF ReopenFault, SealedInv
<1>9. ASSUME Restart PROVE SealedInv'
  BY <1>9 DEF Restart, SealedInv
<1>10. CASE UNCHANGED vars
  BY <1>10, <1>2 DEF vars
<1> QED
  BY <1>1, <1>2, <1>3, <1>4, <1>5, <1>6, <1>7, <1>8, <1>9, <1>10
     DEF Next, Serve

\* No step changes an archive that has its receipt.
LEMMA StepReceiptStays ==
    ASSUME SealedInv, [Next]_vars, receipt.stage = "final"
    PROVE  UNCHANGED <<receipt, stored, ckpt>>
<1> USE DEF pageVars, stationVars
<1>0. receipt.stage # "none" /\ ~open
  BY DEF SealedInv
<1>1. ASSUME NEW p \in Pages,
             \/ AppendRecord(p) \/ BeginFinalize(p)
             \/ \E k \in Kinds : SendChunk(p, k)
             \/ SendCheckpoint(p) \/ SendFinalize(p) \/ SendReopen(p)
             \/ Receive(p) \/ Reload(p) \/ ConnectionLost(p)
             \/ ConnectionClosed(p)
      PROVE  UNCHANGED <<receipt, stored, ckpt>>
  BY <1>1 DEF AppendRecord, BeginFinalize, SendChunk, SendCheckpoint,
              SendFinalize, SendReopen, Receive, Reload, ConnectionLost,
              ConnectionClosed
<1>2. ASSUME NEW r \in net, Serve(r) \/ StorageFault(r) \/ ReopenFault(r)
      PROVE  UNCHANGED <<receipt, stored, ckpt>>
  BY <1>0, <1>2 DEF Serve, ServeChunk, ServeCheckpoint, ServeReopen,
                    ServeFinalize, StorageFault, ReopenFault, Admitted,
                    Checkpointable, Reopenable
<1>3. ASSUME Restart \/ UNCHANGED vars
      PROVE  UNCHANGED <<receipt, stored, ckpt>>
  BY <1>3 DEF Restart, vars
<1> QED
  BY <1>1, <1>2, <1>3 DEF Next

-----------------------------------------------------------------------------
(* The invariant holds at first, and is kept *)

\* At first one page has the first lease and nothing is written.
LEMMA InitIInv == Init => IInv
<1> SUFFICES ASSUME Init PROVE IInv
  OBVIOUS
<1>1. TypeOK
  BY InitTypeOK
<1>2. PICK starter \in Pages :
        /\ phase = [p \in Pages |-> IF p = starter THEN "ready" ELSE "idle"]
        /\ lease = [p \in Pages |-> IF p = starter THEN 1 ELSE 0]
  BY DEF Init
<1>3. /\ \A p \in Pages : written[p] = Empty /\ offsets[p] = Zero
                          /\ generation[p] = 0 /\ ~closing[p]
                          /\ reply[p] = JustResult("none")
      /\ stored = Empty /\ hashed = Empty
      /\ ckpt = [generation |-> 0, state |-> <<>>, prefix |-> Empty]
      /\ receipt.stage = "none" /\ net = {}
      /\ current = 0 /\ issued = 1
  BY DEF Init
<1>4. /\ JustResult("none").result = "none" /\ JustResult("none").lease = 0
      /\ ckpt.generation = 0 /\ ckpt.prefix = Empty
      /\ "cdx" \in Kinds
      /\ \A k \in Kinds : Empty[k] = <<>> /\ Zero[k] = 0
  BY <1>3, JustResultFields DEF Empty, Zero, Kinds
<1>5. LeaseInv
  BY <1>2, <1>3, <1>4 DEF LeaseInv, Holder, Granted
<1>6. WriteInv
  BY <1>3, <1>4 DEF WriteInv
<1>7. CallInv
  BY <1>2 DEF CallInv, CallFits
<1>8. NetInv /\ ReplyInv
  BY <1>3, <1>4 DEF NetInv, ReplyInv, ReplyFits, Granted
<1>9. StoredInv /\ PrefixInv /\ SessionInv
  BY <1>3, <1>4, PrefixReflexive DEF StoredInv, PrefixInv, SessionInv
<1>10. ChunkInv /\ CheckpointInv
  BY <1>3 DEF ChunkInv, CheckpointInv
<1>11. CheckpointRestorable /\ SealedInv
  BY <1>3, <1>4 DEF CheckpointRestorable, SealedInv
<1>12. GenerationInv
  BY <1>3, StreamerAssumption DEF GenerationInv
<1>13. RefusedInv
  BY <1>3, <1>4 DEF RefusedInv
<1>14. ReceiptIsWhole
  BY <1>2 DEF ReceiptIsWhole
<1> QED
  BY <1>1, <1>5, <1>6, <1>7, <1>8, <1>9, <1>10, <1>11, <1>12, <1>13, <1>14
     DEF IInv

\* Every step keeps it.
LEMMA StepIInv == IInv /\ [Next]_vars => IInv'
<1> SUFFICES ASSUME IInv, [Next]_vars PROVE IInv'
  OBVIOUS
<1>1. TypeOK'
  BY StepTypeOK DEF IInv
<1>2. SealedInv'
  BY StepSealed DEF IInv
<1> QED
  BY <1>1, <1>2, StepLease, StepWrite, StepCall, StepNet, StepReply,
     StepStored, StepPrefix, StepSession, StepChunk, StepCheckpoint,
     StepRestorable, StepGeneration, StepRefused, StepReceiptIsWhole DEF IInv

\* A page that is the owner has the newest lease.
LEMMA OwnerHolds == \A p : Owner(p) => Holder(p)
  BY DEF Owner, Holder

-----------------------------------------------------------------------------
(* Theorems *)

\* Every variable has its type.
THEOREM TypeCorrect == Spec => []TypeOK
<1>1. Init => TypeOK
  BY InitTypeOK
<1>2. TypeOK /\ [Next]_vars => TypeOK'
  BY StepTypeOK
<1> QED
  BY <1>1, <1>2, PTL DEF Spec

\* No session is open beside a receipt, so no call that carries a lease is
\* admitted, and an archive with a receipt is not reopened.
THEOREM ReceiptIsFinal == Spec => ReceiptStays
<1>1. Init => SealedInv
  BY DEF Init, SealedInv
<1>2. SealedInv /\ [Next]_vars => SealedInv'
  BY StepSealed
<1>3. SealedInv /\ [Next]_vars =>
        [receipt.stage = "final" => UNCHANGED <<receipt, stored, ckpt>>]_vars
  BY StepReceiptStays
<1> QED
  BY <1>1, <1>2, <1>3, PTL DEF Spec, ReceiptStays

\* The inductive invariant holds in every reachable state.
THEOREM Invariance == Spec => []IInv
  BY InitIInv, StepIInv, PTL DEF Spec

\* What the owner wrote is stored once and in order, whatever requests were
\* lost, repeated or served late.
THEOREM StoredExactlyOnce == Spec => []ExactlyOnce
<1>1. IInv => ExactlyOnce
  BY OwnerHolds DEF IInv, StoredInv, ExactlyOnce
<1> QED
  BY <1>1, Invariance, PTL

\* Every checkpoint that can be reopened is one restoreState accepts.
THEOREM CheckpointsRestorable == Spec => []CheckpointRestorable
<1>1. IInv => CheckpointRestorable
  BY DEF IInv
<1> QED
  BY <1>1, Invariance, PTL

\* A page that owns an open session is never refused before its last
\* generation.
THEOREM OwnersNotRefused == Spec => []RefusalsAreFencing
<1>1. IInv => RefusalsAreFencing
  BY OwnerHolds DEF IInv, RefusedInv, RefusalsAreFencing
<1> QED
  BY <1>1, Invariance, PTL

\* A finished page wrote all of what the receipt states.
THEOREM FinishedIsWhole == Spec => []ReceiptIsWhole
<1>1. IInv => ReceiptIsWhole
  BY DEF IInv
<1> QED
  BY <1>1, Invariance, PTL
=============================================================================
