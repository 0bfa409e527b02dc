------------------------- MODULE DocumentCatalogue -------------------------
(***************************************************************************)
(* The SQLite document catalogue and its search index                      *)
(* (portable/document_catalogue.py, portable/document_search.py).          *)
(*                                                                         *)
(* Every operation is one transaction under SQLite's write reservation     *)
(* (BEGIN IMMEDIATE), so it is one action, the effects of the schema's     *)
(* triggers included; only SearchIndex.add is two, the policy it reads and *)
(* the rows it writes, because that order is what its comment is about.    *)
(* Tables that are written together are one variable: an acquisition and   *)
(* its change receipt, with which revisions and content objects come and   *)
(* stay (all five are immutable).  A source is named by the URL it was     *)
(* first registered under (source_identity is injective), a revision by    *)
(* its source and content, a derivative by its revision and the extraction *)
(* result it stores.  MIME types, titles, reasons and texts are left out,  *)
(* and so are rows of releases that had no such tables.                    *)
(***************************************************************************)
EXTENDS Naturals, Sequences, FiniteSets

CONSTANTS Urls,            \* URLs documents are registered under
          Contents,        \* what a URL can be found to hold
          Results,         \* extraction results
          Usable,          \* those with status complete or partial and text
          Given,           \* the handling labels that callers give
          Times,           \* capture times and retention deadlines
          MaxAcquisitions, \* bound: registrations
          MaxEvents,       \* bound: policy operations
          None

Labels == {"public", "unknown", "restricted", "quarantined", "revoked"}

ASSUME CatalogueAssumption ==
    /\ Usable \subseteq Results
    /\ Given \subseteq Labels
    /\ Times \subseteq Nat
    /\ None \notin Urls /\ None \notin Labels /\ None \notin Times
    /\ None \notin [source : Urls, content : Contents]

VARIABLES handling,   \* documents.handling by source; None: no such source
          flagged,    \* sources whose flags_json is not []
          policy,     \* source_policy: the deadline and the hold, by source
          removed,    \* sources with source_policy.removed = 1
          head,       \* the urls table: source, revision and last_seen
          receipts,   \* acquisitions and change_receipts, in order of their id
          derived,    \* derivatives.handling; None: no such derivative
          index,      \* derivatives with a row in text_index
          events,     \* handling_events
          adding,     \* the add() between its reads and its writes
          clock       \* time.time()

vars == <<handling, flagged, policy, removed, head, receipts, derived, index,
          events, adding, clock>>

Revision == [source : Urls, content : Contents]
Derivative == [revision : Revision, result : Results]
NoHead == [source |-> None, revision |-> None, seen |-> None]
NoAdd == [derivative |-> None, label |-> None, locked |-> FALSE]

(* ---- what the queries select ------------------------------------------ *)

Sources == {s \in Urls : handling[s] # None}
Revisions == {receipts[i].revision : i \in DOMAIN receipts}
OfSource(s) == {d \in Derivative : d.revision.source = s}
OfRevision(r) == {d \in Derivative : d.revision = r}
Stored(D) == {d \in D : derived[d] # None}

RevisionEligible(r) ==
    /\ handling[r.source] = "public"
    /\ r.source \notin flagged \cup removed
    /\ \E i \in DOMAIN receipts : receipts[i].revision = r
    /\ \A i \in DOMAIN receipts :
           receipts[i].revision = r => receipts[i].label = "public"
    /\ \A d \in Stored(OfRevision(r)) : derived[d] = "public"

Eligible(d) ==
    /\ derived[d] = "public"
    /\ d.result \in Usable
    /\ RevisionEligible(d.revision)

(* What search, compare and export return, and export_original.            *)
Hits == {d \in index : Eligible(d)}
Exports == {r \in Revisions : RevisionEligible(r)}

(* ---- transactions and triggers ---------------------------------------- *)

Free == ~adding.locked

(* An UPDATE of the handling of the sources S, with what the triggers      *)
(* propagate_source_handling and invalidate_search_source do.              *)
Relabelled(dv, S, h) ==
    [d \in Derivative |-> IF /\ d.revision.source \in S
                             /\ h[d.revision.source] # "public"
                             /\ dv[d] # None
                          THEN h[d.revision.source] ELSE dv[d]]

(* Mutant: a change of handling leaves the search rows.                   *)
MutUncached(ix, S, h) == ix

Uncached(ix, S, h) ==
    {d \in ix : ~ (d.revision.source \in S /\ h[d.revision.source] # "public")}

SetHandlingOf(s, label) ==
    /\ handling' = [handling EXCEPT ![s] = label]
    /\ derived' = Relabelled(derived, {s}, handling')
    /\ index' = Uncached(index, {s}, handling')

(* ---- register ---------------------------------------------------------- *)

SourceOf(u, from) ==
    IF from # None THEN head[from].source
    ELSE IF head[u] # NoHead THEN head[u].source ELSE u

Baseline(u, from) ==
    IF head[u] # NoHead \/ from = None THEN head[u] ELSE head[from]

Receipt(u, from, c, label, now) ==
    [revision   |-> [source |-> SourceOf(u, from), content |-> c],
     url        |-> u,
     movedFrom  |-> from,
     label      |-> label,
     acquired   |-> now,
     before     |-> Baseline(u, from).revision,
     advances   |-> head[u] = NoHead \/ now >= head[u].seen,
     duplicate  |-> \E r \in Revisions : r.content = c]

(* Mutant: a tie keeps the old head.                                      *)
MutLater(old, new) ==
    IF old = NoHead \/ new.seen > old.seen THEN new ELSE old

(* urls: ON CONFLICT keeps the later head, a tie goes to the new one.      *)
Later(old, new) ==
    IF old = NoHead \/ new.seen >= old.seen THEN new ELSE old

(* The trigger restrict_reacquisition, after the source's row is there.    *)
Restricted(dv, r, label, h) ==
    LET all == IF h[r.source] # handling[r.source]
               THEN Relabelled(dv, {r.source}, h) ELSE dv
    IN  [d \in Derivative |->
             IF d.revision = r /\ label # "public" /\ all[d] # None
             THEN h[r.source] ELSE all[d]]

(* A move needs a known origin and a destination that is new or of the same *)
(* source; a withdrawn source takes no acquisition.                        *)
Registrable(u, from) ==
    /\ from # None =>
           /\ head[from] # NoHead
           /\ head[u] # NoHead => head[u].source = head[from].source
    /\ SourceOf(u, from) \notin removed

Register(u, from, c, label, now) ==
    LET s == SourceOf(u, from)
        receipt == Receipt(u, from, c, label, now)
        r == receipt.revision
    IN  /\ Free /\ Len(receipts) < MaxAcquisitions
        /\ Registrable(u, from)
        /\ handling' = [handling EXCEPT
               ![s] = IF @ \in {None, "public"} THEN label ELSE @]
        /\ derived' = Restricted(derived, r, label, handling')
        /\ index' = IF label = "public" THEN index
                    ELSE {d \in index : /\ d.revision # r
                                        /\ \/ handling[s] = handling'[s]
                                           \/ d.revision.source # s}
        /\ head' = [head EXCEPT
               ![u] = Later(@, [source |-> s, revision |-> r, seen |-> now])]
        /\ receipts' = Append(receipts, receipt)
        /\ UNCHANGED <<flagged, policy, removed, events, adding, clock>>

(* ---- policy operations -------------------------------------------------- *)

PolicyChange(s) ==
    /\ Free /\ Len(events) < MaxEvents
    /\ s \in Sources \ removed

Event(s, action, details) ==
    events' = Append(events, [source |-> s, action |-> action, details |-> details])

(* Mutant: the refusal of "public" for a restricted source is missing.    *)
MutSetHandling(s, label) ==
    /\ PolicyChange(s)
    /\ SetHandlingOf(s, label)
    /\ Event(s, "handling", <<handling[s], label>>)
    /\ UNCHANGED <<flagged, policy, removed, head, receipts, adding, clock>>

SetHandling(s, label) ==
    /\ PolicyChange(s)
    /\ label = "public" => handling[s] = "public"
    /\ SetHandlingOf(s, label)
    /\ Event(s, "handling", <<handling[s], label>>)
    /\ UNCHANGED <<flagged, policy, removed, head, receipts, adding, clock>>

FlagSource(s) ==
    /\ PolicyChange(s)
    /\ flagged' = flagged \cup {s}
    /\ SetHandlingOf(s, "quarantined")
    /\ Event(s, "flag", <<>>)
    /\ UNCHANGED <<policy, removed, head, receipts, adding, clock>>

(* An omitted field keeps its value: that is the choice of the old one.    *)
SetRetention(s, until, hold) ==
    LET new == [until |-> until, hold |-> hold]
    IN  /\ PolicyChange(s)
        /\ policy' = [policy EXCEPT ![s] = new]
        /\ Event(s, "retention", <<policy[s], new>>)
        /\ UNCHANGED <<handling, flagged, removed, head, receipts, derived,
                       index, adding, clock>>

RetentionActive(s) == policy[s].until # None /\ policy[s].until > clock

RemoveSource(s) ==
    /\ PolicyChange(s)
    /\ ~policy[s].hold
    /\ ~RetentionActive(s)
    /\ removed' = removed \cup {s}
    /\ handling' = [handling EXCEPT ![s] = "revoked"]
    /\ derived' = [d \in Derivative |->
                       IF d.revision.source = s THEN None ELSE derived[d]]
    /\ index' = index \ OfSource(s)
    /\ Event(s, "withdrawal", Cardinality(Stored(OfSource(s))))
    /\ UNCHANGED <<flagged, policy, head, receipts, adding, clock>>

(* ---- SearchIndex.add ---------------------------------------------------- *)

(* The label of a new derivative: the caller's or the source's, unless the *)
(* source or another derivative of the revision is restricted.             *)
LabelFor(r, asked) ==
    LET found == {derived[d] : d \in Stored(OfRevision(r))} \ {"public"}
    IN  IF found # {} THEN found
        ELSE IF handling[r.source] # "public" \/ asked = None
        THEN {handling[r.source]} ELSE {asked}

(* Mutant: add reads the labels before BEGIN IMMEDIATE.                   *)
MutAddReads(d, asked) ==
    /\ Free /\ adding = NoAdd
    /\ d.revision \in Revisions
    /\ d.revision.source \notin removed
    /\ \E label \in LabelFor(d.revision, asked) :
           adding' = [derivative |-> d, label |-> label, locked |-> FALSE]
    /\ UNCHANGED <<handling, flagged, policy, removed, head, receipts, derived,
                   index, events, clock>>

AddReads(d, asked) ==
    /\ Free /\ adding = NoAdd
    /\ d.revision \in Revisions
    /\ d.revision.source \notin removed
    /\ \E label \in LabelFor(d.revision, asked) :
           adding' = [derivative |-> d, label |-> label, locked |-> TRUE]
    /\ UNCHANGED <<handling, flagged, policy, removed, head, receipts, derived,
                   index, events, clock>>

(* What the triggers invalidate_search_derivative_insert and _update leave. *)
Kept(ix, d, label) ==
    IF label = "public" THEN ix \ {d} ELSE ix \ OfRevision(d.revision)

AddWrites ==
    LET d == adding.derivative
        label == IF derived[d] \in {None, "public"} THEN adding.label
                 ELSE derived[d]
    IN  /\ adding # NoAdd
        /\ derived' = [derived EXCEPT ![d] = label]
        /\ UNCHANGED <<handling, flagged, policy, removed, head, receipts,
                       events, clock>>
        /\ index' = Kept(index, d, label) \cup {x \in {d} : Eligible(x)'}
        /\ adding' = NoAdd

(* The process ends or the extraction is refused: the transaction rolls    *)
(* back.                                                                   *)
AddFails ==
    /\ adding # NoAdd
    /\ adding' = NoAdd
    /\ UNCHANGED <<handling, flagged, policy, removed, head, receipts, derived,
                   index, events, clock>>

(* ---- opening the catalogue and the index -------------------------------- *)

(* The latest nonpublic label a source was acquired with.                  *)
Observed(s) ==
    {i \in DOMAIN receipts : /\ receipts[i].revision.source = s
                             /\ receipts[i].label # "public"}
LastObserved(s) ==
    CHOOSE i \in Observed(s) : \A j \in Observed(s) :
        \/ receipts[j].acquired < receipts[i].acquired
        \/ receipts[j].acquired = receipts[i].acquired /\ j <= i

Upgraded(s) ==
    IF s \in flagged /\ handling[s] \notin {"quarantined", "revoked"}
    THEN "quarantined"
    ELSE IF handling[s] = "public" /\ Observed(s) # {}
    THEN receipts[LastObserved(s)].label
    ELSE handling[s]

Reopen ==
    /\ Free
    /\ handling' = [s \in Urls |-> Upgraded(s)]
    /\ LET changed == {s \in Urls : handling'[s] # handling[s]}
           all == Relabelled(derived, changed, handling')
       IN  derived' = [d \in Derivative |->
                           IF all[d] = "public" THEN handling'[d.revision.source]
                           ELSE all[d]]
    /\ UNCHANGED <<flagged, policy, removed, head, receipts, events, adding, clock>>
    /\ index' = {d \in index : Eligible(d)'}

Tick ==
    /\ \E t \in Times : t > clock /\ clock' = t
    /\ UNCHANGED <<handling, flagged, policy, removed, head, receipts, derived,
                   index, events, adding>>

(* ------------------------------------------------------------------------ *)

Init ==
    /\ handling = [s \in Urls |-> None]
    /\ flagged = {} /\ removed = {}
    /\ policy = [s \in Urls |-> [until |-> None, hold |-> FALSE]]
    /\ head = [u \in Urls |-> NoHead]
    /\ receipts = <<>> /\ events = <<>>
    /\ derived = [d \in Derivative |-> None]
    /\ index = {}
    /\ adding = NoAdd
    /\ clock = 0

Next ==
    \/ \E u \in Urls, from \in Urls \cup {None}, c \in Contents,
          label \in Given, now \in Times : Register(u, from, c, label, now)
    \/ \E s \in Urls :
           \/ \E label \in Given : SetHandling(s, label)
           \/ FlagSource(s)
           \/ \E until \in Times \cup {None}, hold \in BOOLEAN :
                  SetRetention(s, until, hold)
           \/ RemoveSource(s)
    \/ \E d \in Derivative, asked \in Given \cup {None} : AddReads(d, asked)
    \/ AddWrites
    \/ AddFails
    \/ Reopen
    \/ Tick

Spec == Init /\ [][Next]_vars

(* ---- properties ---------------------------------------------------------- *)

(* Every table holds rows of its kind, a source exists exactly when it has *)
(* been acquired, and the stored derivatives are of acquired revisions.    *)
TypeOK ==
    /\ handling \in [Urls -> Labels \cup {None}]
    /\ flagged \subseteq Sources /\ removed \subseteq Sources
    /\ policy \in [Urls -> [until : Times \cup {None}, hold : BOOLEAN]]
    /\ head \in [Urls -> [source : Urls, revision : Revision, seen : Times]
                         \cup {NoHead}]
    /\ Sources = {r.source : r \in Revisions}
    /\ derived \in [Derivative -> Labels \cup {None}]
    /\ \A d \in Derivative : derived[d] # None => d.revision \in Revisions
    /\ index \subseteq Stored(Derivative)
    /\ clock \in Nat

(* The text index holds exactly the derivatives that may be searched: no   *)
(* restriction, flag, withdrawal or refused label leaves a row behind, and *)
(* none of the invalidating triggers takes a row that may still be found.  *)
IndexIsExact == index = Hits /\ Hits = {d \in Derivative : Eligible(d)}

(* A nonpublic source has no derivative with a public label, whichever     *)
(* restriction and whichever add() came first.                             *)
DerivativesFollowTheSource ==
    \A d \in Derivative : derived[d] = "public" =>
        handling[d.revision.source] = "public"

(* A revision that was denied is never served again: nothing that adds     *)
(* text, reacquires public bytes, edits retention or reopens the catalogue *)
(* clears a label, a flag, an observation or a withdrawal.                 *)
DenialIsFinal ==
    [][\A r \in Revisions \ Exports : r \notin Exports']_vars

(* A withdrawn source keeps no derivative, is never acquired again and     *)
(* stays withdrawn; the receipts of what was acquired stay as they were.   *)
WithdrawalIsFinal ==
    [][\A s \in removed :
          /\ s \in removed'
          /\ Stored(OfSource(s))' = {}
          /\ \A i \in DOMAIN receipts' \ DOMAIN receipts :
                 receipts'[i].revision.source # s]_vars

(* A legal hold or a deadline in the future keeps a source from withdrawal. *)
HoldsAreKept ==
    [][\A s \in removed' \ removed :
          ~policy[s].hold /\ (policy[s].until = None \/ policy[s].until <= clock)]_vars

(* The acquisition of u that counts as its head among the first n: the     *)
(* latest in time, the last recorded of those with the same time.          *)
LatestOf(u, n) ==
    LET A == {i \in 1..n : receipts[i].url = u}
        newest == {i \in A : \A j \in A :
                       \/ receipts[j].acquired < receipts[i].acquired
                       \/ receipts[j].acquired = receipts[i].acquired /\ j <= i}
    IN  {receipts[i].revision : i \in newest}

(* The head of every URL is its latest capture, whatever the order captures *)
(* were registered in, and every receipt compares with the head that its   *)
(* transaction found: the destination's, or the origin's for a new URL.    *)
ReceiptsExplainTheHeads ==
    /\ \A u \in Urls : {head[u].revision} \ {None} = LatestOf(u, Len(receipts))
    /\ \A i \in DOMAIN receipts :
           LET own == LatestOf(receipts[i].url, i - 1)
               origin == LatestOf(receipts[i].movedFrom, i - 1)
           IN  {receipts[i].before} \ {None} = IF own # {} THEN own ELSE origin

(* All the acquisitions of one URL belong to one source, also when the URL *)
(* was declared moved before or after it was first captured.               *)
OneSourcePerUrl ==
    \A i, j \in DOMAIN receipts :
        receipts[i].url = receipts[j].url =>
            receipts[i].revision.source = receipts[j].revision.source

(* The handling history explains the policy: the last retention event of a *)
(* source says its deadline and hold, a source is flagged exactly when an  *)
(* event says so, and withdrawn exactly when its last event says so.       *)
EventsOf(s, action) ==
    {i \in DOMAIN events : events[i].source = s /\ events[i].action = action}
HistoryExplainsThePolicy ==
    \A s \in Urls :
        /\ s \in flagged <=> EventsOf(s, "flag") # {}
        /\ s \in removed <=> EventsOf(s, "withdrawal") # {}
        /\ \A i \in EventsOf(s, "withdrawal"), j \in DOMAIN events :
               events[j].source = s => j <= i
        /\ \A i \in EventsOf(s, "retention") :
               (\A j \in EventsOf(s, "retention") : j <= i) =>
                   events[i].details[2] = policy[s]

(* docs/DOCUMENT_LIFECYCLE.md says that flagged sources are quarantined;    *)
(* set_handling takes a flagged source out of quarantine until the next    *)
(* time the catalogue is opened.                                           *)
FlaggedIsQuarantined ==
    \A s \in flagged : handling[s] \in {"quarantined", "revoked"}
=============================================================================
