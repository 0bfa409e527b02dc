----------------------- MODULE PortableProofs -----------------------
(* Theorems about two parts of the portable station, for all values of     *)
(* their constants: DocumentCatalogue, with the inductive invariant IInv,  *)
(* and then ModelCache and NativeBundle, with BundleInv and Roomy.         *)
EXTENDS DocumentCatalogue, NativeBundle, WellFoundedInduction, FiniteSetTheorems, TLAPS

-----------------------------------------------------------------------------
(* The inductive invariant *)

Receipts == [revision : Revision, url : Urls, movedFrom : Urls \cup {None},
             label : Labels, acquired : Times, before : Revision \cup {None},
             advances : BOOLEAN, duplicate : BOOLEAN]

\* Of the restricted acquisitions of a source one is the latest, so that an
\* upgrade has a label to take.
LatestInv ==
    \A s \in Urls : Observed(s) # {} =>
        \E i \in Observed(s) : \A j \in Observed(s) :
            \/ receipts[j].acquired < receipts[i].acquired
            \/ receipts[j].acquired = receipts[i].acquired /\ j <= i

\* What add() read stays true until it writes: it has the write reservation.
AddInv ==
    adding # NoAdd =>
        /\ adding.locked
        /\ adding.derivative \in Derivative
        /\ adding.derivative.revision \in Revisions
        /\ adding.derivative.revision.source \notin removed
        /\ adding.label \in Labels
        /\ adding.label = "public" =>
              /\ handling[adding.derivative.revision.source] = "public"
              /\ \A d \in Stored(OfRevision(adding.derivative.revision)) :
                    derived[d] = "public"

\* The head of a URL is of the source that its acquisitions are of.
HeadInv ==
    \A i \in DOMAIN receipts :
        /\ head[receipts[i].url] # NoHead
        /\ head[receipts[i].url].source = receipts[i].revision.source

\* A withdrawn source has no derivatives.
RemovedInv ==
    \A d \in Derivative : d.revision.source \in removed => derived[d] = None

IndexInv == index = {d \in Derivative : Eligible(d)}

IInv ==
    /\ TypeOK
    /\ receipts \in Seq(Receipts)
    /\ LatestInv
    /\ AddInv
    /\ HeadInv
    /\ RemovedInv
    /\ DerivativesFollowTheSource
    /\ IndexInv

-----------------------------------------------------------------------------
(* What the operators say, one derivative at a time *)

\* "public" is a label, and None is none.
LEMMA PublicIsLabel ==
    "public" \in Labels /\ "quarantined" \in Labels /\ "revoked" \in Labels
    /\ None \notin Labels /\ None # "public" /\ None \notin Urls
  BY CatalogueAssumption DEF Labels

\* A derivative is of a revision, and that of a source.
LEMMA DerivativeFields ==
    \A d \in Derivative : /\ d.revision \in Revision
                          /\ d.revision.source \in Urls
                          /\ d.revision.content \in Contents
                          /\ d.result \in Results
  BY DEF Derivative, Revision

\* The receipts are receipts.
LEMMA ReceiptAt ==
    ASSUME receipts \in Seq(Receipts), NEW i \in DOMAIN receipts
    PROVE  /\ receipts[i].revision \in Revision /\ receipts[i].revision.source \in Urls
           /\ receipts[i].url \in Urls /\ receipts[i].label \in Labels
           /\ receipts[i].acquired \in Nat /\ i \in 1..Len(receipts)
<1>1. receipts[i] \in Receipts /\ i \in 1..Len(receipts)
  OBVIOUS
<1>2. Times \subseteq Nat
  BY CatalogueAssumption
<1> QED
  BY <1>1, <1>2 DEF Receipts, Revision

\* The source of a derivative that is stored exists.
LEMMA SourceExists ==
    ASSUME TypeOK, NEW d \in Derivative, derived[d] # None
    PROVE  handling[d.revision.source] \in Labels
<1>1. d.revision \in Revisions
  BY DEF TypeOK
<1>2. d.revision.source \in Sources
  BY <1>1 DEF TypeOK
<1> QED
  BY <1>2 DEF TypeOK, Sources

\* The source of an acquired revision exists.
LEMMA AcquiredExists ==
    ASSUME TypeOK, NEW r \in Revisions
    PROVE  r.source \in Urls /\ handling[r.source] \in Labels
<1>1. r.source \in Sources
  BY DEF TypeOK
<1> QED
  BY <1>1 DEF TypeOK, Sources

\* The labels that the trigger of an UPDATE of the handling leaves.
LEMMA RelabelledValue ==
    ASSUME NEW dv, NEW S, NEW h, NEW d \in Derivative
    PROVE  Relabelled(dv, S, h)[d] =
               IF d.revision.source \in S /\ h[d.revision.source] # "public"
                  /\ dv[d] # None
               THEN h[d.revision.source] ELSE dv[d]
  BY DEF Relabelled

\* What an UPDATE of the handling of one source does.
LEMMA SetHandlingValues ==
    ASSUME TypeOK, NEW s \in Urls, NEW label \in Labels, SetHandlingOf(s, label)
    PROVE  /\ handling' \in [Urls -> Labels \cup {None}]
           /\ handling'[s] = label
           /\ \A u \in Urls \ {s} : handling'[u] = handling[u]
           /\ \A d \in Derivative : derived'[d] =
                  IF d.revision.source = s /\ label # "public" /\ derived[d] # None
                  THEN label ELSE derived[d]
           /\ \A d \in index : (d \in index') <=>
                  ~ (d.revision.source = s /\ label # "public")
           /\ index' \subseteq index
<1>1. /\ handling' \in [Urls -> Labels \cup {None}]
      /\ handling'[s] = label
      /\ \A u \in Urls \ {s} : handling'[u] = handling[u]
  BY DEF SetHandlingOf, TypeOK
<1>2. ASSUME NEW d \in Derivative
      PROVE  derived'[d] =
                 IF d.revision.source = s /\ label # "public" /\ derived[d] # None
                 THEN label ELSE derived[d]
  <2>1. derived'[d] = Relabelled(derived, {s}, handling')[d]
    BY DEF SetHandlingOf
  <2> QED
    BY <1>1, <2>1, RelabelledValue
<1>3. /\ \A d \in index : (d \in index') <=>
             ~ (d.revision.source = s /\ label # "public")
      /\ index' \subseteq index
  BY <1>1 DEF SetHandlingOf, Uncached
<1> QED
  BY <1>1, <1>2, <1>3

\* A derivative may be found when it, its source, the acquisitions of its
\* revision and every other derivative of it are public.
LEMMA EligibleValue ==
    ASSUME NEW d \in Derivative
    PROVE  Eligible(d) <=>
              /\ derived[d] = "public"
              /\ d.result \in Usable
              /\ handling[d.revision.source] = "public"
              /\ d.revision.source \notin flagged
              /\ d.revision.source \notin removed
              /\ \E i \in DOMAIN receipts : receipts[i].revision = d.revision
              /\ \A i \in DOMAIN receipts :
                     receipts[i].revision = d.revision => receipts[i].label = "public"
              /\ \A x \in Derivative :
                     x.revision = d.revision /\ derived[x] # None => derived[x] = "public"
  BY DEF Eligible, RevisionEligible, Stored, OfRevision

\* The label an upgrade takes is one that was observed.
LEMMA LastObservedIsObserved ==
    ASSUME LatestInv, NEW s \in Urls, Observed(s) # {}
    PROVE  LastObserved(s) \in Observed(s)
  BY DEF LatestInv, LastObserved

\* What an upgrade makes of a handling: it makes nothing public.
LEMMA UpgradedValue ==
    ASSUME TypeOK, receipts \in Seq(Receipts), LatestInv, NEW s \in Urls
    PROVE  /\ Upgraded(s) \in Labels \cup {None}
           /\ Upgraded(s) = None <=> handling[s] = None
           /\ Upgraded(s) = "public" => handling[s] = "public"
<1>1. CASE s \in flagged /\ handling[s] \notin {"quarantined", "revoked"}
  <2>1. s \in Sources
    BY <1>1 DEF TypeOK
  <2> QED
    BY <1>1, <2>1, PublicIsLabel DEF Upgraded, Sources
<1>2. CASE ~(s \in flagged /\ handling[s] \notin {"quarantined", "revoked"})
           /\ handling[s] = "public" /\ Observed(s) # {}
  <2>1. LastObserved(s) \in Observed(s)
    BY <1>2, LastObservedIsObserved
  <2>2. /\ LastObserved(s) \in DOMAIN receipts
        /\ receipts[LastObserved(s)].label # "public"
    BY <2>1 DEF Observed
  <2>3. receipts[LastObserved(s)].label \in Labels
    BY <2>2, ReceiptAt
  <2> QED
    BY <1>2, <2>2, <2>3, PublicIsLabel DEF Upgraded
<1>3. CASE ~(s \in flagged /\ handling[s] \notin {"quarantined", "revoked"})
           /\ ~(handling[s] = "public" /\ Observed(s) # {})
  BY <1>3 DEF Upgraded, TypeOK
<1> QED
  BY <1>1, <1>2, <1>3

\* What reopening does: no label becomes public.
LEMMA ReopenValues ==
    ASSUME TypeOK, receipts \in Seq(Receipts), LatestInv, Reopen
    PROVE  /\ handling' \in [Urls -> Labels \cup {None}]
           /\ \A s \in Urls : /\ handling'[s] = None <=> handling[s] = None
                              /\ handling'[s] = "public" => handling[s] = "public"
           /\ \A d \in Derivative :
                  /\ derived'[d] \in Labels \cup {None}
                  /\ derived'[d] = None <=> derived[d] = None
                  /\ derived'[d] = "public" =>
                        derived[d] = "public" /\ handling'[d.revision.source] = "public"
<1>1. \A s \in Urls : handling'[s] = Upgraded(s)
  BY DEF Reopen
<1>2. handling' \in [Urls -> Labels \cup {None}]
  BY UpgradedValue DEF Reopen
<1>3. \A s \in Urls : /\ handling'[s] = None <=> handling[s] = None
                      /\ handling'[s] = "public" => handling[s] = "public"
  BY <1>1, UpgradedValue
<1> DEFINE changed == {s \in Urls : handling'[s] # handling[s]}
           all == Relabelled(derived, changed, handling')
<1>4. ASSUME NEW d \in Derivative
      PROVE  /\ derived'[d] \in Labels \cup {None}
             /\ derived'[d] = None <=> derived[d] = None
             /\ derived'[d] = "public" =>
                   derived[d] = "public" /\ handling'[d.revision.source] = "public"
  <2>1. derived'[d] = IF all[d] = "public" THEN handling'[d.revision.source] ELSE all[d]
    BY DEF Reopen
  <2>2. all[d] = IF d.revision.source \in changed
                    /\ handling'[d.revision.source] # "public" /\ derived[d] # None
                 THEN handling'[d.revision.source] ELSE derived[d]
    BY RelabelledValue
  <2>3. derived[d] \in Labels \cup {None} /\ d.revision.source \in Urls
    BY DerivativeFields DEF TypeOK
  <2>4. derived[d] # None => handling'[d.revision.source] \in Labels
    <3> SUFFICES ASSUME derived[d] # None
                 PROVE  handling'[d.revision.source] \in Labels
      OBVIOUS
    <3>1. handling[d.revision.source] # None
      BY SourceExists, PublicIsLabel
    <3> QED
      <4>1. \A s \in Urls : handling'[s] \in Labels \cup {None}
        BY <1>2
      <4>2. \A s \in Urls : handling[s] # None => handling'[s] # None
        BY <1>3
      <4> HIDE <1>2, <1>3
      <4> QED
        BY <2>3, <3>1, <4>1, <4>2
  <2> QED
    BY <2>1, <2>2, <2>3, <2>4, PublicIsLabel
<1> QED
  BY <1>2, <1>3, <1>4

\* What register does: a receipt, and nothing that was denied becomes public.
LEMMA RegisterValues ==
    ASSUME TypeOK, receipts \in Seq(Receipts), HeadInv,
           NEW u \in Urls, NEW from \in Urls \cup {None}, NEW c \in Contents,
           NEW label \in Given, NEW now \in Times, Register(u, from, c, label, now)
    PROVE  LET s == SourceOf(u, from)
               r == [source |-> s, content |-> c]
               n == Len(receipts) + 1
           IN  /\ s \in Urls /\ s \notin removed
               /\ r \in Revision /\ label \in Labels
               /\ handling' \in [Urls -> Labels \cup {None}]
               /\ handling'[s] = IF handling[s] \in {None, "public"} THEN label ELSE handling[s]
               /\ \A v \in Urls \ {s} : handling'[v] = handling[v]
               /\ receipts' \in Seq(Receipts) /\ DOMAIN receipts' = 1..n
               /\ DOMAIN receipts = 1..(n - 1)
               /\ \A i \in 1..(n - 1) : receipts'[i] = receipts[i]
               /\ receipts'[n].revision = r /\ receipts'[n].url = u
               /\ receipts'[n].label = label /\ receipts'[n].acquired = now
               /\ head' \in [Urls -> [source : Urls, revision : Revision, seen : Times]
                                      \cup {NoHead}]
               /\ head'[u] # NoHead /\ head'[u].source = s
               /\ \A v \in Urls \ {u} : head'[v] = head[v]
               /\ head[u] # NoHead => head[u].source = s
               /\ \A d \in Derivative : derived'[d] =
                      IF derived[d] # None /\ label # "public"
                         /\ \/ d.revision = r
                            \/ d.revision.source = s /\ handling'[s] # handling[s]
                      THEN handling'[s] ELSE derived[d]
<1> DEFINE s == SourceOf(u, from)
           r == [source |-> s, content |-> c]
           n == Len(receipts) + 1
           R == Receipt(u, from, c, label, now)
           H == [source : Urls, revision : Revision, seen : Times]
<1>0. \A v \in Urls : head[v] = NoHead \/ head[v] \in H
  BY DEF TypeOK
<1>1. s \in Urls /\ s \notin removed /\ (head[u] # NoHead => head[u].source = s)
  <2>1. CASE from = None
    BY <1>0, <2>1 DEF Register, Registrable, SourceOf
  <2>2. CASE from # None
    BY <1>0, <2>2 DEF Register, Registrable, SourceOf
  <2> QED
    BY <2>1, <2>2
<1>2. r \in Revision /\ label \in Labels
  BY <1>1, CatalogueAssumption DEF Revision
<1>3. R.revision = r /\ R.url = u /\ R.label = label /\ R.acquired = now
  BY DEF Receipt
<1>4. R \in Receipts
  <2>1. Baseline(u, from).revision \in Revision \cup {None}
    BY <1>0 DEF Baseline, NoHead
  <2>2. /\ (head[u] = NoHead \/ now >= head[u].seen) \in BOOLEAN
        /\ (\E q \in Revisions : q.content = c) \in BOOLEAN
    OBVIOUS
  <2> QED
    BY <1>1, <1>2, <2>1, <2>2 DEF Receipt, Receipts
<1>5. receipts' = Append(receipts, R)
  BY DEF Register
<1>6. /\ receipts' \in Seq(Receipts) /\ DOMAIN receipts' = 1..n
      /\ DOMAIN receipts = 1..(n - 1)
      /\ \A i \in 1..(n - 1) : receipts'[i] = receipts[i]
      /\ receipts'[n] = R
  <2> HIDE DEF R
  <2> QED
    BY <1>4, <1>5
<1>7. /\ handling' \in [Urls -> Labels \cup {None}]
      /\ handling'[s] = IF handling[s] \in {None, "public"} THEN label ELSE handling[s]
      /\ \A v \in Urls \ {s} : handling'[v] = handling[v]
  <2>1. handling' = [handling EXCEPT ![s] = IF @ \in {None, "public"} THEN label ELSE @]
    BY DEF Register
  <2> HIDE DEF s
  <2> QED
    BY <1>1, <1>2, <2>1 DEF TypeOK
<1>8. /\ head' \in [Urls -> H \cup {NoHead}]
      /\ head'[u] # NoHead /\ head'[u].source = s
      /\ \A v \in Urls \ {u} : head'[v] = head[v]
  <2> DEFINE new == [source |-> s, revision |-> r, seen |-> now]
  <2>1. head' = [head EXCEPT ![u] = Later(@, new)]
    BY <1>3 DEF Register
  <2>2. new \in H /\ new.source = s /\ new # NoHead
    BY <1>1, <1>2, PublicIsLabel DEF NoHead
  <2> HIDE DEF new, H, s
  <2>3. /\ Later(head[u], new) \in H \cup {NoHead}
        /\ Later(head[u], new) # NoHead /\ Later(head[u], new).source = s
    BY <1>0, <1>1, <2>2 DEF Later
  <2> QED
    BY <2>1, <2>3 DEF TypeOK, H
<1>9. ASSUME NEW d \in Derivative
      PROVE  derived'[d] =
                 IF derived[d] # None /\ label # "public"
                    /\ \/ d.revision = r
                       \/ d.revision.source = s /\ handling'[s] # handling[s]
                 THEN handling'[s] ELSE derived[d]
  <2> DEFINE all == IF handling'[s] # handling[s]
                    THEN Relabelled(derived, {s}, handling') ELSE derived
  <2>1. derived'[d] = IF d.revision = r /\ label # "public" /\ all[d] # None
                      THEN handling'[s] ELSE all[d]
    BY <1>3 DEF Register, Restricted
  <2>2. all[d] = IF handling'[s] # handling[s] /\ d.revision.source = s
                    /\ handling'[s] # "public" /\ derived[d] # None
                 THEN handling'[s] ELSE derived[d]
    BY RelabelledValue
  <2>3. derived[d] # None /\ d.revision.source = s => handling[s] \in Labels
    BY SourceExists
  <2>4. d.revision = r => d.revision.source = s
    OBVIOUS
  <2> HIDE DEF all, s, r
  <2> QED
    BY <1>1, <1>2, <1>7, <2>1, <2>2, <2>3, <2>4, PublicIsLabel
<1> QED
  BY <1>1, <1>2, <1>3, <1>6, <1>7, <1>8, <1>9

\* What the second half of add() does.
LEMMA AddWritesValues ==
    ASSUME TypeOK, AddInv, AddWrites
    PROVE  LET x == adding.derivative
               label == derived'[x]
           IN  /\ x \in Derivative /\ x.revision \in Revisions
               /\ x.revision.source \notin removed
               /\ label \in Labels
               /\ derived[x] # None /\ derived[x] # "public" => label = derived[x]
               /\ label = "public" =>
                     /\ handling[x.revision.source] = "public"
                     /\ \A d \in Derivative :
                           d.revision = x.revision /\ derived[d] # None =>
                               derived[d] = "public"
               /\ \A d \in Derivative \ {x} : derived'[d] = derived[d]
               /\ index' = (IF label = "public" THEN index \ {x}
                            ELSE index \ OfRevision(x.revision))
                           \cup {y \in {x} : Eligible(y)'}
<1> DEFINE x == adding.derivative
           label == IF derived[x] \in {None, "public"} THEN adding.label ELSE derived[x]
<1>1. /\ x \in Derivative /\ x.revision \in Revisions
      /\ x.revision.source \notin removed /\ adding.label \in Labels
      /\ adding.label = "public" =>
            /\ handling[x.revision.source] = "public"
            /\ \A d \in Stored(OfRevision(x.revision)) : derived[d] = "public"
  BY DEF AddWrites, AddInv
<1>2. derived' = [derived EXCEPT ![x] = label]
  BY DEF AddWrites
<1>3. DOMAIN derived = Derivative
  BY DEF TypeOK
<1>4. derived[x] \in Labels \cup {None} /\ label \in Labels
  BY <1>1, PublicIsLabel DEF TypeOK
<1>5. derived'[x] = label /\ \A d \in Derivative \ {x} : derived'[d] = derived[d]
  BY <1>1, <1>2, <1>3
<1>6. label = "public" =>
          /\ handling[x.revision.source] = "public"
          /\ \A d \in Derivative :
                d.revision = x.revision /\ derived[d] # None => derived[d] = "public"
  BY <1>1 DEF Stored, OfRevision
<1>7. index' = (IF label = "public" THEN index \ {x} ELSE index \ OfRevision(x.revision))
               \cup {y \in {x} : Eligible(y)'}
  BY DEF AddWrites, Kept
<1>8. derived[x] # None /\ derived[x] # "public" => label = derived[x]
  OBVIOUS
<1> HIDE DEF label, x
<1> QED
  BY <1>1, <1>4, <1>5, <1>6, <1>7, <1>8 DEF x

-----------------------------------------------------------------------------
(* Types *)

Policies == [Urls -> [until : Times \cup {None}, hold : BOOLEAN]]

\* A step without an acquisition keeps the types when it keeps which sources
\* and which derivatives there are.
LEMMA SameSources ==
    ASSUME TypeOK, UNCHANGED <<receipts, head>>,
           handling' \in [Urls -> Labels \cup {None}],
           \A s \in Urls : handling'[s] = None <=> handling[s] = None,
           flagged' \subseteq Sources, removed' \subseteq Sources,
           policy' \in Policies,
           derived' \in [Derivative -> Labels \cup {None}],
           \A d \in Derivative : derived'[d] # None => d.revision \in Revisions,
           index' \subseteq Derivative, \A d \in index' : derived'[d] # None,
           clock' \in Nat
    PROVE  TypeOK'
<1>1. Sources' = Sources /\ Revisions' = Revisions
  BY DEF Sources, Revisions
<1>2. index' \subseteq Stored(Derivative)'
  BY DEF Stored
<1> QED
  BY <1>1, <1>2 DEF TypeOK, Policies

\* The acquired revisions after one more.
LEMMA MoreRevisions ==
    ASSUME NEW n \in Nat \ {0}, DOMAIN receipts' = 1..n, DOMAIN receipts = 1..(n - 1),
           \A i \in 1..(n - 1) : receipts'[i] = receipts[i],
           NEW r, receipts'[n].revision = r
    PROVE  Revisions' = Revisions \cup {r}
<1>1. 1..n = 1..(n - 1) \cup {n}
  OBVIOUS
<1> QED
  BY <1>1 DEF Revisions

\* The initial state has the types.
LEMMA InitTypeOK == Init => TypeOK
<1> SUFFICES ASSUME Init PROVE TypeOK
  OBVIOUS
<1>1. Sources = {} /\ Revisions = {} /\ Stored(Derivative) = {}
  BY DEF Init, Sources, Revisions, Stored
<1>2. Sources = {r.source : r \in Revisions}
  BY <1>1
<1>3. /\ handling \in [Urls -> Labels \cup {None}]
      /\ policy \in [Urls -> [until : Times \cup {None}, hold : BOOLEAN]]
      /\ head \in [Urls -> [source : Urls, revision : Revision, seen : Times]
                           \cup {NoHead}]
      /\ derived \in [Derivative -> Labels \cup {None}]
  BY DEF Init
<1> QED
  BY <1>1, <1>2, <1>3 DEF Init, TypeOK

\* An acquisition keeps the types.
LEMMA RegisterTypes ==
    ASSUME IInv,
           NEW u \in Urls, NEW from \in Urls \cup {None}, NEW c \in Contents,
           NEW label \in Given, NEW now \in Times, Register(u, from, c, label, now)
    PROVE  TypeOK'
<1> USE DEF IInv
<1> DEFINE s == SourceOf(u, from)
           r == [source |-> s, content |-> c]
           n == Len(receipts) + 1
<1>0. /\ s \in Urls /\ r \in Revision /\ label \in Labels
      /\ handling' \in [Urls -> Labels \cup {None}]
      /\ handling'[s] = IF handling[s] \in {None, "public"} THEN label ELSE handling[s]
      /\ \A v \in Urls \ {s} : handling'[v] = handling[v]
      /\ DOMAIN receipts' = 1..n /\ DOMAIN receipts = 1..(n - 1)
      /\ \A i \in 1..(n - 1) : receipts'[i] = receipts[i]
      /\ receipts'[n].revision = r
      /\ head' \in [Urls -> [source : Urls, revision : Revision, seen : Times]
                            \cup {NoHead}]
      /\ \A d \in Derivative : derived'[d] =
             IF derived[d] # None /\ label # "public"
                /\ \/ d.revision = r
                   \/ d.revision.source = s /\ handling'[s] # handling[s]
             THEN handling'[s] ELSE derived[d]
  BY RegisterValues
<1>1. handling'[s] \in Labels
  BY <1>0 DEF TypeOK
<1>2. Revisions' = Revisions \cup {r}
  <2>1. n \in Nat \ {0}
    OBVIOUS
  <2> HIDE DEF n, r
  <2> QED
    BY <1>0, <2>1, MoreRevisions
<1>3. Sources' = Sources \cup {s}
  BY <1>0, <1>1, PublicIsLabel DEF Sources
<1>4. Sources' = {q.source : q \in Revisions'}
  <2>1. Sources = {q.source : q \in Revisions} /\ r.source = s
    BY DEF TypeOK
  <2> HIDE DEF r, s
  <2> QED
    BY <1>2, <1>3, <2>1
<1>5. derived' \in [Derivative -> Labels \cup {None}]
  <2>1. derived' = [d \in Derivative |-> derived'[d]]
    BY DEF Register, Restricted
  <2>2. \A d \in Derivative : derived'[d] \in Labels \cup {None}
    BY <1>0, <1>1 DEF TypeOK
  <2> QED
    BY <2>1, <2>2
<1>6. \A d \in Derivative : derived'[d] # None <=> derived[d] # None
  BY <1>0, <1>1, PublicIsLabel
<1>7. /\ index' \subseteq index
      /\ UNCHANGED <<flagged, removed, policy, clock>>
  BY DEF Register
<1>8. index' \subseteq Stored(Derivative)'
  BY <1>6, <1>7 DEF TypeOK, Stored
<1>9. /\ flagged' \subseteq Sources' /\ removed' \subseteq Sources'
      /\ \A d \in Derivative : derived'[d] # None => d.revision \in Revisions'
  BY <1>2, <1>3, <1>6, <1>7 DEF TypeOK
<1> HIDE DEF s, r, n
<1> QED
  BY <1>0, <1>4, <1>5, <1>7, <1>8, <1>9 DEF TypeOK

\* Every step keeps the types.
LEMMA StepTypeOK == ASSUME IInv, [Next]_vars PROVE TypeOK'
<1> USE DEF IInv
<1>1. ASSUME NEW u \in Urls, NEW from \in Urls \cup {None}, NEW c \in Contents,
             NEW label \in Given, NEW now \in Times, Register(u, from, c, label, now)
      PROVE  TypeOK'
  BY <1>1, RegisterTypes
<1> DEFINE Labelling(s, label) ==
               /\ s \in Sources /\ label \in Labels /\ SetHandlingOf(s, label)
               /\ UNCHANGED <<receipts, head, policy, removed, clock>>
               /\ flagged' \subseteq flagged \cup {s}
<1>2. ASSUME NEW s \in Urls, NEW label, Labelling(s, label) PROVE TypeOK'
  <2>1. /\ handling' \in [Urls -> Labels \cup {None}]
        /\ handling'[s] = label
        /\ \A u \in Urls \ {s} : handling'[u] = handling[u]
        /\ \A d \in Derivative : derived'[d] =
               IF d.revision.source = s /\ label # "public" /\ derived[d] # None
               THEN label ELSE derived[d]
        /\ index' \subseteq index
    BY <1>2, SetHandlingValues
  <2>2. \A u \in Urls : handling'[u] = None <=> handling[u] = None
    BY <1>2, <2>1, PublicIsLabel DEF Sources
  <2>3. derived' = [d \in Derivative |-> derived'[d]]
    BY <1>2 DEF SetHandlingOf, Relabelled
  <2>4. \A d \in Derivative : derived'[d] \in Labels \cup {None}
                             /\ (derived'[d] # None <=> derived[d] # None)
    BY <1>2, <2>1, PublicIsLabel DEF TypeOK
  <2>5. derived' \in [Derivative -> Labels \cup {None}]
    BY <2>3, <2>4
  <2>6. index' \subseteq Derivative /\ \A d \in index' : derived'[d] # None
    BY <2>1, <2>4 DEF TypeOK, Stored
  <2> QED
    BY <1>2, <2>1, <2>2, <2>4, <2>5, <2>6, SameSources DEF TypeOK, Policies
<1>3. ASSUME NEW s \in Urls, NEW label \in Given, SetHandling(s, label) PROVE TypeOK'
  <2>1. Labelling(s, label)
    BY <1>3, CatalogueAssumption DEF SetHandling, PolicyChange
  <2> QED
    BY <1>2, <2>1
<1>4. ASSUME NEW s \in Urls, FlagSource(s) PROVE TypeOK'
  <2>1. Labelling(s, "quarantined")
    BY <1>4, PublicIsLabel DEF FlagSource, PolicyChange
  <2> QED
    BY <1>2, <2>1
<1>5. ASSUME NEW s \in Urls, NEW until \in Times \cup {None}, NEW hold \in BOOLEAN,
             SetRetention(s, until, hold)
      PROVE  TypeOK'
  <2>1. policy' \in Policies
    BY <1>5 DEF SetRetention, TypeOK, Policies
  <2>2. UNCHANGED <<handling, flagged, removed, head, receipts, derived, index, clock>>
    BY <1>5 DEF SetRetention
  <2> QED
    BY <2>1, <2>2, SameSources DEF TypeOK, Stored
<1>6. ASSUME NEW s \in Urls, RemoveSource(s) PROVE TypeOK'
  <2>1. /\ s \in Sources /\ removed' = removed \cup {s}
        /\ handling' = [handling EXCEPT ![s] = "revoked"]
        /\ derived' = [d \in Derivative |->
                          IF d.revision.source = s THEN None ELSE derived[d]]
        /\ index' = index \ OfSource(s)
        /\ UNCHANGED <<flagged, policy, head, receipts, clock>>
    BY <1>6 DEF RemoveSource, PolicyChange
  <2>2. handling' \in [Urls -> Labels \cup {None}]
    BY <2>1, PublicIsLabel DEF TypeOK
  <2>3. \A u \in Urls : handling'[u] = None <=> handling[u] = None
    BY <2>1, PublicIsLabel DEF TypeOK, Sources
  <2>4. derived' \in [Derivative -> Labels \cup {None}]
    BY <2>1 DEF TypeOK
  <2>5. index' \subseteq Derivative /\ \A d \in index' : derived'[d] # None
    BY <2>1 DEF TypeOK, Stored, OfSource
  <2> QED
    BY <2>1, <2>2, <2>3, <2>4, <2>5, SameSources DEF TypeOK, Policies
<1> DEFINE Tables == <<handling, flagged, policy, removed, head, receipts, derived, index>>
<1>7. ASSUME UNCHANGED Tables, clock' \in Nat PROVE TypeOK'
  BY <1>7, SameSources DEF TypeOK, Stored, Policies
<1>8. ASSUME NEW d \in Derivative, NEW asked \in Given \cup {None}, AddReads(d, asked)
      PROVE  TypeOK'
  BY <1>7, <1>8 DEF AddReads, TypeOK
<1>9. ASSUME AddWrites PROVE TypeOK'
  <2> DEFINE x == adding.derivative
  <2>1. /\ x \in Derivative /\ x.revision \in Revisions /\ derived'[x] \in Labels
        /\ \A d \in Derivative \ {x} : derived'[d] = derived[d]
        /\ index' \subseteq index \cup {x}
    BY <1>9, AddWritesValues
  <2>2. UNCHANGED <<handling, flagged, policy, removed, head, receipts, clock>>
    BY <1>9 DEF AddWrites
  <2>3. derived' = [derived EXCEPT ![x] = derived'[x]]
    BY <1>9, <2>1 DEF AddWrites, TypeOK
  <2> HIDE DEF x
  <2>4. derived' \in [Derivative -> Labels \cup {None}]
    BY <2>1, <2>3 DEF TypeOK
  <2>5. \A d \in index' : d \in Derivative /\ derived'[d] # None
    BY <2>1, PublicIsLabel DEF TypeOK, Stored
  <2>6. \A d \in Derivative : derived'[d] # None => d.revision \in Revisions
    BY <2>1 DEF TypeOK
  <2> QED
    BY <2>2, <2>4, <2>5, <2>6, SameSources DEF TypeOK, Policies
<1>10. ASSUME AddFails PROVE TypeOK'
  BY <1>7, <1>10 DEF AddFails, TypeOK
<1>11. ASSUME Reopen PROVE TypeOK'
  <2>1. /\ handling' \in [Urls -> Labels \cup {None}]
        /\ \A s \in Urls : handling'[s] = None <=> handling[s] = None
        /\ \A d \in Derivative : /\ derived'[d] \in Labels \cup {None}
                                 /\ derived'[d] = None <=> derived[d] = None
    BY <1>11, ReopenValues
  <2>2. /\ UNCHANGED <<flagged, policy, removed, head, receipts, clock>>
        /\ index' \subseteq index
        /\ derived' = [d \in Derivative |-> derived'[d]]
    BY <1>11 DEF Reopen
  <2>3. derived' \in [Derivative -> Labels \cup {None}]
    BY <2>1, <2>2
  <2>4. index' \subseteq Derivative /\ \A d \in index' : derived'[d] # None
    BY <2>1, <2>2 DEF TypeOK, Stored
  <2> QED
    BY <2>1, <2>2, <2>3, <2>4, SameSources DEF TypeOK, Policies
<1>12. ASSUME Tick PROVE TypeOK'
  <2>1. clock' \in Nat
    BY <1>12, CatalogueAssumption DEF Tick
  <2> QED
    BY <1>7, <1>12, <2>1 DEF Tick
<1>13. ASSUME UNCHANGED vars PROVE TypeOK'
  BY <1>7, <1>13 DEF vars, TypeOK
<1> HIDE DEF IInv
<1> QED
  BY <1>1, <1>3, <1>4, <1>5, <1>6, <1>8, <1>9, <1>10, <1>11, <1>12, <1>13 DEF Next

-----------------------------------------------------------------------------
(* The other conjuncts.  Six sorts of steps matter to them. *)

\* set_handling or flag_source.
Labelling(s, label) ==
    /\ s \in Sources
    /\ label \in Labels
    /\ label = "public" => handling[s] = "public"
    /\ SetHandlingOf(s, label)
    /\ \/ flagged' = flagged
       \/ flagged' = flagged \cup {s} /\ label # "public"
    /\ UNCHANGED <<receipts, head, removed>>

Tables == <<handling, flagged, removed, head, receipts, derived, index>>

LEMMA StepSorts ==
    ASSUME IInv, [Next]_vars
    PROVE  \/ \E u \in Urls, from \in Urls \cup {None}, c \in Contents,
                 label \in Given, now \in Times : Register(u, from, c, label, now)
           \/ \E s \in Urls, label \in Labels : Labelling(s, label)
           \/ \E s \in Urls : RemoveSource(s)
           \/ AddWrites
           \/ Reopen
           \/ UNCHANGED Tables
<1>1. ASSUME NEW s \in Urls, NEW label \in Given, SetHandling(s, label)
      PROVE  Labelling(s, label)
  BY <1>1, CatalogueAssumption DEF SetHandling, PolicyChange, Labelling
<1>2. ASSUME NEW s \in Urls, FlagSource(s) PROVE Labelling(s, "quarantined")
  BY <1>2, PublicIsLabel DEF FlagSource, PolicyChange, Labelling
<1>3. ASSUME NEW s \in Urls, NEW until \in Times \cup {None}, NEW hold \in BOOLEAN,
             SetRetention(s, until, hold)
      PROVE  UNCHANGED Tables
  BY <1>3 DEF SetRetention, Tables
<1>4. ASSUME NEW d \in Derivative, NEW asked \in Given \cup {None}, AddReads(d, asked)
      PROVE  UNCHANGED Tables
  BY <1>4 DEF AddReads, Tables
<1>5. ASSUME AddFails \/ Tick \/ UNCHANGED vars PROVE UNCHANGED Tables
  BY <1>5 DEF AddFails, Tick, vars, Tables
<1>6. Given \subseteq Labels /\ "quarantined" \in Labels
  BY CatalogueAssumption, PublicIsLabel
<1> QED
  BY <1>1, <1>2, <1>3, <1>4, <1>5, <1>6 DEF Next

\* The receipts, the latest observations and the heads.
LEMMA StepReceipts ==
    ASSUME IInv, [Next]_vars
    PROVE  receipts' \in Seq(Receipts) /\ LatestInv' /\ HeadInv'
<1> USE DEF IInv
<1>1. ASSUME NEW u \in Urls, NEW from \in Urls \cup {None}, NEW c \in Contents,
             NEW label \in Given, NEW now \in Times, Register(u, from, c, label, now)
      PROVE  receipts' \in Seq(Receipts) /\ LatestInv' /\ HeadInv'
  <2> DEFINE s == SourceOf(u, from)
             r == [source |-> s, content |-> c]
             n == Len(receipts) + 1
  <2>1. /\ receipts' \in Seq(Receipts) /\ DOMAIN receipts' = 1..n
        /\ DOMAIN receipts = 1..(n - 1)
        /\ \A i \in 1..(n - 1) : receipts'[i] = receipts[i]
        /\ receipts'[n].revision = r /\ receipts'[n].url = u
        /\ receipts'[n].label = label /\ receipts'[n].acquired = now
        /\ head'[u] # NoHead /\ head'[u].source = s
        /\ \A v \in Urls \ {u} : head'[v] = head[v]
        /\ head[u] # NoHead => head[u].source = s
    BY <1>1, RegisterValues
  <2>2. n \in Nat \ {0} /\ now \in Nat
    BY CatalogueAssumption
  <2>3. \A i \in 1..n : i = n \/ i \in 1..(n - 1)
    BY <2>2
  <2>4. \A i \in 1..(n - 1) : receipts[i].url \in Urls /\ receipts[i].acquired \in Nat
    BY <2>1, ReceiptAt
  <2>5. r.source = s
    OBVIOUS
  <2> HIDE DEF n, r, s
  <2>6. HeadInv'
    BY <2>1, <2>3, <2>4, <2>5 DEF HeadInv
  <2>7. LatestInv'
    <3> SUFFICES ASSUME NEW t \in Urls, (Observed(t) # {})'
                 PROVE  \E i \in Observed(t)' : \A j \in Observed(t)' :
                            \/ receipts'[j].acquired < receipts'[i].acquired
                            \/ receipts'[j].acquired = receipts'[i].acquired /\ j <= i
      BY DEF LatestInv
    <3>1. /\ Observed(t) \subseteq 1..(n - 1)
          /\ Observed(t)' \subseteq Observed(t) \cup {n}
          /\ Observed(t) \subseteq Observed(t)'
          /\ \A i \in Observed(t) : receipts'[i].acquired = receipts[i].acquired
      BY <2>1, <2>2, <2>3 DEF Observed
    <3>2. CASE Observed(t) = {}
      BY <2>1, <2>2, <3>1, <3>2
    <3>3. CASE Observed(t) # {}
      <4>1. PICK i \in Observed(t) : \A j \in Observed(t) :
                \/ receipts[j].acquired < receipts[i].acquired
                \/ receipts[j].acquired = receipts[i].acquired /\ j <= i
        BY <3>3 DEF LatestInv
      <4>2. CASE n \in Observed(t)' /\ receipts[i].acquired <= now
        <5>1. ASSUME NEW j \in Observed(t)'
              PROVE  \/ receipts'[j].acquired < receipts'[n].acquired
                     \/ receipts'[j].acquired = receipts'[n].acquired /\ j <= n
          <6>1. CASE j = n
            BY <2>1, <2>2, <6>1
          <6>2. CASE j \in Observed(t)
            <7>1. /\ receipts'[j].acquired = receipts[j].acquired
                  /\ receipts[j].acquired \in Nat /\ receipts[i].acquired \in Nat
                  /\ j \in 1..(n - 1)
              BY <2>4, <3>1, <6>2
            <7>2. receipts[j].acquired <= receipts[i].acquired
              BY <4>1, <6>2, <7>1
            <7> QED
              BY <2>1, <2>2, <4>2, <7>1, <7>2
          <6> QED
            BY <3>1, <6>1, <6>2
        <5> QED
          BY <4>2, <5>1
      <4>3. CASE ~(n \in Observed(t)' /\ receipts[i].acquired <= now)
        <5>1. receipts[i].acquired \in Nat /\ receipts'[i].acquired = receipts[i].acquired
          BY <2>4, <3>1
        <5>2. ASSUME NEW j \in Observed(t)'
              PROVE  \/ receipts'[j].acquired < receipts'[i].acquired
                     \/ receipts'[j].acquired = receipts'[i].acquired /\ j <= i
          <6>1. CASE j = n
            BY <2>1, <2>2, <4>3, <5>1, <6>1
          <6>2. CASE j \in Observed(t)
            BY <3>1, <4>1, <5>1, <6>2
          <6> QED
            BY <3>1, <6>1, <6>2
        <5> QED
          BY <3>1, <5>2
      <4> QED
        BY <4>2, <4>3
    <3> QED
      BY <3>2, <3>3
  <2> QED
    BY <2>1, <2>6, <2>7
<1>2. ASSUME UNCHANGED <<receipts, head>>
      PROVE  receipts' \in Seq(Receipts) /\ LatestInv' /\ HeadInv'
  BY <1>2 DEF LatestInv, Observed, HeadInv
<1>3. ASSUME NEW s \in Urls, NEW label \in Labels, Labelling(s, label)
      PROVE  UNCHANGED <<receipts, head>>
  BY <1>3 DEF Labelling
<1>4. ASSUME (\E s \in Urls : RemoveSource(s)) \/ AddWrites \/ Reopen \/ UNCHANGED Tables
      PROVE  UNCHANGED <<receipts, head>>
  BY <1>4 DEF RemoveSource, AddWrites, Reopen, Tables
<1> HIDE DEF IInv
<1> QED
  BY <1>1, <1>2, <1>3, <1>4, StepSorts

\* add() finds what it read.
LEMMA StepAdd == ASSUME IInv, [Next]_vars PROVE AddInv'
<1> USE DEF IInv
<1>1. ASSUME NEW d \in Derivative, NEW asked \in Given \cup {None}, AddReads(d, asked)
      PROVE  AddInv'
  <2>1. PICK label \in LabelFor(d.revision, asked) :
            adding' = [derivative |-> d, label |-> label, locked |-> TRUE]
    BY <1>1 DEF AddReads
  <2>2. /\ d.revision \in Revisions /\ d.revision.source \notin removed
        /\ UNCHANGED <<handling, removed, receipts, derived>>
    BY <1>1 DEF AddReads
  <2>3. handling[d.revision.source] \in Labels
    BY <2>2, AcquiredExists
  <2>4. \A x \in Stored(OfRevision(d.revision)) : derived[x] \in Labels
    BY DEF Stored, OfRevision, TypeOK
  <2>5. /\ label \in Labels
        /\ label = "public" => /\ handling[d.revision.source] = "public"
                               /\ \A x \in Stored(OfRevision(d.revision)) :
                                      derived[x] = "public"
    <3> DEFINE found == {derived[x] : x \in Stored(OfRevision(d.revision))} \ {"public"}
    <3>1. CASE found # {}
      <4>1. label \in found
        BY <2>1, <3>1 DEF LabelFor
      <4> QED
        BY <2>4, <4>1
    <3>2. CASE found = {}
      <4>1. \A x \in Stored(OfRevision(d.revision)) : derived[x] = "public"
        BY <3>2
      <4>2. label = IF handling[d.revision.source] # "public" \/ asked = None
                    THEN handling[d.revision.source] ELSE asked
        BY <2>1, <3>2 DEF LabelFor
      <4>3. asked \in Labels \cup {None}
        BY CatalogueAssumption
      <4> QED
        BY <2>3, <4>1, <4>2, <4>3
    <3> QED
      BY <3>1, <3>2
  <2>6. Stored(OfRevision(d.revision))' = Stored(OfRevision(d.revision))
        /\ Revisions' = Revisions
    BY <2>2 DEF Stored, OfRevision, Revisions
  <2>7. /\ adding'.locked /\ adding'.derivative = d /\ adding'.label = label
    BY <2>1
  <2>8. Stored(OfRevision(adding.derivative.revision))' = Stored(OfRevision(d.revision))
    BY <2>2, <2>7 DEF Stored, OfRevision
  <2> HIDE <2>1
  <2> QED
    BY <2>2, <2>5, <2>6, <2>7, <2>8 DEF AddInv
<1>2. ASSUME adding' = NoAdd PROVE AddInv'
  BY <1>2 DEF AddInv, NoAdd
<1>3. ASSUME Free, adding' = adding PROVE AddInv'
  <2>1. adding = NoAdd
    BY <1>3 DEF Free, AddInv
  <2> QED
    BY <1>2, <1>3, <2>1
<1>4. ASSUME UNCHANGED <<adding, Tables>> PROVE AddInv'
  BY <1>4 DEF AddInv, Tables, Stored, OfRevision, Revisions, NoAdd
<1>5. ASSUME NEW s \in Urls,
             \/ \E label \in Given : SetHandling(s, label)
             \/ FlagSource(s)
             \/ \E until \in Times \cup {None}, hold \in BOOLEAN :
                    SetRetention(s, until, hold)
             \/ RemoveSource(s)
      PROVE  AddInv'
  BY <1>3, <1>5 DEF SetHandling, FlagSource, SetRetention, RemoveSource, PolicyChange
<1>6. ASSUME AddWrites \/ AddFails PROVE AddInv'
  BY <1>2, <1>6 DEF AddWrites, AddFails
<1>7. ASSUME Reopen PROVE AddInv'
  BY <1>3, <1>7 DEF Reopen
<1>8. ASSUME NEW u \in Urls, NEW from \in Urls \cup {None}, NEW c \in Contents,
             NEW label \in Given, NEW now \in Times, Register(u, from, c, label, now)
      PROVE  AddInv'
  BY <1>3, <1>8 DEF Register
<1>9. ASSUME Tick \/ UNCHANGED vars PROVE AddInv'
  BY <1>4, <1>9 DEF Tick, vars, Tables
<1> HIDE DEF IInv
<1> QED
  BY <1>1, <1>5, <1>6, <1>7, <1>8, <1>9 DEF Next

\* Withdrawn sources stay without derivatives, and the derivatives of a source
\* that is not public are not.
LEMMA StepDerived ==
    ASSUME IInv, [Next]_vars
    PROVE  RemovedInv' /\ DerivativesFollowTheSource'
<1> USE DEF IInv
<1>0. None # "public"
  BY PublicIsLabel
<1>1. ASSUME NEW u \in Urls, NEW from \in Urls \cup {None}, NEW c \in Contents,
             NEW label \in Given, NEW now \in Times, Register(u, from, c, label, now)
      PROVE  RemovedInv' /\ DerivativesFollowTheSource'
  <2> DEFINE s == SourceOf(u, from)
             r == [source |-> s, content |-> c]
  <2>1. /\ s \in Urls /\ label \in Labels
        /\ handling'[s] = IF handling[s] \in {None, "public"} THEN label ELSE handling[s]
        /\ \A v \in Urls \ {s} : handling'[v] = handling[v]
        /\ \A d \in Derivative : derived'[d] =
               IF derived[d] # None /\ label # "public"
                  /\ \/ d.revision = r
                     \/ d.revision.source = s /\ handling'[s] # handling[s]
               THEN handling'[s] ELSE derived[d]
    BY <1>1, RegisterValues
  <2>2. removed' = removed
    BY <1>1 DEF Register
  <2> HIDE DEF s, r
  <2>3. RemovedInv'
    BY <2>1, <2>2 DEF RemovedInv
  <2>4. ASSUME NEW d \in Derivative, derived'[d] = "public"
        PROVE  handling'[d.revision.source] = "public"
    <3>1. d.revision.source \in Urls
      BY DerivativeFields
    <3>2. CASE derived'[d] = derived[d]
      <4>1. handling[d.revision.source] = "public"
        BY <2>4, <3>2 DEF DerivativesFollowTheSource
      <4>2. CASE d.revision.source # s
        BY <2>1, <3>1, <4>1, <4>2
      <4>3. CASE d.revision.source = s
        <5>1. handling'[s] = label
          BY <2>1, <4>1, <4>3
        <5> QED
          BY <1>0, <2>1, <2>4, <4>1, <4>3, <5>1
      <4> QED
        BY <4>2, <4>3
    <3>3. CASE derived'[d] # derived[d]
      <4>1. /\ derived[d] # None /\ label # "public" /\ handling'[s] = "public"
        BY <2>1, <2>4, <3>3
      <4> QED
        BY <2>1, <4>1
    <3> QED
      BY <3>2, <3>3
  <2> QED
    BY <2>3, <2>4 DEF DerivativesFollowTheSource
<1>2. ASSUME NEW s \in Urls, NEW label \in Labels, Labelling(s, label)
      PROVE  RemovedInv' /\ DerivativesFollowTheSource'
  <2>1. /\ handling'[s] = label
        /\ \A u \in Urls \ {s} : handling'[u] = handling[u]
        /\ \A d \in Derivative : derived'[d] =
               IF d.revision.source = s /\ label # "public" /\ derived[d] # None
               THEN label ELSE derived[d]
    BY <1>2, SetHandlingValues DEF Labelling
  <2>2. removed' = removed
    BY <1>2 DEF Labelling
  <2>3. RemovedInv'
    BY <2>1, <2>2 DEF RemovedInv
  <2>4. DerivativesFollowTheSource'
    BY <1>0, <2>1, DerivativeFields DEF DerivativesFollowTheSource
  <2> QED
    BY <2>3, <2>4
<1>3. ASSUME NEW s \in Urls, RemoveSource(s)
      PROVE  RemovedInv' /\ DerivativesFollowTheSource'
  <2>1. /\ removed' = removed \cup {s}
        /\ handling' = [handling EXCEPT ![s] = "revoked"]
        /\ derived' = [d \in Derivative |->
                          IF d.revision.source = s THEN None ELSE derived[d]]
    BY <1>3 DEF RemoveSource
  <2>2. \A u \in Urls \ {s} : handling'[u] = handling[u]
    BY <2>1 DEF TypeOK
  <2>3. RemovedInv'
    BY <2>1 DEF RemovedInv
  <2>4. DerivativesFollowTheSource'
    BY <1>0, <2>1, <2>2, DerivativeFields DEF DerivativesFollowTheSource
  <2> QED
    BY <2>3, <2>4
<1>4. ASSUME AddWrites PROVE RemovedInv' /\ DerivativesFollowTheSource'
  <2> DEFINE x == adding.derivative
  <2>1. /\ x \in Derivative /\ x.revision.source \notin removed
        /\ derived'[x] = "public" => handling[x.revision.source] = "public"
        /\ \A d \in Derivative \ {x} : derived'[d] = derived[d]
    BY <1>4, AddWritesValues
  <2>2. handling' = handling /\ removed' = removed
    BY <1>4 DEF AddWrites
  <2> HIDE DEF x
  <2> QED
    BY <2>1, <2>2 DEF RemovedInv, DerivativesFollowTheSource
<1>5. ASSUME Reopen PROVE RemovedInv' /\ DerivativesFollowTheSource'
  <2>1. \A d \in Derivative :
            /\ derived'[d] = None <=> derived[d] = None
            /\ derived'[d] = "public" => handling'[d.revision.source] = "public"
    BY <1>5, ReopenValues
  <2>2. removed' = removed
    BY <1>5 DEF Reopen
  <2> QED
    BY <2>1, <2>2 DEF RemovedInv, DerivativesFollowTheSource
<1>6. ASSUME UNCHANGED Tables PROVE RemovedInv' /\ DerivativesFollowTheSource'
  BY <1>6 DEF Tables, RemovedInv, DerivativesFollowTheSource
<1> HIDE DEF IInv
<1> QED
  BY <1>1, <1>2, <1>3, <1>4, <1>5, <1>6, StepSorts

-----------------------------------------------------------------------------
(* The index *)

\* A derivative is not eligible when its source, a receipt of its revision or
\* a derivative of its revision is not public.
LEMMA NotEligible ==
    ASSUME NEW d \in Derivative,
           \/ handling[d.revision.source] # "public"
           \/ d.revision.source \in flagged \cup removed
           \/ derived[d] # "public"
    PROVE  ~Eligible(d)
  BY EligibleValue

\* Every step leaves exactly the eligible derivatives in the index.
LEMMA StepIndex ==
    ASSUME IInv, [Next]_vars
    PROVE  IndexInv'
<1> USE DEF IInv
<1>0. index = {d \in Derivative : Eligible(d)}
  BY DEF IndexInv
<1> SUFFICES index' = {d \in Derivative : Eligible(d)'}
  BY DEF IndexInv
<1>a. \A d \in Derivative :
        Eligible(d)' <=>
          /\ derived'[d] = "public"
          /\ d.result \in Usable
          /\ handling'[d.revision.source] = "public"
          /\ d.revision.source \notin flagged'
          /\ d.revision.source \notin removed'
          /\ \E i \in DOMAIN receipts' : receipts'[i].revision = d.revision
          /\ \A i \in DOMAIN receipts' :
                 receipts'[i].revision = d.revision => receipts'[i].label = "public"
          /\ \A x \in Derivative :
                 x.revision = d.revision /\ derived'[x] # None => derived'[x] = "public"
  BY DEF Eligible, RevisionEligible, Stored, OfRevision
<1>b. None # "public"
  BY PublicIsLabel
<1>1. ASSUME NEW u \in Urls, NEW from \in Urls \cup {None}, NEW c \in Contents,
             NEW label \in Given, NEW now \in Times, Register(u, from, c, label, now)
      PROVE  index' = {d \in Derivative : Eligible(d)'}
  <2> DEFINE s == SourceOf(u, from)
             r == [source |-> s, content |-> c]
             n == Len(receipts) + 1
  <2>1. /\ s \in Urls /\ label \in Labels
        /\ handling'[s] = IF handling[s] \in {None, "public"} THEN label ELSE handling[s]
        /\ \A v \in Urls \ {s} : handling'[v] = handling[v]
        /\ DOMAIN receipts' = 1..n /\ DOMAIN receipts = 1..(n - 1)
        /\ \A i \in 1..(n - 1) : receipts'[i] = receipts[i]
        /\ receipts'[n].revision = r /\ receipts'[n].label = label
        /\ \A d \in Derivative : derived'[d] =
               IF derived[d] # None /\ label # "public"
                  /\ \/ d.revision = r
                     \/ d.revision.source = s /\ handling'[s] # handling[s]
               THEN handling'[s] ELSE derived[d]
    BY <1>1, RegisterValues
  <2>2. /\ n \in Nat \ {0} /\ flagged' = flagged /\ removed' = removed
        /\ index' = IF label = "public" THEN index
                    ELSE {d \in index : /\ d.revision # r
                                        /\ \/ handling[s] = handling'[s]
                                           \/ d.revision.source # s}
    BY <1>1 DEF Register, Receipt
  <2>3. \A i \in 1..n : i = n \/ i \in 1..(n - 1)
    BY <2>2
  <2>4. r.source = s
    OBVIOUS
  <2> HIDE DEF s, r, n
  <2>5. \A d \in Derivative :
            derived[d] # None => /\ handling[d.revision.source] # None
                                 /\ \E i \in DOMAIN receipts :
                                        receipts[i].revision = d.revision
    <3> SUFFICES ASSUME NEW d \in Derivative, derived[d] # None
                 PROVE  /\ handling[d.revision.source] # None
                        /\ \E i \in DOMAIN receipts : receipts[i].revision = d.revision
      OBVIOUS
    <3>1. handling[d.revision.source] \in Labels
      BY SourceExists
    <3>2. d.revision \in Revisions
      BY DEF TypeOK
    <3> QED
      BY <3>1, <3>2, PublicIsLabel DEF Revisions
  <2>6. CASE label = "public"
    <3>1. \A d \in Derivative : derived'[d] = derived[d]
      BY <2>1, <2>6
    <3>2. ASSUME NEW d \in Derivative PROVE Eligible(d)' <=> Eligible(d)
      <4>1. d.revision.source \in Urls
        BY DerivativeFields
      <4>2. derived[d] = "public" =>
                (handling'[d.revision.source] = "public"
                 <=> handling[d.revision.source] = "public")
        BY <1>b, <2>1, <2>5, <2>6, <4>1
      <4>3. derived[d] = "public" =>
                \E i \in 1..(n - 1) : receipts[i].revision = d.revision
        BY <1>b, <2>1, <2>5
      <4>4. (\A i \in 1..n :
                receipts'[i].revision = d.revision => receipts'[i].label = "public")
            <=> (\A i \in 1..(n - 1) :
                receipts[i].revision = d.revision => receipts[i].label = "public")
        BY <2>1, <2>2, <2>3, <2>6
      <4>5. derived[d] = "public" =>
                \E i \in 1..n : receipts'[i].revision = d.revision
        BY <2>1, <2>2, <4>3
      <4> QED
        BY <1>a, <2>1, <2>2, <3>1, <4>2, <4>3, <4>4, <4>5, EligibleValue, SMTT(30)
    <3> QED
      BY <1>0, <2>2, <2>6, <3>2
  <2>7. CASE label # "public"
    <3>1. ASSUME NEW d \in Derivative, d.revision = r PROVE ~Eligible(d)'
      BY <1>a, <2>1, <2>2, <2>7, <3>1
    <3>2. ASSUME NEW d \in Derivative, d.revision.source = s, handling'[s] # handling[s]
          PROVE  ~Eligible(d)'
      BY <1>a, <2>1, <2>7, <3>2
    <3>3. ASSUME NEW d \in Derivative, d.revision # r,
                 d.revision.source # s \/ handling'[s] = handling[s]
          PROVE  Eligible(d)' <=> Eligible(d)
      <4>1. d.revision.source \in Urls
        BY DerivativeFields
      <4>2. handling'[d.revision.source] = handling[d.revision.source]
        BY <2>1, <3>3, <4>1
      <4>3. \A x \in Derivative : x.revision = d.revision => derived'[x] = derived[x]
        BY <2>1, <3>3
      <4>4. /\ derived'[d] = derived[d]
            /\ (\A x \in Derivative :
                   x.revision = d.revision /\ derived'[x] # None => derived'[x] = "public")
               <=> (\A x \in Derivative :
                   x.revision = d.revision /\ derived[x] # None => derived[x] = "public")
        BY <4>3
      <4>5. (\E i \in DOMAIN receipts' : receipts'[i].revision = d.revision)
            <=> (\E i \in DOMAIN receipts : receipts[i].revision = d.revision)
        BY <2>1, <2>2, <2>3, <3>3
      <4>6. (\A i \in DOMAIN receipts' :
                receipts'[i].revision = d.revision => receipts'[i].label = "public")
            <=> (\A i \in DOMAIN receipts :
                receipts[i].revision = d.revision => receipts[i].label = "public")
        BY <2>1, <2>2, <2>3, <3>3
      <4> HIDE <2>1
      <4> QED
        BY <1>a, <2>2, <4>2, <4>4, <4>5, <4>6, EligibleValue
    <3>4. \A d \in Derivative :
              d \in index' <=> /\ Eligible(d) /\ d.revision # r
                               /\ handling[s] = handling'[s] \/ d.revision.source # s
      BY <1>0, <2>2, <2>7
    <3>5. \A d \in Derivative : d \in index' <=> Eligible(d)'
      BY <3>1, <3>2, <3>3, <3>4
    <3>6. index' \subseteq Derivative
      BY <1>0, <2>2, <2>7
    <3> QED
      BY <3>5, <3>6
  <2> QED
    BY <2>6, <2>7
<1>2. ASSUME NEW s \in Urls, NEW label \in Labels, Labelling(s, label)
      PROVE  index' = {d \in Derivative : Eligible(d)'}
  <2>1. /\ handling'[s] = label
        /\ \A u \in Urls \ {s} : handling'[u] = handling[u]
        /\ \A d \in Derivative : derived'[d] =
               IF d.revision.source = s /\ label # "public" /\ derived[d] # None
               THEN label ELSE derived[d]
        /\ \A d \in index : (d \in index') <=> ~ (d.revision.source = s /\ label # "public")
        /\ index' \subseteq index
    BY <1>2, SetHandlingValues DEF Labelling
  <2>2. /\ receipts' = receipts /\ removed' = removed
        /\ label = "public" => handling[s] = "public"
        /\ \/ flagged' = flagged
           \/ flagged' = flagged \cup {s} /\ label # "public"
    BY <1>2 DEF Labelling
  <2>3. ASSUME NEW d \in Derivative, d.revision.source = s, label # "public"
        PROVE  ~Eligible(d)'
    BY <1>a, <2>1, <2>3
  <2>4. ASSUME NEW d \in Derivative, d.revision.source # s \/ label = "public"
        PROVE  Eligible(d)' <=> Eligible(d)
    <3>1. d.revision.source \in Urls
      BY DerivativeFields
    <3>2. handling'[d.revision.source] = handling[d.revision.source]
      BY <2>1, <2>2, <2>4, <3>1
    <3>3. \A x \in Derivative : x.revision = d.revision => derived'[x] = derived[x]
      BY <2>1, <2>4
    <3>4. derived'[d] = derived[d]
      BY <3>3
    <3>5. d.revision.source \in flagged' <=> d.revision.source \in flagged
      BY <2>2, <2>4
    <3> QED
      BY <1>a, <2>2, <3>2, <3>3, <3>4, <3>5, EligibleValue
  <2>5. \A d \in Derivative : d \in index' <=> Eligible(d)'
    BY <1>0, <2>1, <2>3, <2>4
  <2> QED
    BY <1>0, <2>1, <2>5
<1>3. ASSUME NEW s \in Urls, RemoveSource(s)
      PROVE  index' = {d \in Derivative : Eligible(d)'}
  <2>1. /\ removed' = removed \cup {s}
        /\ handling' = [handling EXCEPT ![s] = "revoked"]
        /\ derived' = [d \in Derivative |->
                          IF d.revision.source = s THEN None ELSE derived[d]]
        /\ index' = index \ OfSource(s)
        /\ UNCHANGED <<flagged, receipts>>
    BY <1>3 DEF RemoveSource
  <2>2. \A u \in Urls \ {s} : handling'[u] = handling[u]
    BY <2>1 DEF TypeOK
  <2>3. ASSUME NEW d \in Derivative, d.revision.source = s PROVE ~Eligible(d)'
    BY <1>a, <2>1, <2>3
  <2>4. ASSUME NEW d \in Derivative, d.revision.source # s
        PROVE  Eligible(d)' <=> Eligible(d)
    <3>1. d.revision.source \in Urls
      BY DerivativeFields
    <3>2. /\ handling'[d.revision.source] = handling[d.revision.source]
          /\ \A x \in Derivative : x.revision = d.revision => derived'[x] = derived[x]
          /\ derived'[d] = derived[d]
          /\ d.revision.source \in removed' <=> d.revision.source \in removed
      BY <2>1, <2>2, <2>4, <3>1
    <3> QED
      BY <1>a, <2>1, <3>2, EligibleValue
  <2>5. \A d \in Derivative : d \in index' <=> Eligible(d)'
    BY <1>0, <2>1, <2>3, <2>4 DEF OfSource
  <2> QED
    BY <1>0, <2>1, <2>5
<1>4. ASSUME AddWrites PROVE index' = {d \in Derivative : Eligible(d)'}
  <2>0. PICK x \in Derivative : x = adding.derivative
    BY <1>4 DEF AddWrites, AddInv
  <2> DEFINE label == derived'[x]
  <2>1. /\ x \in Derivative
        /\ label \in Labels
        /\ derived[x] # None /\ derived[x] # "public" => label = derived[x]
        /\ label = "public" =>
              \A d \in Derivative :
                 d.revision = x.revision /\ derived[d] # None => derived[d] = "public"
        /\ \A d \in Derivative \ {x} : derived'[d] = derived[d]
        /\ index' = (IF label = "public" THEN index \ {x}
                     ELSE index \ OfRevision(x.revision))
                    \cup {y \in {x} : Eligible(y)'}
    BY <1>4, <2>0, AddWritesValues
  <2>2. UNCHANGED <<handling, flagged, removed, receipts>>
    BY <1>4 DEF AddWrites
  <2>3. x \in index' <=> Eligible(x)'
    <3>1. x \notin (IF label = "public" THEN index \ {x}
                    ELSE index \ OfRevision(x.revision))
      BY <2>1 DEF OfRevision
    <3>2. x \in {y \in {x} : Eligible(y)'} <=> Eligible(x)'
      OBVIOUS
    <3>3. index' = (IF label = "public" THEN index \ {x}
                    ELSE index \ OfRevision(x.revision))
                   \cup {y \in {x} : Eligible(y)'}
      BY <2>1
    <3> QED
      BY <3>1, <3>2, <3>3
  <2>4. ASSUME NEW d \in Derivative \ {x}, d.revision = x.revision, label # "public"
        PROVE  ~Eligible(d)'
    BY <1>a, <2>1, <2>4, PublicIsLabel
  <2>5. ASSUME NEW d \in Derivative \ {x}, d.revision # x.revision \/ label = "public"
        PROVE  Eligible(d)' <=> Eligible(d)
    <3>1. derived'[d] = derived[d]
      BY <2>1
    <3>2. (\A y \in Derivative :
              y.revision = d.revision /\ derived'[y] # None => derived'[y] = "public")
          <=> (\A y \in Derivative :
              y.revision = d.revision /\ derived[y] # None => derived[y] = "public")
      BY <2>1, <2>5
    <3> QED
      BY <1>a, <2>2, <3>1, <3>2, EligibleValue
  <2>6. ASSUME NEW d \in Derivative \ {x}
        PROVE  d \in index' <=>
                  Eligible(d) /\ (d.revision # x.revision \/ label = "public")
    BY <1>0, <2>1 DEF OfRevision
  <2>7. ASSUME NEW d \in Derivative PROVE d \in index' <=> Eligible(d)'
    <3>1. CASE d = x
      BY <2>3, <3>1
    <3>2. CASE d # x
      BY <2>4, <2>5, <2>6, <3>2
    <3> QED
      BY <3>1, <3>2
  <2>8. index' \subseteq Derivative
    BY <1>0, <2>1
  <2> QED
    BY <2>7, <2>8
<1>5. ASSUME Reopen PROVE index' = {d \in Derivative : Eligible(d)'}
  <2>1. /\ \A s \in Urls : handling'[s] = "public" => handling[s] = "public"
        /\ \A d \in Derivative :
               /\ derived'[d] = None <=> derived[d] = None
               /\ derived'[d] = "public" => derived[d] = "public"
    BY <1>5, ReopenValues
  <2>2. /\ index' = {d \in index : Eligible(d)'}
        /\ UNCHANGED <<flagged, removed, receipts>>
    BY <1>5 DEF Reopen
  <2>3. ASSUME NEW d \in Derivative, Eligible(d)' PROVE Eligible(d)
    <3>1. d.revision.source \in Urls
      BY DerivativeFields
    <3>2. \A y \in Derivative :
              y.revision = d.revision /\ derived[y] # None => derived[y] = "public"
      BY <1>a, <2>1, <2>3
    <3> QED
      BY <1>a, <2>1, <2>2, <2>3, <3>1, <3>2, EligibleValue
  <2> QED
    BY <1>0, <2>2, <2>3
<1>6. ASSUME UNCHANGED Tables PROVE index' = {d \in Derivative : Eligible(d)'}
  <2>1. \A d \in Derivative : Eligible(d)' <=> Eligible(d)
    BY <1>a, <1>6, EligibleValue DEF Tables
  <2> QED
    BY <1>0, <1>6, <2>1 DEF Tables
<1> HIDE DEF IInv
<1> QED
  BY <1>1, <1>2, <1>3, <1>4, <1>5, <1>6, StepSorts

-----------------------------------------------------------------------------
(* The theorems *)

\* The inductive invariant holds.
THEOREM Invariant == Spec => []IInv
<1>1. ASSUME Init PROVE IInv
  <2>1. receipts = <<>> /\ DOMAIN receipts = {} /\ index = {} /\ removed = {}
        /\ adding = NoAdd /\ \A d \in Derivative : derived[d] = None
    BY <1>1 DEF Init
  <2>2. LatestInv /\ HeadInv /\ AddInv /\ RemovedInv
    BY <2>1 DEF LatestInv, Observed, HeadInv, AddInv, RemovedInv
  <2>3. DerivativesFollowTheSource /\ IndexInv
    BY <2>1, PublicIsLabel, EligibleValue DEF DerivativesFollowTheSource, IndexInv
  <2> QED
    BY <1>1, <2>1, <2>2, <2>3, InitTypeOK DEF IInv
<1>2. ASSUME IInv, [Next]_vars PROVE IInv'
  BY <1>2, StepTypeOK, StepReceipts, StepAdd, StepDerived, StepIndex DEF IInv
<1>3. IInv /\ [Next]_vars => IInv'
  BY <1>2
<1> QED
  BY <1>1, <1>3, PTL DEF Spec

\* The text index holds exactly the derivatives that may be found, whatever
\* the order of registrations, restrictions, withdrawals and add()s.
THEOREM IndexIsAlwaysExact == Spec => []IndexIsExact
<1>1. IInv => IndexIsExact
  BY DEF IInv, IndexInv, IndexIsExact, Hits
<1> QED
  BY <1>1, Invariant, PTL

\* A source that is not public has no public derivative: an add() that read
\* the policy before a restriction writes before it, too.
THEOREM DerivativesAlwaysFollow == Spec => []DerivativesFollowTheSource
<1>1. IInv => DerivativesFollowTheSource
  BY DEF IInv
<1> QED
  BY <1>1, Invariant, PTL

\* Nothing makes a revision public again that was not.
LEMMA StepDenial ==
    ASSUME IInv, [Next]_vars, NEW r \in Revisions, RevisionEligible(r)'
    PROVE  RevisionEligible(r)
<1> USE DEF IInv
<1>0. r.source \in Urls /\ handling[r.source] \in Labels /\ handling[r.source] # None
  BY AcquiredExists, PublicIsLabel
<1>1. /\ handling'[r.source] = "public"
      /\ r.source \notin flagged' /\ r.source \notin removed'
      /\ \A i \in DOMAIN receipts' :
             receipts'[i].revision = r => receipts'[i].label = "public"
      /\ \A d \in Derivative :
             d.revision = r /\ derived'[d] # None => derived'[d] = "public"
  BY DEF RevisionEligible, Stored, OfRevision
<1>2. \E i \in DOMAIN receipts : receipts[i].revision = r
  BY DEF Revisions
<1> SUFFICES /\ handling[r.source] = "public"
             /\ r.source \notin flagged /\ r.source \notin removed
             /\ \A i \in DOMAIN receipts :
                    receipts[i].revision = r => receipts[i].label = "public"
             /\ \A d \in Derivative :
                    d.revision = r /\ derived[d] # None => derived[d] = "public"
  BY <1>2 DEF RevisionEligible, Stored, OfRevision
<1> DEFINE Same == /\ handling[r.source] = "public"
                   /\ r.source \notin flagged /\ r.source \notin removed
                   /\ \A i \in DOMAIN receipts :
                          receipts[i].revision = r => receipts[i].label = "public"
                   /\ \A d \in Derivative :
                          d.revision = r /\ derived[d] # None => derived[d] = "public"
<1>3. ASSUME NEW u \in Urls, NEW from \in Urls \cup {None}, NEW c \in Contents,
             NEW label \in Given, NEW now \in Times, Register(u, from, c, label, now)
      PROVE  Same
  <2> DEFINE s == SourceOf(u, from)
             q == [source |-> s, content |-> c]
             n == Len(receipts) + 1
  <2>1. /\ s \in Urls
        /\ handling'[s] = IF handling[s] \in {None, "public"} THEN label ELSE handling[s]
        /\ \A v \in Urls \ {s} : handling'[v] = handling[v]
        /\ DOMAIN receipts' = 1..n /\ DOMAIN receipts = 1..(n - 1)
        /\ \A i \in 1..(n - 1) : receipts'[i] = receipts[i]
        /\ \A d \in Derivative : derived'[d] =
               IF derived[d] # None /\ label # "public"
                  /\ \/ d.revision = q
                     \/ d.revision.source = s /\ handling'[s] # handling[s]
               THEN handling'[s] ELSE derived[d]
    BY <1>3, RegisterValues
  <2>2. flagged' = flagged /\ removed' = removed /\ n \in Nat
    BY <1>3 DEF Register
  <2> HIDE DEF s, q, n
  <2>3. handling[r.source] = "public"
    BY <1>0, <1>1, <2>1
  <2>4. \A i \in DOMAIN receipts : i \in DOMAIN receipts' /\ receipts'[i] = receipts[i]
    BY <2>1, <2>2
  <2>5. ASSUME NEW d \in Derivative, d.revision = r, derived[d] # None
        PROVE  derived[d] = "public"
    <3>1. CASE derived'[d] = derived[d]
      BY <1>1, <2>5, <3>1
    <3>2. CASE derived'[d] # derived[d]
      <4>1. label # "public" /\ derived'[d] = handling'[s]
            /\ (d.revision = q \/ d.revision.source = s)
        BY <2>1, <3>2
      <4>2. d.revision.source = s
        BY <4>1 DEF q
      <4>3. handling'[s] = "public" /\ handling[s] = "public"
        BY <1>1, <2>3, <2>5, <4>2
      <4> QED
        BY <2>1, <4>1, <4>3
    <3> QED
      BY <3>1, <3>2
  <2> QED
    BY <1>1, <2>2, <2>3, <2>4, <2>5
<1>4. ASSUME NEW s \in Urls, NEW label \in Labels, Labelling(s, label) PROVE Same
  <2>1. /\ handling'[s] = label
        /\ \A u \in Urls \ {s} : handling'[u] = handling[u]
        /\ \A d \in Derivative : derived'[d] =
               IF d.revision.source = s /\ label # "public" /\ derived[d] # None
               THEN label ELSE derived[d]
    BY <1>4, SetHandlingValues DEF Labelling
  <2>2. /\ receipts' = receipts /\ removed' = removed /\ flagged \subseteq flagged'
        /\ label = "public" => handling[s] = "public"
    BY <1>4 DEF Labelling
  <2>3. handling[r.source] = "public"
    BY <1>0, <1>1, <2>1, <2>2
  <2>4. \A d \in Derivative : d.revision = r => derived'[d] = derived[d]
    BY <1>1, <2>1
  <2> QED
    BY <1>1, <2>2, <2>3, <2>4
<1>5. ASSUME NEW s \in Urls, RemoveSource(s) PROVE Same
  <2>1. /\ removed' = removed \cup {s}
        /\ handling' = [handling EXCEPT ![s] = "revoked"]
        /\ derived' = [d \in Derivative |->
                          IF d.revision.source = s THEN None ELSE derived[d]]
        /\ UNCHANGED <<flagged, receipts>>
    BY <1>5 DEF RemoveSource
  <2>2. r.source # s
    BY <1>1, <2>1
  <2>3. handling'[r.source] = handling[r.source]
    BY <1>0, <2>1, <2>2 DEF TypeOK
  <2>4. \A d \in Derivative : d.revision = r => derived'[d] = derived[d]
    BY <2>1, <2>2
  <2> QED
    BY <1>1, <2>1, <2>3, <2>4
<1>6. ASSUME AddWrites PROVE Same
  <2>0. PICK x \in Derivative : x = adding.derivative
    BY <1>6 DEF AddWrites, AddInv
  <2>1. /\ derived[x] # None /\ derived[x] # "public" => derived'[x] = derived[x]
        /\ \A d \in Derivative \ {x} : derived'[d] = derived[d]
    BY <1>6, <2>0, AddWritesValues
  <2>2. UNCHANGED <<handling, flagged, removed, receipts>>
    BY <1>6 DEF AddWrites
  <2>3. ASSUME NEW d \in Derivative, d.revision = r, derived[d] # None
        PROVE  derived[d] = "public"
    BY <1>1, <2>1, <2>3
  <2> QED
    BY <1>1, <2>2, <2>3
<1>7. ASSUME Reopen PROVE Same
  <2>1. /\ \A s \in Urls : handling'[s] = "public" => handling[s] = "public"
        /\ \A d \in Derivative :
               /\ derived'[d] = None <=> derived[d] = None
               /\ derived'[d] = "public" => derived[d] = "public"
    BY <1>7, ReopenValues
  <2>2. UNCHANGED <<flagged, removed, receipts>>
    BY <1>7 DEF Reopen
  <2>3. ASSUME NEW d \in Derivative, d.revision = r, derived[d] # None
        PROVE  derived[d] = "public"
    BY <1>1, <2>1, <2>3
  <2> QED
    BY <1>0, <1>1, <2>1, <2>2, <2>3
<1>8. ASSUME UNCHANGED Tables PROVE Same
  BY <1>1, <1>8 DEF Tables
<1> HIDE DEF IInv
<1> QED
  BY <1>3, <1>4, <1>5, <1>6, <1>7, <1>8, StepSorts

\* A revision that was denied once is denied for good: no reacquisition, edit
\* of the policy, extraction or upgrade serves it again.
THEOREM DenialIsAlwaysFinal == Spec => DenialIsFinal
<1>1. ASSUME IInv, [Next]_vars
      PROVE  [\A r \in Revisions \ Exports : r \notin Exports']_vars
  <2>1. ASSUME NEW r \in Revisions \ Exports PROVE r \notin Exports'
    <3>1. ~RevisionEligible(r)
      BY <2>1 DEF Exports
    <3>2. ~RevisionEligible(r)'
      BY <1>1, <3>1, StepDenial
    <3> QED
      BY <3>2 DEF Exports
  <2> QED
    BY <2>1
<1>2. IInv /\ [Next]_vars => [\A r \in Revisions \ Exports : r \notin Exports']_vars
  BY <1>1
<1> QED
  BY <1>2, Invariant, PTL DEF Spec, DenialIsFinal

\* The source of a URL never changes, also when the URL was declared moved.
THEOREM OneSourceForEachUrl == Spec => []OneSourcePerUrl
<1>1. IInv => OneSourcePerUrl
  BY DEF IInv, HeadInv, OneSourcePerUrl
<1> QED
  BY <1>1, Invariant, PTL

\* A withdrawn source keeps nothing and takes nothing.
THEOREM WithdrawalStays == Spec => WithdrawalIsFinal
<1> DEFINE A == \A s \in removed :
                   /\ s \in removed'
                   /\ Stored(OfSource(s))' = {}
                   /\ \A i \in DOMAIN receipts' \ DOMAIN receipts :
                          receipts'[i].revision.source # s
<1>1. ASSUME IInv, IInv', [Next]_vars PROVE A
  <2>1. ASSUME NEW u \in Urls, NEW from \in Urls \cup {None}, NEW c \in Contents,
               NEW label \in Given, NEW now \in Times, Register(u, from, c, label, now)
        PROVE  /\ removed' = removed
               /\ \A s \in removed : \A i \in DOMAIN receipts' \ DOMAIN receipts :
                      receipts'[i].revision.source # s
    <3> DEFINE s == SourceOf(u, from)
               q == [source |-> s, content |-> c]
               n == Len(receipts) + 1
    <3>1. /\ s \notin removed /\ DOMAIN receipts' = 1..n /\ DOMAIN receipts = 1..(n - 1)
          /\ receipts'[n].revision = q
      BY <1>1, <2>1, RegisterValues DEF IInv
    <3>2. n \in Nat /\ q.source = s
      BY <1>1 DEF IInv
    <3>3. removed' = removed
      BY <2>1 DEF Register
    <3> HIDE DEF n, q, s
    <3>4. \A i \in DOMAIN receipts' \ DOMAIN receipts : i = n
      BY <3>1, <3>2
    <3> QED
      BY <3>1, <3>2, <3>3, <3>4
  <2>2. ASSUME NEW s \in Urls, NEW label \in Labels, Labelling(s, label)
        PROVE  removed' = removed /\ receipts' = receipts
    BY <2>2 DEF Labelling
  <2>3. ASSUME NEW s \in Urls, RemoveSource(s)
        PROVE  removed \subseteq removed' /\ receipts' = receipts
    BY <2>3 DEF RemoveSource
  <2>4. ASSUME AddWrites \/ Reopen \/ UNCHANGED Tables
        PROVE  removed' = removed /\ receipts' = receipts
    BY <2>4 DEF AddWrites, Reopen, Tables
  <2>5. /\ removed \subseteq removed'
        /\ \A s \in removed : \A i \in DOMAIN receipts' \ DOMAIN receipts :
               receipts'[i].revision.source # s
    BY <1>1, <2>1, <2>2, <2>3, <2>4, StepSorts
  <2>6. ASSUME NEW s \in removed PROVE Stored(OfSource(s))' = {}
    BY <1>1, <2>5 DEF IInv, RemovedInv, Stored, OfSource
  <2> QED
    BY <2>5, <2>6
<1>2. IInv /\ IInv' /\ [Next]_vars => [A]_vars
  BY <1>1
<1> QED
  BY <1>2, Invariant, PTL DEF Spec, WithdrawalIsFinal

\* A legal hold, or a deadline in the future, keeps a source.
THEOREM HoldsAreAlwaysKept == Spec => HoldsAreKept
<1> DEFINE A == \A s \in removed' \ removed :
                   ~policy[s].hold /\ (policy[s].until = None \/ policy[s].until <= clock)
<1>1. ASSUME IInv, [Next]_vars PROVE [A]_vars
  <2>1. ASSUME NEW s \in Urls, RemoveSource(s) PROVE A
    <3>1. /\ removed' = removed \cup {s} /\ ~policy[s].hold
          /\ policy[s].until = None \/ ~(policy[s].until > clock)
      BY <2>1 DEF RemoveSource, RetentionActive
    <3>2. policy[s] \in [until : Times \cup {None}, hold : BOOLEAN] /\ clock \in Nat
      BY <1>1 DEF IInv, TypeOK
    <3>3. policy[s].until \in Nat \cup {None}
      BY <3>2, CatalogueAssumption
    <3> QED
      BY <3>1, <3>2, <3>3
  <2>2. ASSUME NEW s \in Urls, NEW label \in Labels, Labelling(s, label)
        PROVE  removed' = removed
    BY <2>2 DEF Labelling
  <2>3. ASSUME NEW u \in Urls, NEW from \in Urls \cup {None}, NEW c \in Contents,
               NEW label \in Given, NEW now \in Times, Register(u, from, c, label, now)
        PROVE  removed' = removed
    BY <2>3 DEF Register
  <2>4. ASSUME AddWrites \/ Reopen \/ UNCHANGED Tables PROVE removed' = removed
    BY <2>4 DEF AddWrites, Reopen, Tables
  <2> QED
    BY <1>1, <2>1, <2>2, <2>3, <2>4, StepSorts
<1>2. IInv /\ [Next]_vars => [A]_vars
  BY <1>1
<1> QED
  BY <1>2, Invariant, PTL DEF Spec, HoldsAreKept

-----------------------------------------------------------------------------
(* The heads and the receipts *)

\* Of the first n receipts in R, those of u: receipt i is the latest of them.
IsLatest(R, u, n, i) ==
    /\ i \in 1..n
    /\ R[i].url = u
    /\ \A j \in 1..n : R[j].url = u =>
          \/ R[j].acquired < R[i].acquired
          \/ R[j].acquired = R[i].acquired /\ j <= i

NewestOf(R, u, n) == {R[i].revision : i \in {j \in 1..n : IsLatest(R, u, n, j)}}

\* The head of a URL is its latest receipt, and a receipt compares with the
\* latest one that was there before it.
HeadsInv ==
    \A u \in Urls : head[u] # NoHead =>
        \E i \in DOMAIN receipts :
            /\ IsLatest(receipts, u, Len(receipts), i)
            /\ receipts[i].revision = head[u].revision
            /\ receipts[i].acquired = head[u].seen

Explained(R, i) ==
    {R[i].before} \ {None} =
        IF NewestOf(R, R[i].url, i - 1) # {} THEN NewestOf(R, R[i].url, i - 1)
        ELSE NewestOf(R, R[i].movedFrom, i - 1)

BeforeInv == \A i \in DOMAIN receipts : Explained(receipts, i)

LEMMA LatestOfValue ==
    ASSUME NEW u, NEW n
    PROVE  LatestOf(u, n) = NewestOf(receipts, u, n)
<1>1. ASSUME NEW x PROVE x \in LatestOf(u, n) <=> x \in NewestOf(receipts, u, n)
  BY DEF LatestOf, NewestOf, IsLatest
<1> QED BY <1>1

\* Receipts that come later do not change which of the first n is the latest.
LEMMA NewestKept ==
    ASSUME NEW R, NEW Q, NEW u, NEW n, \A i \in 1..n : Q[i] = R[i]
    PROVE  NewestOf(Q, u, n) = NewestOf(R, u, n)
<1>1. ASSUME NEW i \in 1..n PROVE IsLatest(Q, u, n, i) <=> IsLatest(R, u, n, i)
  BY DEF IsLatest
<1>2. ASSUME NEW x PROVE x \in NewestOf(Q, u, n) <=> x \in NewestOf(R, u, n)
  BY <1>1 DEF NewestOf
<1> QED BY <1>2

\* There is one latest receipt of a URL at most.
LEMMA NewestIs ==
    ASSUME NEW R, NEW u, NEW n \in Nat, NEW i, IsLatest(R, u, n, i),
           \A j \in 1..n : R[j].acquired \in Nat
    PROVE  NewestOf(R, u, n) = {R[i].revision}
<1>1. ASSUME NEW j, IsLatest(R, u, n, j) PROVE j = i
  <2>1. i \in 1..n /\ j \in 1..n /\ R[i].url = u /\ R[j].url = u
    BY <1>1 DEF IsLatest
  <2>2. /\ R[j].acquired < R[i].acquired \/ (R[j].acquired = R[i].acquired /\ j <= i)
        /\ R[i].acquired < R[j].acquired \/ (R[i].acquired = R[j].acquired /\ i <= j)
    BY <1>1, <2>1 DEF IsLatest
  <2>3. R[i].acquired \in Nat /\ R[j].acquired \in Nat /\ i \in Nat /\ j \in Nat
    BY <2>1
  <2> QED BY <2>2, <2>3
<1>2. i \in 1..n
  BY DEF IsLatest
<1>3. {j \in 1..n : IsLatest(R, u, n, j)} = {i}
  BY <1>1, <1>2
<1> QED BY <1>3 DEF NewestOf

\* The head that a registration finds is what the receipts say it is.
LEMMA HeadIsNewest ==
    ASSUME TypeOK, receipts \in Seq(Receipts), HeadInv, HeadsInv, NEW u \in Urls
    PROVE  /\ {head[u].revision} \ {None} = NewestOf(receipts, u, Len(receipts))
           /\ head[u] = NoHead <=> NewestOf(receipts, u, Len(receipts)) = {}
<1>0. Len(receipts) \in Nat /\ DOMAIN receipts = 1..Len(receipts)
  OBVIOUS
<1>1. CASE head[u] = NoHead
  <2>1. \A i \in DOMAIN receipts : receipts[i].url # u
    BY <1>1 DEF HeadInv
  <2>2. NewestOf(receipts, u, Len(receipts)) = {}
    BY <1>0, <2>1 DEF NewestOf, IsLatest
  <2>3. head[u].revision = None
    BY <1>1 DEF NoHead
  <2> QED BY <1>1, <2>2, <2>3
<1>2. CASE head[u] # NoHead
  <2>1. PICK i \in DOMAIN receipts :
           /\ IsLatest(receipts, u, Len(receipts), i)
           /\ receipts[i].revision = head[u].revision
    BY <1>2 DEF HeadsInv
  <2>2. \A j \in 1..Len(receipts) : receipts[j].acquired \in Nat
    BY <1>0, ReceiptAt
  <2>3. NewestOf(receipts, u, Len(receipts)) = {head[u].revision}
    BY <1>0, <2>1, <2>2, NewestIs
  <2>4. head[u].revision \in Revision
    BY <2>1, ReceiptAt
  <2>5. head[u].revision # None
    BY <2>4, CatalogueAssumption DEF Revision
  <2> QED BY <1>2, <2>3, <2>5
<1> QED BY <1>1, <1>2

\* A registration moves the head exactly when it is the latest receipt, and
\* records the head that it found.
LEMMA RegisterExplains ==
    ASSUME IInv, HeadsInv, BeforeInv,
           NEW u \in Urls, NEW from \in Urls \cup {None}, NEW c \in Contents,
           NEW label \in Given, NEW now \in Times, Register(u, from, c, label, now)
    PROVE  HeadsInv' /\ BeforeInv'
<1> USE DEF IInv
<1> DEFINE s == SourceOf(u, from)
           r == [source |-> s, content |-> c]
           n == Len(receipts) + 1
           new == [source |-> s, revision |-> r, seen |-> now]
           H == [source : Urls, revision : Revision, seen : Times]
<1>1. /\ receipts' \in Seq(Receipts) /\ DOMAIN receipts' = 1..n
      /\ DOMAIN receipts = 1..(n - 1)
      /\ \A i \in 1..(n - 1) : receipts'[i] = receipts[i]
      /\ receipts'[n].revision = r /\ receipts'[n].url = u
      /\ receipts'[n].acquired = now
      /\ \A v \in Urls \ {u} : head'[v] = head[v]
  BY RegisterValues
<1>2. /\ receipts'[n].before = Baseline(u, from).revision
      /\ receipts'[n].movedFrom = from
  <2>1. receipts' = Append(receipts, Receipt(u, from, c, label, now))
    BY DEF Register
  <2>2. PICK R : R = Receipt(u, from, c, label, now)
    OBVIOUS
  <2>3. receipts'[n] = R
    BY <2>1, <2>2
  <2> QED BY <2>2, <2>3 DEF Receipt
<1>3. head'[u] = IF head[u] = NoHead \/ now >= head[u].seen THEN new ELSE head[u]
  <2>1. head' = [head EXCEPT ![u] = Later(@, new)]
    BY DEF Register, Receipt
  <2>2. head'[u] = Later(head[u], new)
    <3> HIDE DEF new
    <3> QED BY <2>1 DEF TypeOK
  <2>3. new.seen = now
    OBVIOUS
  <2> HIDE DEF new
  <2> QED BY <2>2, <2>3 DEF Later
<1>4. /\ n \in Nat \ {0} /\ n - 1 \in Nat /\ now \in Nat /\ Len(receipts) = n - 1
      /\ Len(receipts') = n
      /\ \A i \in 1..n : i = n \/ i \in 1..(n - 1)
      /\ \A i \in 1..(n - 1) : i \in 1..n /\ i < n
      /\ n \in 1..n
  BY <1>1, CatalogueAssumption
<1>5. \A i \in 1..(n - 1) : receipts[i].url \in Urls /\ receipts[i].acquired \in Nat
  BY <1>1, ReceiptAt
<1>6. new.revision = r /\ new.seen = now
  OBVIOUS
<1>7. from = None \/ (from \in Urls /\ head[from] # NoHead)
  BY DEF Register, Registrable
<1> HIDE DEF new, r, n, s, IInv
<1>8. ASSUME NEW v \in Urls, head'[v] # NoHead
      PROVE  \E i \in DOMAIN receipts' :
                 /\ IsLatest(receipts', v, n, i)
                 /\ receipts'[i].revision = head'[v].revision
                 /\ receipts'[i].acquired = head'[v].seen
  <2>1. CASE v # u
    <3>1. head'[v] = head[v]
      BY <1>1, <2>1
    <3>2. PICK i \in DOMAIN receipts :
             /\ IsLatest(receipts, v, n - 1, i)
             /\ receipts[i].revision = head[v].revision
             /\ receipts[i].acquired = head[v].seen
      BY <1>4, <1>8, <3>1 DEF HeadsInv
    <3>3. i \in 1..(n - 1) /\ receipts'[i] = receipts[i]
      BY <1>1, <3>2
    <3>4. IsLatest(receipts', v, n, i)
      BY <1>1, <1>4, <2>1, <3>2, <3>3 DEF IsLatest
    <3> QED BY <1>1, <1>4, <3>1, <3>2, <3>3, <3>4
  <2>2. CASE v = u /\ head[u] = NoHead
    <3>1. \A i \in 1..(n - 1) : receipts[i].url # u
      BY <1>1, <2>2 DEF HeadInv, IInv
    <3>2. IsLatest(receipts', u, n, n)
      BY <1>1, <1>4, <3>1 DEF IsLatest
    <3> QED BY <1>1, <1>3, <1>4, <1>6, <2>2, <3>2
  <2>3. CASE v = u /\ head[u] # NoHead
    <3>1. PICK i \in DOMAIN receipts :
             /\ IsLatest(receipts, u, n - 1, i)
             /\ receipts[i].revision = head[u].revision
             /\ receipts[i].acquired = head[u].seen
      BY <1>4, <2>3 DEF HeadsInv
    <3>2. i \in 1..(n - 1) /\ receipts'[i] = receipts[i] /\ receipts[i].acquired \in Nat
      BY <1>1, <1>5, <3>1
    <3>3. CASE now >= head[u].seen
      <4>1. ASSUME NEW j \in 1..n, receipts'[j].url = u
            PROVE  \/ receipts'[j].acquired < receipts'[n].acquired
                   \/ receipts'[j].acquired = receipts'[n].acquired /\ j <= n
        <5>1. CASE j = n
          BY <1>4, <5>1
        <5>2. CASE j \in 1..(n - 1)
          <6>1. /\ receipts'[j] = receipts[j] /\ receipts[j].acquired \in Nat
                /\ receipts[j].url = u
            BY <1>1, <1>5, <4>1, <5>2
          <6>2. receipts[j].acquired <= receipts[i].acquired
            BY <3>1, <3>2, <5>2, <6>1 DEF IsLatest
          <6>3. receipts[j].acquired <= now
            BY <1>4, <3>1, <3>2, <3>3, <6>1, <6>2
          <6> QED BY <1>1, <1>4, <5>2, <6>1, <6>3
        <5> QED BY <1>4, <5>1, <5>2
      <4>2. IsLatest(receipts', u, n, n)
        BY <1>1, <1>4, <4>1 DEF IsLatest
      <4>3. head'[u] = new
        BY <1>3, <3>3
      <4> QED BY <1>1, <1>4, <1>6, <2>3, <4>2, <4>3
    <3>4. CASE ~(now >= head[u].seen)
      <4>1. head'[u] = head[u]
        BY <1>3, <2>3, <3>4
      <4>2. now < receipts[i].acquired
        BY <1>4, <3>1, <3>2, <3>4
      <4>3. ASSUME NEW j \in 1..n, receipts'[j].url = u
            PROVE  \/ receipts'[j].acquired < receipts'[i].acquired
                   \/ receipts'[j].acquired = receipts'[i].acquired /\ j <= i
        <5>1. CASE j = n
          BY <1>1, <3>2, <4>2, <5>1
        <5>2. CASE j \in 1..(n - 1)
          BY <1>1, <3>1, <3>2, <4>3, <5>2 DEF IsLatest
        <5> QED BY <1>4, <5>1, <5>2
      <4>4. receipts'[i].url = u /\ i \in 1..n
        BY <1>4, <3>1, <3>2 DEF IsLatest
      <4>5. IsLatest(receipts', u, n, i)
        BY <4>3, <4>4 DEF IsLatest
      <4> QED BY <1>1, <2>3, <3>1, <3>2, <4>1, <4>4, <4>5
    <3> QED BY <3>3, <3>4
  <2> QED BY <2>1, <2>2, <2>3
<1>9. HeadsInv'
  BY <1>4, <1>8 DEF HeadsInv
<1>10. ASSUME NEW v, NEW m \in 0..(n - 1)
       PROVE  NewestOf(receipts', v, m) = NewestOf(receipts, v, m)
  <2>1. \A i \in 1..m : receipts'[i] = receipts[i]
    BY <1>1, <1>4
  <2> QED BY <2>1, NewestKept
<1>11. ASSUME NEW i \in 1..(n - 1) PROVE Explained(receipts', i)
  <2>1. receipts'[i] = receipts[i] /\ i - 1 \in 0..(n - 1) /\ Explained(receipts, i)
    BY <1>1, <1>4 DEF BeforeInv
  <2>2. \A v : NewestOf(receipts', v, i - 1) = NewestOf(receipts, v, i - 1)
    BY <1>10, <2>1
  <2> QED BY <2>1, <2>2 DEF Explained
<1>12. Explained(receipts', n)
  <2>1. \A v \in Urls :
           /\ {head[v].revision} \ {None} = NewestOf(receipts, v, n - 1)
           /\ head[v] = NoHead <=> NewestOf(receipts, v, n - 1) = {}
    BY <1>4, HeadIsNewest DEF IInv
  <2>2. \A v : NewestOf(receipts', v, n - 1) = NewestOf(receipts, v, n - 1)
    BY <1>4, <1>10
  <2>3. NewestOf(receipts, None, n - 1) = {}
    BY <1>5, PublicIsLabel DEF NewestOf, IsLatest
  <2>4. NoHead.revision = None
    BY DEF NoHead
  <2>5. {Baseline(u, from).revision} \ {None} =
           IF NewestOf(receipts, u, n - 1) # {} THEN NewestOf(receipts, u, n - 1)
           ELSE NewestOf(receipts, from, n - 1)
    <3>1. CASE head[u] # NoHead
      BY <2>1, <3>1 DEF Baseline
    <3>2. CASE head[u] = NoHead /\ from = None
      BY <2>1, <2>3, <2>4, <3>2 DEF Baseline
    <3>3. CASE head[u] = NoHead /\ from # None
      BY <1>7, <2>1, <3>3 DEF Baseline
    <3> QED BY <3>1, <3>2, <3>3
  <2> QED BY <1>1, <1>2, <2>2, <2>5 DEF Explained
<1>13. BeforeInv'
  BY <1>1, <1>4, <1>11, <1>12 DEF BeforeInv
<1> QED BY <1>9, <1>13

\* The head of every URL is its latest capture, in whatever order captures were
\* registered, and each change receipt compares with the head its transaction
\* found, the origin's when the URL is new (document_catalogue.py register).
THEOREM ReceiptsAlwaysExplain == Spec => []ReceiptsExplainTheHeads
<1>1. ASSUME Init PROVE HeadsInv /\ BeforeInv
  BY <1>1 DEF Init, HeadsInv, BeforeInv
<1>2. ASSUME IInv, HeadsInv, BeforeInv, [Next]_vars PROVE HeadsInv' /\ BeforeInv'
  <2>1. ASSUME UNCHANGED <<receipts, head>> PROVE HeadsInv' /\ BeforeInv'
    BY <1>2, <2>1 DEF HeadsInv, BeforeInv
  <2>2. ASSUME NEW s \in Urls, NEW label \in Labels, Labelling(s, label)
        PROVE  UNCHANGED <<receipts, head>>
    BY <2>2 DEF Labelling
  <2>3. ASSUME (\E s \in Urls : RemoveSource(s)) \/ AddWrites \/ Reopen \/ UNCHANGED Tables
        PROVE  UNCHANGED <<receipts, head>>
    BY <2>3 DEF RemoveSource, AddWrites, Reopen, Tables
  <2> QED BY <1>2, <2>1, <2>2, <2>3, StepSorts, RegisterExplains
<1>3. ASSUME IInv, HeadsInv, BeforeInv PROVE ReceiptsExplainTheHeads
  <2>1. \A u \in Urls : {head[u].revision} \ {None} = LatestOf(u, Len(receipts))
    BY <1>3, HeadIsNewest, LatestOfValue DEF IInv
  <2>2. \A u, n : LatestOf(u, n) = NewestOf(receipts, u, n)
    BY LatestOfValue
  <2> QED BY <1>3, <2>1, <2>2 DEF ReceiptsExplainTheHeads, BeforeInv, Explained
<1>4. /\ Init => HeadsInv /\ BeforeInv
      /\ IInv /\ HeadsInv /\ BeforeInv /\ [Next]_vars => HeadsInv' /\ BeforeInv'
      /\ IInv /\ HeadsInv /\ BeforeInv => ReceiptsExplainTheHeads
  BY <1>1, <1>2, <1>3
<1> QED
  BY <1>4, Invariant, PTL DEF Spec

-----------------------------------------------------------------------------
(* NativeBundle: the inductive invariants.  Everywhere a process that      *)
(* builds is the only one, and does what build says.                       *)

Working == {"attempt", "quarantine", "request", "body", "check", "publish", "record",
            "error", "failed"}

\* What a stage says of the task and of the file at hand.
FetchInv ==
    \A p \in Fetchers :
        /\ proc[p].at = "idle" => proc[p].task = "provision"
        /\ proc[p].at = "index" => proc[p].task = "acquire"
        /\ proc[p].at \in Working => proc[p].entry \in Entries
        /\ proc[p].task = "stage" =>
               /\ proc[p].todo \subseteq Archives
               /\ proc[p].at \in Working => proc[p].entry \in Archives
        /\ proc[p].at \in {"attempt", "quarantine"} =>
               proc[p].entry \in Models /\ proc[p].task # "stage"

BuilderInv ==
    /\ \A p, q \in Fetchers : proc[p].task = "build" /\ proc[q].task = "build" => p = q
    /\ \A p \in Fetchers :
           /\ proc[p].at = "busy" => proc[p].task = "build"
           /\ proc[p].task = "build" =>
                  /\ proc[p].at \in Working \union {"next", "busy"}
                  /\ build.at # "none"
                  /\ proc[p].at = "busy" <=> build.at # "fetching"

\* What a stage of the build says of the asset at hand and of those that are left.
StageInv ==
    /\ build.at = "none" => build = NoBuild
    /\ build.at = "fetching" => build.asset \in build.left \ {Speech}
    /\ build.at = "unpack" => build.asset \in build.left \intersect Runtimes
    /\ build.at \in {"pack", "drop"} => build.asset \in build.left \intersect Models
    /\ build.at \in {"extract", "consume"} => build.asset \in build.left
    /\ build.at = "manifest" => build.left = {}
    /\ build.asset \in Models =>
           /\ build.at \in {"fetching", "pack", "drop", "extract", "consume"}
           /\ build.left \subseteq Models

KindInv == BundleTypeOK /\ FetchInv /\ BuilderInv /\ StageInv

-----------------------------------------------------------------------------
\* One process at a time downloads into a directory: with two of them a file can be
\* published that is not the locked one (see MCNativeBundle and BundleTwo.cfg).
OneFetcher == \A p, q \in Fetchers : p = q

\* What is published has been compared with the lock, and is still what was compared.
PublishInv ==
    \A p \in Fetchers :
        /\ proc[p].open = IF proc[p].at = "body" THEN "part" ELSE "none"
        /\ At(p, "publish") => Locked(Entry(p), Here(p, "part"))

\* Only the second attempt need be a good one: the first may go on with a file that
\* was damaged, but then that file is as long as it should be, and is put aside.
Resumed(p) ==
    /\ Entry(p) \in Models
    /\ proc[p].task # "stage"
    /\ proc[p].attempt = 0

HonestInv ==
    \A p \in Fetchers : proc[p].clean =>
        /\ At(p, "attempt") =>
               proc[p].attempt = 0 \/ Length(Here(p, "part")) >= Full(p)
        /\ At(p, "quarantine") => Here(p, "part") # Absent
        /\ At(p, "request") =>
               \/ proc[p].offset = 0
               \/ /\ Resumed(p)
                  /\ proc[p].offset = Length(Here(p, "part"))
                  /\ proc[p].offset <= Full(p)
        /\ At(p, "body") =>
               /\ proc[p].offset <= Full(p)
               /\ \/ /\ ~proc[p].append
                     /\ Here(p, "part") = [i \in 1..proc[p].offset |-> TRUE]
                  \/ /\ proc[p].append
                     /\ Resumed(p)
                     /\ Length(Here(p, "part")) = proc[p].offset
        /\ At(p, "check") =>
               \/ Locked(Entry(p), Here(p, "part"))
               \/ Resumed(p) /\ Length(Here(p, "part")) >= Full(p)
        /\ At(p, "error") => Resumed(p) /\ Length(Here(p, "part")) >= Full(p)
        /\ At(p, "failed") => proc[p].offline \/ (Entry(p) \in Models /\ Attempts = 1)

-----------------------------------------------------------------------------
OrTaken(e) == Published(e) \/ e \in taken

\* A file that a process has got, or the audit has found in order, stays as it is,
\* unless a build takes it.
GotInv ==
    /\ \A p \in Fetchers :
           /\ \A e \in proc[p].got : OrTaken(e)
           /\ At(p, "record") => Published(Entry(p))
           /\ proc[p].task = "build" /\ build.at = "fetching" =>
                  /\ \A e \in proc[p].wanted :
                         \/ e \in proc[p].todo
                         \/ At(p, "next") /\ Published(e)
                         \/ ~At(p, "next") /\ (e = Entry(p) \/ Published(e))
                  /\ build.asset \in Models => proc[p].wanted = {build.asset}
    /\ build.at = "pack" => Published(build.asset)
    /\ audit.ok => \A e \in audit.wanted \ audit.todo : OrTaken(e)

\* What is in an archive or a package is there, and is what it should be if no other
\* process could write into the directories while the build was at work.
Whole(c) == c # Absent /\ (OneFetcher => c.good)

\* What of a build is made and not yet in the package is in its archive, and what is
\* not left is in the package.
Making ==
    \/ build.at \in {"runtime", "unpack", "speech"}
    \/ build.at = "fetching" /\ build.asset \notin Models

Packing ==
    \/ build.at \in {"stream", "pack", "drop", "extract", "consume", "manifest"}
    \/ build.at = "fetching" /\ build.asset \in Models

StreamInv ==
    /\ Making => \A r \in Runtimes \ build.left : tar[r] = Made
    /\ build.at = "speech" => build.left \intersect Runtimes = {}
    /\ build.at = "assemble" => build.left = Assets
    /\ Packing \/ build.at = "assemble" =>
           \A a \in build.left \ Models : tar[a] = Made
    /\ Packing =>
           /\ package["temp"].here
           /\ package["temp"].extra = {}
           /\ \A a \in Assets \ build.left : Whole(package["temp"].part[a])
    /\ build.at \in {"drop", "extract"} => Whole(tar[build.asset])
    /\ build.at = "consume" => Whole(package["temp"].part[build.asset])

ManifestInv ==
    /\ \A k \in Places : package[k].manifest # Nothing =>
           \A a \in Assets : Whole(package[k].manifest[a])
    /\ \A k \in Places \ {"temp"} : package[k].here => package[k].manifest # Nothing
    /\ package["temp"].manifest = Nothing

\* What a child has passed, and what it has still to try.
ChildInv ==
    \A b \in Bundles :
        /\ child[b].at = "passed" => child[b].passed = CheckNames
        /\ child[b].at = "running" => child[b].step < Len(Checks)
-----------------------------------------------------------------------------
(* The kinds of things *)

Process ==
    [at : Stages, task : Tasks, wanted : SUBSET Entries, todo : SUBSET Entries,
     got : SUBSET Entries, entry : Entries \union {Absent}, offline : BOOLEAN,
     attempt : Nat, offset : Nat, append : BOOLEAN,
     open : Names \union {"none", "lost"}, clean : BOOLEAN]

\* Idle is a process, and stays one whichever of its fields is given another value.
LEMMA IdleProcess == Idle \in Process
BY DEF Idle, Process, Stages, Tasks, Names

\* A process stays one whichever of its fields is given another value of its kind.
LEMMA SetProcess ==
    ASSUME NEW r \in Process
    PROVE  /\ \A v \in Stages : [r EXCEPT !.at = v] \in Process
           /\ \A v \in Tasks : [r EXCEPT !.task = v] \in Process
           /\ \A v \in SUBSET Entries : [r EXCEPT !.wanted = v] \in Process
           /\ \A v \in SUBSET Entries : [r EXCEPT !.todo = v] \in Process
           /\ \A v \in SUBSET Entries : [r EXCEPT !.got = v] \in Process
           /\ \A v \in Entries : [r EXCEPT !.entry = v] \in Process
           /\ \A v \in BOOLEAN : [r EXCEPT !.offline = v] \in Process
           /\ \A v \in Nat : [r EXCEPT !.attempt = v] \in Process
           /\ \A v \in Nat : [r EXCEPT !.offset = v] \in Process
           /\ \A v \in BOOLEAN : [r EXCEPT !.append = v] \in Process
           /\ \A v \in Names \union {"none", "lost"} : [r EXCEPT !.open = v] \in Process
           /\ \A v \in BOOLEAN : [r EXCEPT !.clean = v] \in Process
<1>1. \A v \in Stages : [r EXCEPT !.at = v] \in Process
  BY DEF Process
<1>2. \A v \in Tasks : [r EXCEPT !.task = v] \in Process
  BY DEF Process
<1>3. \A v \in SUBSET Entries : [r EXCEPT !.wanted = v] \in Process
  BY DEF Process
<1>4. \A v \in SUBSET Entries : [r EXCEPT !.todo = v] \in Process
  BY DEF Process
<1>5. \A v \in SUBSET Entries : [r EXCEPT !.got = v] \in Process
  BY DEF Process
<1>6. \A v \in Entries : [r EXCEPT !.entry = v] \in Process
  BY DEF Process
<1>7. \A v \in BOOLEAN : [r EXCEPT !.offline = v] \in Process
  BY DEF Process
<1>8. \A v \in Nat : [r EXCEPT !.attempt = v] \in Process
  BY DEF Process
<1>9. \A v \in Nat : [r EXCEPT !.offset = v] \in Process
  BY DEF Process
<1>10. \A v \in BOOLEAN : [r EXCEPT !.append = v] \in Process
  BY DEF Process
<1>11. \A v \in Names \union {"none", "lost"} : [r EXCEPT !.open = v] \in Process
  BY DEF Process
<1>12. \A v \in BOOLEAN : [r EXCEPT !.clean = v] \in Process
  BY DEF Process
<1> QED BY <1>1, <1>2, <1>3, <1>4, <1>5, <1>6, <1>7, <1>8, <1>9, <1>10, <1>11, <1>12

\* The kinds of the fields.
LEMMA FieldsOfProcess ==
    ASSUME NEW r \in Process
    PROVE  /\ r.at \in Stages /\ r.task \in Tasks
           /\ r.wanted \in SUBSET Entries /\ r.todo \in SUBSET Entries
           /\ r.got \in SUBSET Entries /\ r.entry \in Entries \union {Absent}
           /\ r.attempt \in Nat /\ r.offset \in Nat
           /\ r.open \in Names \union {"none", "lost"}
           /\ r.append \in BOOLEAN /\ r.clean \in BOOLEAN /\ r.offline \in BOOLEAN
BY DEF Process

\* Every name of a stage or a task is one.
LEMMA StagesAndTasks ==
    /\ {"idle", "busy", "index", "next", "attempt", "quarantine", "request", "body",
        "check", "publish", "record", "error", "failed"} \subseteq Stages
    /\ {"provision", "acquire", "stage", "build"} \subseteq Tasks
BY DEF Stages, Tasks

\* What a process can be asked for are entries.
LEMMA SomeEntries ==
    /\ \A S \in Selections : S \subseteq Models /\ S \subseteq Entries
    /\ Models \subseteq Entries /\ Archives \subseteq Entries
    /\ Downloads \subseteq Entries /\ Staged \subseteq Entries
    /\ \A wheels : RuntimeTargets(wheels) \subseteq Entries
BY CacheAssumption DEF Entries, RuntimeTargets

\* Processes after one of them has entered a stage, met a fault or left.
LEMMA EnterKind ==
    ASSUME proc \in [Fetchers -> Process], NEW p \in Fetchers, NEW stage \in Stages,
           Enter(p, stage) \/ Fault(p, stage) \/ Leave(p)
    PROVE  proc' \in [Fetchers -> Process]
<1>1. [[proc[p] EXCEPT !.at = stage] EXCEPT !.open = "none"] \in Process
  BY SetProcess DEF Names
<1>2. [[[proc[p] EXCEPT !.at = stage] EXCEPT !.open = "none"] EXCEPT !.clean = FALSE] \in Process
  BY <1>1, SetProcess
<1>3. CASE Enter(p, stage)
  BY <1>1, <1>3 DEF Enter
<1>4. CASE Fault(p, stage)
  BY <1>2, <1>4 DEF Fault
<1>5. CASE Leave(p)
  BY <1>5, IdleProcess DEF Leave
<1> QED BY <1>3, <1>4, <1>5

\* Processes after a rename, which changes what the others have open.
LEMMA ReplaceKind ==
    ASSUME proc \in [Fetchers -> Process], NEW p \in Fetchers, NEW stage \in Stages,
           NEW from \in Names, NEW to \in Names, Replace(p, from, to, stage)
    PROVE  proc' \in [Fetchers -> Process]
<1>1. [[proc[p] EXCEPT !.at = stage] EXCEPT !.offset = 0] \in Process
  BY SetProcess
<1>2. ASSUME NEW q \in Fetchers
      PROVE  [proc[q] EXCEPT !.open = Renamed(@, from, to)] \in Process
  <2>1. Renamed(proc[q].open, from, to) \in Names \union {"none", "lost"}
    BY FieldsOfProcess DEF Renamed
  <2> QED BY <2>1, SetProcess
<1> QED BY <1>1, <1>2 DEF Replace

CacheActions(p) ==
    \/ Provision(p) \/ Acquire(p) \/ Index(p) \/ Stage(p)
    \/ Fetch(p) \/ GiveUp(p) \/ Finish(p)
\* What a step of a fetcher makes of the fetchers.
LEMMA FetchersKind ==
    ASSUME proc \in [Fetchers -> Process], NEW p \in Fetchers,
           CacheActions(p), At(p, "record") => Entry(p) \in Entries
    PROVE  proc' \in [Fetchers -> Process]
<1> USE StagesAndTasks
<1>1. CASE Provision(p)
  <2>1. PICK wanted \in Selections, offline \in BOOLEAN :
            proc' = [proc EXCEPT ![p] =
                [Idle EXCEPT !.at = "next", !.wanted = wanted, !.todo = wanted,
                             !.offline = offline]]
    BY <1>1 DEF Provision
  <2>2. [Idle EXCEPT !.at = "next", !.wanted = wanted, !.todo = wanted,
                     !.offline = offline] \in Process
    BY IdleProcess, SetProcess, SomeEntries
  <2> QED BY <2>1, <2>2
<1>2. CASE Acquire(p)
  <2>1. PICK limit \in Limits, wheels \in BOOLEAN :
           proc' = [proc EXCEPT ![p] =
               [Idle EXCEPT !.at = IF wheels THEN "index" ELSE "next", !.task = "acquire",
                            !.wanted = RuntimeTargets(wheels) \union Models,
                            !.todo = RuntimeTargets(wheels)
                                         \union {m \in Models : Blocks[m] <= limit}]]
    BY <1>2 DEF Acquire
  <2> DEFINE wanted == RuntimeTargets(wheels) \union Models
             todo == RuntimeTargets(wheels) \union {m \in Models : Blocks[m] <= limit}
             stage == IF wheels THEN "index" ELSE "next"
  <2>2. wanted \in SUBSET Entries /\ todo \in SUBSET Entries /\ stage \in Stages
    BY SomeEntries
  <2> HIDE DEF wanted, todo, stage
  <2>3. [Idle EXCEPT !.at = stage, !.task = "acquire", !.wanted = wanted, !.todo = todo]
            \in Process
    BY <2>2, IdleProcess, SetProcess
  <2> QED BY <2>1, <2>3 DEF wanted, todo, stage
<1>3. CASE Index(p)
  BY <1>3, EnterKind DEF Index
<1>4. CASE Stage(p)
  <2>1. PICK a \in Staged :
           proc' = [proc EXCEPT ![p] = [Idle EXCEPT !.at = "next", !.task = "stage",
                                                    !.wanted = {a}, !.todo = {a}]]
    BY <1>4 DEF Stage
  <2>2. {a} \in SUBSET Entries
    BY SomeEntries
  <2>3. [Idle EXCEPT !.at = "next", !.task = "stage", !.wanted = {a}, !.todo = {a}] \in Process
    BY <2>2, IdleProcess, SetProcess
  <2> QED BY <2>1, <2>3
<1>5. CASE Fetch(p)
  <2>1. CASE \E m \in Models : FetchModel(p, m)
    <3>1. PICK m \in Models : FetchModel(p, m)
      BY <2>1
    <3> DEFINE stage == IF Published(m) THEN "record"
                        ELSE IF proc[p].offline THEN "failed" ELSE "attempt"
               todo == proc[p].todo \ {m}
    <3>2. stage \in Stages /\ todo \in SUBSET Entries /\ m \in Entries
      BY FieldsOfProcess, SomeEntries
    <3>3. proc' = [proc EXCEPT ![p] = [proc[p] EXCEPT !.at = stage, !.entry = m, !.todo = todo,
                                        !.attempt = 0, !.offset = 0, !.clean = TRUE]]
      BY <3>1 DEF FetchModel
    <3> HIDE DEF stage, todo
    <3>4. [proc[p] EXCEPT !.at = stage, !.entry = m, !.todo = todo,
                          !.attempt = 0, !.offset = 0, !.clean = TRUE] \in Process
      BY <3>2, SetProcess
    <3> QED BY <3>3, <3>4
  <2>2. CASE \E a \in Archives : FetchArchive(p, a)
    <3>1. PICK a \in Archives : FetchArchive(p, a)
      BY <2>2
    <3> DEFINE stage == IF Published(a) THEN "record" ELSE "request"
               todo == proc[p].todo \ {a}
    <3>2. stage \in Stages /\ todo \in SUBSET Entries /\ a \in Entries
      BY FieldsOfProcess, SomeEntries
    <3>3. proc' = [proc EXCEPT ![p] = [proc[p] EXCEPT !.at = stage, !.entry = a, !.todo = todo,
                                        !.attempt = 0, !.offset = 0, !.clean = TRUE]]
      BY <3>1 DEF FetchArchive
    <3> HIDE DEF stage, todo
    <3>4. [proc[p] EXCEPT !.at = stage, !.entry = a, !.todo = todo,
                          !.attempt = 0, !.offset = 0, !.clean = TRUE] \in Process
      BY <3>2, SetProcess
    <3> QED BY <3>3, <3>4
  <2>3. CASE Inspect(p)
    BY <2>3, SetProcess, FieldsOfProcess DEF Inspect, Length, Full
  <2>4. CASE Quarantine(p)
    BY <2>4, EnterKind, ReplaceKind DEF Quarantine, Names
  <2>5. CASE Answer(p)
    <3>1. [proc[p] EXCEPT !.at = "body", !.append = TRUE, !.open = "part"] \in Process
      BY SetProcess DEF Names
    <3>2. [proc[p] EXCEPT !.at = "body", !.append = FALSE, !.offset = 0, !.open = "part"]
              \in Process
      BY SetProcess DEF Names
    <3> QED BY <2>5, <3>1, <3>2, EnterKind DEF Answer
  <2>6. CASE Interrupted(p)
    BY <2>6, EnterKind DEF Interrupted
  <2>7. CASE Block(p)
    <3>1. PICK good \in BOOLEAN :
              proc' = [proc EXCEPT ![p].offset = @ + 1, ![p].clean = @ /\ good]
      BY <2>7 DEF Block
    <3>2. proc[p].offset + 1 \in Nat
      BY FieldsOfProcess
    <3>3. (proc[p].clean /\ good) \in BOOLEAN
      OBVIOUS
    <3>4. [proc[p] EXCEPT !.offset = proc[p].offset + 1, !.clean = proc[p].clean /\ good]
              \in Process
      BY <3>2, <3>3, SetProcess
    <3> QED BY <3>1, <3>4
  <2>8. CASE EndOfBody(p)
    BY <2>8, EnterKind DEF EndOfBody
  <2>9. CASE Check(p)
    BY <2>9, EnterKind DEF Check
  <2>10. CASE Publish(p)
    BY <2>10, EnterKind, ReplaceKind DEF Publish, Names
  <2>11. CASE Retry(p)
    <3> DEFINE stage == IF proc[p].attempt + 1 >= Tries(p) THEN "failed"
                        ELSE IF proc[p].task = "stage" THEN "request" ELSE "attempt"
    <3>1. stage \in Stages /\ proc[p].attempt + 1 \in Nat
      BY FieldsOfProcess
    <3>2. proc' = [proc EXCEPT ![p] = [proc[p] EXCEPT !.at = stage, !.offset = 0,
                                        !.attempt = proc[p].attempt + 1]]
      BY <2>11 DEF Retry
    <3> HIDE DEF stage
    <3>3. [proc[p] EXCEPT !.at = stage, !.offset = 0, !.attempt = proc[p].attempt + 1]
              \in Process
      BY <3>1, SetProcess
    <3> QED BY <3>2, <3>3
  <2>12. CASE Record(p)
    <3>1. CASE proc' = [proc EXCEPT ![p].at = "next", ![p].got = @ \union {Entry(p)}]
                 /\ Entry(p) \in Entries
      <4>1. proc[p].got \union {Entry(p)} \in SUBSET Entries
        BY <3>1, FieldsOfProcess
      <4>2. [proc[p] EXCEPT !.at = "next", !.got = proc[p].got \union {Entry(p)}] \in Process
        BY <4>1, SetProcess
      <4> QED BY <3>1, <4>2
    <3>2. CASE \E stage \in Stages : Fault(p, stage) \/ Leave(p)
      BY <3>2, EnterKind
    <3> QED BY <2>12, <3>1, <3>2 DEF Record, At
  <2> QED BY <1>5, <2>1, <2>2, <2>3, <2>4, <2>5, <2>6, <2>7, <2>8, <2>9, <2>10, <2>11, <2>12
          DEF Fetch
<1>6. CASE GiveUp(p)
  BY <1>6, EnterKind DEF GiveUp
<1>7. CASE Finish(p)
  BY <1>7, EnterKind DEF Finish
<1> QED BY <1>1, <1>2, <1>3, <1>4, <1>5, <1>6, <1>7 DEF CacheActions
\* The locked bytes are a file.
LEMMA LockedIsFile ==
    ASSUME NEW e \in Entries, NEW f, Locked(e, f)
    PROVE  f \in Seq(BOOLEAN) /\ f # Absent /\ Len(f) = Blocks[e] /\ Length(f) = Blocks[e]
<1>1. Blocks[e] \in Nat /\ Absent \notin Seq(BOOLEAN)
  BY CacheAssumption
<1>2. f = [i \in 1..Blocks[e] |-> TRUE]
  BY DEF Locked
<1>3. f \in [1..Blocks[e] -> BOOLEAN]
  BY <1>2
<1>4. f \in Seq(BOOLEAN)
  BY <1>1, <1>3
<1>5. Len(f) = Blocks[e]
  BY <1>1, <1>2, <1>4
<1> QED BY <1>1, <1>4, <1>5 DEF Length

\* A file has a length.
LEMMA LengthIsNat ==
    ASSUME NEW f \in File
    PROVE  Length(f) \in Nat
BY DEF File, Length

\* A file with one more block is a file.
LEMMA WithKind ==
    ASSUME NEW f \in File, NEW place \in Nat, NEW block \in BOOLEAN
    PROVE  /\ With(f, place, block) \in Seq(BOOLEAN)
           /\ With(f, place, block) \in File
           /\ Len(With(f, place, block)) = IF place > Length(f) THEN place ELSE Length(f)
<1> DEFINE n == IF place > Length(f) THEN place ELSE Length(f)
           g == [i \in 1..n |-> (IF i = place THEN block ELSE i <= Length(f) /\ f[i])]
<1>1. Length(f) \in Nat /\ n \in Nat
  BY LengthIsNat
<1>2. ASSUME NEW i \in 1..n
      PROVE  (IF i = place THEN block ELSE i <= Length(f) /\ f[i]) \in BOOLEAN
  <2>1. CASE f = Absent
    BY <2>1 DEF Length
  <2>2. CASE f # Absent
    <3>1. f \in Seq(BOOLEAN) /\ Length(f) = Len(f)
      BY <2>2 DEF File, Length
    <3>2. i <= Len(f) => f[i] \in BOOLEAN
      BY <3>1
    <3> QED BY <3>1, <3>2
  <2> QED BY <2>1, <2>2
<1>3. g \in [1..n -> BOOLEAN]
  BY <1>2
<1>4. With(f, place, block) = g
  BY DEF With
<1> HIDE DEF n, g
<1>5. g \in Seq(BOOLEAN) /\ Len(g) = n
  <2>1. DOMAIN g = 1..n
    BY <1>3
  <2>2. g \in Seq(BOOLEAN)
    BY <1>1, <1>3
  <2> QED BY <1>1, <2>1, <2>2
<1> QED BY <1>4, <1>5 DEF n, File

Files == [Entries -> [Names -> File]]

\* What a step of a fetcher makes of the files.
LEMMA FilesKind ==
    ASSUME proc \in [Fetchers -> Process], file \in Files, NEW p \in Fetchers,
           proc[p].at \in Working => Entry(p) \in Entries,
           CacheActions(p)
    PROVE  file' \in Files
<1> DEFINE e == Entry(p)
<1>1. ASSUME NEW name \in Names, NEW f \in File, e \in Entries
      PROVE  [file EXCEPT ![e][name] = f] \in Files
  BY <1>1 DEF Files
<1>2. Absent \in File /\ <<>> \in File
  BY DEF File
<1>3. ASSUME NEW name \in Names, e \in Entries
      PROVE  Here(p, name) \in File
  BY <1>3 DEF Here, Files
<1>4. ASSUME NEW from \in Names, NEW to \in Names, NEW stage, Replace(p, from, to, stage),
             e \in Entries
      PROVE  file' \in Files
  <2>1. file' = [file EXCEPT ![e] = [[file[e] EXCEPT ![to] = Here(p, from)]
                                         EXCEPT ![from] = Absent]]
    BY <1>4 DEF Replace, Files
  <2> QED BY <1>2, <1>3, <1>4, <2>1 DEF Files
<1> USE DEF Working, At, Names
<1>5. CASE Quarantine(p)
  BY <1>4, <1>5 DEF Quarantine
<1>6. CASE Publish(p)
  BY <1>4, <1>6 DEF Publish
<1>7. CASE Answer(p)
  <2>1. e \in Entries
    BY <1>7 DEF Answer
  <2>2. file' \in {file, [file EXCEPT ![e]["part"] = <<>>],
                   [file EXCEPT ![e]["part"] = IF Here(p, "part") = Absent THEN <<>>
                                               ELSE Here(p, "part")]}
    BY <1>7 DEF Answer, Here
  <2> QED BY <1>1, <1>2, <1>3, <2>1, <2>2
<1>8. CASE Block(p)
  <2>1. e \in Entries /\ proc[p].offset \in Nat
    BY <1>8, FieldsOfProcess DEF Block
  <2>2. CASE proc[p].open \in Names
    <3> DEFINE name == proc[p].open
    <3>1. PICK place \in Nat, block \in BOOLEAN :
              file' = [file EXCEPT ![e][name] = With(Here(p, name), place, block)]
      <4>1. Length(Here(p, name)) + 1 \in Nat
        BY <1>3, <2>1, <2>2, LengthIsNat
      <4> DEFINE to == IF proc[p].append THEN Length(Here(p, name)) + 1
                       ELSE proc[p].offset + 1
                 byte(good) == good /\ to = proc[p].offset + 1
      <4>2. PICK good \in BOOLEAN : file' = [file EXCEPT ![e][name] =
                                                 With(Here(p, name), to, byte(good))]
        BY <1>8, <2>2 DEF Block, Here
      <4>3. to \in Nat /\ byte(good) \in BOOLEAN
        BY <2>1, <4>1
      <4> HIDE DEF to, byte
      <4> QED BY <4>2, <4>3
    <3>2. With(Here(p, name), place, block) \in File
      BY <1>3, <2>1, <2>2, WithKind
    <3> QED BY <1>1, <2>1, <2>2, <3>1, <3>2
  <2>3. CASE proc[p].open \notin Names
    BY <1>8, <2>3 DEF Block
  <2> QED BY <2>2, <2>3
<1>9. CASE Retry(p)
  BY <1>1, <1>2, <1>9 DEF Retry
<1>10. CASE Interrupted(p)
  BY <1>1, <1>2, <1>10 DEF Interrupted
<1>11. CASE Provision(p) \/ Acquire(p) \/ Index(p) \/ Stage(p) \/ GiveUp(p) \/ Finish(p)
  BY <1>11 DEF Provision, Acquire, Index, Stage, GiveUp, Finish
<1>12. CASE \/ \E m \in Models : FetchModel(p, m)
            \/ \E a \in Archives : FetchArchive(p, a)
            \/ Inspect(p) \/ EndOfBody(p) \/ Check(p) \/ Record(p)
  BY <1>12 DEF FetchModel, FetchArchive, Inspect, EndOfBody, Check, Record
<1> QED BY <1>5, <1>6, <1>7, <1>8, <1>9, <1>10, <1>11, <1>12 DEF CacheActions, Fetch
-----------------------------------------------------------------------------
(* Steps, as they look to a process *)

\* What is the same of two processes when only a file that one has open was renamed.
Alike(r, s) ==
    /\ s.at = r.at /\ s.task = r.task /\ s.wanted = r.wanted /\ s.todo = r.todo
    /\ s.got = r.got /\ s.entry = r.entry /\ s.offline = r.offline
    /\ s.attempt = r.attempt /\ s.offset = r.offset /\ s.append = r.append
    /\ s.clean = r.clean

\* A step of a fetcher leaves the others where they are, but for what they have open.
LEMMA OthersStay ==
    ASSUME proc \in [Fetchers -> Process], NEW p \in Fetchers, CacheActions(p),
           NEW q \in Fetchers \ {p}
    PROVE  Alike(proc[q], proc'[q])
<1>1. CASE \E from, to, stage : Replace(p, from, to, stage)
  BY <1>1 DEF Replace, Alike, Process
<1>2. CASE proc'[q] = proc[q]
  BY <1>2 DEF Alike
<1>3. (\E r : proc' = [proc EXCEPT ![p] = r]) => proc'[q] = proc[q]
  OBVIOUS
<1> USE <1>2, <1>3
<1>4. CASE Provision(p) \/ Acquire(p) \/ Stage(p)
  BY <1>4 DEF Provision, Acquire, Stage
<1>5. CASE Index(p) \/ GiveUp(p) \/ Finish(p)
  BY <1>5 DEF Index, GiveUp, Finish, Enter, Leave
<1>6. CASE Fetch(p)
  <2>1. CASE Inspect(p)
    BY <2>1 DEF Inspect
  <2>2. CASE Quarantine(p)
    BY <2>2, <1>1 DEF Quarantine, Enter
  <2>3. CASE Answer(p)
    BY <2>3 DEF Answer, Fault
  <2>4. CASE Interrupted(p)
    BY <2>4 DEF Interrupted, Fault
  <2>5. CASE Block(p)
    BY <2>5 DEF Block
  <2>6. CASE EndOfBody(p) \/ Check(p)
    BY <2>6 DEF EndOfBody, Check, Enter, Fault
  <2>7. CASE Publish(p)
    BY <2>7, <1>1 DEF Publish, Enter
  <2>8. CASE Retry(p)
    BY <2>8 DEF Retry
  <2>9. CASE Record(p)
    BY <2>9 DEF Record, Fault, Leave
  <2>10. CASE (\E m \in Models : FetchModel(p, m)) \/ (\E a \in Archives : FetchArchive(p, a))
    <3>1. CASE \E m \in Models : FetchModel(p, m)
      BY <3>1 DEF FetchModel
    <3>2. CASE \E a \in Archives : FetchArchive(p, a)
      BY <3>2 DEF FetchArchive
    <3> QED BY <2>10, <3>1, <3>2
  <2> QED BY <1>6, <2>1, <2>2, <2>3, <2>4, <2>5, <2>6, <2>7, <2>8, <2>9, <2>10 DEF Fetch
<1> QED BY <1>4, <1>5, <1>6 DEF CacheActions

\* The process that takes the step: what it was, r, and what it becomes, s.
ProvisionMove(p, r, s) ==
    /\ r.at = "idle"
    /\ \E wanted \in Selections, offline \in BOOLEAN :
           s = [Idle EXCEPT !.at = "next", !.wanted = wanted, !.todo = wanted,
                            !.offline = offline]

AcquireMove(p, r, s) ==
    /\ r.at = "idle"
    /\ \E wanted, todo : \E stage \in {"index", "next"} :
           s = [Idle EXCEPT !.at = stage, !.task = "acquire",
                            !.wanted = wanted, !.todo = todo]

StageMove(p, r, s) ==
    /\ r.at = "idle"
    /\ \E a \in Staged :
           s = [Idle EXCEPT !.at = "next", !.task = "stage",
                            !.wanted = {a}, !.todo = {a}]

IndexMove(p, r, s) ==
    /\ r.at = "index"
    /\ s \in {[r EXCEPT !.at = "next", !.open = "none"], Idle}

FetchModelMove(p, m, r, s) ==
    /\ r.at = "next"
    /\ m \in r.todo
    /\ r.todo \intersect Archives = {}
    /\ s = [r EXCEPT !.at = IF Published(m) THEN "record"
                            ELSE IF r.offline THEN "failed" ELSE "attempt",
                     !.entry = m, !.todo = r.todo \ {m},
                     !.attempt = 0, !.offset = 0, !.clean = TRUE]

FetchArchiveMove(p, a, r, s) ==
    /\ r.at = "next"
    /\ a \in r.todo
    /\ s = [r EXCEPT !.at = IF Published(a) THEN "record" ELSE "request",
                     !.entry = a, !.todo = r.todo \ {a},
                     !.attempt = 0, !.offset = 0, !.clean = TRUE]

InspectMove(p, r, s) ==
    /\ r.at = "attempt"
    /\ \/ /\ Length(Here(p, "part")) < Full(p)
          /\ s = [r EXCEPT !.at = "request", !.offset = Length(Here(p, "part"))]
       \/ /\ ~(Length(Here(p, "part")) < Full(p))
          /\ s = [r EXCEPT !.at = IF Locked(Entry(p), Here(p, "part"))
                                  THEN "publish" ELSE "quarantine"]

QuarantineMove(p, r, s) ==
    /\ r.at = "quarantine"
    /\ \/ /\ Here(p, "part") = Absent
          /\ s = [r EXCEPT !.at = "error", !.open = "none"]
       \/ /\ Here(p, "part") # Absent
          /\ s = [r EXCEPT !.at = "request", !.offset = 0]

AnswerMove(p, r, s) ==
    /\ r.at = "request"
    /\ \/ /\ r.offset > 0
          /\ s = [r EXCEPT !.at = "body", !.append = TRUE, !.open = "part"]
       \/ s = [r EXCEPT !.at = "body", !.append = FALSE, !.offset = 0,
                        !.open = "part"]
       \/ s = [r EXCEPT !.at = "error", !.open = "none", !.clean = FALSE]

InterruptedMove(p, r, s) ==
    /\ r.at = "request"
    /\ s = [r EXCEPT !.at = "failed", !.open = "none", !.clean = FALSE]

BlockMove(p, r, s) ==
    /\ r.at = "body"
    /\ r.offset < Full(p)
    /\ \E good \in BOOLEAN :
           s = [r EXCEPT !.offset = r.offset + 1, !.clean = r.clean /\ good]

EndOfBodyMove(p, r, s) ==
    /\ r.at = "body"
    /\ \/ r.offset = Full(p) /\ s = [r EXCEPT !.at = "check", !.open = "none"]
       \/ \E stage \in {"check", "error"} :
              s = [r EXCEPT !.at = stage, !.open = "none", !.clean = FALSE]

CheckMove(p, r, s) ==
    /\ r.at = "check"
    /\ s = [r EXCEPT !.at = IF Locked(Entry(p), Here(p, "part"))
                            THEN "publish" ELSE "error",
                     !.open = "none"]

PublishMove(p, r, s) ==
    /\ r.at = "publish"
    /\ \/ /\ Here(p, "part") = Absent
          /\ s = [r EXCEPT !.at = "error", !.open = "none"]
       \/ /\ Here(p, "part") # Absent
          /\ s = [r EXCEPT !.at = "record", !.offset = 0]

RetryMove(p, r, s) ==
    /\ r.at = "error"
    /\ s = [r EXCEPT !.at = IF r.attempt + 1 >= Tries(p) THEN "failed"
                            ELSE IF r.task = "stage" THEN "request"
                            ELSE "attempt",
                     !.offset = 0, !.attempt = r.attempt + 1]

RecordMove(p, r, s) ==
    /\ r.at = "record"
    /\ \/ s = [r EXCEPT !.at = "next", !.got = r.got \union {Entry(p)}]
       \/ /\ r.task = "build"
          /\ s = [r EXCEPT !.at = "failed", !.open = "none", !.clean = FALSE]
       \/ /\ r.task = "acquire"
          /\ s = [r EXCEPT !.at = "next", !.open = "none", !.clean = FALSE]
       \/ r.task # "build" /\ s = Idle

GiveUpMove(p, r, s) ==
    /\ r.at \in {"failed", "request", "body"}
    /\ r.task # "build"
    /\ \/ r.at = "failed" /\ r.task = "acquire" /\ s = [r EXCEPT !.at = "next", !.open = "none"]
       \/ s = Idle

FinishMove(p, r, s) ==
    r.at = "next" /\ r.task # "build" /\ r.todo = {} /\ s = Idle

\* Where the step of a fetcher takes it.
LEMMA OwnMoves ==
    ASSUME NEW p \in Fetchers, proc \in [Fetchers -> Process]
    PROVE  /\ Provision(p) => ProvisionMove(p, proc[p], proc'[p])
           /\ Acquire(p) => AcquireMove(p, proc[p], proc'[p])
           /\ Stage(p) => StageMove(p, proc[p], proc'[p])
           /\ Index(p) => IndexMove(p, proc[p], proc'[p])
           /\ \A m \in Models : FetchModel(p, m) => FetchModelMove(p, m, proc[p], proc'[p])
           /\ \A a \in Archives : FetchArchive(p, a) => FetchArchiveMove(p, a, proc[p], proc'[p])
           /\ Inspect(p) => InspectMove(p, proc[p], proc'[p])
           /\ Quarantine(p) => QuarantineMove(p, proc[p], proc'[p])
           /\ Answer(p) => AnswerMove(p, proc[p], proc'[p])
           /\ Interrupted(p) => InterruptedMove(p, proc[p], proc'[p])
           /\ Block(p) => BlockMove(p, proc[p], proc'[p])
           /\ EndOfBody(p) => EndOfBodyMove(p, proc[p], proc'[p])
           /\ Check(p) => CheckMove(p, proc[p], proc'[p])
           /\ Publish(p) => PublishMove(p, proc[p], proc'[p])
           /\ Retry(p) => RetryMove(p, proc[p], proc'[p])
           /\ Record(p) => RecordMove(p, proc[p], proc'[p])
           /\ GiveUp(p) => GiveUpMove(p, proc[p], proc'[p])
           /\ Finish(p) => FinishMove(p, proc[p], proc'[p])
<1>1. Provision(p) => ProvisionMove(p, proc[p], proc'[p])
  BY DEF Provision, ProvisionMove, At
<1>2. Acquire(p) => AcquireMove(p, proc[p], proc'[p])
  <2> SUFFICES ASSUME Acquire(p) PROVE AcquireMove(p, proc[p], proc'[p])
    OBVIOUS
  <2>1. PICK limit \in Limits, wheels \in BOOLEAN :
           proc' = [proc EXCEPT ![p] =
               [Idle EXCEPT !.at = IF wheels THEN "index" ELSE "next", !.task = "acquire",
                            !.wanted = RuntimeTargets(wheels) \union Models,
                            !.todo = RuntimeTargets(wheels)
                                         \union {m \in Models : Blocks[m] <= limit}]]
    BY DEF Acquire
  <2> DEFINE stage == IF wheels THEN "index" ELSE "next"
             wanted == RuntimeTargets(wheels) \union Models
             todo == RuntimeTargets(wheels) \union {m \in Models : Blocks[m] <= limit}
  <2>2. proc'[p] = [Idle EXCEPT !.at = stage, !.task = "acquire", !.wanted = wanted,
                               !.todo = todo]
    BY <2>1
  <2>3. stage \in {"index", "next"}
    OBVIOUS
  <2> HIDE DEF stage, wanted, todo
  <2> QED BY <2>2, <2>3 DEF Acquire, At, AcquireMove
<1>3. Stage(p) => StageMove(p, proc[p], proc'[p])
  BY DEF Stage, StageMove, At
<1>4. Index(p) => IndexMove(p, proc[p], proc'[p])
  BY DEF Index, IndexMove, At, Enter, Leave
<1>5. \A m \in Models : FetchModel(p, m) => FetchModelMove(p, m, proc[p], proc'[p])
  BY DEF FetchModel, FetchModelMove, At
<1>6. \A a \in Archives : FetchArchive(p, a) => FetchArchiveMove(p, a, proc[p], proc'[p])
  BY DEF FetchArchive, FetchArchiveMove, At
<1>7. Inspect(p) => InspectMove(p, proc[p], proc'[p])
  BY DEF Inspect, InspectMove, At
<1>8. Quarantine(p) => QuarantineMove(p, proc[p], proc'[p])
  BY DEF Quarantine, QuarantineMove, At, Enter, Replace
<1>9. Answer(p) => AnswerMove(p, proc[p], proc'[p])
  BY DEF Answer, AnswerMove, At, Fault
<1>10. Interrupted(p) => InterruptedMove(p, proc[p], proc'[p])
  BY DEF Interrupted, InterruptedMove, At, Fault
<1>11. Block(p) => BlockMove(p, proc[p], proc'[p])
  BY DEF Block, BlockMove, At
<1>12. EndOfBody(p) => EndOfBodyMove(p, proc[p], proc'[p])
  BY DEF EndOfBody, EndOfBodyMove, At, Enter, Fault
<1>13. Check(p) => CheckMove(p, proc[p], proc'[p])
  BY DEF Check, CheckMove, At, Enter
<1>14. Publish(p) => PublishMove(p, proc[p], proc'[p])
  BY DEF Publish, PublishMove, At, Enter, Replace
<1>15. Retry(p) => RetryMove(p, proc[p], proc'[p])
  BY DEF Retry, RetryMove, At
<1>16. Record(p) => RecordMove(p, proc[p], proc'[p])
  BY DEF Record, RecordMove, At, Fault, Leave
<1>17. GiveUp(p) => GiveUpMove(p, proc[p], proc'[p])
  BY DEF GiveUp, GiveUpMove, EndsIt, At, Enter, Leave
<1>18. Finish(p) => FinishMove(p, proc[p], proc'[p])
  BY DEF Finish, FinishMove, At, Leave
<1> QED BY <1>1, <1>2, <1>3, <1>4, <1>5, <1>6, <1>7, <1>8, <1>9, <1>10, <1>11, <1>12, <1>13,
    <1>14, <1>15, <1>16, <1>17, <1>18
\* FetchInv, of one process.
FetchOK(r) ==
    /\ r.at = "idle" => r.task = "provision"
    /\ r.at = "index" => r.task = "acquire"
    /\ r.at \in Working => r.entry \in Entries
    /\ r.task = "stage" =>
           /\ r.todo \subseteq Archives
           /\ r.at \in Working => r.entry \in Archives
    /\ r.at \in {"attempt", "quarantine"} => r.entry \in Models /\ r.task # "stage"

\* FetchInv, from what holds of each process.
LEMMA FetchInvOK == FetchInv <=> \A p \in Fetchers : FetchOK(proc[p])
BY DEF FetchInv, FetchOK

\* A fetcher's step keeps that; it does not make a build of what is none, nor the
\* other way round; and an idle process stays at rest where nothing is busy.
LEMMA OwnKind ==
    ASSUME proc \in [Fetchers -> Process], NEW p \in Fetchers, FetchOK(proc[p]),
           CacheActions(p), proc[p].at # "busy"
    PROVE  /\ FetchOK(proc'[p])
           /\ proc'[p].task = "build" <=> proc[p].task = "build"
           /\ proc'[p].task = "build" =>
                  proc[p].at # "idle" /\ proc'[p].at \in Working \union {"next"}
           /\ proc'[p].at # "busy"
<1> DEFINE r == proc[p]
           s == proc'[p]
           Goal == /\ FetchOK(s)
                   /\ s.task = "build" <=> r.task = "build"
                   /\ s.task = "build" => r.at # "idle" /\ s.at \in Working \union {"next"}
                   /\ s.at # "busy"
<1>0. r \in Process
  OBVIOUS
<1>r. \A v : r = v => v \in Process
  BY <1>0
<1>m. \A a \in Staged : a \in Archives /\ a \in Entries
  BY CacheAssumption DEF Entries
<1>i. FetchOK(Idle) /\ Idle.task = "provision" /\ Idle.at = "idle"
  BY DEF FetchOK, Idle, Working
<1> HIDE DEF r, s
<1> SUFFICES Goal
  BY DEF r, s
<1>f. FetchOK(r) /\ r.at # "busy"
  BY DEF r
<1>1. CASE Provision(p)
  <2>1. ProvisionMove(p, r, s)
    BY <1>1, OwnMoves DEF r, s
  <2> QED BY <1>0, <1>f, <1>i, <1>m, <2>1 DEF ProvisionMove, FetchOK, Working, Process, Idle
<1>2. CASE Acquire(p)
  <2>1. AcquireMove(p, r, s)
    BY <1>2, OwnMoves DEF r, s
  <2> QED BY <1>0, <1>f, <1>i, <1>m, <2>1 DEF AcquireMove, FetchOK, Working, Process, Idle
<1>3. CASE Stage(p)
  <2>1. StageMove(p, r, s)
    BY <1>3, OwnMoves DEF r, s
  <2> QED BY <1>0, <1>f, <1>i, <1>m, <2>1 DEF StageMove, FetchOK, Working, Process, Idle
<1>4. CASE Index(p)
  <2>1. IndexMove(p, r, s)
    BY <1>4, OwnMoves DEF r, s
  <2> QED BY <1>0, <1>f, <1>i, <1>m, <2>1 DEF IndexMove, FetchOK, Working, Process
<1>5. CASE \E m \in Models : FetchModel(p, m)
  <2>1. PICK m \in Models : FetchModelMove(p, m, r, s)
    BY <1>5, OwnMoves DEF r, s
  <2> QED BY <1>0, <1>f, <1>i, <1>m, <2>1, CacheAssumption DEF FetchModelMove, FetchOK,
      Working, Process, Entries
<1>6. CASE \E a \in Archives : FetchArchive(p, a)
  <2>1. PICK a \in Archives : FetchArchiveMove(p, a, r, s)
    BY <1>6, OwnMoves DEF r, s
  <2> QED BY <1>0, <1>f, <1>i, <1>m, <2>1, CacheAssumption DEF FetchArchiveMove, FetchOK,
      Working, Process, Entries
<1>7. CASE Inspect(p)
  <2>1. InspectMove(p, r, s)
    BY <1>7, OwnMoves DEF r, s
  <2> QED BY <1>0, <1>f, <1>i, <1>m, <2>1 DEF InspectMove, FetchOK, Working, Process
<1>8. CASE Quarantine(p)
  <2>1. QuarantineMove(p, r, s)
    BY <1>8, OwnMoves DEF r, s
  <2> QED BY <1>0, <1>f, <1>i, <1>m, <2>1 DEF QuarantineMove, FetchOK, Working, Process
<1>9. CASE Answer(p)
  <2>1. AnswerMove(p, r, s)
    BY <1>9, OwnMoves DEF r, s
  <2>2. s.at \in {"body", "error"} /\ s.task = r.task /\ s.todo = r.todo /\ s.entry = r.entry
    BY <1>0, <2>1 DEF AnswerMove, Process
  <2>3. r.at \in Working /\ s.at \in Working
    BY <2>1, <2>2 DEF AnswerMove, Working
  <2> QED BY <1>f, <2>2, <2>3 DEF FetchOK, Working
<1>10. CASE Interrupted(p)
  <2>1. InterruptedMove(p, r, s)
    BY <1>10, OwnMoves DEF r, s
  <2> QED BY <1>0, <1>f, <1>i, <1>m, <2>1 DEF InterruptedMove, FetchOK, Working, Process
<1>11. CASE Block(p)
  <2>1. BlockMove(p, r, s)
    BY <1>11, OwnMoves DEF r, s
  <2> QED BY <1>0, <1>f, <1>i, <1>m, <2>1 DEF BlockMove, FetchOK, Working, Process
<1>12. CASE EndOfBody(p)
  <2>1. EndOfBodyMove(p, r, s)
    BY <1>12, OwnMoves DEF r, s
  <2>2. s.at \in {"check", "error"} /\ s.task = r.task /\ s.todo = r.todo /\ s.entry = r.entry
    BY <1>0, <2>1 DEF EndOfBodyMove, Process
  <2>3. r.at \in Working /\ s.at \in Working
    BY <2>1, <2>2 DEF EndOfBodyMove, Working
  <2> QED BY <1>f, <2>2, <2>3 DEF FetchOK, Working
<1>13. CASE Check(p)
  <2>1. CheckMove(p, r, s)
    BY <1>13, OwnMoves DEF r, s
  <2> QED BY <1>0, <1>f, <1>i, <1>m, <2>1 DEF CheckMove, FetchOK, Working, Process
<1>14. CASE Publish(p)
  <2>1. PublishMove(p, r, s)
    BY <1>14, OwnMoves DEF r, s
  <2> QED BY <1>0, <1>f, <1>i, <1>m, <2>1 DEF PublishMove, FetchOK, Working, Process
<1>15. CASE Retry(p)
  <2>1. RetryMove(p, r, s)
    BY <1>15, OwnMoves DEF r, s
  <2>2. /\ s.at \in {"failed", "request", "attempt"}
        /\ s.task = r.task /\ s.todo = r.todo /\ s.entry = r.entry
    BY <1>0, <2>1 DEF RetryMove, Process
  <2>3. r.at \in Working /\ s.at \in Working
    BY <2>1, <2>2 DEF RetryMove, Working
  <2>4. s.at = "attempt" => r.task # "stage" /\ ~(r.attempt + 1 >= Tries(p))
    BY <1>0, <2>1 DEF RetryMove, Process
  <2>5. s.at = "attempt" => r.entry \in Models
    BY <1>0, <2>4 DEF Tries, r, Entry, Process
  <2> QED BY <1>f, <2>2, <2>3, <2>4, <2>5 DEF FetchOK, Working
<1>16. CASE Record(p)
  <2>1. RecordMove(p, r, s)
    BY <1>16, OwnMoves DEF r, s
  <2>2. CASE r.task # "build" /\ s = Idle
    BY <1>i, <2>2
  <2>3. CASE ~(r.task # "build" /\ s = Idle)
    <3>1. /\ s.at \in {"next", "failed"}
          /\ s.task = r.task /\ s.todo = r.todo /\ s.entry = r.entry
      BY <1>0, <2>1, <2>3 DEF RecordMove, Process
    <3>2. r.at = "record" /\ r.at \in Working
      BY <2>1 DEF RecordMove, Working
    <3> QED BY <1>f, <3>1, <3>2 DEF FetchOK, Working
  <2> QED BY <2>2, <2>3
<1>17. CASE GiveUp(p)
  <2>1. GiveUpMove(p, r, s)
    BY <1>17, OwnMoves DEF r, s
  <2> QED BY <1>0, <1>f, <1>i, <1>m, <2>1 DEF GiveUpMove, FetchOK, Working, Process
<1>18. CASE Finish(p)
  <2>1. FinishMove(p, r, s)
    BY <1>18, OwnMoves DEF r, s
  <2> QED BY <1>0, <1>f, <1>i, <1>m, <2>1 DEF FinishMove, FetchOK, Working, Process
<1> QED BY <1>1, <1>2, <1>3, <1>4, <1>5, <1>6, <1>7, <1>8, <1>9, <1>10, <1>11, <1>12, <1>13,
    <1>14, <1>15, <1>16, <1>17, <1>18 DEF CacheActions, Fetch
\* The kinds of things hold at first.
LEMMA KindInit == BundleInit => KindInv
<1> SUFFICES ASSUME BundleInit PROVE KindInv
  OBVIOUS
<1>1. proc \in [Fetchers -> Process]
  BY IdleProcess DEF BundleInit, CacheInit
<1>2. CacheTypeOK
  BY <1>1, CacheAssumption
     DEF BundleInit, CacheInit, CacheTypeOK, Reports, NoAudit, Process
<1>3. Nothing \in Parts /\ NoPackage \in [here : BOOLEAN, part : Parts, manifest : Parts,
                                          extra : SUBSET {"bytecode", "other"}]
  BY DEF Nothing, Parts, Content, NoPackage
<1>4. BundleTypeOK
  BY <1>2, <1>3
     DEF BundleInit, BundleTypeOK, NoBuild, NoChild, NoResult, NoReceipt, Bundles, Checks
<1>5. FetchInv /\ BuilderInv
  BY DEF BundleInit, CacheInit, FetchInv, BuilderInv, Idle, Working
<1>6. StageInv
  BY BundleAssumption DEF BundleInit, StageInv, NoBuild, Assets
<1> QED BY <1>4, <1>5, <1>6 DEF KindInv

\* The directory, without its fetchers.
DirectoryOK ==
    /\ file \in Files
    /\ sidecar \subseteq Entries
    /\ report \in [Reports -> [wanted : SUBSET Entries, complete : BOOLEAN]]
    /\ audit \in [at : {"idle", "files"}, wanted : SUBSET Models,
                  todo : SUBSET Models, ok : BOOLEAN]

\* The types of ModelCache hold after a step of a fetcher.
LEMMA CacheTypes == CacheTypeOK <=> DirectoryOK /\ proc \in [Fetchers -> Process]
BY DEF CacheTypeOK, DirectoryOK, Files, Process

\* BuilderInv and StageInv, when a fetcher has taken a step.
LEMMA CacheActionsKind ==
    ASSUME KindInv, NEW p \in Fetchers, CacheActions(p), UNCHANGED bundleVars
    PROVE  KindInv'
<1>1. /\ proc \in [Fetchers -> Process] /\ DirectoryOK
      /\ \A q \in Fetchers : FetchOK(proc[q])
      /\ BuilderInv /\ StageInv
  BY CacheTypes, FetchInvOK DEF KindInv, BundleTypeOK
<1>2. proc[p].at # "busy"
  BY DEF CacheActions, Fetch, Provision, Acquire, Index, Stage, GiveUp, EndsIt, Finish,
         FetchModel, FetchArchive, Inspect, Quarantine, Answer, Interrupted, Block, EndOfBody,
         Check, Publish, Retry, Record, At
<1>3. proc[p].at \in Working => Entry(p) \in Entries
  BY <1>1 DEF FetchOK, Entry
<1>4. proc' \in [Fetchers -> Process]
  BY <1>1, <1>3, FetchersKind DEF At, Working
<1>5. file' \in Files
  BY <1>1, <1>3, FilesKind DEF DirectoryOK
<1>6. /\ FetchOK(proc'[p])
      /\ proc'[p].task = "build" <=> proc[p].task = "build"
      /\ proc'[p].task = "build" =>
             proc[p].at # "idle" /\ proc'[p].at \in Working \union {"next"}
      /\ proc'[p].at # "busy"
  BY <1>1, <1>2, OwnKind
<1>7. \A q \in Fetchers \ {p} : Alike(proc[q], proc'[q])
  BY <1>1, OthersStay
<1>8. DirectoryOK'
  <2>1. CASE Finish(p)
    <3>1. file' = file /\ sidecar' = sidecar /\ audit' = audit
      BY <2>1 DEF Finish
    <3>2. \/ report' = report
          \/ report' = [report EXCEPT ![proc[p].task] =
                           [wanted |-> proc[p].wanted,
                            complete |-> proc[p].got = proc[p].wanted]]
      BY <2>1 DEF Finish
    <3>3. proc[p].wanted \in SUBSET Entries
      BY <1>1, FieldsOfProcess
    <3>4. (proc[p].got = proc[p].wanted) \in BOOLEAN
      OBVIOUS
    <3>5. [wanted |-> proc[p].wanted, complete |-> proc[p].got = proc[p].wanted]
              \in [wanted : SUBSET Entries, complete : BOOLEAN]
      BY <3>3, <3>4
    <3>6. report' \in [Reports -> [wanted : SUBSET Entries, complete : BOOLEAN]]
      BY <1>1, <3>2, <3>5 DEF DirectoryOK
    <3> QED BY <1>1, <3>1, <3>6 DEF DirectoryOK
  <2>2. CASE Record(p)
    <3>1. Entry(p) \in Entries
      BY <1>3, <2>2 DEF Record, At, Working
    <3> QED BY <1>1, <1>5, <2>2, <3>1 DEF Record, DirectoryOK
  <2>3. CASE Provision(p) \/ Acquire(p) \/ Index(p) \/ Stage(p) \/ GiveUp(p)
    BY <1>1, <1>5, <2>3 DEF DirectoryOK, Provision, Acquire, Index, Stage, GiveUp
  <2>4. CASE Fetch(p) /\ ~Record(p)
    BY <1>1, <1>5, <2>4
       DEF DirectoryOK, Fetch, FetchModel, FetchArchive, Inspect, Quarantine, Answer,
           Interrupted, Block, EndOfBody, Check, Publish, Retry
  <2> QED BY <2>1, <2>2, <2>3, <2>4 DEF CacheActions
<1>9. BundleTypeOK'
  BY <1>4, <1>8, CacheTypes DEF KindInv, BundleTypeOK, bundleVars, CacheTypeOK, DirectoryOK,
      Process, Files
<1>10. FetchInv'
  <2>1. ASSUME NEW q \in Fetchers PROVE FetchOK(proc'[q])
    <3>1. CASE q = p
      BY <1>6, <3>1
    <3>2. CASE q # p
      BY <1>1, <1>7, <3>2 DEF FetchOK, Alike
    <3> QED BY <3>1, <3>2
  <2> QED BY <2>1 DEF FetchInv, FetchOK
<1>11. BuilderInv'
  <2>1. \A q \in Fetchers : proc'[q].task = "build" <=> proc[q].task = "build"
    BY <1>6, <1>7 DEF Alike
  <2>2. \A q \in Fetchers \ {p} : proc'[q].at = proc[q].at
    BY <1>7 DEF Alike
  <2>3. build' = build
    BY DEF bundleVars
  <2> QED BY <1>1, <1>2, <1>6, <2>1, <2>2, <2>3 DEF BuilderInv, Working
<1>12. StageInv'
  BY <1>1 DEF StageInv, bundleVars, NoBuild
<1> QED BY <1>9, <1>10, <1>11, <1>12 DEF KindInv
\* The types and invariants after a step of the audit.
LEMMA AuditKind ==
    ASSUME KindInv, StartAudit \/ EndAudit \/ (\E m \in Models : AuditFile(m)),
           UNCHANGED bundleVars
    PROVE  KindInv'
<1>1. DirectoryOK'
  <2>1. DirectoryOK
    BY CacheTypes DEF KindInv, BundleTypeOK
  <2>2. CASE StartAudit
    BY <2>1, <2>2, SomeEntries DEF DirectoryOK, StartAudit, NoAudit
  <2>3. CASE EndAudit
    BY <2>1, <2>3, SomeEntries DEF DirectoryOK, EndAudit, NoAudit, Reports
  <2>4. CASE \E m \in Models : AuditFile(m)
    <3>1. PICK m \in Models : AuditFile(m)
      BY <2>4
    <3> DEFINE fine == audit.ok /\ Published(m)
    <3>2. audit' = [audit EXCEPT !.todo = audit.todo \ {m}, !.ok = fine]
      BY <2>1, <3>1 DEF AuditFile, DirectoryOK
    <3>3. fine \in BOOLEAN
      BY <2>1 DEF DirectoryOK, Published, Locked
    <3> HIDE DEF fine
    <3>4. audit' \in [at : {"idle", "files"}, wanted : SUBSET Models,
                      todo : SUBSET Models, ok : BOOLEAN]
      BY <2>1, <3>2, <3>3 DEF DirectoryOK
    <3> QED BY <2>1, <3>1, <3>4 DEF DirectoryOK, AuditFile
  <2> QED BY <2>2, <2>3, <2>4
<1>2. proc' = proc
  BY DEF StartAudit, EndAudit, AuditFile
<1>3. BundleTypeOK'
  BY <1>1, <1>2, CacheTypes
     DEF KindInv, BundleTypeOK, bundleVars, CacheTypeOK, DirectoryOK, Process, Files
<1> QED BY <1>2, <1>3 DEF KindInv, FetchInv, BuilderInv, StageInv, bundleVars, NoBuild

-----------------------------------------------------------------------------
(* Steps of the build and of the rest *)

BuildRecord ==
    [at : {"none", "runtime", "fetching", "unpack", "speech", "assemble",
           "stream", "pack", "drop", "extract", "consume", "manifest",
           "relocate", "qualify", "child", "retain"},
     asset : Assets \union {Absent}, left : SUBSET Assets]

Package == [here : BOOLEAN, part : Parts, manifest : Parts,
            extra : SUBSET {"bytecode", "other"}]

WorkOK ==
    /\ made \subseteq Runtimes \union {Speech}
    /\ tar \in Parts
    /\ taken \subseteq Models
    /\ package \in [Places -> Package]

ChildrenOK ==
    /\ child \in [Bundles ->
           [at : {"none", "running", "passed", "failed"},
            step : 0..Len(Checks), passed : SUBSET CheckNames]]
    /\ qualification \in [Bundles ->
           [status : {"none", "running", "torn", "passed", "failed"},
            passed : SUBSET CheckNames]]
    /\ field \in {"idle", "child"}
    /\ receipt \in [status : {"none", "blocked", "failed", "verified", "passed"},
                    claimed : BOOLEAN]

\* The types, in terms of the definitions used here.
LEMMA BundleTypes ==
    BundleTypeOK <=> /\ DirectoryOK /\ proc \in [Fetchers -> Process]
                     /\ build \in BuildRecord /\ WorkOK /\ ChildrenOK
BY CacheTypes DEF BundleTypeOK, BuildRecord, Package, WorkOK, ChildrenOK

\* What is made, broken or nothing is a content.
LEMMA ContentKinds ==
    /\ Nothing \in Parts /\ NoPackage \in Package /\ NoBuild \in BuildRecord
    /\ Made \in Content /\ Broken \in Content /\ Absent \in Content
    /\ Made # Absent /\ Made.good
<1>1. Made \in [bytes : Nat, good : BOOLEAN] /\ Broken \in [bytes : Nat, good : BOOLEAN]
  BY DEF Made, Broken
<1>2. Made # Absent /\ Made.good
  BY <1>1, BundleAssumption DEF Made
<1> QED
  BY <1>1, <1>2 DEF Nothing, Parts, Content, NoPackage, Package, NoBuild, BuildRecord

\* What is packed is a content.
LEMMA PackedKind ==
    ASSUME file \in Files, NEW m \in Models
    PROVE  Raw(m) \in Nat /\ Packed(m) \in Content /\ Packed(m) # Absent
<1>1. \A n \in Names : Length(file[m][n]) \in Nat
  BY SomeEntries, LengthIsNat DEF Files
<1>2. Raw(m) \in Nat
  BY <1>1 DEF Raw, Names
<1>3. Published(m) \in BOOLEAN
  BY DEF Published, Locked
<1>4. Packed(m) \in [bytes : Nat, good : BOOLEAN]
  BY <1>2, <1>3 DEF Packed
<1> QED BY <1>2, <1>4, BundleAssumption DEF Content
\* The records of builds, packages and children stay what they are with another field.
LEMMA SetWork ==
    /\ package \in [Places -> Package] =>
           \A k \in Places :
               /\ \A v \in Package : [package EXCEPT ![k] = v] \in [Places -> Package]
               /\ \A a \in Assets, c \in Content :
                      [package EXCEPT ![k].part[a] = c] \in [Places -> Package]
    /\ tar \in Parts => \A a \in Assets, c \in Content : [tar EXCEPT ![a] = c] \in Parts
<1>1. ASSUME package \in [Places -> Package], NEW k \in Places, NEW a \in Assets,
             NEW c \in Content
      PROVE  [package EXCEPT ![k].part[a] = c] \in [Places -> Package]
  <2>1. package[k].part \in Parts /\ package[k] \in Package
    BY <1>1 DEF Package
  <2>2. [package[k].part EXCEPT ![a] = c] \in Parts
    BY <1>1, <2>1 DEF Parts
  <2>3. [package[k] EXCEPT !.part = [package[k].part EXCEPT ![a] = c]] \in Package
    BY <2>1, <2>2 DEF Package
  <2> QED BY <1>1, <2>3
<1> QED BY <1>1 DEF Parts

\* A build that goes on without fetching, whatever else changes.
LEMMA QuietKind ==
    ASSUME KindInv, NEW p \in Fetchers, proc[p].task = "build", proc[p].at = "busy",
           build'.at \notin {"none", "fetching"},
           \A q \in Fetchers : Alike(proc[q], proc'[q])
    PROVE  FetchInv' /\ BuilderInv'
<1>1. \A q \in Fetchers : FetchOK(proc[q])
  BY FetchInvOK DEF KindInv
<1>2. \A q \in Fetchers : FetchOK(proc'[q])
  BY <1>1 DEF FetchOK, Alike
<1>3. FetchInv'
  BY <1>2 DEF FetchInv, FetchOK
<1>4. BuilderInv'
  BY DEF KindInv, BuilderInv, Alike
<1> QED BY <1>3, <1>4

\* A build that ends.
LEMMA EndKind ==
    ASSUME KindInv, NEW p \in Fetchers, proc[p].task = "build", Leave(p), build' = NoBuild
    PROVE  /\ proc' \in [Fetchers -> Process] /\ build' \in BuildRecord
           /\ FetchInv' /\ BuilderInv' /\ StageInv'
<1>1. /\ proc \in [Fetchers -> Process] /\ BuilderInv
      /\ \A q \in Fetchers : FetchOK(proc[q])
  BY FetchInvOK, BundleTypes DEF KindInv
<1>2. proc' \in [Fetchers -> Process]
  BY <1>1, IdleProcess DEF Leave
<1>3. /\ proc'[p] = Idle
      /\ \A q \in Fetchers \ {p} : proc'[q] = proc[q] /\ proc[q].task # "build"
  BY <1>1 DEF Leave, BuilderInv
<1>4. FetchOK(Idle) /\ Idle.at = "idle" /\ Idle.task = "provision"
  BY DEF FetchOK, Idle, Working
<1>5. FetchInv'
  <2>1. \A q \in Fetchers : FetchOK(proc'[q])
    BY <1>1, <1>3, <1>4
  <2> QED BY <2>1 DEF FetchInv, FetchOK
<1>6. BuilderInv'
  <2>1. \A q \in Fetchers : proc'[q].task # "build" /\ proc'[q].at # "busy"
    <3>1. \A q \in Fetchers \ {p} : proc[q].at # "busy"
      BY <1>1, <1>3 DEF BuilderInv
    <3> QED BY <1>3, <1>4, <3>1
  <2> QED BY <2>1 DEF BuilderInv
<1>7. StageInv' /\ build' \in BuildRecord
  BY BundleAssumption, ContentKinds DEF StageInv, NoBuild, Assets
<1> QED BY <1>2, <1>5, <1>6, <1>7

\* A build that fetches what an asset is made from.
LEMMA WantKind ==
    ASSUME KindInv, NEW p \in Fetchers, NEW asset \in Runtimes \union Models,
           NEW entries \in SUBSET Entries, proc[p].task = "build", At(p, "busy"),
           asset \in build.left, asset \in Models => build.left \subseteq Models,
           Want(p, asset, entries), UNCHANGED <<child, qualification, field, receipt>>
    PROVE  KindInv'
<1>1. /\ DirectoryOK /\ proc \in [Fetchers -> Process]
      /\ build \in BuildRecord /\ WorkOK /\ ChildrenOK /\ BuilderInv
      /\ \A q \in Fetchers : FetchOK(proc[q])
  BY BundleTypes, FetchInvOK DEF KindInv
<1> DEFINE s == [proc[p] EXCEPT !.at = "next", !.wanted = entries, !.todo = entries,
                                !.got = {}]
<1>2. s \in Process
  BY <1>1, SetProcess, StagesAndTasks
<1>3. proc' = [proc EXCEPT ![p] = s]
  BY DEF Want
<1>4. s.at = "next" /\ s.task = "build" /\ FetchOK(s)
  BY <1>1 DEF FetchOK, Working, Process
<1> HIDE DEF s
<1>5. proc' \in [Fetchers -> Process]
  BY <1>1, <1>2, <1>3
<1>6. build' \in BuildRecord /\ build'.at = "fetching" /\ build'.asset = asset
          /\ build'.left = build.left
  BY <1>1 DEF Want, BuildRecord, Assets
<1>7. DirectoryOK' /\ WorkOK' /\ ChildrenOK'
  BY <1>1 DEF Want, DirectoryOK, WorkOK, ChildrenOK, Files
<1>8. BundleTypeOK'
  BY <1>5, <1>6, <1>7, BundleTypes DEF BundleTypeOK, BuildRecord, Package, WorkOK, ChildrenOK,
      CacheTypeOK, DirectoryOK, Files, Process
<1>9. FetchInv'
  <2>1. \A q \in Fetchers : FetchOK(proc'[q])
    BY <1>1, <1>3, <1>4
  <2> QED BY <2>1 DEF FetchInv, FetchOK
<1>10. BuilderInv'
  BY <1>1, <1>3, <1>4, <1>6 DEF BuilderInv, At
<1>11. StageInv'
  BY <1>6, BundleAssumption DEF StageInv
<1> QED BY <1>8, <1>9, <1>10, <1>11 DEF KindInv

\* The types, of the states that a step leads to.
LEMMA BundleTypesNext ==
    ASSUME DirectoryOK', proc' \in [Fetchers -> Process], build' \in BuildRecord,
           WorkOK', ChildrenOK'
    PROVE  BundleTypeOK'
BY DEF BundleTypeOK, BuildRecord, Package, WorkOK, ChildrenOK, CacheTypeOK, DirectoryOK,
       Files, Process

\* A build that ends with an exception.
LEMMA DieKind ==
    ASSUME KindInv, NEW p \in Fetchers, proc[p].task = "build", Die(p),
           DirectoryOK', made' \subseteq Runtimes \union {Speech}, tar' \in Parts,
           taken' = taken, ChildrenOK'
    PROVE  KindInv'
<1>1. package' \in [Places -> Package]
  <2>1. package \in [Places -> Package]
    BY BundleTypes DEF KindInv, WorkOK
  <2>2. "temp" \in Places
    BY DEF Places
  <2> QED BY <2>1, <2>2, SetWork, ContentKinds DEF Die
<1>2. WorkOK'
  BY <1>1, BundleTypes DEF KindInv, WorkOK
<1>3. Leave(p) /\ build' = NoBuild
  BY DEF Die
<1> QED BY <1>2, <1>3, EndKind, BundleTypesNext DEF KindInv
\* The kinds, after each step of a build.
LEMMA BuildStepKind ==
    ASSUME KindInv, BuildStep, UNCHANGED <<child, qualification, field, receipt>>
    PROVE  KindInv'
<1>1. /\ DirectoryOK /\ proc \in [Fetchers -> Process]
      /\ build \in BuildRecord /\ WorkOK /\ ChildrenOK /\ BuilderInv /\ StageInv /\ FetchInv
      /\ \A q \in Fetchers : FetchOK(proc[q])
  BY BundleTypes, FetchInvOK DEF KindInv
<1>2. ChildrenOK'
  BY <1>1 DEF ChildrenOK
<1>3. UNCHANGED <<file, sidecar, report, audit>> => DirectoryOK'
  BY <1>1 DEF DirectoryOK, Files
<1>4. UNCHANGED cacheVars => DirectoryOK' /\ proc' = proc
  BY <1>3 DEF cacheVars
<1>5. UNCHANGED <<made, tar, taken, package>> => WorkOK'
  BY <1>1 DEF WorkOK, Package
<1>6. proc' = proc => proc' \in [Fetchers -> Process] /\ \A q \in Fetchers : Alike(proc[q], proc'[q])
  BY <1>1 DEF Alike
<1>7. ASSUME NEW p \in Fetchers, Build(p) PROVE KindInv'
  <2> DEFINE s == [Idle EXCEPT !.at = "busy", !.task = "build"]
  <2>1. s \in Process
    BY IdleProcess, SetProcess, StagesAndTasks
  <2>2. proc' = [proc EXCEPT ![p] = s] /\ build' = [at |-> "runtime", asset |-> Absent, left |-> Assets]
    BY <1>7 DEF Build
  <2>3. s.at = "busy" /\ s.task = "build" /\ FetchOK(s)
    BY DEF FetchOK, Working, Idle
  <2> HIDE DEF s
  <2>4. proc' \in [Fetchers -> Process]
    BY <1>1, <2>1, <2>2
  <2>5. DirectoryOK' /\ WorkOK' /\ build' \in BuildRecord
    BY <1>3, <1>5, <1>7, <2>2 DEF Build, BuildRecord
  <2>6. FetchInv'
    <3>1. \A q \in Fetchers : FetchOK(proc'[q])
      BY <1>1, <2>2, <2>3
    <3> QED BY <3>1 DEF FetchInv, FetchOK
  <2>7. BuilderInv'
    BY <1>1, <1>7, <2>2, <2>3 DEF BuilderInv, Build
  <2>8. StageInv'
    BY <2>2, BundleAssumption DEF StageInv, Assets
  <2> QED BY <1>2, <2>4, <2>5, <2>6, <2>7, <2>8, BundleTypesNext DEF KindInv
<1>8. ASSUME NEW p \in Fetchers, Fetched(p) PROVE KindInv'
  <2> DEFINE s == [proc[p] EXCEPT !.at = "busy"]
  <2>1. s \in Process
    BY <1>1, SetProcess, StagesAndTasks
  <2>2. proc' = [proc EXCEPT ![p] = s]
    BY <1>8 DEF Fetched
  <2>3. s.at = "busy" /\ s.task = "build" /\ FetchOK(s)
    BY <1>1, <1>8 DEF FetchOK, Working, Fetched, Process
  <2> HIDE DEF s
  <2>4. proc' \in [Fetchers -> Process]
    BY <1>1, <2>1, <2>2
  <2>5. build.at = "fetching" /\ build.asset \in build.left /\ build.asset \in Runtimes \union Models
    BY <1>1, <1>8 DEF Fetched, BuilderInv, At, StageInv, BuildRecord, Assets
  <2>6. build' = [build EXCEPT !.at = IF build.asset \in Models THEN "pack" ELSE "unpack"]
    BY <1>8 DEF Fetched, Proceed
  <2>7. build' \in BuildRecord /\ StageInv'
    BY <1>1, <2>5, <2>6, BundleAssumption DEF BuildRecord, StageInv
  <2>8. DirectoryOK'
    <3>1. build.asset \in Models => {build.asset} \in SUBSET Entries
      BY SomeEntries
    <3>2. report' \in [Reports -> [wanted : SUBSET Entries, complete : BOOLEAN]]
      <4>1. CASE build.asset \in Models
        <5> DEFINE v == [wanted |-> {build.asset}, complete |-> TRUE]
        <5>1. v \in [wanted : SUBSET Entries, complete : BOOLEAN]
          BY <3>1, <4>1
        <5>2. report' = [report EXCEPT !["provision"] = v]
          BY <1>8, <4>1 DEF Fetched
        <5> HIDE DEF v
        <5> QED BY <1>1, <5>1, <5>2 DEF DirectoryOK
      <4>2. CASE build.asset \notin Models
        BY <1>1, <1>8, <4>2 DEF Fetched, DirectoryOK
      <4> QED BY <4>1, <4>2
    <3> QED BY <1>1, <1>8, <3>2 DEF Fetched, DirectoryOK
  <2>9. FetchInv'
    <3>1. \A q \in Fetchers : FetchOK(proc'[q])
      BY <1>1, <2>2, <2>3
    <3> QED BY <3>1 DEF FetchInv, FetchOK
  <2>10. BuilderInv'
    <3>1. build'.at \notin {"none", "fetching"}
      BY <1>1, <2>6 DEF BuildRecord
    <3> QED BY <1>1, <1>8, <2>2, <2>3, <3>1 DEF BuilderInv, Fetched
  <2>11. WorkOK'
    BY <1>5, <1>8 DEF Fetched
  <2> QED BY <1>2, <2>4, <2>7, <2>8, <2>9, <2>10, <2>11, BundleTypesNext DEF KindInv
<1>9. ASSUME NEW p \in Fetchers, FetchFailed(p) PROVE KindInv'
  <2>1. WorkOK
    BY <1>1
  <2> QED BY <1>2, <1>3, <1>9, <2>1, DieKind DEF FetchFailed, WorkOK
\* What a build at rest does next without the fetchers.
<1>10. ASSUME NEW p \in Fetchers, proc[p].task = "build", proc[p].at = "busy", proc' = proc,
              build' \in BuildRecord, StageInv', build'.at \notin {"none", "fetching"},
              DirectoryOK', WorkOK'
       PROVE  KindInv'
  BY <1>2, <1>6, <1>10, QuietKind, BundleTypesNext DEF KindInv
<1>11. ASSUME NEW p \in Fetchers, Unpack(p) PROVE KindInv'
  <2>1. proc[p].task = "build" /\ proc[p].at = "busy" /\ build.asset \in build.left \intersect Runtimes
    BY <1>1, <1>11 DEF Unpack, By, At, StageInv
  <2>2. CASE build.asset \in made
    <3>1. Die(p) /\ made' = made /\ tar' = tar
      BY <1>11, <2>2 DEF Unpack
    <3> QED BY <1>1, <1>2, <1>3, <1>11, <2>1, <3>1, DieKind DEF Unpack, WorkOK
  <2>3. CASE build.asset \notin made
    <3>1. /\ made' = made \union {build.asset}
          /\ tar' = [tar EXCEPT ![build.asset] = Made]
          /\ build' = [build EXCEPT
                 !.left = build.left \ {build.asset},
                 !.at = IF build.left \intersect Runtimes = {build.asset} THEN "speech"
                        ELSE "runtime"]
          /\ proc' = proc /\ package' = package
          /\ UNCHANGED <<file, sidecar, report, audit, taken>>
      BY <1>11, <2>3 DEF Unpack
    <3>2. WorkOK'
      BY <1>1, <2>1, <3>1, SetWork, ContentKinds DEF WorkOK, Assets
    <3> DEFINE stage == IF build.left \intersect Runtimes = {build.asset} THEN "speech"
                        ELSE "runtime"
               left == build.left \ {build.asset}
    <3>3. stage \in {"speech", "runtime"} /\ left \in SUBSET Assets
      BY <1>1 DEF BuildRecord
    <3>4. build' = [build EXCEPT !.left = left, !.at = stage]
      BY <3>1
    <3> HIDE DEF stage, left
    <3>5. build' \in BuildRecord /\ build'.at \in {"speech", "runtime"} /\ build'.asset = build.asset
      BY <1>1, <3>3, <3>4 DEF BuildRecord
    <3>6. StageInv'
      BY <2>1, <3>5, BundleAssumption DEF StageInv
    <3> QED BY <1>3, <1>10, <2>1, <3>1, <3>2, <3>5, <3>6
  <2> QED BY <2>2, <2>3
<1>12. ASSUME NEW p \in Fetchers, ProvisionSpeech(p) PROVE KindInv'
  <2>1. proc[p].task = "build" /\ proc[p].at = "busy" /\ build.at = "speech"
    BY <1>1, <1>12 DEF ProvisionSpeech, By, At
  <2>2. CASE Speech \in made
    <3>1. Die(p) /\ made' = made /\ tar' = tar
      BY <1>12, <2>2 DEF ProvisionSpeech
    <3> QED BY <1>1, <1>2, <1>3, <1>12, <2>1, <3>1, DieKind DEF ProvisionSpeech, WorkOK
  <2>3. CASE Speech \notin made
    <3>1. /\ made' = made \union {Speech}
          /\ tar' = [tar EXCEPT ![Speech] = Made]
          /\ build' = [build EXCEPT !.left = Assets, !.at = "assemble"]
          /\ proc' = proc /\ package' = package
          /\ UNCHANGED <<file, sidecar, report, audit, taken>>
      BY <1>12, <2>3 DEF ProvisionSpeech
    <3>2. WorkOK'
      BY <1>1, <3>1, SetWork, ContentKinds DEF WorkOK, Assets
    <3>3. build' \in BuildRecord /\ build'.at = "assemble" /\ build'.asset = build.asset
      BY <1>1, <3>1 DEF BuildRecord
    <3>4. StageInv'
      BY <1>1, <2>1, <3>3, BundleAssumption DEF StageInv
    <3> QED BY <1>3, <1>10, <2>1, <3>1, <3>2, <3>3, <3>4
  <2> QED BY <2>2, <2>3
<1>13. ASSUME NEW p \in Fetchers, Assemble(p) PROVE KindInv'
  <2>1. proc[p].task = "build" /\ proc[p].at = "busy" /\ build.at = "assemble"
    BY <1>1, <1>13 DEF Assemble, By, At
  <2>2. CASE package["original"].here
    <3>1. Die(p)
      BY <1>13, <2>2 DEF Assemble
    <3> QED BY <1>1, <1>2, <1>3, <1>13, <2>1, <3>1, DieKind DEF Assemble, WorkOK
  <2>3. CASE ~package["original"].here
    <3>1. /\ package' = [package EXCEPT !["temp"] = [NoPackage EXCEPT !.here = TRUE]]
          /\ build' = [build EXCEPT !.at = "stream"]
          /\ proc' = proc
          /\ UNCHANGED <<file, sidecar, report, audit, made, tar, taken>>
      BY <1>13, <2>3 DEF Assemble, Proceed
    <3>2. [NoPackage EXCEPT !.here = TRUE] \in Package /\ "temp" \in Places
      BY ContentKinds DEF Package, Places
    <3>3. WorkOK'
      BY <1>1, <3>1, <3>2, SetWork DEF WorkOK
    <3>4. build' \in BuildRecord /\ build'.at = "stream" /\ build'.asset = build.asset
      BY <1>1, <3>1 DEF BuildRecord
    <3>5. StageInv'
      BY <1>1, <2>1, <3>4, BundleAssumption DEF StageInv
    <3> QED BY <1>3, <1>10, <2>1, <3>1, <3>3, <3>4, <3>5
  <2> QED BY <2>2, <2>3
<1>14. ASSUME NEW p \in Fetchers, NEW a \in Runtimes \union {Speech}, StreamRuntime(p, a)
       PROVE  KindInv'
  <2>1. proc[p].task = "build" /\ proc[p].at = "busy" /\ a \in build.left
    BY <1>14 DEF StreamRuntime, By, At
  <2>2. build' = [build EXCEPT !.at = "extract", !.asset = a]
    BY <1>14 DEF StreamRuntime
  <2>3. build' \in BuildRecord /\ build'.at = "extract" /\ build'.asset = a /\ build'.left = build.left
    BY <1>1, <2>2 DEF BuildRecord, Assets
  <2>4. StageInv'
    BY <2>1, <2>3, BundleAssumption DEF StageInv
  <2> QED BY <1>4, <1>5, <1>10, <1>14, <2>1, <2>3, <2>4 DEF StreamRuntime
<1>15. ASSUME NEW p \in Fetchers, NEW m \in Models, Supply(p, m) PROVE KindInv'
  <2>1. {m} \in SUBSET Entries
    BY SomeEntries
  <2> QED BY <1>15, <2>1, WantKind DEF Supply, By
<1>16. ASSUME NEW p \in Fetchers, NEW r \in Runtimes, FetchRuntime(p, r) PROVE KindInv'
  <2>1. Needs[r] \in SUBSET Entries /\ r \notin Models
    BY BundleAssumption, SomeEntries
  <2> QED BY <1>16, <2>1, WantKind DEF FetchRuntime, By
<1>17. ASSUME NEW p \in Fetchers, Pack(p) PROVE KindInv'
  <2>1. /\ proc[p].task = "build" /\ proc[p].at = "busy"
        /\ build.asset \in build.left \intersect Models /\ build.at = "pack"
    BY <1>1, <1>17 DEF Pack, By, At, StageInv
  <2>2. tar' = [tar EXCEPT ![build.asset] = Packed(build.asset)] /\ build' = [build EXCEPT !.at = "drop"]
    BY <1>17 DEF Pack, Proceed
  <2>3. WorkOK'
    <3>1. build.asset \in Assets /\ Packed(build.asset) \in Content
      BY <1>1, <2>1, PackedKind DEF Assets, DirectoryOK
    <3>2. tar' \in Parts
      BY <1>1, <2>2, <3>1, SetWork DEF WorkOK
    <3> QED BY <1>1, <1>17, <3>2 DEF WorkOK, Pack
  <2>4. build' \in BuildRecord /\ build'.at = "drop" /\ build'.asset = build.asset /\ build'.left = build.left
    BY <1>1, <2>2 DEF BuildRecord
  <2>5. StageInv'
    BY <1>1, <2>1, <2>4, BundleAssumption DEF StageInv
  <2> QED BY <1>4, <1>10, <1>17, <2>1, <2>3, <2>4, <2>5 DEF Pack
<1>18. ASSUME NEW p \in Fetchers, Drop(p) PROVE KindInv'
  <2> DEFINE m == build.asset
  <2>1. /\ proc[p].task = "build" /\ proc[p].at = "busy"
        /\ m \in build.left \intersect Models /\ build.at = "drop"
    BY <1>1, <1>18 DEF Drop, By, At, StageInv
  <2>2. build' = [build EXCEPT !.at = "extract"]
    BY <1>18 DEF Drop, Proceed
  <2>3. build' \in BuildRecord /\ build'.at = "extract" /\ build'.asset = build.asset /\ build'.left = build.left
    BY <1>1, <2>2 DEF BuildRecord
  <2>4. StageInv'
    BY <1>1, <2>1, <2>3, BundleAssumption DEF StageInv
  <2>5. DirectoryOK'
    <3>1. m \in Entries /\ [n \in Names |-> Absent] \in [Names -> File]
      BY <2>1, SomeEntries DEF File
    <3>2. file' \in Files
      BY <1>1, <1>18, <3>1 DEF Drop, DirectoryOK, Files
    <3> QED BY <1>1, <1>18, <3>2 DEF Drop, DirectoryOK
  <2>6. /\ proc' \in [Fetchers -> Process]
        /\ \A q \in Fetchers : Alike(proc[q], proc'[q])
    <3>1. proc' = [q \in Fetchers |->
              IF q # p /\ Entry(q) = m /\ proc[q].open # "none"
              THEN [proc[q] EXCEPT !.open = "lost"] ELSE proc[q]]
      BY <1>18 DEF Drop
    <3>2. \A q \in Fetchers : [proc[q] EXCEPT !.open = "lost"] \in Process
      BY <1>1, SetProcess
    <3>3. \A q \in Fetchers : Alike(proc[q], [proc[q] EXCEPT !.open = "lost"]) /\ Alike(proc[q], proc[q])
      BY <1>1 DEF Alike, Process
    <3> QED BY <1>1, <3>1, <3>2, <3>3
  <2>7. WorkOK'
    BY <1>1, <1>18, <2>1 DEF WorkOK, Drop, Package
  <2> QED BY <1>2, <2>1, <2>3, <2>4, <2>5, <2>6, <2>7, QuietKind, BundleTypesNext DEF KindInv
<1>19. ASSUME NEW p \in Fetchers, Extract(p) PROVE KindInv'
  <2>1. /\ proc[p].task = "build" /\ proc[p].at = "busy"
        /\ build.asset \in build.left /\ build.asset \in Assets /\ build.at = "extract"
    BY <1>1, <1>19 DEF Extract, By, At, StageInv, BuildRecord
  <2>2. /\ package' = [package EXCEPT !["temp"].part[build.asset] = tar[build.asset]]
        /\ build' = [build EXCEPT !.at = "consume"]
    BY <1>19 DEF Extract, Proceed
  <2>3. "temp" \in Places /\ tar[build.asset] \in Content
    BY <1>1, <2>1 DEF Places, WorkOK, Parts
  <2>4. WorkOK'
    BY <1>1, <1>19, <2>1, <2>2, <2>3, SetWork DEF WorkOK, Extract
  <2>5. build' \in BuildRecord /\ build'.at = "consume" /\ build'.asset = build.asset /\ build'.left = build.left
    BY <1>1, <2>2 DEF BuildRecord
  <2>6. StageInv'
    BY <1>1, <2>1, <2>5, BundleAssumption DEF StageInv
  <2> QED BY <1>4, <1>10, <1>19, <2>1, <2>4, <2>5, <2>6 DEF Extract
<1>20. ASSUME NEW p \in Fetchers, Consume(p) PROVE KindInv'
  <2> DEFINE left == build.left \ {build.asset}
             stage == IF left = {} THEN "manifest" ELSE "stream"
  <2>1. /\ proc[p].task = "build" /\ proc[p].at = "busy"
        /\ build.asset \in build.left /\ build.asset \in Assets /\ build.at = "consume"
    BY <1>1, <1>20 DEF Consume, By, At, StageInv, BuildRecord
  <2>2. /\ tar' = [tar EXCEPT ![build.asset] = Absent]
        /\ build' = [at |-> stage, asset |-> Absent, left |-> left]
    BY <1>20 DEF Consume
  <2>3. WorkOK'
    <3>1. tar' \in Parts
      BY <1>1, <2>1, <2>2, SetWork, ContentKinds DEF WorkOK
    <3> QED BY <1>1, <1>20, <3>1 DEF WorkOK, Consume
  <2>4. left \in SUBSET Assets /\ stage \in {"manifest", "stream"} /\ (stage = "manifest" => left = {})
    BY <1>1 DEF BuildRecord
  <2> HIDE DEF left, stage
  <2>5. build' \in BuildRecord /\ StageInv' /\ build'.at \notin {"none", "fetching"}
    BY <2>2, <2>4, BundleAssumption DEF BuildRecord, StageInv, Assets
  <2> QED BY <1>4, <1>10, <1>20, <2>1, <2>3, <2>5 DEF Consume
<1>21. ASSUME NEW p \in Fetchers, Manifest(p) PROVE KindInv'
  <2> DEFINE k == [package["temp"] EXCEPT !.manifest = package["temp"].part]
  <2>1. proc[p].task = "build" /\ proc[p].at = "busy" /\ build.at = "manifest"
    BY <1>1, <1>21 DEF Manifest, By, At
  <2>2. CASE Verified(k)
    <3>1. /\ package' = [package EXCEPT !["original"] = k, !["temp"] = NoPackage]
          /\ build' = [build EXCEPT !.at = "relocate"]
          /\ proc' = proc
          /\ UNCHANGED <<file, sidecar, report, audit, made, tar, taken>>
      BY <1>21, <2>2 DEF Manifest, Proceed
    <3>2. k \in Package /\ "temp" \in Places /\ "original" \in Places
      BY <1>1 DEF WorkOK, Package, Places
    <3> HIDE DEF k
    <3>3. package' \in [Places -> Package]
      BY <1>1, <3>1, <3>2, ContentKinds DEF WorkOK
    <3>4. WorkOK'
      BY <1>1, <3>1, <3>3 DEF WorkOK
    <3>5. build' \in BuildRecord /\ build'.at = "relocate" /\ build'.asset = build.asset
      BY <1>1, <3>1 DEF BuildRecord
    <3>6. StageInv'
      BY <1>1, <2>1, <3>5, BundleAssumption DEF StageInv
    <3> QED BY <1>3, <1>10, <2>1, <3>1, <3>4, <3>5, <3>6
  <2>3. CASE ~Verified(k)
    <3>1. Die(p)
      BY <1>21, <2>3 DEF Manifest
    <3> QED BY <1>1, <1>2, <1>3, <1>21, <2>1, <3>1, DieKind DEF Manifest, WorkOK
  <2> QED BY <2>2, <2>3
<1>22. ASSUME NEW p \in Fetchers, Relocate(p) PROVE KindInv'
  <2>1. proc[p].task = "build" /\ proc[p].at = "busy" /\ build.at = "relocate"
    BY <1>1, <1>22 DEF Relocate, By, At
  <2>2. /\ package' = [package EXCEPT !["relocated"] = package["original"],
                                      !["original"] = NoPackage]
        /\ build' = [build EXCEPT !.at = "qualify"]
    BY <1>22 DEF Relocate, Proceed
  <2>3. "relocated" \in Places /\ "original" \in Places
    BY DEF Places
  <2>4. WorkOK'
    <3>1. package' \in [Places -> Package]
      BY <1>1, <2>2, <2>3, ContentKinds DEF WorkOK
    <3> QED BY <1>1, <1>22, <3>1 DEF WorkOK, Relocate
  <2>5. build' \in BuildRecord /\ build'.at = "qualify" /\ build'.asset = build.asset
    BY <1>1, <2>2 DEF BuildRecord
  <2>6. StageInv'
    BY <1>1, <2>1, <2>5, BundleAssumption DEF StageInv
  <2> QED BY <1>4, <1>10, <1>22, <2>1, <2>4, <2>5, <2>6 DEF Relocate
<1>23. ASSUME NEW p \in Fetchers, BuildError(p) PROVE KindInv'
  <2>1. proc[p].task = "build"
    BY <1>23 DEF BuildError, By
  <2>2. made' \subseteq Runtimes \union {Speech}
    BY <1>1, <1>23 DEF BuildError, By, StageInv, WorkOK
  <2> QED BY <1>1, <1>2, <1>3, <1>23, <2>1, <2>2, DieKind DEF BuildError, WorkOK
<1> QED BY <1>7, <1>8, <1>9, <1>11, <1>12, <1>13, <1>14, <1>15, <1>16, <1>17, <1>18, <1>19,
           <1>20, <1>21, <1>22, <1>23 DEF BuildStep
\* There are eight checks.
LEMMA ChecksLength == Len(Checks) = 8
BY DEF Checks

\* A power failure tears partial files, and what is torn is a file.
LEMMA TornKind ==
    ASSUME file \in Files, PowerLoss
    PROVE  file' \in Files
<1>1. PICK torn \in SUBSET {e \in Entries : Length(file[e]["part"]) > 0} :
          file' = [e \in Entries |->
              IF e \in torn
              THEN [file[e] EXCEPT !["part"][Length(file[e]["part"])] = FALSE]
              ELSE file[e]]
  BY DEF PowerLoss
<1>2. ASSUME NEW e \in torn
      PROVE  [file[e] EXCEPT !["part"][Length(file[e]["part"])] = FALSE] \in [Names -> File]
  <2> DEFINE f == file[e]["part"]
  <2>1. file[e] \in [Names -> File] /\ f \in File /\ Length(f) > 0
    BY <1>1, <1>2 DEF Files, Names
  <2>2. f \in Seq(BOOLEAN) /\ Length(f) = Len(f)
    BY <2>1 DEF Length, File
  <2> HIDE DEF f
  <2>3. [f EXCEPT ![Len(f)] = FALSE] \in Seq(BOOLEAN)
    <3> DEFINE n == Len(f)
    <3>1. n \in Nat /\ f \in [1..n -> BOOLEAN]
      BY <2>2
    <3> HIDE DEF n
    <3>2. [f EXCEPT ![n] = FALSE] \in [1..n -> BOOLEAN]
      BY <3>1
    <3>3. [f EXCEPT ![n] = FALSE] \in Seq(BOOLEAN)
      BY <3>1, <3>2
    <3> QED BY <3>3 DEF n
  <2>4. [f EXCEPT ![Length(f)] = FALSE] \in File
    BY <2>2, <2>3 DEF File
  <2> QED BY <2>1, <2>4 DEF f
<1>3. ASSUME NEW e \in Entries
      PROVE  (IF e \in torn THEN [file[e] EXCEPT !["part"][Length(file[e]["part"])] = FALSE]
              ELSE file[e]) \in [Names -> File]
  BY <1>2 DEF Files
<1> QED BY <1>1, <1>3 DEF Files

\* The remaining steps: children, the other machine, and what ends everything.
LEMMA RestKind ==
    ASSUME KindInv, ChildInv, ManifestInv,
           \/ \E b \in Bundles : Examine(b) \/ ChildDies(b)
           \/ \E p \in Fetchers : Qualify(p) \/ Qualified(p) \/ Retain(p) \/ Kill(p)
           \/ \E m \in Models : Restore(m)
           \/ PowerCut \/ Deliver \/ Wear \/ Purge \/ Smoke \/ Smoked \/ TimedOut \/ FieldCrash
    PROVE  KindInv'
<1>1. /\ DirectoryOK /\ proc \in [Fetchers -> Process]
      /\ build \in BuildRecord /\ WorkOK /\ ChildrenOK /\ BuilderInv /\ StageInv /\ FetchInv
      /\ \A q \in Fetchers : FetchOK(proc[q])
  BY BundleTypes, FetchInvOK DEF KindInv
<1>2. UNCHANGED <<file, sidecar, report, audit>> => DirectoryOK'
  BY <1>1 DEF DirectoryOK, Files
<1>3. UNCHANGED <<made, tar, taken, package>> => WorkOK'
  BY <1>1 DEF WorkOK, Package
<1>4. UNCHANGED <<child, qualification, field, receipt>> => ChildrenOK'
  BY <1>1 DEF ChildrenOK
<1>5. \A q \in Fetchers : Alike(proc[q], proc[q])
  BY DEF Alike
\* A step of no process.
<1>6. ASSUME proc' = proc, build' = build, UNCHANGED <<file, sidecar, report, audit>>,
             WorkOK', ChildrenOK'
      PROVE  KindInv'
  <2>1. proc' \in [Fetchers -> Process] /\ build' \in BuildRecord
    BY <1>1, <1>6
  <2>2. FetchInv' /\ BuilderInv' /\ StageInv'
    BY <1>1, <1>6 DEF FetchInv, BuilderInv, StageInv, NoBuild
  <2> QED BY <1>2, <1>6, <2>1, <2>2, BundleTypesNext DEF KindInv
<1>7. Started \in [at : {"none", "running", "passed", "failed"},
                   step : 0..Len(Checks), passed : SUBSET CheckNames]
      /\ NoChild \in [at : {"none", "running", "passed", "failed"},
                      step : 0..Len(Checks), passed : SUBSET CheckNames]
  BY DEF Started, NoChild, Checks
<1>8. ASSUME NEW b \in Bundles, NEW v \in {Started, NoChild},
             child' = [child EXCEPT ![b] = v], qualification' = qualification,
             field' \in {"idle", "child"},
             receipt' \in [status : {"none", "blocked", "failed", "verified", "passed"},
                           claimed : BOOLEAN]
      PROVE  ChildrenOK'
  BY <1>1, <1>7, <1>8 DEF ChildrenOK
<1>9. "relocated" \in Bundles /\ "field" \in Bundles
  BY DEF Bundles
<1>10. ASSUME NEW b \in Bundles, Examine(b) PROVE KindInv'
  <2> DEFINE i == child[b].step + 1
  <2>1. PICK ok \in BOOLEAN :
            LET passed == child[b].passed \union IF ok THEN {Checks[i]} ELSE {}
                status == IF ~ok /\ i <= Fatal THEN "failed"
                          ELSE IF i < Len(Checks) THEN "running"
                          ELSE IF passed = CheckNames THEN "passed" ELSE "failed"
            IN  /\ child' = [child EXCEPT ![b] = [at |-> status, step |-> i, passed |-> passed]]
                /\ qualification' = [qualification EXCEPT ![b] =
                                        [status |-> status, passed |-> passed]]
    <3>1. Verified(package[b]) \in BOOLEAN
      BY DEF Verified
    <3> QED BY <1>10, <3>1 DEF Examine
  <2> DEFINE passed == child[b].passed \union IF ok THEN {Checks[i]} ELSE {}
             status == IF ~ok /\ i <= Fatal THEN "failed"
                       ELSE IF i < Len(Checks) THEN "running"
                       ELSE IF passed = CheckNames THEN "passed" ELSE "failed"
  <2>2. i \in 1..Len(Checks) /\ i \in 0..Len(Checks)
    BY <1>1, <1>10, ChecksLength DEF Examine, ChildInv, ChildrenOK
  <2>3. status \in {"running", "passed", "failed"} /\ passed \in SUBSET CheckNames
    BY <1>1, <2>2 DEF CheckNames, ChildrenOK
  <2> HIDE DEF status, passed, i
  <2>4. ChildrenOK'
    BY <1>1, <1>10, <2>1, <2>2, <2>3 DEF ChildrenOK, Examine, status, passed, i
  <2> QED BY <1>3, <1>6, <1>10, <2>4 DEF Examine
<1>11. ASSUME NEW b \in Bundles, ChildDies(b) PROVE KindInv'
  <2>1. ChildrenOK'
    <3> DEFINE torn == [NoResult EXCEPT !.status = "torn"]
               failed == [child[b] EXCEPT !.at = "failed"]
    <3>1. torn \in [status : {"none", "running", "torn", "passed", "failed"},
                    passed : SUBSET CheckNames]
      BY DEF NoResult
    <3>2. failed \in [at : {"none", "running", "passed", "failed"},
                      step : 0..Len(Checks), passed : SUBSET CheckNames]
      BY <1>1 DEF ChildrenOK
    <3>3. /\ child' = [child EXCEPT ![b] = failed]
          /\ qualification' \in {qualification, [qualification EXCEPT ![b] = torn]}
          /\ field' = field /\ receipt' = receipt
      BY <1>11 DEF ChildDies
    <3> HIDE DEF torn, failed
    <3>4. child' \in [Bundles -> [at : {"none", "running", "passed", "failed"},
                                  step : 0..Len(Checks), passed : SUBSET CheckNames]]
      BY <1>1, <3>2, <3>3 DEF ChildrenOK
    <3>5. qualification' \in [Bundles ->
              [status : {"none", "running", "torn", "passed", "failed"},
               passed : SUBSET CheckNames]]
      BY <1>1, <3>1, <3>3 DEF ChildrenOK
    <3> QED BY <1>1, <3>3, <3>4, <3>5 DEF ChildrenOK
  <2> QED BY <1>3, <1>6, <1>11, <2>1 DEF ChildDies
<1>12. ASSUME NEW p \in Fetchers, Qualify(p) PROVE KindInv'
  <2>1. /\ proc[p].task = "build" /\ proc[p].at = "busy" /\ build.at = "qualify"
        /\ proc' = proc
    BY <1>12 DEF Qualify, By, At, cacheVars
  <2>2. build' = [build EXCEPT !.at = "child"]
    BY <1>12 DEF Qualify, Proceed
  <2>3. build' \in BuildRecord /\ build'.at = "child" /\ build'.asset = build.asset
    BY <1>1, <2>2 DEF BuildRecord
  <2>4. StageInv'
    BY <1>1, <2>1, <2>3, BundleAssumption DEF StageInv
  <2>5. ChildrenOK'
    BY <1>1, <1>8, <1>9, <1>12 DEF Qualify, ChildrenOK
  <2>6. DirectoryOK' /\ WorkOK'
    BY <1>2, <1>3, <1>12 DEF Qualify, cacheVars
  <2> QED BY <1>1, <1>5, <2>1, <2>3, <2>4, <2>5, <2>6, QuietKind, BundleTypesNext DEF KindInv
<1>13. ASSUME NEW p \in Fetchers, Qualified(p) PROVE KindInv'
  <2>1. proc[p].task = "build" /\ proc[p].at = "busy" /\ build.at = "child"
    BY <1>13 DEF Qualified, By, At
  <2>2. ChildrenOK' /\ DirectoryOK'
    BY <1>1, <1>2, <1>8, <1>9, <1>13 DEF Qualified, ChildrenOK
  <2>3. CASE child["relocated"].at = "passed"
    <3>1. build' = [build EXCEPT !.at = "retain"] /\ proc' = proc
      BY <1>13, <2>3 DEF Qualified, Proceed
    <3>2. build' \in BuildRecord /\ build'.at = "retain" /\ build'.asset = build.asset
      BY <1>1, <3>1 DEF BuildRecord
    <3>3. StageInv'
      BY <1>1, <2>1, <3>2, BundleAssumption DEF StageInv
    <3>4. WorkOK'
      BY <1>3, <1>13, <2>3 DEF Qualified
    <3> QED BY <1>1, <1>5, <2>1, <2>2, <3>1, <3>2, <3>3, <3>4, QuietKind, BundleTypesNext
            DEF KindInv
  <2>4. CASE child["relocated"].at # "passed"
    <3>1. Die(p)
      BY <1>13, <2>4 DEF Qualified
    <3> QED BY <1>1, <1>13, <2>1, <2>2, <3>1, DieKind DEF Qualified, WorkOK
  <2> QED BY <2>3, <2>4
<1>14. ASSUME NEW p \in Fetchers, Retain(p) PROVE KindInv'
  <2> DEFINE part == [a \in Assets |-> IF a \in Models THEN Absent
                                      ELSE package["relocated"].part[a]]
             v == [package["relocated"] EXCEPT !.part = part]
  <2>1. package["relocated"] \in Package /\ "payload" \in Places
    BY <1>1 DEF WorkOK, Places
  <2>2. part \in Parts
    BY <2>1, ContentKinds DEF Package, Parts
  <2> HIDE DEF part
  <2>3. v \in Package
    BY <2>1, <2>2 DEF Package
  <2>4. package' = [package EXCEPT !["payload"] = v]
    BY <1>14 DEF Retain, part
  <2> HIDE DEF v
  <2>5. WorkOK'
    <3>1. package' \in [Places -> Package]
      BY <1>1, <2>1, <2>3, <2>4 DEF WorkOK
    <3> QED BY <1>1, <1>14, <3>1 DEF WorkOK, Retain
  <2>6. proc[p].task = "build" /\ Leave(p) /\ build' = NoBuild
    BY <1>14 DEF Retain, By
  <2> QED BY <1>2, <1>4, <1>14, <2>5, <2>6, EndKind, BundleTypesNext DEF KindInv, Retain
<1>15. ASSUME NEW p \in Fetchers, Kill(p) PROVE KindInv'
  <2>1. /\ Leave(p) /\ UNCHANGED <<file, sidecar, report, audit>>
        /\ UNCHANGED <<made, tar, taken, package, qualification, field, receipt>>
    BY <1>15 DEF Kill, Crash
  <2>2. DirectoryOK' /\ WorkOK'
    BY <1>2, <1>3, <2>1
  <2>3. CASE proc[p].task = "build"
    <3>1. build' = NoBuild /\ child' = [child EXCEPT !["relocated"] = NoChild]
      BY <1>15, <2>3 DEF Kill
    <3>2. ChildrenOK'
      BY <1>1, <1>8, <1>9, <2>1, <3>1 DEF ChildrenOK
    <3> QED BY <2>1, <2>2, <2>3, <3>1, <3>2, EndKind, BundleTypesNext DEF KindInv
  <2>4. CASE proc[p].task # "build"
    <3>1. build' = build /\ child' = child
      BY <1>15, <2>4 DEF Kill
    <3>2. proc' = [proc EXCEPT ![p] = Idle]
      BY <2>1 DEF Leave
    <3>3. Idle \in Process /\ FetchOK(Idle) /\ Idle.at = "idle" /\ Idle.task = "provision"
      BY IdleProcess DEF FetchOK, Idle, Working
    <3>4. proc' \in [Fetchers -> Process]
      BY <1>1, <3>2, <3>3
    <3>5. FetchInv'
      <4>1. \A q \in Fetchers : FetchOK(proc'[q])
        BY <1>1, <3>2, <3>3
      <4> QED BY <4>1 DEF FetchInv, FetchOK
    <3>6. BuilderInv'
      BY <1>1, <2>4, <3>1, <3>2, <3>3 DEF BuilderInv
    <3>7. StageInv' /\ build' \in BuildRecord /\ ChildrenOK'
      BY <1>1, <1>4, <2>1, <3>1 DEF StageInv, NoBuild
    <3> QED BY <2>2, <3>4, <3>5, <3>6, <3>7, BundleTypesNext DEF KindInv
  <2> QED BY <2>3, <2>4
<1>16. CASE PowerCut
  <2>1. /\ proc' = [q \in Fetchers |-> Idle] /\ build' = NoBuild
        /\ child' = [child EXCEPT !["relocated"] = NoChild]
        /\ audit' = NoAudit /\ UNCHANGED <<sidecar, report>>
        /\ UNCHANGED <<made, tar, taken, package, qualification, field, receipt>>
    BY <1>16 DEF PowerCut, PowerLoss
  <2>2. file' \in Files
    BY <1>1, <1>16, TornKind DEF PowerCut, DirectoryOK
  <2>3. DirectoryOK'
    BY <1>1, <2>1, <2>2 DEF DirectoryOK, NoAudit
  <2>4. ChildrenOK' /\ WorkOK'
    BY <1>1, <1>3, <1>8, <1>9, <2>1 DEF ChildrenOK
  <2>5. Idle \in Process /\ FetchOK(Idle) /\ Idle.at = "idle" /\ Idle.task = "provision"
    BY IdleProcess DEF FetchOK, Idle, Working
  <2>6. proc' \in [Fetchers -> Process] /\ \A q \in Fetchers : proc'[q] = Idle
    BY <2>1, <2>5
  <2>7. FetchInv'
    BY <2>5, <2>6 DEF FetchInv, FetchOK
  <2>8. BuilderInv'
    BY <2>5, <2>6 DEF BuilderInv
  <2>9. StageInv' /\ build' \in BuildRecord
    BY <2>1, ContentKinds, BundleAssumption DEF StageInv, NoBuild, Assets
  <2> QED BY <2>3, <2>4, <2>6, <2>7, <2>8, <2>9, BundleTypesNext DEF KindInv
\* Steps on the package in the field.
<1>17. ASSUME NEW v \in Package, package' = [package EXCEPT !["field"] = v],
              UNCHANGED <<file, sidecar, report, proc, audit, build, made, tar, taken, child,
                          qualification, field, receipt>>
       PROVE  KindInv'
  <2>1. package' \in [Places -> Package]
    BY <1>1, <1>17 DEF WorkOK, Places
  <2>2. WorkOK' /\ ChildrenOK'
    BY <1>1, <1>4, <1>17, <2>1 DEF WorkOK
  <2> QED BY <1>6, <1>17, <2>2
<1>18. package["field"] \in Package /\ package["payload"] \in Package
  BY <1>1 DEF WorkOK, Places
<1>19. ASSUME NEW v \in Package, NEW a \in Assets, NEW c \in Content
       PROVE  [v EXCEPT !.part[a] = c] \in Package
  <2>1. [v.part EXCEPT ![a] = c] \in Parts
    BY <1>19 DEF Package, Parts
  <2> QED BY <2>1 DEF Package
<1>20. CASE Deliver
  <2>1. CASE package' = [package EXCEPT !["field"] = package["payload"]]
    BY <1>17, <1>18, <1>20, <2>1 DEF Deliver
  <2>2. CASE \E a \in Runtimes \union {Speech} :
                 package' = [package EXCEPT !["field"] =
                                [package["payload"] EXCEPT !.part[a] = Broken]]
    <3>1. PICK a \in Assets :
              package' = [package EXCEPT !["field"] =
                             [package["payload"] EXCEPT !.part[a] = Broken]]
      BY <2>2 DEF Assets
    <3>2. [package["payload"] EXCEPT !.part[a] = Broken] \in Package
      BY <1>18, <1>19, ContentKinds
    <3> QED BY <1>17, <1>20, <3>1, <3>2 DEF Deliver
  <2> QED BY <1>20, <2>1, <2>2 DEF Deliver
<1>21. ASSUME NEW m \in Models, Restore(m) PROVE KindInv'
  <2>1. m \in Assets
    BY DEF Assets
  <2> DEFINE good == [package["field"].manifest[m] EXCEPT !.good = TRUE]
  <2>2. PICK c \in {good, Broken} : package' = [package EXCEPT !["field"].part[m] = c]
    BY <1>21 DEF Restore
  <2>3. c \in Content
    <3>1. package["field"].manifest # Nothing
      BY <1>21 DEF Restore, ManifestInv, Places
    <3>2. package["field"].manifest[m] # Absent
      BY <2>1, <3>1 DEF ManifestInv, Places, Whole
    <3>3. package["field"].manifest[m] \in [bytes : Nat, good : BOOLEAN]
      BY <1>18, <2>1, <3>2 DEF Package, Parts, Content
    <3>4. good \in Content
      BY <3>3 DEF Content
    <3> QED BY <3>4, ContentKinds
  <2> HIDE DEF good
  <2>4. package' = [package EXCEPT !["field"] = [package["field"] EXCEPT !.part[m] = c]]
    BY <1>1, <2>2 DEF WorkOK, Package
  <2> QED BY <1>17, <1>18, <1>19, <1>21, <2>1, <2>3, <2>4 DEF Restore
<1>22. CASE Wear
  <2>1. CASE \E kind \in {"bytecode", "other"} :
                 package' = [package EXCEPT !["field"].extra = @ \union {kind}]
    <3>1. PICK kind \in {"bytecode", "other"} :
              package' = [package EXCEPT !["field"].extra = @ \union {kind}]
      BY <2>1
    <3> DEFINE v == [package["field"] EXCEPT !.extra = package["field"].extra \union {kind}]
    <3>2. v \in Package
      BY <1>18 DEF Package
    <3>3. package' = [package EXCEPT !["field"] = v]
      BY <3>1
    <3> HIDE DEF v
    <3> QED BY <1>17, <1>22, <3>2, <3>3 DEF Wear
  <2>2. CASE \E a \in Assets : package' = [package EXCEPT !["field"].part[a] = Broken]
    <3>1. PICK a \in Assets : package' = [package EXCEPT !["field"].part[a] = Broken]
      BY <2>2
    <3> DEFINE v == [package["field"] EXCEPT !.part[a] = Broken]
    <3>2. v \in Package
      BY <1>18, <1>19, ContentKinds
    <3>3. package' = [package EXCEPT !["field"] = v]
      BY <3>1
    <3> HIDE DEF v
    <3> QED BY <1>17, <1>22, <3>2, <3>3 DEF Wear
  <2> QED BY <1>22, <2>1, <2>2 DEF Wear
<1>23. CASE Purge
  <2>1. PICK extra \in {package["field"].extra, package["field"].extra \ {"bytecode"}} :
            package' = [package EXCEPT !["field"].extra = extra]
    BY <1>23 DEF Purge
  <2> DEFINE v == [package["field"] EXCEPT !.extra = extra]
  <2>2. v \in Package
    BY <1>18 DEF Package
  <2>3. package' = [package EXCEPT !["field"] = v]
    BY <2>1
  <2> HIDE DEF v
  <2> QED BY <1>17, <1>23, <2>2, <2>3 DEF Purge, cacheVars
<1>24. CASE Smoke \/ Smoked \/ TimedOut \/ FieldCrash
  <2>1. /\ UNCHANGED <<file, sidecar, report, proc, audit, build, made, tar, taken, package,
                       qualification>>
        /\ field' \in {"idle", "child"}
        /\ \/ child' = child
           \/ \E v \in {Started, NoChild} : child' = [child EXCEPT !["field"] = v]
    BY <1>1, <1>24 DEF Smoke, Smoked, TimedOut, FieldCrash, cacheVars, ChildrenOK
  <2>2. receipt' \in [status : {"none", "blocked", "failed", "verified", "passed"},
                      claimed : BOOLEAN]
    <3>1. CASE Smoke \/ TimedOut \/ FieldCrash
      BY <1>1, <3>1 DEF Smoke, TimedOut, FieldCrash, ChildrenOK, NoReceipt
    <3>2. CASE Smoked
      <4> DEFINE said == qualification["field"]
                 status == IF child["field"].at = "passed" /\ said.status = "passed"
                           THEN "passed" ELSE "failed"
                 claimed == /\ said.status = "passed" /\ Tiers \subseteq said.passed
                            /\ status = "passed"
      <4>1. receipt' = [status |-> status, claimed |-> claimed]
        BY <3>2 DEF Smoked
      <4>2. status \in {"passed", "failed"} /\ claimed \in BOOLEAN
        OBVIOUS
      <4> HIDE DEF status, claimed
      <4> QED BY <4>1, <4>2
    <3> QED BY <1>24, <3>1, <3>2
  <2>3. ChildrenOK'
    <3>1. CASE child' = child
      BY <1>1, <2>1, <2>2, <3>1 DEF ChildrenOK
    <3>2. CASE \E v \in {Started, NoChild} : child' = [child EXCEPT !["field"] = v]
      BY <1>8, <1>9, <2>1, <2>2, <3>2
    <3> QED BY <2>1, <3>1, <3>2
  <2> QED BY <1>3, <1>6, <2>1, <2>3
<1> QED BY <1>10, <1>11, <1>12, <1>13, <1>14, <1>15, <1>16, <1>20, <1>21, <1>22, <1>23, <1>24
\* The steps of BundleNext, by what they are steps of.
Rest ==
    \/ \E b \in Bundles : Examine(b) \/ ChildDies(b)
    \/ \E p \in Fetchers : Qualify(p) \/ Qualified(p) \/ Retain(p) \/ Kill(p)
    \/ \E m \in Models : Restore(m)
    \/ PowerCut \/ Deliver \/ Wear \/ Purge \/ Smoke \/ Smoked \/ TimedOut \/ FieldCrash

\* Every step is of one of three kinds.
LEMMA Steps ==
    BundleNext <=> \/ CacheStep /\ UNCHANGED bundleVars
                   \/ BuildStep /\ UNCHANGED <<child, qualification, field, receipt>>
                   \/ Rest
BY DEF BundleNext, Rest

\* A step of the cache is one of a fetcher or of the audit.
LEMMA CacheSteps ==
    CacheStep <=> \/ \E p \in Fetchers : CacheActions(p)
                  \/ StartAudit \/ EndAudit \/ (\E m \in Models : AuditFile(m))
BY DEF CacheStep, CacheActions

\* The kinds of things are kept.
LEMMA KindStep ==
    ASSUME KindInv, ChildInv, ManifestInv, BundleNext
    PROVE  KindInv'
<1>1. CASE CacheStep /\ UNCHANGED bundleVars
  BY <1>1, CacheSteps, CacheActionsKind, AuditKind
<1>2. CASE BuildStep /\ UNCHANGED <<child, qualification, field, receipt>>
  BY <1>2, BuildStepKind
<1>3. CASE Rest
  BY <1>3, RestKind DEF Rest
<1> QED BY <1>1, <1>2, <1>3, Steps

-----------------------------------------------------------------------------
(* Children and claims *)

\* A child that has passed has passed every check.
LEMMA ChildStep ==
    ASSUME KindInv, ChildInv, BundleNext
    PROVE  ChildInv'
<1>1. ChildrenOK
  BY BundleTypes DEF KindInv
<1>2. child' = child => ChildInv'
  BY DEF ChildInv
<1>3. ASSUME NEW b \in Bundles, NEW v \in {Started, NoChild},
             child' = [child EXCEPT ![b] = v]
      PROVE  ChildInv'
  BY <1>1, <1>3, ChecksLength DEF ChildInv, ChildrenOK, Started, NoChild
<1>4. "relocated" \in Bundles /\ "field" \in Bundles
  BY DEF Bundles
<1>5. ASSUME NEW b \in Bundles, Examine(b) PROVE ChildInv'
  <2>1. PICK status, i, passed :
            /\ child' = [child EXCEPT ![b] = [at |-> status, step |-> i, passed |-> passed]]
            /\ status = "passed" => passed = CheckNames
            /\ status = "running" => i < Len(Checks)
    <3> DEFINE i == child[b].step + 1
    <3>1. PICK ok \in IF Checks[i] \in {"integrity", "integrity_after"}
                      THEN {Verified(package[b])} ELSE BOOLEAN :
              LET passed == child[b].passed \union IF ok THEN {Checks[i]} ELSE {}
                  status == IF ~ok /\ i <= Fatal THEN "failed"
                            ELSE IF i < Len(Checks) THEN "running"
                            ELSE IF passed = CheckNames THEN "passed" ELSE "failed"
              IN  child' = [child EXCEPT ![b] = [at |-> status, step |-> i, passed |-> passed]]
      BY <1>5 DEF Examine
    <3> DEFINE passed == child[b].passed \union IF ok THEN {Checks[i]} ELSE {}
               status == IF ~ok /\ i <= Fatal THEN "failed"
                         ELSE IF i < Len(Checks) THEN "running"
                         ELSE IF passed = CheckNames THEN "passed" ELSE "failed"
    <3>2. child' = [child EXCEPT ![b] = [at |-> status, step |-> i, passed |-> passed]]
      BY <3>1
    <3> HIDE DEF i, passed
    <3>3. /\ status = "passed" => passed = CheckNames
          /\ status = "running" => i < Len(Checks)
      OBVIOUS
    <3> HIDE DEF status
    <3> QED BY <3>2, <3>3
  <2> QED BY <1>1, <2>1 DEF ChildInv, ChildrenOK
<1>6. ASSUME NEW b \in Bundles, ChildDies(b) PROVE ChildInv'
  BY <1>1, <1>6 DEF ChildInv, ChildrenOK, ChildDies
<1>7. CASE Rest
  <2>1. CASE \E p \in Fetchers : Qualify(p) \/ Qualified(p) \/ Kill(p)
    BY <1>2, <1>3, <1>4, <2>1 DEF Qualify, Qualified, Kill
  <2>2. CASE PowerCut \/ Smoke \/ Smoked \/ TimedOut \/ FieldCrash
    BY <1>2, <1>3, <1>4, <2>2 DEF PowerCut, Smoke, Smoked, TimedOut, FieldCrash
  <2>3. CASE \/ \E p \in Fetchers : Retain(p)
             \/ \E m \in Models : Restore(m)
             \/ Deliver \/ Wear \/ Purge
    BY <1>2, <2>3 DEF Retain, Restore, Deliver, Wear, Purge
  <2> QED BY <1>5, <1>6, <1>7, <2>1, <2>2, <2>3 DEF Rest
<1> QED BY <1>2, <1>7, Steps DEF bundleVars

-----------------------------------------------------------------------------
(* What a build has made, and what is in a package *)

\* Nothing is said of a build that is none.
LEMMA NoStream == build' = NoBuild => StreamInv'
BY DEF StreamInv, Making, Packing, NoBuild

\* What a build has made, packed or put into the package stays there while it goes on.
LEMMA StreamStep ==
    ASSUME KindInv, StreamInv, OneFetcher => GotInv, BundleNext
    PROVE  StreamInv'
<1>1. build \in BuildRecord /\ WorkOK /\ BuilderInv /\ StageInv
  BY BundleTypes DEF KindInv
<1>2. "temp" \in Places /\ "field" \in Places /\ "original" \in Places
  BY DEF Places
<1>3. build' = build /\ tar' = tar /\ package'["temp"] = package["temp"] => StreamInv'
  BY DEF StreamInv, Making, Packing
<1>4. CASE CacheStep /\ UNCHANGED bundleVars
  BY <1>3, <1>4 DEF bundleVars
<1>5. CASE Rest
  <2>1. ASSUME NEW v, package' = [package EXCEPT !["field"] = v]
        PROVE  package'["temp"] = package["temp"]
    BY <1>1, <1>2, <2>1 DEF WorkOK
  <2>2. CASE Deliver \/ Wear \/ Purge \/ \E m \in Models : Restore(m)
    <3>1. \E v : package' = [package EXCEPT !["field"] = v]
      BY <2>2 DEF Deliver, Wear, Purge, Restore
    <3>2. build' = build /\ tar' = tar
      BY <2>2 DEF Deliver, Wear, Purge, Restore
    <3> QED BY <1>3, <2>1, <3>1, <3>2
  <2>3. CASE \/ \E b \in Bundles : Examine(b) \/ ChildDies(b)
             \/ Smoke \/ Smoked \/ TimedOut \/ FieldCrash
    BY <1>3, <2>3 DEF Examine, ChildDies, Smoke, Smoked, TimedOut, FieldCrash
  <2>4. CASE \E p \in Fetchers : Qualify(p)
    <3>1. build'.at = "child"
      BY <1>1, <2>4 DEF Qualify, Proceed, BuildRecord
    <3> QED BY <3>1 DEF StreamInv, Making, Packing
  <2>5. CASE \E p \in Fetchers : Qualified(p)
    <3>1. build' = NoBuild \/ build'.at = "retain"
      BY <1>1, <2>5 DEF Qualified, Proceed, Die, BuildRecord
    <3>2. build'.at = "retain" => StreamInv'
      BY DEF StreamInv, Making, Packing
    <3> QED BY <3>1, <3>2, NoStream
  <2>6. CASE PowerCut \/ \E p \in Fetchers : Retain(p)
    BY <2>6, NoStream DEF PowerCut, Retain
  <2>7. CASE \E p \in Fetchers : Kill(p)
    BY <1>3, <2>7, NoStream DEF Kill
  <2> QED BY <1>5, <2>2, <2>3, <2>4, <2>5, <2>6, <2>7 DEF Rest
<1>6. ASSUME BuildStep PROVE StreamInv'
  <2>1. ASSUME NEW p \in Fetchers, Build(p) PROVE StreamInv'
    BY <2>1 DEF Build, StreamInv, Making, Packing, Assets
  <2>2. ASSUME NEW p \in Fetchers, FetchFailed(p) \/ BuildError(p) PROVE StreamInv'
    BY <2>2, NoStream DEF FetchFailed, BuildError, Die
  <2>3. ASSUME NEW p \in Fetchers, Fetched(p) PROVE StreamInv'
    <3>1. build.at = "fetching" /\ build.asset \in build.left /\ build.asset \in Runtimes \union Models
      BY <1>1, <2>3 DEF Fetched, BuilderInv, At, StageInv, BuildRecord, Assets
    <3>2. build' = [build EXCEPT !.at = IF build.asset \in Models THEN "pack" ELSE "unpack"]
      BY <2>3 DEF Fetched, Proceed
    <3>3. build'.at = (IF build.asset \in Models THEN "pack" ELSE "unpack")
          /\ build'.asset = build.asset /\ build'.left = build.left
      BY <1>1, <3>2 DEF BuildRecord
    <3>4. tar' = tar /\ package' = package
      BY <2>3 DEF Fetched
    <3> QED BY <3>1, <3>3, <3>4, BundleAssumption DEF StreamInv, Making, Packing
  <2>4. ASSUME NEW p \in Fetchers, Unpack(p) PROVE StreamInv'
    <3>1. CASE build.asset \in made
      BY <2>4, <3>1, NoStream DEF Unpack, Die
    <3>2. CASE build.asset \notin made
      <4>1. build.at = "unpack" /\ build.asset \in build.left \intersect Runtimes
        BY <1>1, <2>4 DEF Unpack, By, StageInv
      <4> DEFINE stage == IF build.left \intersect Runtimes = {build.asset} THEN "speech"
                          ELSE "runtime"
                 left == build.left \ {build.asset}
      <4>2. build' = [build EXCEPT !.left = left, !.at = stage]
            /\ tar' = [tar EXCEPT ![build.asset] = Made]
        BY <2>4, <3>2 DEF Unpack
      <4>3. stage = "speech" => left \intersect Runtimes = {}
        BY <4>1
      <4>4. stage \in {"speech", "runtime"} /\ left = build.left \ {build.asset}
        OBVIOUS
      <4> HIDE DEF stage, left
      <4>5. build'.at = stage /\ build'.left = left
        BY <1>1, <4>2 DEF BuildRecord
      <4>6. \A r \in Runtimes \ left : tar'[r] = Made
        BY <1>1, <4>1, <4>2, <4>4 DEF StreamInv, Making, WorkOK, Parts, Assets
      <4> QED BY <4>3, <4>4, <4>5, <4>6 DEF StreamInv, Making, Packing
    <3> QED BY <3>1, <3>2
  <2>5. ASSUME NEW p \in Fetchers, ProvisionSpeech(p) PROVE StreamInv'
    <3>1. CASE Speech \in made
      BY <2>5, <3>1, NoStream DEF ProvisionSpeech, Die
    <3>2. CASE Speech \notin made
      <4>1. build.at = "speech"
        BY <2>5 DEF ProvisionSpeech, By
      <4>2. build' = [build EXCEPT !.left = Assets, !.at = "assemble"]
            /\ tar' = [tar EXCEPT ![Speech] = Made]
        BY <2>5, <3>2 DEF ProvisionSpeech
      <4>3. build'.at = "assemble" /\ build'.left = Assets
        BY <1>1, <4>2 DEF BuildRecord
      <4>4. \A a \in Assets \ Models : tar'[a] = Made
        BY <1>1, <4>1, <4>2, BundleAssumption DEF StreamInv, Making, WorkOK, Parts, Assets
      <4> QED BY <4>3, <4>4 DEF StreamInv, Making, Packing
    <3> QED BY <3>1, <3>2
  <2>6. ASSUME NEW p \in Fetchers, Assemble(p) PROVE StreamInv'
    <3>1. CASE package["original"].here
      BY <2>6, <3>1, NoStream DEF Assemble, Die
    <3>2. CASE ~package["original"].here
      <4>1. build.at = "assemble" /\ build.left = Assets
        BY <2>6 DEF Assemble, By, StreamInv
      <4>2. /\ build' = [build EXCEPT !.at = "stream"] /\ tar' = tar
            /\ package' = [package EXCEPT !["temp"] = [NoPackage EXCEPT !.here = TRUE]]
        BY <2>6, <3>2 DEF Assemble, Proceed
      <4>3. build'.at = "stream" /\ build'.left = Assets
        BY <1>1, <4>1, <4>2 DEF BuildRecord
      <4>4. package'["temp"].here /\ package'["temp"].extra = {}
        BY <1>1, <1>2, <4>2 DEF WorkOK, NoPackage
      <4> QED BY <4>1, <4>2, <4>3, <4>4 DEF StreamInv, Making, Packing
    <3> QED BY <3>1, <3>2
  <2>7. ASSUME NEW p \in Fetchers, NEW a \in Runtimes \union {Speech}, StreamRuntime(p, a)
        PROVE  StreamInv'
    <3>1. build.at = "stream" /\ a \in build.left \ Models
      BY <2>7 DEF StreamRuntime, By
    <3>2. build' = [build EXCEPT !.at = "extract", !.asset = a] /\ tar' = tar /\ package' = package
      BY <2>7 DEF StreamRuntime
    <3>3. build'.at = "extract" /\ build'.asset = a /\ build'.left = build.left
      BY <1>1, <3>2 DEF BuildRecord
    <3>4. Whole(tar[a])
      BY <3>1, ContentKinds DEF StreamInv, Packing, Whole
    <3> QED BY <3>1, <3>2, <3>3, <3>4 DEF StreamInv, Making, Packing
  <2>8. ASSUME NEW p \in Fetchers, NEW m \in Models, Supply(p, m) PROVE StreamInv'
    <3>1. build.at = "stream" /\ m \in build.left /\ build.left \subseteq Models
      BY <2>8 DEF Supply, By
    <3>2. build' = [build EXCEPT !.at = "fetching", !.asset = m] /\ tar' = tar /\ package' = package
      BY <2>8 DEF Supply, Want
    <3>3. build'.at = "fetching" /\ build'.asset = m /\ build'.left = build.left
      BY <1>1, <3>2 DEF BuildRecord
    <3> QED BY <3>1, <3>2, <3>3 DEF StreamInv, Making, Packing
  <2>9. ASSUME NEW p \in Fetchers, NEW r \in Runtimes, FetchRuntime(p, r) PROVE StreamInv'
    <3>1. build.at = "runtime" /\ r \in build.left /\ r \notin Models
      BY <2>9, BundleAssumption DEF FetchRuntime, By
    <3>2. build' = [build EXCEPT !.at = "fetching", !.asset = r] /\ tar' = tar /\ package' = package
      BY <2>9 DEF FetchRuntime, Want
    <3>3. build'.at = "fetching" /\ build'.asset = r /\ build'.left = build.left
      BY <1>1, <3>2 DEF BuildRecord
    <3> QED BY <3>1, <3>2, <3>3 DEF StreamInv, Making, Packing
  <2>10. ASSUME NEW p \in Fetchers, Pack(p) PROVE StreamInv'
    <3>1. build.at = "pack" /\ build.asset \in build.left \intersect Models
      BY <1>1, <2>10 DEF Pack, By, StageInv
    <3>2. /\ tar' = [tar EXCEPT ![build.asset] = Packed(build.asset)]
          /\ build' = [build EXCEPT !.at = "drop"] /\ package' = package
      BY <2>10 DEF Pack, Proceed
    <3>3. build'.at = "drop" /\ build'.asset = build.asset /\ build'.left = build.left
      BY <1>1, <3>2 DEF BuildRecord
    <3>4. Whole(Packed(build.asset))
      <4>1. file \in Files
        BY BundleTypes DEF KindInv, DirectoryOK
      <4>2. OneFetcher => Packed(build.asset).good
        BY <3>1 DEF GotInv, Packed
      <4> QED BY <3>1, <4>1, <4>2, PackedKind DEF Whole
    <3>5. tar'[build.asset] = Packed(build.asset)
          /\ \A a \in Assets \ {build.asset} : tar'[a] = tar[a]
      BY <1>1, <3>1, <3>2 DEF WorkOK, Parts, Assets
    <3>6. build.left \subseteq Assets
      BY <1>1 DEF BuildRecord
    <3> QED BY <3>1, <3>2, <3>3, <3>4, <3>5, <3>6 DEF StreamInv, Making, Packing
  <2>11. ASSUME NEW p \in Fetchers, Drop(p) PROVE StreamInv'
    <3>1. build.at = "drop"
      BY <2>11 DEF Drop, By
    <3>2. tar' = tar /\ build' = [build EXCEPT !.at = "extract"] /\ package' = package
      BY <2>11 DEF Drop, Proceed
    <3>3. build'.at = "extract" /\ build'.asset = build.asset /\ build'.left = build.left
      BY <1>1, <3>2 DEF BuildRecord
    <3> QED BY <3>1, <3>2, <3>3 DEF StreamInv, Making, Packing
  <2>12. ASSUME NEW p \in Fetchers, Extract(p) PROVE StreamInv'
    <3>1. build.at = "extract" /\ build.asset \in build.left /\ build.asset \in Assets
      BY <1>1, <2>12 DEF Extract, By, StageInv, BuildRecord
    <3>2. /\ package' = [package EXCEPT !["temp"].part[build.asset] = tar[build.asset]]
          /\ build' = [build EXCEPT !.at = "consume"] /\ tar' = tar
      BY <2>12 DEF Extract, Proceed
    <3>3. build'.at = "consume" /\ build'.asset = build.asset /\ build'.left = build.left
      BY <1>1, <3>2 DEF BuildRecord
    <3>4. /\ package'["temp"].here = package["temp"].here
          /\ package'["temp"].extra = package["temp"].extra
          /\ package'["temp"].part = [package["temp"].part EXCEPT ![build.asset] = tar[build.asset]]
          /\ package["temp"].part \in Parts
      BY <1>1, <1>2, <3>2 DEF WorkOK, Package
    <3>5. /\ package'["temp"].part[build.asset] = tar[build.asset]
          /\ \A a \in Assets \ build.left : package'["temp"].part[a] = package["temp"].part[a]
      BY <3>1, <3>4 DEF Parts
    <3> QED BY <3>1, <3>2, <3>3, <3>4, <3>5 DEF StreamInv, Making, Packing
  <2>13. ASSUME NEW p \in Fetchers, Consume(p) PROVE StreamInv'
    <3> DEFINE left == build.left \ {build.asset}
               stage == IF left = {} THEN "manifest" ELSE "stream"
    <3>1. build.at = "consume" /\ build.asset \in build.left /\ build.asset \in Assets
      BY <1>1, <2>13 DEF Consume, By, StageInv, BuildRecord
    <3>2. /\ tar' = [tar EXCEPT ![build.asset] = Absent]
          /\ build' = [at |-> stage, asset |-> Absent, left |-> left] /\ package' = package
      BY <2>13, Zenon DEF Consume, cacheVars
    <3>3. stage \in {"manifest", "stream"} /\ left = build.left \ {build.asset}
      OBVIOUS
    <3> HIDE DEF left, stage
    <3>4. build'.at = stage /\ build'.left = left
      BY <3>2
    <3>5. \A a \in Assets \ {build.asset} : tar'[a] = tar[a]
      BY <1>1, <3>2 DEF WorkOK, Parts
    <3>6. build.left \subseteq Assets
      BY <1>1 DEF BuildRecord
    <3> QED BY <3>1, <3>2, <3>3, <3>4, <3>5, <3>6 DEF StreamInv, Making, Packing
  <2>14. ASSUME NEW p \in Fetchers, Manifest(p) \/ Relocate(p) PROVE StreamInv'
    <3>1. build' = NoBuild \/ build'.at \in {"relocate", "qualify"}
      BY <1>1, <2>14 DEF Manifest, Relocate, Die, Proceed, BuildRecord
    <3>2. build'.at \in {"relocate", "qualify"} => StreamInv'
      BY DEF StreamInv, Making, Packing
    <3> QED BY <3>1, <3>2, NoStream
  <2> QED BY <1>6, <2>1, <2>2, <2>3, <2>4, <2>5, <2>6, <2>7, <2>8, <2>9, <2>10, <2>11, <2>12,
             <2>13, <2>14 DEF BuildStep
<1> QED BY <1>4, <1>5, <1>6, Steps
\* Where the packages of a step come from: a package at its place was there or at the
\* place before, or has just been verified; the others have the manifest of one that
\* was at its place.
Fresh(k) == Verified(k) /\ \A a \in Assets : Whole(k.manifest[a])

PackagesMove ==
    /\ package'["temp"].manifest = Nothing
    /\ \A k \in {"original", "relocated"} :
           \/ package'[k] = NoPackage
           \/ \E l \in {"original", "relocated"} : package'[k] = package[l]
           \/ Fresh(package'[k])
    /\ \A k \in {"payload", "field"} :
           \E l \in Places \ {"temp"} :
               /\ package'[k].manifest = package[l].manifest
               /\ package'[k].here => package[l].here

\* How the packages change in each step.
LEMMA PackageMoves ==
    ASSUME KindInv, StreamInv, ManifestInv, BundleNext
    PROVE  PackagesMove
<1>1. build \in BuildRecord /\ WorkOK /\ StageInv
  BY BundleTypes DEF KindInv
<1>2. package \in [Places -> Package]
  BY <1>1 DEF WorkOK
<1>3. /\ Places = {"temp", "original", "relocated", "payload", "field"}
      /\ package["temp"].manifest = Nothing
  BY DEF Places, ManifestInv
<1>4. NoPackage.manifest = Nothing /\ ~NoPackage.here
  BY DEF NoPackage
<1>5. package' = package => PackagesMove
  BY <1>3 DEF PackagesMove
<1>6. ASSUME NEW v \in Package, v.manifest = Nothing, package' = [package EXCEPT !["temp"] = v]
      PROVE  PackagesMove
  <2>1. /\ package'["temp"] = v
        /\ \A k \in Places \ {"temp"} : package'[k] = package[k]
    BY <1>2, <1>3, <1>6
  <2> QED BY <1>3, <1>6, <2>1 DEF PackagesMove
<1>7. ASSUME NEW l \in Places \ {"temp"}, NEW k \in {"payload", "field"},
             NEW v, v.manifest = package[l].manifest, v.here => package[l].here,
             package' = [package EXCEPT ![k] = v]
      PROVE  PackagesMove
  <2>1. package'[k] = v /\ \A j \in Places \ {k} : package'[j] = package[j]
    BY <1>2, <1>3, <1>7
  <2>2. \A j \in {"temp", "original", "relocated"} : package'[j] = package[j]
    BY <1>3, <2>1
  <2>3. \A j \in {"payload", "field"} : j # k => package'[j] = package[j]
    BY <1>3, <2>1
  <2> QED BY <1>3, <1>7, <2>1, <2>2, <2>3 DEF PackagesMove
<1>8. CASE CacheStep /\ UNCHANGED bundleVars
  BY <1>5, <1>8 DEF bundleVars
<1>9. CASE BuildStep
  <2>1. ASSUME NEW p \in Fetchers,
               \/ Build(p) \/ Fetched(p) \/ Pack(p) \/ Drop(p) \/ Consume(p)
               \/ \E a \in Runtimes \union {Speech} : StreamRuntime(p, a)
        PROVE  PackagesMove
    BY <1>5, <2>1 DEF Build, Fetched, Pack, Drop, Consume, StreamRuntime
  <2>2. ASSUME NEW p \in Fetchers,
               (\E m \in Models : Supply(p, m)) \/ (\E r \in Runtimes : FetchRuntime(p, r))
        PROVE  PackagesMove
    BY <1>5, <2>2 DEF Supply, FetchRuntime, Want
  <2>3. ASSUME NEW p \in Fetchers, Die(p) PROVE PackagesMove
    <3>1. CASE package' = [package EXCEPT !["temp"] = NoPackage]
      BY <1>4, <1>6, <2>3, <3>1, ContentKinds
    <3>2. CASE package' = package
      BY <1>5, <3>2
    <3> QED BY <2>3, <3>1, <3>2 DEF Die
  <2>4. ASSUME NEW p \in Fetchers,
               FetchFailed(p) \/ BuildError(p) \/ Unpack(p) \/ ProvisionSpeech(p)
        PROVE  PackagesMove
    BY <1>5, <2>3, <2>4 DEF FetchFailed, BuildError, Unpack, ProvisionSpeech
  <2>5. ASSUME NEW p \in Fetchers, Assemble(p) PROVE PackagesMove
    <3>1. [NoPackage EXCEPT !.here = TRUE] \in Package
      BY ContentKinds DEF Package
    <3>2. [NoPackage EXCEPT !.here = TRUE].manifest = Nothing
      BY DEF NoPackage
    <3> QED BY <1>6, <2>3, <2>5, <3>1, <3>2 DEF Assemble
  <2>6. ASSUME NEW p \in Fetchers, Extract(p) PROVE PackagesMove
    <3>1. build.asset \in Assets
      BY <1>1, <2>6 DEF Extract, By, StageInv, BuildRecord
    <3>2. package' = [package EXCEPT !["temp"].part[build.asset] = tar[build.asset]]
      BY <2>6 DEF Extract
    <3>3. tar[build.asset] \in Content
      BY <1>1, <3>1 DEF WorkOK, Parts
    <3> DEFINE v == [package["temp"] EXCEPT !.part[build.asset] = tar[build.asset]]
    <3>4. v \in Package /\ v.manifest = Nothing
      BY <1>2, <1>3, <3>1, <3>3 DEF Package, Parts
    <3>5. package' = [package EXCEPT !["temp"] = v]
      BY <1>2, <1>3, <3>2
    <3> HIDE DEF v
    <3> QED BY <1>6, <3>4, <3>5
  <2>7. ASSUME NEW p \in Fetchers, Manifest(p) PROVE PackagesMove
    <3> DEFINE k == [package["temp"] EXCEPT !.manifest = package["temp"].part]
    <3>1. CASE ~Verified(k)
      BY <2>3, <2>7, <3>1 DEF Manifest
    <3>2. CASE Verified(k)
      <4>1. package' = [package EXCEPT !["original"] = k, !["temp"] = NoPackage]
        BY <2>7, <3>2 DEF Manifest
      <4>2. build.at = "manifest" /\ build.left = {}
        BY <1>1, <2>7 DEF Manifest, By, StageInv
      <4>3. \A a \in Assets : Whole(package["temp"].part[a])
        BY <4>2 DEF StreamInv, Packing
      <4>4. k.manifest = package["temp"].part
        BY <1>2, <1>3 DEF Package
      <4> HIDE DEF k
      <4>5. Fresh(k)
        BY <3>2, <4>3, <4>4 DEF Fresh
      <4>6. /\ package'["temp"] = NoPackage /\ package'["original"] = k
            /\ package'["relocated"] = package["relocated"]
            /\ package'["payload"] = package["payload"] /\ package'["field"] = package["field"]
        BY <1>2, <1>3, <4>1
      <4> QED BY <1>3, <1>4, <4>5, <4>6 DEF PackagesMove
    <3> QED BY <3>1, <3>2
  <2>8. ASSUME NEW p \in Fetchers, Relocate(p) PROVE PackagesMove
    <3>1. package' = [package EXCEPT !["relocated"] = package["original"],
                                     !["original"] = NoPackage]
      BY <2>8 DEF Relocate
    <3>2. /\ package'["temp"] = package["temp"] /\ package'["original"] = NoPackage
          /\ package'["relocated"] = package["original"]
          /\ package'["payload"] = package["payload"] /\ package'["field"] = package["field"]
      BY <1>2, <1>3, <3>1
    <3> QED BY <1>3, <3>2 DEF PackagesMove
  <2> QED BY <1>9, <2>1, <2>2, <2>4, <2>5, <2>6, <2>7, <2>8 DEF BuildStep
<1>10. CASE Rest
  <2>1. CASE \/ \E b \in Bundles : Examine(b) \/ ChildDies(b)
             \/ \E p \in Fetchers : Qualify(p) \/ Kill(p)
             \/ PowerCut \/ Smoke \/ Smoked \/ TimedOut \/ FieldCrash
    BY <1>5, <2>1 DEF Examine, ChildDies, Qualify, Kill, PowerCut, Smoke, Smoked, TimedOut,
       FieldCrash
  <2>2. ASSUME NEW p \in Fetchers, Qualified(p) PROVE PackagesMove
    <3>1. package' = package \/ package' = [package EXCEPT !["temp"] = NoPackage]
      BY <2>2 DEF Qualified, Die
    <3> QED BY <1>4, <1>5, <1>6, <3>1, ContentKinds
  <2>3. ASSUME NEW p \in Fetchers, Retain(p) PROVE PackagesMove
    <3> DEFINE part == [a \in Assets |-> IF a \in Models THEN Absent
                                         ELSE package["relocated"].part[a]]
               v == [package["relocated"] EXCEPT !.part = part]
    <3>1. package' = [package EXCEPT !["payload"] = v]
      BY <2>3 DEF Retain
    <3> HIDE DEF part
    <3>2. v.manifest = package["relocated"].manifest /\ v.here = package["relocated"].here
      BY <1>2, <1>3 DEF Package
    <3> HIDE DEF v
    <3> QED BY <1>3, <1>7, <3>1, <3>2
  <2>4. ASSUME NEW v, NEW l \in {"payload", "field"}, package' = [package EXCEPT !["field"] = v],
               v.manifest = package[l].manifest, v.here = package[l].here
        PROVE  PackagesMove
    BY <1>3, <1>7, <2>4
  <2>5. CASE Deliver
    <3>1. \/ package' = [package EXCEPT !["field"] = package["payload"]]
          \/ \E a \in Runtimes \union {Speech} :
                 package' = [package EXCEPT !["field"] =
                                [package["payload"] EXCEPT !.part[a] = Broken]]
      BY <2>5 DEF Deliver
    <3>2. \A a : /\ [package["payload"] EXCEPT !.part[a] = Broken].manifest = package["payload"].manifest
                 /\ [package["payload"] EXCEPT !.part[a] = Broken].here = package["payload"].here
      BY <1>2, <1>3 DEF Package
    <3> QED BY <2>4, <3>1, <3>2
  <2>6. ASSUME NEW m \in Models, Restore(m) PROVE PackagesMove
    <3>1. PICK c : package' = [package EXCEPT !["field"].part[m] = c]
      BY <2>6 DEF Restore
    <3> DEFINE v == [package["field"] EXCEPT !.part[m] = c]
    <3>2. v.manifest = package["field"].manifest /\ v.here = package["field"].here
      BY <1>2, <1>3 DEF Package
    <3>3. package' = [package EXCEPT !["field"] = v]
      BY <3>1
    <3> HIDE DEF v
    <3> QED BY <2>4, <3>2, <3>3
  <2>7. CASE Wear \/ Purge
    <3>1. \/ \E extra : package' = [package EXCEPT !["field"].extra = extra]
          \/ \E a \in Assets : package' = [package EXCEPT !["field"].part[a] = Broken]
      BY <2>7 DEF Wear, Purge
    <3>2. \A e, a : /\ [package["field"] EXCEPT !.extra = e].manifest = package["field"].manifest
                    /\ [package["field"] EXCEPT !.extra = e].here = package["field"].here
                    /\ [package["field"] EXCEPT !.part[a] = Broken].manifest = package["field"].manifest
                    /\ [package["field"] EXCEPT !.part[a] = Broken].here = package["field"].here
      BY <1>2, <1>3 DEF Package
    <3> QED BY <2>4, <3>1, <3>2
  <2> QED BY <1>10, <2>1, <2>2, <2>3, <2>5, <2>6, <2>7 DEF Rest
<1> QED BY <1>8, <1>9, <1>10, Steps

\* What a manifest names was there when it was made.
LEMMA ManifestStep ==
    ASSUME KindInv, StreamInv, ManifestInv, BundleNext
    PROVE  ManifestInv'
<1>1. PackagesMove
  BY PackageMoves
<1>2. NoPackage.manifest = Nothing /\ ~NoPackage.here
  BY DEF NoPackage
<1>3. ASSUME NEW k \in Places
      PROVE  /\ package'[k].manifest # Nothing =>
                    \A a \in Assets : Whole(package'[k].manifest[a])
             /\ k # "temp" /\ package'[k].here => package'[k].manifest # Nothing
  <2>1. CASE k = "temp"
    BY <1>1, <2>1 DEF PackagesMove
  <2>2. CASE \E l \in Places \ {"temp"} : /\ package'[k].manifest = package[l].manifest
                                          /\ package'[k].here => package[l].here
    BY <2>2 DEF ManifestInv
  <2>3. CASE package'[k] = NoPackage
    BY <1>2, <2>3
  <2>4. CASE Fresh(package'[k])
    BY <2>4 DEF Fresh, Verified
  <2>5. {"original", "relocated"} \subseteq Places \ {"temp"}
    BY DEF Places
  <2> QED BY <1>1, <2>1, <2>2, <2>3, <2>4, <2>5 DEF PackagesMove, Places
<1> QED BY <1>1, <1>3 DEF ManifestInv, PackagesMove

\* The first half of PackagesAreWhole: a package at its place verifies.
Placed == \A k \in {"original", "relocated"} : package[k].here => Verified(package[k])

\* What has its place verifies, until the bundle is used on the other machine.
LEMMA PlacedStep ==
    ASSUME KindInv, StreamInv, ManifestInv, Placed, BundleNext
    PROVE  Placed'
<1>1. PackagesMove
  BY PackageMoves
<1>2. ~NoPackage.here
  BY DEF NoPackage
<1> SUFFICES ASSUME NEW k \in {"original", "relocated"}, package'[k].here
             PROVE  Verified(package[k])'
  BY DEF Placed
<1>3. Verified(package[k])' <=> Verified(package'[k])
  BY DEF Verified
<1> QED BY <1>1, <1>2, <1>3 DEF PackagesMove, Fresh, Placed

\* The second half of it, with one fetcher.
LEMMA ManifestsAreGood ==
    ASSUME KindInv, ManifestInv, OneFetcher, NEW k \in Places, Verified(package[k])
    PROVE  \A a \in Assets : package[k].part[a] # Absent /\ package[k].part[a].good
BY DEF Verified, ManifestInv, Whole

\* The other invariants hold at first.
LEMMA OtherInits == BundleInit => ChildInv /\ StreamInv /\ ManifestInv /\ Placed
<1> SUFFICES ASSUME BundleInit PROVE ChildInv /\ StreamInv /\ ManifestInv /\ Placed
  OBVIOUS
<1>1. build = NoBuild /\ package = [k \in Places |-> NoPackage] /\ child = [b \in Bundles |-> NoChild]
  BY DEF BundleInit
<1>2. NoPackage.manifest = Nothing /\ ~NoPackage.here
  BY DEF NoPackage
<1>3. StreamInv
  BY <1>1 DEF StreamInv, Making, Packing, NoBuild
<1>4. ChildInv
  BY <1>1 DEF ChildInv, NoChild
<1>5. ManifestInv /\ Placed
  BY <1>1, <1>2 DEF ManifestInv, Placed, Places
<1> QED BY <1>3, <1>4, <1>5
-----------------------------------------------------------------------------
(* With one process: what is published *)

\* What a fetcher's step does to the destinations.
LEMMA Directories ==
    ASSUME KindInv, PublishInv, NEW p \in Fetchers, CacheActions(p)
    PROVE  /\ \A e \in Entries :
                  \/ file'[e]["dest"] = file[e]["dest"]
                  \/ e = Entry(p) /\ At(p, "publish") /\ Locked(e, file'[e]["dest"])
           /\ At(p, "publish") /\ proc'[p].at = "record" =>
                  Entry(p) \in Entries /\ Locked(Entry(p), file'[Entry(p)]["dest"])
<1> DEFINE e == Entry(p)
           Goal == /\ \A d \in Entries :
                          \/ file'[d]["dest"] = file[d]["dest"]
                          \/ d = Entry(p) /\ At(p, "publish") /\ Locked(d, file'[d]["dest"])
                   /\ At(p, "publish") /\ proc'[p].at = "record" =>
                          Entry(p) \in Entries /\ Locked(Entry(p), file'[Entry(p)]["dest"])
<1> SUFFICES Goal
  OBVIOUS
<1>1. file \in Files /\ proc \in [Fetchers -> Process] /\ FetchInv
  BY BundleTypes DEF KindInv, DirectoryOK
<1>2. proc[p].at \in Working => e \in Entries
  BY <1>1 DEF FetchInv, Entry
<1>3. Names = {"dest", "part", "invalid"}
  BY DEF Names
<1>4. ~At(p, "publish") /\ file' = file => Goal
  OBVIOUS
<1>5. ASSUME e \in Entries, ~At(p, "publish"), NEW v, file' = [file EXCEPT ![e]["part"] = v]
      PROVE  Goal
  <2>1. \A d \in Entries : file'[d]["dest"] = file[d]["dest"]
    BY <1>1, <1>3, <1>5 DEF Files
  <2> QED BY <1>5, <2>1
<1>6. CASE Publish(p)
  <2>1. At(p, "publish") /\ e \in Entries
    BY <1>2, <1>6 DEF Publish, At, Working
  <2>2. CASE Here(p, "part") = Absent
    <3>1. file' = file /\ proc'[p].at = "error"
      BY <1>1, <1>6, <2>2 DEF Publish, Enter, Process
    <3> QED BY <3>1
  <2>3. CASE Here(p, "part") # Absent
    <3>1. file' = [file EXCEPT ![e]["dest"] = Here(p, "part"), ![e]["part"] = Absent]
      BY <1>6, <2>3 DEF Publish, Replace
    <3>2. file'[e]["dest"] = Here(p, "part")
      BY <1>1, <1>3, <2>1, <3>1 DEF Files
    <3>3. \A d \in Entries \ {e} : file'[d]["dest"] = file[d]["dest"]
      BY <1>1, <1>3, <2>1, <3>1 DEF Files
    <3>4. Locked(e, Here(p, "part"))
      BY <2>1 DEF PublishInv
    <3> QED BY <2>1, <3>2, <3>3, <3>4
  <2> QED BY <2>2, <2>3
<1>7. CASE Quarantine(p)
  <2>1. ~At(p, "publish") /\ e \in Entries
    BY <1>2, <1>7 DEF Quarantine, At, Working
  <2>2. CASE Here(p, "part") = Absent
    BY <1>4, <1>7, <2>1, <2>2 DEF Quarantine
  <2>3. CASE Here(p, "part") # Absent
    <3>1. file' = [file EXCEPT ![e]["invalid"] = Here(p, "part"), ![e]["part"] = Absent]
      BY <1>7, <2>3 DEF Quarantine, Replace
    <3>2. \A d \in Entries : file'[d]["dest"] = file[d]["dest"]
      BY <1>1, <1>3, <2>1, <3>1 DEF Files
    <3> QED BY <2>1, <3>2
  <2> QED BY <2>2, <2>3
<1>8. CASE Answer(p)
  <2>1. ~At(p, "publish") /\ e \in Entries
    BY <1>2, <1>8 DEF Answer, At, Working
  <2>2. file' = file \/ \E v : file' = [file EXCEPT ![e]["part"] = v]
    BY <1>8 DEF Answer
  <2> QED BY <1>4, <1>5, <2>1, <2>2
<1>9. CASE Interrupted(p)
  <2>1. ~At(p, "publish") /\ e \in Entries
    BY <1>2, <1>9 DEF Interrupted, At, Working
  <2>2. file' = [file EXCEPT ![e]["part"] = Absent]
    BY <1>9 DEF Interrupted
  <2> QED BY <1>5, <2>1, <2>2
<1>10. CASE Retry(p)
  <2>1. ~At(p, "publish") /\ e \in Entries
    BY <1>2, <1>10 DEF Retry, At, Working
  <2>2. file' = file \/ file' = [file EXCEPT ![e]["part"] = Absent]
    BY <1>10 DEF Retry
  <2> QED BY <1>4, <1>5, <2>1, <2>2
<1>11. CASE Block(p)
  <2>1. ~At(p, "publish") /\ e \in Entries /\ At(p, "body")
    BY <1>2, <1>11 DEF Block, At, Working
  <2>2. proc[p].open = "part"
    BY <2>1 DEF PublishInv, At
  <2>3. \E v : file' = [file EXCEPT ![e]["part"] = v]
    <3> DEFINE place == IF proc[p].append /\ "part" \in Names
                        THEN Length(Here(p, "part")) + 1 ELSE proc[p].offset + 1
               block(good) == good /\ place = proc[p].offset + 1
    <3>1. \E good \in BOOLEAN :
              file' = [file EXCEPT ![e]["part"] = With(@, place, block(good))]
      BY <1>3, <1>11, <2>2 DEF Block
    <3> HIDE DEF place, block
    <3> QED BY <3>1
  <2> QED BY <1>5, <2>1, <2>3
<1>12. CASE Provision(p) \/ Acquire(p) \/ Index(p) \/ Stage(p) \/ GiveUp(p) \/ Finish(p)
  BY <1>4, <1>12 DEF Provision, Acquire, Index, Stage, GiveUp, EndsIt, Finish, At
<1>13. CASE \/ \E m \in Models : FetchModel(p, m)
            \/ \E a \in Archives : FetchArchive(p, a)
            \/ Inspect(p) \/ EndOfBody(p) \/ Check(p) \/ Record(p)
  BY <1>4, <1>13 DEF FetchModel, FetchArchive, Inspect, EndOfBody, Check, Record, At
<1> QED BY <1>6, <1>7, <1>8, <1>9, <1>10, <1>11, <1>12, <1>13 DEF CacheActions, Fetch

\* The file is open while the body comes, and not else; and a step to the stage where
\* a file is published compares it with the lock.
LEMMA OwnPublish ==
    ASSUME KindInv, PublishInv, NEW p \in Fetchers, CacheActions(p)
    PROVE  /\ proc'[p].open = IF proc'[p].at = "body" THEN "part" ELSE "none"
           /\ proc'[p].at = "publish" =>
                  /\ file' = file
                  /\ proc'[p].entry = proc[p].entry
                  /\ Locked(Entry(p), Here(p, "part"))
<1> DEFINE r == proc[p]
           s == proc'[p]
           Open(v) == v.open = IF v.at = "body" THEN "part" ELSE "none"
<1>0. r \in Process /\ proc \in [Fetchers -> Process]
  BY BundleTypes DEF KindInv
<1>f. r.open = (IF r.at = "body" THEN "part" ELSE "none")
  BY DEF PublishInv
<1>i. Idle.at = "idle" /\ Idle.open = "none"
  BY DEF Idle
<1> HIDE DEF r, s
<1> SUFFICES /\ s.open = IF s.at = "body" THEN "part" ELSE "none"
             /\ s.at = "publish" => /\ Inspect(p) \/ Check(p)
                                    /\ s.entry = r.entry /\ Locked(Entry(p), Here(p, "part"))
  BY DEF r, s, Inspect, Check
<1>1. CASE Provision(p)
  BY <1>0, <1>f, <1>1, OwnMoves DEF r, s, ProvisionMove, Idle
<1>2. CASE Acquire(p)
  BY <1>0, <1>f, <1>2, OwnMoves DEF r, s, AcquireMove, Idle
<1>3. CASE Stage(p)
  <2>1. StageMove(p, r, s)
    BY <1>0, <1>3, OwnMoves DEF r, s
  <2> QED BY <1>f, <2>1 DEF StageMove, Idle
<1>4. CASE Index(p)
  <2>1. IndexMove(p, r, s)
    BY <1>0, <1>4, OwnMoves DEF r, s
  <2> QED BY <1>0, <1>f, <1>i, <2>1 DEF IndexMove, Process
<1>5. CASE \E m \in Models : FetchModel(p, m)
  <2>1. PICK m \in Models : FetchModelMove(p, m, r, s)
    BY <1>0, <1>5, OwnMoves DEF r, s
  <2> QED BY <1>0, <1>f, <2>1 DEF FetchModelMove, Process
<1>6. CASE \E a \in Archives : FetchArchive(p, a)
  <2>1. PICK a \in Archives : FetchArchiveMove(p, a, r, s)
    BY <1>0, <1>6, OwnMoves DEF r, s
  <2> QED BY <1>0, <1>f, <2>1 DEF FetchArchiveMove, Process
<1>7. CASE Inspect(p)
  <2>1. InspectMove(p, r, s)
    BY <1>0, <1>7, OwnMoves DEF r, s
  <2> QED BY <1>0, <1>f, <1>7, <2>1 DEF InspectMove, Process
<1>8. CASE Quarantine(p)
  <2>1. QuarantineMove(p, r, s)
    BY <1>0, <1>8, OwnMoves DEF r, s
  <2> QED BY <1>0, <1>f, <2>1 DEF QuarantineMove, Process
<1>9. CASE Answer(p)
  <2>1. AnswerMove(p, r, s)
    BY <1>0, <1>9, OwnMoves DEF r, s
  <2> QED BY <1>0, <1>f, <2>1 DEF AnswerMove, Process
<1>10. CASE Interrupted(p)
  <2>1. InterruptedMove(p, r, s)
    BY <1>0, <1>10, OwnMoves DEF r, s
  <2> QED BY <1>0, <1>f, <2>1 DEF InterruptedMove, Process
<1>11. CASE Block(p)
  <2>1. BlockMove(p, r, s)
    BY <1>0, <1>11, OwnMoves DEF r, s
  <2> QED BY <1>0, <1>f, <2>1 DEF BlockMove, Process
<1>12. CASE EndOfBody(p)
  <2>1. EndOfBodyMove(p, r, s)
    BY <1>0, <1>12, OwnMoves DEF r, s
  <2> QED BY <1>0, <1>f, <2>1 DEF EndOfBodyMove, Process
<1>13. CASE Check(p)
  <2>1. CheckMove(p, r, s)
    BY <1>0, <1>13, OwnMoves DEF r, s
  <2> QED BY <1>0, <1>f, <1>13, <2>1 DEF CheckMove, Process
<1>14. CASE Publish(p)
  <2>1. PublishMove(p, r, s)
    BY <1>0, <1>14, OwnMoves DEF r, s
  <2> QED BY <1>0, <1>f, <2>1 DEF PublishMove, Process
<1>15. CASE Retry(p)
  <2>1. RetryMove(p, r, s)
    BY <1>0, <1>15, OwnMoves DEF r, s
  <2> QED BY <1>0, <1>f, <2>1 DEF RetryMove, Process
<1>16. CASE Record(p)
  <2>1. RecordMove(p, r, s)
    BY <1>0, <1>16, OwnMoves DEF r, s
  <2> QED BY <1>0, <1>f, <1>i, <2>1 DEF RecordMove, Process
<1>17. CASE GiveUp(p)
  <2>1. GiveUpMove(p, r, s)
    BY <1>0, <1>17, OwnMoves DEF r, s
  <2> QED BY <1>0, <1>f, <1>i, <2>1 DEF GiveUpMove, Process
<1>18. CASE Finish(p)
  <2>1. FinishMove(p, r, s)
    BY <1>0, <1>18, OwnMoves DEF r, s
  <2> QED BY <1>i, <2>1 DEF FinishMove
<1> QED BY <1>1, <1>2, <1>3, <1>4, <1>5, <1>6, <1>7, <1>8, <1>9, <1>10, <1>11, <1>12, <1>13,
           <1>14, <1>15, <1>16, <1>17, <1>18 DEF CacheActions, Fetch
\* A power failure leaves the names, and what is published.
LEMMA TornPart ==
    ASSUME file \in Files, PowerLoss
    PROVE  \A e \in Entries : file'[e]["dest"] = file[e]["dest"]
<1>1. PICK torn \in SUBSET {e \in Entries : Length(file[e]["part"]) > 0} :
          file' = [e \in Entries |->
              IF e \in torn
              THEN [file[e] EXCEPT !["part"][Length(file[e]["part"])] = FALSE]
              ELSE file[e]]
  BY DEF PowerLoss
<1> QED BY <1>1 DEF Files, Names

\* A destination stays as it is, or gets the locked bytes, or a build takes it away.
DestMove ==
    /\ taken \subseteq taken'
    /\ \A e \in Entries :
           \/ file'[e]["dest"] = file[e]["dest"]
           \/ Locked(e, file'[e]["dest"])
           \/ /\ file'[e]["dest"] = Absent
              /\ e \in taken' \ sidecar' /\ build.at = "drop" /\ e = build.asset

\* How destinations change in each step.
LEMMA DestMoves ==
    ASSUME KindInv, PublishInv, BundleNext
    PROVE  DestMove
<1>1. file \in Files
  BY BundleTypes DEF KindInv, DirectoryOK
<1>2. file' = file /\ taken' = taken => DestMove
  BY DEF DestMove
<1>3. CASE CacheStep /\ UNCHANGED bundleVars
  <2>1. CASE StartAudit \/ EndAudit \/ \E m \in Models : AuditFile(m)
    BY <1>2, <1>3, <2>1 DEF StartAudit, EndAudit, AuditFile, bundleVars
  <2>2. ASSUME NEW p \in Fetchers, CacheActions(p) PROVE DestMove
    BY <1>3, <2>2, Directories DEF DestMove, bundleVars
  <2> QED BY <1>3, <2>1, <2>2, CacheSteps
<1>4. CASE BuildStep
  <2>1. ASSUME NEW p \in Fetchers, Drop(p) PROVE DestMove
    <3>1. /\ build.at = "drop" /\ taken' = taken \union {build.asset}
          /\ sidecar' = sidecar \ {build.asset}
      BY <2>1 DEF Drop, By
    <3>2. file' = [file EXCEPT ![build.asset] = [n \in Names |-> Absent]]
      BY <2>1 DEF Drop
    <3>3. \A e \in Entries : \/ file'[e]["dest"] = file[e]["dest"]
                             \/ e = build.asset /\ file'[e]["dest"] = Absent
      BY <1>1, <3>2 DEF Files, Names
    <3> QED BY <3>1, <3>3 DEF DestMove
  <2>2. ASSUME NEW p \in Fetchers,
               \/ Build(p) \/ Fetched(p) \/ FetchFailed(p) \/ Unpack(p) \/ ProvisionSpeech(p)
               \/ Assemble(p) \/ Manifest(p) \/ BuildError(p)
        PROVE  DestMove
    BY <1>2, <2>2 DEF Build, Fetched, FetchFailed, Unpack, ProvisionSpeech, Assemble, Manifest,
       BuildError
  <2>3. ASSUME NEW p \in Fetchers,
               \/ \E a \in Runtimes \union {Speech} : StreamRuntime(p, a)
               \/ Pack(p) \/ Extract(p) \/ Consume(p) \/ Relocate(p)
        PROVE  DestMove
    BY <1>2, <2>3 DEF StreamRuntime, Pack, Extract, Consume, Relocate, cacheVars
  <2>4. ASSUME NEW p \in Fetchers,
               (\E m \in Models : Supply(p, m)) \/ (\E r \in Runtimes : FetchRuntime(p, r))
        PROVE  DestMove
    BY <1>2, <2>4 DEF Supply, FetchRuntime, Want
  <2> QED BY <1>4, <2>1, <2>2, <2>3, <2>4 DEF BuildStep
<1>5. CASE Rest
  <2>1. CASE PowerCut
    BY <1>1, <2>1, TornPart DEF PowerCut, DestMove
  <2>2. CASE (\E p \in Fetchers : Kill(p)) \/ (\E m \in Models : Restore(m))
    BY <1>2, <2>2 DEF Kill, Crash, Restore
  <2>3. CASE \E b \in Bundles : Examine(b) \/ ChildDies(b)
    BY <1>2, <2>3 DEF Examine, ChildDies, cacheVars
  <2>4. CASE \E p \in Fetchers : Qualify(p) \/ Qualified(p) \/ Retain(p)
    BY <1>2, <2>4 DEF Qualify, Qualified, Retain, cacheVars
  <2>5. CASE Deliver \/ Wear \/ Purge \/ Smoke \/ Smoked \/ TimedOut \/ FieldCrash
    BY <1>2, <2>5 DEF Deliver, Wear, Purge, Smoke, Smoked, TimedOut, FieldCrash, cacheVars
  <2> QED BY <1>5, <2>1, <2>2, <2>3, <2>4, <2>5 DEF Rest
<1> QED BY <1>3, <1>4, <1>5, Steps

\* A build's own steps, and those of the other machine, leave the process in a stage in
\* which no file is open, or as it is.
LEMMA QuietMoves ==
    ASSUME KindInv, PublishInv, BuildStep \/ Rest
    PROVE  \/ UNCHANGED <<file, proc, audit>>
           \/ \E p \in Fetchers : /\ proc'[p].at \in {"idle", "busy", "next"}
                                  /\ proc'[p].open = "none"
                                  /\ audit' = audit
                                  /\ build.at # "drop" => file' = file
           \/ PowerCut
<1>1. proc \in [Fetchers -> Process]
  BY BundleTypes DEF KindInv
<1> DEFINE Calm(p) == /\ proc'[p].at \in {"idle", "busy", "next"}
                      /\ proc'[p].open = "none"
<1>2. ASSUME NEW p \in Fetchers, Leave(p) PROVE Calm(p)
  BY <1>1, <1>2 DEF Leave, Idle
<1>3. \A p \in Fetchers : At(p, "busy") \/ At(p, "next") => proc[p].open = "none"
  BY DEF PublishInv, At
<1>4. ASSUME NEW p \in Fetchers, Die(p) PROVE Calm(p)
  BY <1>2, <1>4 DEF Die
<1>5. ASSUME NEW p \in Fetchers, Drop(p) PROVE Calm(p) /\ build.at = "drop" /\ audit' = audit
  <2>1. At(p, "busy") /\ build.at = "drop" /\ audit' = audit
    BY <1>5 DEF Drop, By
  <2>2. proc' = [q \in Fetchers |->
              IF q # p /\ Entry(q) = build.asset /\ proc[q].open # "none"
              THEN [proc[q] EXCEPT !.open = "lost"] ELSE proc[q]]
    BY <1>5 DEF Drop
  <2>3. proc'[p] = proc[p]
    BY <2>2
  <2> QED BY <1>3, <2>1, <2>3 DEF At
<1>6. ASSUME NEW p \in Fetchers, NEW asset, NEW entries, At(p, "busy"), Want(p, asset, entries)
      PROVE  Calm(p) /\ file' = file /\ audit' = audit
  <2>1. proc'[p] = [proc[p] EXCEPT !.at = "next", !.wanted = entries, !.todo = entries, !.got = {}]
    BY <1>1, <1>6 DEF Want
  <2>2. proc'[p].at = "next" /\ proc'[p].open = proc[p].open
    BY <1>1, <2>1 DEF Process
  <2> QED BY <1>3, <1>6, <2>2 DEF Want
<1>7. ASSUME NEW p \in Fetchers, Fetched(p) PROVE Calm(p) /\ file' = file /\ audit' = audit
  BY <1>1, <1>3, <1>7 DEF Fetched, Process, At
<1>8. ASSUME NEW p \in Fetchers, Build(p) PROVE Calm(p) /\ file' = file /\ audit' = audit
  BY <1>1, <1>8 DEF Build, Idle
<1> HIDE DEF Calm
<1>9. ASSUME NEW p \in Fetchers,
             \/ FetchFailed(p) \/ Unpack(p) \/ ProvisionSpeech(p) \/ Assemble(p) \/ Manifest(p)
             \/ BuildError(p)
      PROVE  file' = file /\ audit' = audit /\ (Calm(p) \/ proc' = proc)
  BY <1>4, <1>9 DEF FetchFailed, Unpack, ProvisionSpeech, Assemble, Manifest, BuildError
<1>10. ASSUME NEW p \in Fetchers,
              \/ \E a \in Runtimes \union {Speech} : StreamRuntime(p, a)
              \/ Pack(p) \/ Extract(p) \/ Consume(p) \/ Relocate(p)
       PROVE  UNCHANGED <<file, proc, audit>>
  BY <1>10 DEF StreamRuntime, Pack, Extract, Consume, Relocate, cacheVars
<1>11. ASSUME NEW p \in Fetchers,
              (\E m \in Models : Supply(p, m)) \/ (\E r \in Runtimes : FetchRuntime(p, r))
       PROVE  Calm(p) /\ file' = file /\ audit' = audit
  BY <1>6, <1>11 DEF Supply, FetchRuntime, By
<1>12. ASSUME NEW p \in Fetchers, Retain(p) \/ Qualified(p) \/ Kill(p)
       PROVE  file' = file /\ audit' = audit /\ (Calm(p) \/ proc' = proc)
  BY <1>2, <1>4, <1>12 DEF Retain, Qualified, Kill, Crash
<1>13. ASSUME \/ \E b \in Bundles : Examine(b) \/ ChildDies(b)
              \/ \E p \in Fetchers : Qualify(p)
              \/ \E m \in Models : Restore(m)
              \/ Deliver \/ Wear \/ Purge \/ Smoke \/ Smoked \/ TimedOut \/ FieldCrash
       PROVE  UNCHANGED <<file, proc, audit>>
  BY <1>13 DEF Examine, ChildDies, Qualify, Restore, Deliver, Wear, Purge, Smoke, Smoked,
     TimedOut, FieldCrash, cacheVars
<1>14. CASE BuildStep
  BY <1>5, <1>7, <1>8, <1>9, <1>10, <1>11, <1>14 DEF BuildStep, Calm
<1>15. CASE Rest
  BY <1>12, <1>13, <1>15 DEF Rest, Calm
<1> QED BY <1>14, <1>15

\* What a process is about to publish is what it compared.
LEMMA PublishStep ==
    ASSUME OneFetcher, KindInv, PublishInv, BundleNext
    PROVE  PublishInv'
<1>1. UNCHANGED <<file, proc>> => PublishInv'
  BY DEF PublishInv, At, Entry, Here, Locked
<1>2. ASSUME NEW p \in Fetchers, CacheActions(p) PROVE PublishInv'
  <2>1. \A q \in Fetchers : q = p
    BY DEF OneFetcher
  <2>2. proc'[p].open = IF proc'[p].at = "body" THEN "part" ELSE "none"
    BY <1>2, OwnPublish
  <2>3. ASSUME proc'[p].at = "publish" PROVE Locked(Entry(p), Here(p, "part"))'
    BY <1>2, <2>3, OwnPublish DEF Entry, Here, Locked
  <2> QED BY <2>1, <2>2, <2>3 DEF PublishInv, At
<1>3. ASSUME NEW p \in Fetchers, proc'[p].at \in {"idle", "busy", "next"},
             proc'[p].open = "none"
      PROVE  PublishInv'
  BY <1>3 DEF PublishInv, At, OneFetcher
<1>4. CASE PowerCut
  <2>1. \A p \in Fetchers : proc'[p].at = "idle" /\ proc'[p].open = "none"
    BY <1>4 DEF PowerCut, PowerLoss, Idle
  <2> QED BY <2>1 DEF PublishInv, At
<1>5. CASE StartAudit \/ EndAudit \/ \E m \in Models : AuditFile(m)
  BY <1>1, <1>5 DEF StartAudit, EndAudit, AuditFile
<1>6. CASE BuildStep \/ Rest
  BY <1>1, <1>3, <1>4, <1>6, QuietMoves
<1> QED BY <1>2, <1>5, <1>6, Steps, CacheSteps
\* A process that fetches is not busy.
LEMMA NotBusy ==
    ASSUME NEW p \in Fetchers, CacheActions(p)
    PROVE  proc[p].at # "busy" /\ audit' = audit
<1>1. proc[p].at # "busy"
  BY DEF CacheActions, Fetch, Provision, Acquire, Index, Stage, GiveUp, EndsIt, Finish,
         FetchModel, FetchArchive, Inspect, Quarantine, Answer, Interrupted, Block, EndOfBody,
         Check, Publish, Retry, Record, At
<1>2. audit' = audit
  BY DEF CacheActions, Fetch, Provision, Acquire, Index, Stage, GiveUp, Finish, FetchModel,
         FetchArchive, Inspect, Quarantine, Answer, Interrupted, Block, EndOfBody, Check,
         Publish, Retry, Record
<1> QED BY <1>1, <1>2

\* What a fetcher's step does to what its process has got, wants and has still to do.
OwnGot(p, r, s) ==
    /\ s.got \subseteq r.got \union (IF r.at = "record" THEN {r.entry} ELSE {})
    /\ s.at = "record" =>
           \/ s.entry \in Entries /\ Published(s.entry)
           \/ r.at = "publish" /\ s.entry = r.entry
    /\ s.task = "build" =>
           /\ s.wanted = r.wanted
           /\ \/ /\ r.at = "next" /\ s.at # "next"
                 /\ s.todo = r.todo \ {s.entry}
              \/ /\ r.at # "next"
                 /\ s.entry = r.entry /\ s.todo = r.todo
                 /\ s.at = "next" => r.at = "record"

\* What a fetcher's own step adds to what it has.
LEMMA OwnGets ==
    ASSUME KindInv, NEW p \in Fetchers, CacheActions(p)
    PROVE  OwnGot(p, proc[p], proc'[p])
<1> DEFINE r == proc[p]
           s == proc'[p]
<1>0. r \in Process /\ proc \in [Fetchers -> Process]
  BY BundleTypes DEF KindInv
<1>e. Entry(p) = r.entry /\ Models \subseteq Entries /\ Archives \subseteq Entries
  BY DEF Entry, Entries
<1>f. r.at = "index" => r.task = "acquire"
  BY DEF KindInv, FetchInv
<1>i. Idle.at = "idle" /\ Idle.task = "provision" /\ Idle.got = {}
  BY DEF Idle
<1> HIDE DEF r, s
<1>x. (s.at = "idle" /\ s.task = "provision" /\ s.got = {}) => OwnGot(p, r, s)
  BY DEF OwnGot
<1> SUFFICES OwnGot(p, r, s)
  BY DEF r, s
<1>1. CASE Provision(p)
  <2>1. ProvisionMove(p, r, s)
    BY <1>0, <1>1, OwnMoves DEF r, s
  <2> QED BY <1>0, <1>e, <1>i, <1>x, <2>1 DEF ProvisionMove, OwnGot, Idle
<1>2. CASE Acquire(p)
  <2>1. AcquireMove(p, r, s)
    BY <1>0, <1>2, OwnMoves DEF r, s
  <2> QED BY <1>0, <1>e, <1>i, <1>x, <2>1 DEF AcquireMove, OwnGot, Idle
<1>3. CASE Stage(p)
  <2>1. StageMove(p, r, s)
    BY <1>0, <1>3, OwnMoves DEF r, s
  <2> QED BY <1>0, <1>e, <1>i, <1>x, <2>1 DEF StageMove, OwnGot, Idle
<1>4. CASE Index(p)
  <2>1. IndexMove(p, r, s)
    BY <1>0, <1>4, OwnMoves DEF r, s
  <2> QED BY <1>0, <1>e, <1>i, <1>x, <1>f, <2>1 DEF IndexMove, OwnGot, Process
<1>5. CASE \E m \in Models : FetchModel(p, m)
  <2>1. PICK m \in Models : FetchModelMove(p, m, r, s)
    BY <1>0, <1>5, OwnMoves DEF r, s
  <2> QED BY <1>0, <1>e, <1>i, <1>x, <2>1 DEF FetchModelMove, OwnGot, Process
<1>6. CASE \E a \in Archives : FetchArchive(p, a)
  <2>1. PICK a \in Archives : FetchArchiveMove(p, a, r, s)
    BY <1>0, <1>6, OwnMoves DEF r, s
  <2> QED BY <1>0, <1>e, <1>i, <1>x, <2>1 DEF FetchArchiveMove, OwnGot, Process
<1>7. CASE Inspect(p)
  <2>1. InspectMove(p, r, s)
    BY <1>0, <1>7, OwnMoves DEF r, s
  <2> QED BY <1>0, <1>e, <1>i, <1>x, <2>1 DEF InspectMove, OwnGot, Process
<1>8. CASE Quarantine(p)
  <2>1. QuarantineMove(p, r, s)
    BY <1>0, <1>8, OwnMoves DEF r, s
  <2> QED BY <1>0, <1>e, <1>i, <1>x, <2>1 DEF QuarantineMove, OwnGot, Process
<1>9. CASE Answer(p)
  <2>1. AnswerMove(p, r, s)
    BY <1>0, <1>9, OwnMoves DEF r, s
  <2> QED BY <1>0, <1>e, <1>i, <1>x, <2>1 DEF AnswerMove, OwnGot, Process
<1>10. CASE Interrupted(p)
  <2>1. InterruptedMove(p, r, s)
    BY <1>0, <1>10, OwnMoves DEF r, s
  <2> QED BY <1>0, <1>e, <1>i, <1>x, <2>1 DEF InterruptedMove, OwnGot, Process
<1>11. CASE Block(p)
  <2>1. BlockMove(p, r, s)
    BY <1>0, <1>11, OwnMoves DEF r, s
  <2> QED BY <1>0, <1>e, <1>i, <1>x, <2>1 DEF BlockMove, OwnGot, Process
<1>12. CASE EndOfBody(p)
  <2>1. EndOfBodyMove(p, r, s)
    BY <1>0, <1>12, OwnMoves DEF r, s
  <2> QED BY <1>0, <1>e, <1>i, <1>x, <2>1 DEF EndOfBodyMove, OwnGot, Process
<1>13. CASE Check(p)
  <2>1. CheckMove(p, r, s)
    BY <1>0, <1>13, OwnMoves DEF r, s
  <2> QED BY <1>0, <1>e, <1>i, <1>x, <2>1 DEF CheckMove, OwnGot, Process
<1>14. CASE Publish(p)
  <2>1. PublishMove(p, r, s)
    BY <1>0, <1>14, OwnMoves DEF r, s
  <2> QED BY <1>0, <1>e, <1>i, <1>x, <2>1 DEF PublishMove, OwnGot, Process
<1>15. CASE Retry(p)
  <2>1. RetryMove(p, r, s)
    BY <1>0, <1>15, OwnMoves DEF r, s
  <2> QED BY <1>0, <1>e, <1>i, <1>x, <2>1 DEF RetryMove, OwnGot, Process
<1>16. CASE Record(p)
  <2>1. RecordMove(p, r, s)
    BY <1>0, <1>16, OwnMoves DEF r, s
  <2> QED BY <1>0, <1>e, <1>i, <1>x, <2>1 DEF RecordMove, OwnGot, Process
<1>17. CASE GiveUp(p)
  <2>1. GiveUpMove(p, r, s)
    BY <1>0, <1>17, OwnMoves DEF r, s
  <2> QED BY <1>0, <1>e, <1>i, <1>x, <2>1 DEF GiveUpMove, OwnGot, Process
<1>18. CASE Finish(p)
  <2>1. FinishMove(p, r, s)
    BY <1>0, <1>18, OwnMoves DEF r, s
  <2> QED BY <1>0, <1>e, <1>i, <1>x, <2>1 DEF FinishMove, OwnGot, Process
<1> QED BY <1>1, <1>2, <1>3, <1>4, <1>5, <1>6, <1>7, <1>8, <1>9, <1>10, <1>11, <1>12, <1>13,
    <1>14, <1>15, <1>16, <1>17, <1>18 DEF CacheActions, Fetch
\* Published and OrTaken after the step, of what may be an entry of the state after it.
Locking(e) == Locked(e, file'[e]["dest"])
Keeping(e) == Locking(e) \/ e \in taken'

\* GotInv after a step, from what the step leaves of it.
LEMMA GotNext ==
    ASSUME \A p \in Fetchers :
               /\ \A e \in proc'[p].got : Keeping(e)
               /\ proc'[p].at = "record" => Locking(proc'[p].entry)
               /\ proc'[p].task = "build" /\ build'.at = "fetching" =>
                      /\ \A e \in proc'[p].wanted :
                             \/ e \in proc'[p].todo
                             \/ proc'[p].at = "next" /\ Locking(e)
                             \/ ~(proc'[p].at = "next") /\ (e = proc'[p].entry \/ Locking(e))
                      /\ build'.asset \in Models => proc'[p].wanted = {build'.asset},
           build'.at = "pack" => Locking(build'.asset),
           audit'.ok => \A e \in audit'.wanted \ audit'.todo : Keeping(e)
    PROVE  GotInv'
BY DEF GotInv, At, Entry, Published, OrTaken, Locking, Keeping, Locked

\* What a process has got, or the audit has found in order, stays so.
LEMMA GotStep ==
    ASSUME OneFetcher, KindInv, PublishInv, GotInv, BundleNext
    PROVE  GotInv'
<1>1. /\ file \in Files /\ proc \in [Fetchers -> Process] /\ build \in BuildRecord
      /\ FetchInv /\ BuilderInv /\ StageInv
  BY BundleTypes DEF KindInv, DirectoryOK
<1>2. \A p, q \in Fetchers : p = q
  BY DEF OneFetcher
<1>3. DestMove
  BY DestMoves
<1>4. \A e \in Entries : OrTaken(e) => Keeping(e)
  BY <1>3 DEF DestMove, OrTaken, Published, Keeping, Locking
<1>5. /\ audit.wanted \subseteq Entries
      /\ \A p \in Fetchers : proc[p].got \subseteq Entries /\ proc[p].wanted \subseteq Entries
  BY <1>1, SomeEntries DEF KindInv, BundleTypeOK, CacheTypeOK, Process
<1>6. \A p \in Fetchers : proc[p].at = "record" => Entry(p) \in Entries
  BY <1>1 DEF FetchInv, Working, Entry
<1>7. build.at = "pack" => build.asset \in Entries
  BY <1>1, SomeEntries DEF StageInv

\* Steps that do not touch the directories: what the process has got is no more, and
\* it is not about to note anything.
<1>8. ASSUME UNCHANGED <<file, taken, audit>>,
             \A p \in Fetchers :
                 /\ proc'[p].got \subseteq proc[p].got
                 /\ proc'[p].at # "record" \/ proc'[p] = proc[p]
                 /\ proc'[p].task = "build" /\ build'.at = "fetching" =>
                        proc'[p] = proc[p] /\ build' = build,
             build'.at = "pack" => build' = build \/ Published(build'.asset)
      PROVE  GotInv'
  <2>1. \A e : Locking(e) <=> Published(e)
    BY <1>8 DEF Published, Locking
  <2>2. \A e : Keeping(e) <=> OrTaken(e)
    BY <1>8, <2>1 DEF OrTaken, Keeping
  <2>3. ASSUME NEW p \in Fetchers
        PROVE  /\ \A e \in proc'[p].got : Keeping(e)
               /\ proc'[p].at = "record" => Locking(proc'[p].entry)
    BY <1>8, <2>1, <2>2, <2>3 DEF GotInv, At, Entry
  <2>4. ASSUME NEW p \in Fetchers, proc'[p].task = "build" /\ build'.at = "fetching"
        PROVE  /\ \A e \in proc'[p].wanted :
                      \/ e \in proc'[p].todo
                      \/ proc'[p].at = "next" /\ Locking(e)
                      \/ ~(proc'[p].at = "next") /\ (e = proc'[p].entry \/ Locking(e))
               /\ build'.asset \in Models => proc'[p].wanted = {build'.asset}
    <3>1. proc'[p] = proc[p] /\ build' = build
      BY <1>8, <2>4
    <3> QED BY <2>1, <2>4, <3>1 DEF GotInv, At, Entry
  <2>5. build'.at = "pack" => Locking(build'.asset)
    BY <1>8, <2>1 DEF GotInv
  <2>6. audit'.ok => \A e \in audit'.wanted \ audit'.todo : Keeping(e)
    BY <1>8, <2>2 DEF GotInv
  <2> QED BY <2>3, <2>4, <2>5, <2>6, GotNext

<1>9. ASSUME NEW p \in Fetchers, CacheActions(p), UNCHANGED bundleVars
      PROVE  GotInv'
  <2> DEFINE r == proc[p]
             s == proc'[p]
  <2>1. OwnGot(p, r, s)
    BY <1>9, OwnGets
  <2>2. \A e \in Entries : \/ file'[e]["dest"] = file[e]["dest"]
                           \/ Locked(e, file'[e]["dest"])
    BY <1>9, Directories
  <2>3. \A e \in Entries : Published(e) => Locking(e)
    BY <2>2 DEF Published, Locking
  <2>4. r.at = "record" => Published(r.entry) /\ r.entry \in Entries
    BY <1>6 DEF GotInv, At, Entry
  <2>5. r.at = "publish" /\ s.at = "record" =>
            r.entry \in Entries /\ Locked(r.entry, file'[r.entry]["dest"])
    BY <1>9, Directories DEF At, Entry
  <2>6. audit' = audit /\ build' = build
    BY <1>9, NotBusy DEF bundleVars
  <2>7. build.at = "fetching" /\ r.task = "build" =>
            /\ \A e \in r.wanted :
                   \/ e \in r.todo
                   \/ r.at = "next" /\ Published(e)
                   \/ ~(r.at = "next") /\ (e = r.entry \/ Published(e))
            /\ build.asset \in Models => r.wanted = {build.asset}
    BY DEF GotInv, At, Entry
  <2>8. r.got \subseteq Entries /\ r.wanted \subseteq Entries /\ \A e \in r.got : OrTaken(e)
    BY <1>5 DEF GotInv
  <2>9. s.task = "build" => r.task = "build"
    <3>1. FetchOK(proc[p]) /\ proc[p].at # "busy"
      BY <1>1, <1>9, FetchInvOK, NotBusy
    <3> QED BY <1>1, <1>9, <3>1, OwnKind
  <2> HIDE DEF r, s
  <2>10. \A e \in s.got : Keeping(e)
    BY <1>4, <2>1, <2>4, <2>8 DEF OwnGot, OrTaken
  <2>11. s.at = "record" => Locking(s.entry)
    <3>1. CASE s.entry \in Entries /\ Published(s.entry)
      BY <2>3, <3>1
    <3>2. CASE s.at = "record" /\ r.at = "publish" /\ s.entry = r.entry
      BY <2>5, <3>2 DEF Locking
    <3> QED BY <2>1, <3>1, <3>2 DEF OwnGot
  <2>12. ASSUME s.task = "build", build.at = "fetching"
         PROVE  /\ \A e \in s.wanted :
                       \/ e \in s.todo
                       \/ s.at = "next" /\ Locking(e)
                       \/ ~(s.at = "next") /\ (e = s.entry \/ Locking(e))
                /\ build.asset \in Models => s.wanted = {build.asset}
    <3>1. /\ s.wanted = r.wanted
          /\ \/ /\ r.at = "next" /\ s.at # "next"
                /\ s.todo = r.todo \ {s.entry}
             \/ /\ r.at # "next"
                /\ s.entry = r.entry /\ s.todo = r.todo
                /\ s.at = "next" => r.at = "record"
      BY <2>1, <2>12 DEF OwnGot
    <3>2. /\ \A e \in r.wanted :
                 \/ e \in r.todo
                 \/ r.at = "next" /\ Published(e)
                 \/ ~(r.at = "next") /\ (e = r.entry \/ Published(e))
          /\ build.asset \in Models => r.wanted = {build.asset}
      BY <2>7, <2>9, <2>12
    <3> QED BY <2>3, <2>4, <2>8, <3>1, <3>2
  <2>13. build.at = "pack" => Locking(build.asset)
    BY <1>7, <2>3 DEF GotInv
  <2>14. audit.ok => \A e \in audit.wanted \ audit.todo : Keeping(e)
    BY <1>4, <1>5 DEF GotInv
  <2> QED BY <1>2, <2>6, <2>10, <2>11, <2>12, <2>13, <2>14, GotNext DEF s

<1>10. ASSUME StartAudit \/ EndAudit \/ \E m \in Models : AuditFile(m), UNCHANGED bundleVars
       PROVE  GotInv'
  <2>1. file' = file /\ proc' = proc /\ build' = build /\ taken' = taken
    BY <1>10 DEF StartAudit, EndAudit, AuditFile, bundleVars
  <2>2. audit'.ok => \A e \in audit'.wanted \ audit'.todo : OrTaken(e)
    <3>1. CASE StartAudit
      <4>1. PICK wanted \in Selections :
                audit' = [NoAudit EXCEPT !.at = "files", !.wanted = wanted, !.todo = wanted]
        BY <3>1 DEF StartAudit
      <4> QED BY <4>1 DEF NoAudit
    <3>2. CASE EndAudit
      BY <3>2 DEF EndAudit, NoAudit
    <3>3. ASSUME NEW m \in Models, AuditFile(m)
          PROVE  audit'.ok => \A e \in audit'.wanted \ audit'.todo : OrTaken(e)
      <4>1. audit' = [audit EXCEPT !.todo = audit.todo \ {m}, !.ok = audit.ok /\ Published(m)]
        BY <3>3 DEF AuditFile
      <4>2. audit \in [at : {"idle", "files"}, wanted : SUBSET Models,
                       todo : SUBSET Models, ok : BOOLEAN]
        BY DEF KindInv, BundleTypeOK, CacheTypeOK
      <4>3. /\ audit'.wanted = audit.wanted /\ audit'.todo = audit.todo \ {m}
            /\ audit'.ok <=> audit.ok /\ Published(m)
        BY <4>1, <4>2
      <4> QED BY <4>3 DEF GotInv, OrTaken
    <3> QED BY <1>10, <3>1, <3>2, <3>3
  <2>3. \A e : (Locking(e) <=> Published(e)) /\ (Keeping(e) <=> OrTaken(e))
    BY <2>1 DEF Published, OrTaken, Locking, Keeping
  <2> QED BY <2>1, <2>2, <2>3, GotNext DEF GotInv, At, Entry

\* The build's own steps.
<1>11. ASSUME NEW p \in Fetchers, NEW asset, NEW entries, Want(p, asset, entries),
              asset \in Models => entries = {asset}
       PROVE  GotInv'
  <2> DEFINE s == proc'[p]
  <2>1. s = [proc[p] EXCEPT !.at = "next", !.wanted = entries, !.todo = entries, !.got = {}]
    BY <1>1, <1>11 DEF Want
  <2>2. s.at = "next" /\ s.wanted = entries /\ s.todo = entries /\ s.got = {}
    BY <1>1, <2>1 DEF Process
  <2>3. build' = [build EXCEPT !.at = "fetching", !.asset = asset]
        /\ file' = file /\ taken' = taken /\ audit' = audit
    BY <1>11 DEF Want
  <2>4. build'.at = "fetching" /\ build'.asset = asset
    BY <1>1, <2>3 DEF BuildRecord
  <2>5. \A e : Keeping(e) <=> OrTaken(e)
    BY <2>3 DEF Published, OrTaken, Locking, Keeping
  <2>6. audit'.ok => \A e \in audit'.wanted \ audit'.todo : Keeping(e)
    BY <2>3, <2>5 DEF GotInv
  <2> HIDE DEF s
  <2> QED BY <1>2, <1>11, <2>2, <2>4, <2>6, GotNext DEF s
<1>12. ASSUME NEW p \in Fetchers, Fetched(p) PROVE GotInv'
  <2>1. proc[p].task = "build" /\ At(p, "next") /\ proc[p].todo = {}
        /\ proc' = [proc EXCEPT ![p].at = "busy"]
    BY <1>12 DEF Fetched
  <2>2. proc'[p].at = "busy" /\ proc'[p].got = proc[p].got
    BY <1>1, <2>1 DEF Process
  <2>3. build.at = "fetching"
    BY <1>1, <2>1 DEF BuilderInv, At
  <2>4. file' = file /\ taken' = taken /\ audit' = audit
        /\ build' = [build EXCEPT !.at = IF build.asset \in Models THEN "pack" ELSE "unpack"]
    BY <1>12 DEF Fetched, Proceed
  <2>5. build'.asset = build.asset
        /\ build'.at = IF build.asset \in Models THEN "pack" ELSE "unpack"
    BY <1>1, <2>4 DEF BuildRecord
  <2>6. build.asset \in Models => Published(build.asset)
    BY <2>1, <2>3 DEF GotInv
  <2> QED BY <1>2, <1>8, <2>2, <2>4, <2>5, <2>6
<1>13. ASSUME NEW p \in Fetchers, Drop(p) PROVE GotInv'
  <2>1. At(p, "busy") /\ build.at = "drop" /\ audit' = audit
        /\ build' = [build EXCEPT !.at = "extract"]
    BY <1>13 DEF Drop, By, Proceed
  <2>2. proc' = [q \in Fetchers |->
              IF q # p /\ Entry(q) = build.asset /\ proc[q].open # "none"
              THEN [proc[q] EXCEPT !.open = "lost"] ELSE proc[q]]
    BY <1>13 DEF Drop
  <2>3. proc'[p] = proc[p]
    BY <2>2
  <2>4. build'.at = "extract"
    BY <1>1, <2>1 DEF BuildRecord
  <2>5. \A e \in proc'[p].got : Keeping(e)
    BY <1>4, <1>5, <2>3 DEF GotInv
  <2>6. audit'.ok => \A e \in audit'.wanted \ audit'.todo : Keeping(e)
    BY <1>4, <1>5, <2>1 DEF GotInv
  <2> QED BY <1>2, <2>1, <2>3, <2>4, <2>5, <2>6, GotNext DEF At
<1>14. CASE PowerCut
  <2>1. proc' = [p \in Fetchers |-> Idle] /\ audit' = NoAudit /\ build' = NoBuild
    BY <1>14 DEF PowerCut, PowerLoss
  <2> QED BY <2>1 DEF GotInv, At, Idle, NoAudit, NoBuild
<1>15. ASSUME UNCHANGED <<file, taken, audit>>, NEW p \in Fetchers, proc'[p] = Idle,
              build' = build \/ build' = NoBuild
       PROVE  GotInv'
  <2>1. Idle.got = {} /\ Idle.at = "idle" /\ Idle.task = "provision" /\ NoBuild.at = "none"
    BY DEF Idle, NoBuild
  <2> QED BY <1>2, <1>8, <1>15, <2>1
<1>16. ASSUME UNCHANGED <<file, taken, audit, proc>>,
              build' = build \/ build'.at \notin {"fetching", "pack"}
       PROVE  GotInv'
  BY <1>8, <1>16
<1>17. ASSUME NEW p \in Fetchers, Die(p) PROVE proc'[p] = Idle /\ build' = NoBuild
  BY <1>1, <1>17 DEF Die, Leave
<1>18. CASE BuildStep
  <2>1. ASSUME NEW p \in Fetchers, Build(p) PROVE GotInv'
    <3>1. /\ proc'[p].got = {} /\ proc'[p].at = "busy" /\ build'.at = "runtime"
          /\ UNCHANGED <<file, taken, audit>>
      BY <1>1, <2>1 DEF Build, Idle
    <3> QED BY <1>2, <1>8, <3>1
  <2>2. ASSUME NEW p \in Fetchers, FetchFailed(p) \/ BuildError(p) PROVE GotInv'
    BY <1>15, <1>17, <2>2 DEF FetchFailed, BuildError
  <2>3. ASSUME NEW p \in Fetchers,
               \/ Unpack(p) \/ ProvisionSpeech(p) \/ Assemble(p) \/ Manifest(p)
        PROVE  GotInv'
    <3>1. UNCHANGED <<file, taken, audit>>
      BY <2>3 DEF Unpack, ProvisionSpeech, Assemble, Manifest
    <3>2. Die(p) => GotInv'
      BY <1>15, <1>17, <3>1
    <3>3. ASSUME NEW left,
                 \/ build' = [build EXCEPT !.left = left, !.at = "speech"]
                 \/ build' = [build EXCEPT !.left = left, !.at = "runtime"]
                 \/ build' = [build EXCEPT !.left = left, !.at = "assemble"]
          PROVE  build'.at \notin {"fetching", "pack"}
      BY <1>1, <3>3 DEF BuildRecord
    <3>4. CASE Unpack(p)
      BY <1>16, <3>1, <3>2, <3>3, <3>4 DEF Unpack
    <3>5. CASE ProvisionSpeech(p)
      BY <1>16, <3>1, <3>2, <3>3, <3>5 DEF ProvisionSpeech
    <3>6. CASE Assemble(p) \/ Manifest(p)
      <4>1. Die(p) \/ (proc' = proc /\ (Proceed("stream") \/ Proceed("relocate")))
        BY <3>6 DEF Assemble, Manifest
      <4>2. Proceed("stream") \/ Proceed("relocate") => build'.at \in {"stream", "relocate"}
        BY <1>1 DEF Proceed, BuildRecord
      <4> QED BY <1>16, <3>1, <3>2, <4>1, <4>2
    <3> QED BY <2>3, <3>4, <3>5, <3>6
  <2>4. ASSUME NEW p \in Fetchers,
               \/ \E a \in Runtimes \union {Speech} : StreamRuntime(p, a)
               \/ Pack(p) \/ Extract(p) \/ Consume(p) \/ Relocate(p)
        PROVE  GotInv'
    <3>1. UNCHANGED <<file, taken, audit, proc>>
      BY <2>4 DEF StreamRuntime, Pack, Extract, Consume, Relocate, cacheVars
    <3>2. ASSUME \/ \E a \in Runtimes \union {Speech} : StreamRuntime(p, a)
                 \/ Pack(p) \/ Extract(p) \/ Relocate(p)
          PROVE  build'.at \in {"extract", "drop", "consume", "qualify"}
      BY <1>1, <3>2 DEF StreamRuntime, Pack, Extract, Relocate, Proceed, BuildRecord
    <3>3. ASSUME Consume(p) PROVE build'.at \in {"manifest", "stream"}
      <4> DEFINE left == build.left \ {build.asset}
                 stage == IF left = {} THEN "manifest" ELSE "stream"
      <4>1. build' = [at |-> stage, asset |-> Absent, left |-> left]
        BY <3>3, Zenon DEF Consume
      <4>2. stage \in {"manifest", "stream"}
        OBVIOUS
      <4> HIDE DEF left, stage
      <4> QED BY <4>1, <4>2
    <3> QED BY <1>16, <2>4, <3>1, <3>2, <3>3
  <2>5. ASSUME NEW p \in Fetchers, NEW m \in Models, Supply(p, m) PROVE GotInv'
    BY <1>11, <2>5 DEF Supply
  <2>6. ASSUME NEW p \in Fetchers, NEW r \in Runtimes, FetchRuntime(p, r) PROVE GotInv'
    BY <1>11, <2>6, BundleAssumption DEF FetchRuntime
  <2> QED BY <1>12, <1>13, <1>18, <2>1, <2>2, <2>3, <2>4, <2>5, <2>6 DEF BuildStep
<1>19. CASE Rest
  <2>1. ASSUME NEW p \in Fetchers, Retain(p) \/ Kill(p) PROVE GotInv'
    BY <1>1, <1>15, <2>1 DEF Retain, Kill, Crash, Leave
  <2>2. ASSUME NEW p \in Fetchers, Qualify(p) \/ Qualified(p) PROVE GotInv'
    <3>1. UNCHANGED <<file, taken, audit>>
      BY <2>2 DEF Qualify, Qualified, cacheVars
    <3>2. Die(p) \/ (proc' = proc /\ (Proceed("child") \/ Proceed("retain")))
      BY <2>2 DEF Qualify, Qualified, cacheVars
    <3>3. Proceed("child") \/ Proceed("retain") => build'.at \in {"child", "retain"}
      BY <1>1 DEF Proceed, BuildRecord
    <3> QED BY <1>15, <1>16, <1>17, <3>1, <3>2, <3>3
  <2>3. ASSUME \/ \E b \in Bundles : Examine(b) \/ ChildDies(b)
               \/ \E m \in Models : Restore(m)
               \/ Deliver \/ Wear \/ Purge \/ Smoke \/ Smoked \/ TimedOut \/ FieldCrash
        PROVE  UNCHANGED <<file, taken, audit, proc, build>>
    BY <2>3 DEF Examine, ChildDies, Restore, Deliver, Wear, Purge, Smoke, Smoked,
       TimedOut, FieldCrash, cacheVars
  <2> QED BY <1>14, <1>16, <1>19, <2>1, <2>2, <2>3 DEF Rest
<1> QED BY <1>9, <1>10, <1>18, <1>19, Steps, CacheSteps
-----------------------------------------------------------------------------
(* With one process: a fetch that meets no fault *)

\* HonestInv, of one process and the partial file at hand.
Again(r) == r.entry \in Models /\ r.task # "stage" /\ r.attempt = 0

HonestOK(r, f) == r.clean =>
    /\ r.at = "attempt" => r.attempt = 0 \/ Length(f) >= Blocks[r.entry]
    /\ r.at = "quarantine" => f # Absent
    /\ r.at = "request" =>
           \/ r.offset = 0
           \/ Again(r) /\ r.offset = Length(f) /\ r.offset <= Blocks[r.entry]
    /\ r.at = "body" =>
           /\ r.offset <= Blocks[r.entry]
           /\ \/ ~r.append /\ f = [i \in 1..r.offset |-> TRUE]
              \/ r.append /\ Again(r) /\ Length(f) = r.offset
    /\ r.at = "check" => Locked(r.entry, f) \/ (Again(r) /\ Length(f) >= Blocks[r.entry])
    /\ r.at = "error" => Again(r) /\ Length(f) >= Blocks[r.entry]
    /\ r.at = "failed" => r.offline \/ (r.entry \in Models /\ Attempts = 1)

\* HonestInv, from what holds of each process.
LEMMA HonestInvOK ==
    HonestInv <=> \A p \in Fetchers : HonestOK(proc[p], file[proc[p].entry]["part"])
BY Zenon DEF HonestInv, HonestOK, Resumed, Again, At, Here, Entry, Full

\* The first of the blocks, when they are all right, and one more of them.
LEMMA OneMore ==
    ASSUME NEW n \in Nat
    PROVE  With([i \in 1..n |-> TRUE], n + 1, TRUE) = [i \in 1..(n + 1) |-> TRUE]
<1> DEFINE f == [i \in 1..n |-> TRUE]
<1>1. f \in Seq(BOOLEAN) /\ Len(f) = n
  <2>1. f \in [1..n -> BOOLEAN]
    OBVIOUS
  <2> HIDE DEF f
  <2> QED BY <2>1
<1>2. f # Absent
  BY <1>1, CacheAssumption
<1>3. Length(f) = n
  BY <1>1, <1>2 DEF Length
<1>4. \A i \in 1..n : f[i] = TRUE
  OBVIOUS
<1> HIDE DEF f
<1>5. (IF n + 1 > Length(f) THEN n + 1 ELSE Length(f)) = n + 1
  BY <1>3
<1>6. ASSUME NEW i \in 1..(n + 1)
      PROVE  (IF i = n + 1 THEN TRUE ELSE i <= Length(f) /\ f[i]) = TRUE
  <2>1. CASE i = n + 1
    BY <2>1
  <2>2. CASE i # n + 1
    <3>1. i \in 1..n
      BY <2>2
    <3>2. i <= Length(f) /\ f[i]
      BY <1>3, <1>4, <3>1
    <3> QED BY <2>2, <3>2
  <2> QED BY <2>1, <2>2
<1>7. With(f, n + 1, TRUE) =
          [i \in 1..(n + 1) |-> IF i = n + 1 THEN TRUE ELSE i <= Length(f) /\ f[i]]
  BY <1>5, Zenon DEF With
<1>8. [i \in 1..(n + 1) |-> IF i = n + 1 THEN TRUE ELSE i <= Length(f) /\ f[i]] =
          [i \in 1..(n + 1) |-> TRUE]
  BY <1>6, Zenon
<1> QED BY <1>7, <1>8 DEF f

\* HonestInv of the process that takes a step.
LEMMA OwnHonest ==
    ASSUME KindInv, PublishInv, NEW p \in Fetchers, CacheActions(p),
           HonestOK(proc[p], file[proc[p].entry]["part"])
    PROVE  HonestOK(proc'[p], file'[proc'[p].entry]["part"])
<1> DEFINE r == proc[p]
           s == proc'[p]
           f == file[r.entry]["part"]
           g == file'[s.entry]["part"]
<1>0. r \in Process /\ proc \in [Fetchers -> Process] /\ file \in Files
  BY BundleTypes DEF KindInv, DirectoryOK
<1>1. /\ r.at \in Working => r.entry \in Entries /\ f \in File
      /\ r.at \in {"attempt", "quarantine"} => r.entry \in Models /\ r.task # "stage"
  <2>1. r.at \in Working => r.entry \in Entries
    BY DEF KindInv, FetchInv
  <2>2. r.entry \in Entries => f \in File
    BY <1>0 DEF Files, Names
  <2> QED BY <2>1, <2>2 DEF KindInv, FetchInv
<1>2. \A e \in Entries : Blocks[e] \in Nat /\ Blocks[e] > 0
  BY CacheAssumption
<1>3. Here(p, "part") = f /\ Entry(p) = r.entry /\ Full(p) = Blocks[r.entry]
  BY DEF Here, Entry, Full
<1>4. r.at \in Working => Length(f) \in Nat
  BY <1>1, LengthIsNat
<1>5. Length(Absent) = 0 /\ Length(<<>>) = 0
  BY DEF Length
<1>6. HonestOK(r, f)
  OBVIOUS
<1>7. s.clean => s.at \notin {"idle", "index", "next", "publish", "record", "busy"}
      \/ HonestOK(s, g)
  BY DEF HonestOK
<1>8. r.attempt \in Nat /\ r.offset \in Nat
  BY <1>0 DEF Process
<1>9. r.at \in {"attempt", "quarantine", "request", "body", "check", "publish", "error"} =>
          r.at \in Working
  BY DEF Working
<1>10. \A e : file' = file /\ s.entry = r.entry => g = f
  OBVIOUS
<1> HIDE DEF r, s, f, g
<1> DEFINE Quiet == s.at \in {"idle", "index", "next", "publish", "record", "busy"}
<1>11. ~s.clean \/ Quiet => HonestOK(s, g)
  BY DEF HonestOK
<1> SUFFICES HonestOK(s, g)
  BY DEF r, s, f, g
<1>28. Idle.at = "idle"
  BY DEF Idle
<1>12. CASE Provision(p)
  <2>1. ProvisionMove(p, r, s)
    BY <1>0, <1>12, OwnMoves DEF r, s
  <2> QED BY <1>11, <2>1 DEF ProvisionMove, Idle
<1>13. CASE Acquire(p)
  <2>1. AcquireMove(p, r, s)
    BY <1>0, <1>13, OwnMoves DEF r, s
  <2> QED BY <1>11, <2>1 DEF AcquireMove, Idle
<1>14. CASE Stage(p)
  <2>1. StageMove(p, r, s)
    BY <1>0, <1>14, OwnMoves DEF r, s
  <2> QED BY <1>11, <2>1 DEF StageMove, Idle
<1>15. CASE Index(p) \/ GiveUp(p) \/ Finish(p)
  <2>1. IndexMove(p, r, s) \/ GiveUpMove(p, r, s) \/ FinishMove(p, r, s)
    BY <1>0, <1>15, OwnMoves DEF r, s
  <2>2. s.at \in {"next", "idle"}
    BY <1>0, <1>28, <2>1 DEF IndexMove, GiveUpMove, FinishMove, Process
  <2> QED BY <1>11, <2>2
<1>16. CASE Record(p)
  <2>1. RecordMove(p, r, s)
    BY <1>0, <1>16, OwnMoves DEF r, s
  <2>2. s.at \in {"next", "idle"} \/ ~s.clean
    BY <1>0, <1>28, <2>1 DEF RecordMove, Process
  <2> QED BY <1>11, <2>2
<1>17. CASE Interrupted(p)
  <2>1. InterruptedMove(p, r, s)
    BY <1>0, <1>17, OwnMoves DEF r, s
  <2>2. ~s.clean
    BY <1>0, <2>1 DEF InterruptedMove, Process
  <2> QED BY <1>11, <2>2
<1>18. CASE \E m \in Models : FetchModel(p, m)
  <2>1. PICK m \in Models : FetchModelMove(p, m, r, s)
    BY <1>0, <1>18, OwnMoves DEF r, s
  <2>2. /\ s.at \in {"record", "failed", "attempt"} /\ s.attempt = 0
        /\ s.at = "failed" => s.offline
    BY <1>0, <2>1 DEF FetchModelMove, Process
  <2> QED BY <2>2 DEF HonestOK
<1>19. CASE \E a \in Archives : FetchArchive(p, a)
  <2>1. PICK a \in Archives : FetchArchiveMove(p, a, r, s)
    BY <1>0, <1>19, OwnMoves DEF r, s
  <2>2. s.at \in {"record", "request"} /\ s.offset = 0
    BY <1>0, <2>1 DEF FetchArchiveMove, Process
  <2> QED BY <2>2 DEF HonestOK
<1>20. CASE Inspect(p)
  <2>1. InspectMove(p, r, s)
    BY <1>0, <1>20, OwnMoves DEF r, s
  <2>2. /\ r.at = "attempt" /\ s.clean = r.clean /\ s.entry = r.entry /\ s.task = r.task
        /\ s.attempt = r.attempt
        /\ \/ s.at = "request" /\ s.offset = Length(f) /\ Length(f) < Blocks[r.entry]
           \/ s.at = "publish"
           \/ s.at = "quarantine" /\ ~(Length(f) < Blocks[r.entry])
    BY <1>0, <1>3, <2>1 DEF InspectMove, Process
  <2>3. g = f
    BY <1>10, <1>20, <2>2 DEF Inspect
  <2>4. CASE s.at = "publish" \/ ~s.clean
    BY <1>11, <2>4
  <2>5. CASE s.at = "request" /\ s.clean
    <3>1. r.attempt = 0
      BY <1>1, <1>2, <1>4, <1>6, <1>9, <2>2, <2>5 DEF HonestOK
    <3>2. Again(s) /\ s.offset = Length(g) /\ s.offset <= Blocks[s.entry]
      BY <1>1, <1>2, <1>4, <1>9, <2>2, <2>3, <2>5, <3>1 DEF Again
    <3> QED BY <2>5, <3>2 DEF HonestOK
  <2>6. CASE s.at = "quarantine"
    <3>1. g # Absent
      BY <1>1, <1>2, <1>5, <1>9, <2>2, <2>3, <2>6
    <3> QED BY <2>6, <3>1 DEF HonestOK
  <2> QED BY <2>2, <2>4, <2>5, <2>6
<1>21. CASE Quarantine(p)
  <2>1. QuarantineMove(p, r, s)
    BY <1>0, <1>21, OwnMoves DEF r, s
  <2>2. /\ r.at = "quarantine" /\ s.clean = r.clean
        /\ f = Absent \/ (s.at = "request" /\ s.offset = 0)
    BY <1>0, <1>3, <2>1 DEF QuarantineMove, Process
  <2> QED BY <1>6, <2>2 DEF HonestOK
<1>22. CASE Answer(p)
  <2>1. AnswerMove(p, r, s)
    BY <1>0, <1>22, OwnMoves DEF r, s
  <2>2. /\ r.at = "request" /\ s.entry = r.entry /\ s.task = r.task /\ s.attempt = r.attempt
        /\ \/ /\ r.offset > 0 /\ s.at = "body" /\ s.append /\ s.offset = r.offset
              /\ s.clean = r.clean
           \/ s.at = "body" /\ ~s.append /\ s.offset = 0
           \/ ~s.clean
    BY <1>0, <2>1 DEF AnswerMove, Process
  <2>3. r.entry \in Entries /\ r.at \in Working
    BY <1>1, <1>9, <2>2
  <2>4. /\ s.append /\ s.clean => g = IF f = Absent THEN <<>> ELSE f
        /\ ~s.append /\ s.clean => g = <<>>
    <3>1. \/ /\ file' = [file EXCEPT ![r.entry]["part"] = IF f = Absent THEN <<>> ELSE f]
             /\ s.append
          \/ file' = [file EXCEPT ![r.entry]["part"] = <<>>] /\ ~s.append
          \/ ~s.clean
      BY <1>0, <1>3, <1>22 DEF Answer, Fault, s, f, Process, Entry
    <3>2. \A v : file' = [file EXCEPT ![r.entry]["part"] = v] => file'[r.entry]["part"] = v
      BY <1>0, <2>3 DEF Files, Names
    <3> QED BY <2>2, <3>1, <3>2 DEF g
  <2>5. CASE ~s.clean
    BY <1>11, <2>5
  <2>6. CASE s.clean /\ ~s.append
    <3>1. g = <<>> /\ s.offset = 0 /\ s.at = "body"
      BY <2>2, <2>4, <2>6
    <3>2. <<>> = [i \in 1..0 |-> TRUE]
      OBVIOUS
    <3>3. g = [i \in 1..s.offset |-> TRUE]
      BY <3>1, <3>2, Zenon
    <3>4. s.offset <= Blocks[s.entry]
      BY <1>2, <2>2, <2>3, <3>1
    <3> QED BY <2>6, <3>1, <3>3, <3>4 DEF HonestOK
  <2>7. CASE s.clean /\ s.append
    <3>0. r.offset > 0 /\ r.clean /\ s.offset = r.offset /\ s.at = "body"
      BY <2>2, <2>7
    <3>1. Again(r) /\ r.offset = Length(f) /\ r.offset <= Blocks[r.entry] /\ r.offset > 0
      BY <1>6, <1>8, <2>2, <3>0 DEF HonestOK
    <3>2. f # Absent /\ g = f
      BY <1>5, <2>4, <2>7, <3>1
    <3> QED BY <2>2, <2>7, <3>0, <3>1, <3>2 DEF HonestOK, Again
  <2> QED BY <2>5, <2>6, <2>7
<1>23. CASE Block(p)
  <2>1. BlockMove(p, r, s)
    BY <1>0, <1>23, OwnMoves DEF r, s
  <2>2. PICK good \in BOOLEAN :
            LET name == r.open
                place == IF r.append /\ name \in Names
                         THEN Length(Here(p, name)) + 1 ELSE r.offset + 1
                block == good /\ place = r.offset + 1
            IN  /\ file' = IF name \in Names
                           THEN [file EXCEPT ![Entry(p)][name] = With(@, place, block)]
                           ELSE file
                /\ proc' = [proc EXCEPT ![p].offset = @ + 1, ![p].clean = @ /\ good]
    BY <1>23, Zenon DEF Block, r
  <2>3. r.at = "body" /\ r.offset < Blocks[r.entry]
    BY <1>3, <2>1 DEF BlockMove
  <2>4. r.entry \in Entries /\ r.at \in Working /\ r.open = "part" /\ "part" \in Names
    BY <1>1, <1>9, <2>3 DEF PublishInv, r, Names
  <2> DEFINE place == IF r.append THEN Length(f) + 1 ELSE r.offset + 1
             block == good /\ place = r.offset + 1
  <2>5. file' = [file EXCEPT ![r.entry]["part"] = With(@, place, block)]
    BY <1>3, <2>2, <2>4
  <2>6. s = [r EXCEPT !.offset = r.offset + 1, !.clean = r.clean /\ good]
    BY <1>0, <2>2, Zenon DEF s, r
  <2>7. /\ s.at = "body" /\ s.offset = r.offset + 1 /\ s.entry = r.entry /\ s.task = r.task
        /\ s.attempt = r.attempt /\ s.append = r.append
        /\ s.clean => r.clean /\ good
    BY <1>0, <2>3, <2>6 DEF Process
  <2>8. file'[r.entry]["part"] = With(f, place, block)
    BY <1>0, <2>4, <2>5 DEF Files, f
  <2>9. g = With(f, place, block)
    BY <2>7, <2>8 DEF g
  <2>10. r.append \in BOOLEAN
    BY <1>0 DEF Process
  <2> SUFFICES ASSUME s.clean PROVE HonestOK(s, g)
    BY <1>11
  <2>11. good /\ r.clean
    BY <2>7
  <2>12. s.offset <= Blocks[s.entry]
    BY <1>2, <1>8, <2>3, <2>4, <2>7
  <2>13. CASE r.append
    <3>1. Again(r) /\ Length(f) = r.offset
      BY <1>6, <2>3, <2>11, <2>13 DEF HonestOK
    <3>2. place = r.offset + 1 /\ block = TRUE
      BY <2>11, <2>13, <3>1
    <3> HIDE DEF place, block
    <3>3. Len(g) = r.offset + 1 /\ g \in Seq(BOOLEAN)
      <4>2. g = With(f, r.offset + 1, TRUE)
        BY <2>9, <3>2
      <4>1. f \in File /\ r.offset + 1 \in Nat /\ Length(f) \in Nat
        BY <1>1, <1>4, <1>8, <2>4
      <4> DEFINE n == r.offset + 1
      <4>3. n \in Nat /\ n > Length(f)
        BY <1>8, <3>1
      <4> HIDE DEF n
      <4>4. /\ With(f, n, TRUE) \in Seq(BOOLEAN)
            /\ Len(With(f, n, TRUE)) = IF n > Length(f) THEN n ELSE Length(f)
        BY <4>1, <4>3, WithKind
      <4>5. g = With(f, n, TRUE)
        BY <4>2 DEF n
      <4> QED BY <4>3, <4>4, <4>5 DEF n
    <3>4. Length(g) = s.offset
      BY <2>7, <3>3, CacheAssumption DEF Length
    <3>5. Again(s)
      BY <2>7, <3>1 DEF Again
    <3> QED BY <2>7, <2>12, <2>13, <3>4, <3>5 DEF HonestOK
  <2>14. CASE ~r.append
    <3>1. f = [i \in 1..r.offset |-> TRUE]
      BY <1>6, <2>3, <2>11, <2>14 DEF HonestOK
    <3>2. place = r.offset + 1 /\ block = TRUE
      BY <2>11, <2>14
    <3> HIDE DEF place, block
    <3>3. g = [i \in 1..s.offset |-> TRUE]
      BY <1>8, <2>7, <2>9, <3>1, <3>2, OneMore
    <3> QED BY <2>7, <2>12, <2>14, <3>3 DEF HonestOK
  <2> QED BY <2>10, <2>13, <2>14
<1>24. CASE EndOfBody(p)
  <2>1. EndOfBodyMove(p, r, s)
    BY <1>0, <1>24, OwnMoves DEF r, s
  <2>2. /\ r.at = "body" /\ s.entry = r.entry /\ s.task = r.task /\ s.attempt = r.attempt
        /\ \/ r.offset = Blocks[r.entry] /\ s.at = "check" /\ s.clean = r.clean
           \/ ~s.clean
    BY <1>0, <1>3, <2>1 DEF EndOfBodyMove, Process
  <2>3. g = f
    BY <1>10, <1>24, <2>2 DEF EndOfBody
  <2> SUFFICES ASSUME s.clean PROVE HonestOK(s, g)
    BY <1>11
  <2>4. /\ r.clean /\ r.offset = Blocks[r.entry] /\ s.at = "check"
        /\ r.entry \in Entries
    BY <1>1, <1>9, <2>2
  <2>5. \/ f = [i \in 1..r.offset |-> TRUE]
        \/ Again(r) /\ Length(f) = r.offset
    BY <1>6, <2>2, <2>4 DEF HonestOK
  <2>6. Locked(s.entry, g) \/ (Again(s) /\ Length(g) >= Blocks[s.entry])
    BY <1>2, <2>2, <2>3, <2>4, <2>5 DEF Locked, Again
  <2> QED BY <2>4, <2>6 DEF HonestOK
<1>25. CASE Check(p)
  <2>1. CheckMove(p, r, s)
    BY <1>0, <1>25, OwnMoves DEF r, s
  <2>2. /\ r.at = "check" /\ s.entry = r.entry /\ s.task = r.task /\ s.attempt = r.attempt
        /\ s.clean = r.clean
        /\ s.at = "publish" \/ (s.at = "error" /\ ~Locked(r.entry, f))
    BY <1>0, <1>3, <2>1 DEF CheckMove, Process
  <2>3. g = f
    BY <1>10, <1>25, <2>2 DEF Check
  <2> QED BY <1>6, <1>11, <2>2, <2>3 DEF HonestOK, Again
<1>26. CASE Publish(p)
  <2>1. PublishMove(p, r, s)
    BY <1>0, <1>26, OwnMoves DEF r, s
  <2>2. r.at = "publish" /\ (f = Absent \/ s.at = "record")
    BY <1>0, <1>3, <2>1 DEF PublishMove, Process
  <2>3. Locked(r.entry, f) /\ r.entry \in Entries
    BY <1>1, <1>3, <1>9, <2>2 DEF PublishInv, At, r
  <2>4. f # Absent
    BY <2>3, LockedIsFile
  <2> QED BY <1>11, <2>2, <2>4
<1>27. CASE Retry(p)
  <2>1. RetryMove(p, r, s)
    BY <1>0, <1>27, OwnMoves DEF r, s
  <2>2. /\ r.at = "error" /\ s.entry = r.entry /\ s.task = r.task
        /\ s.attempt = r.attempt + 1 /\ s.clean = r.clean
        /\ s.at = IF r.attempt + 1 >= Tries(p) THEN "failed"
                  ELSE IF r.task = "stage" THEN "request" ELSE "attempt"
    BY <1>0, <2>1 DEF RetryMove, Process
  <2> SUFFICES ASSUME s.clean PROVE HonestOK(s, g)
    BY <1>11
  <2>3. Again(r) /\ Length(f) >= Blocks[r.entry]
    BY <1>6, <2>2 DEF HonestOK
  <2>4. Tries(p) = Attempts
    BY <1>3, <2>3 DEF Tries, Again, r
  <2>5. g = f
    BY <1>10, <1>27, <2>2, <2>3 DEF Retry, Again, r
  <2>6. Attempts \in Nat /\ Attempts > 0 /\ r.attempt = 0
    BY <2>3, CacheAssumption DEF Again
  <2>7. s.at = "failed" => Attempts = 1
    BY <2>2, <2>3, <2>4, <2>6 DEF Again
  <2>8. s.at \in {"failed", "attempt"}
    BY <2>2, <2>3 DEF Again
  <2> QED BY <2>2, <2>3, <2>5, <2>7, <2>8 DEF HonestOK, Again
<1> QED BY <1>12, <1>13, <1>14, <1>15, <1>16, <1>17, <1>18, <1>19, <1>20, <1>21, <1>22, <1>23,
           <1>24, <1>25, <1>26, <1>27 DEF CacheActions, Fetch

\* HonestInv is kept.
LEMMA HonestStep ==
    ASSUME OneFetcher, KindInv, PublishInv, HonestInv, BundleNext
    PROVE  HonestInv'
<1>1. UNCHANGED <<file, proc>> => HonestInv'
  BY HonestInvOK DEF HonestInv, At, Resumed, Here, Entry, Full
<1>2. ASSUME \A p \in Fetchers : HonestOK(proc'[p], file'[proc'[p].entry]["part"])
      PROVE  HonestInv'
  BY <1>2, Zenon DEF HonestInv, HonestOK, Resumed, Again, At, Here, Entry, Full
<1>3. ASSUME NEW p \in Fetchers, CacheActions(p) PROVE HonestInv'
  <2>1. \A q \in Fetchers : q = p
    BY DEF OneFetcher
  <2>2. HonestOK(proc[p], file[proc[p].entry]["part"])
    BY HonestInvOK
  <2>3. HonestOK(proc'[p], file'[proc'[p].entry]["part"])
    BY <1>3, <2>2, OwnHonest
  <2> QED BY <1>2, <2>1, <2>3
<1>4. ASSUME NEW p \in Fetchers, proc'[p].at \in {"idle", "busy", "next"}
      PROVE  HonestInv'
  <2>1. \A q \in Fetchers : q = p
    BY DEF OneFetcher
  <2>2. HonestOK(proc'[p], file'[proc'[p].entry]["part"])
    BY <1>4 DEF HonestOK
  <2> QED BY <1>2, <2>1, <2>2
<1>5. CASE PowerCut
  <2>1. \A p \in Fetchers : proc'[p].at = "idle"
    BY <1>5 DEF PowerCut, PowerLoss, Idle
  <2>2. \A p \in Fetchers : HonestOK(proc'[p], file'[proc'[p].entry]["part"])
    BY <2>1 DEF HonestOK
  <2> QED BY <1>2, <2>2
<1>6. CASE StartAudit \/ EndAudit \/ \E m \in Models : AuditFile(m)
  BY <1>1, <1>6 DEF StartAudit, EndAudit, AuditFile
<1>7. CASE BuildStep \/ Rest
  BY <1>1, <1>4, <1>5, <1>7, QuietMoves
<1> QED BY <1>3, <1>6, <1>7, Steps, CacheSteps
-----------------------------------------------------------------------------
(* With one process: receipts *)

\* A record that is new, or a receipt, is of what is there.
ReceiptMove ==
    /\ \A e \in sidecar' \ sidecar : Published(e) /\ file' = file
    /\ \A kind \in Reports :
           \/ report'[kind] = report[kind]
           \/ /\ file' = file /\ taken' = taken
              /\ report'[kind].complete => \A e \in report'[kind].wanted : OrTaken(e)

\* How receipts change in each step.
LEMMA ReceiptMoves ==
    ASSUME KindInv, GotInv, BundleNext
    PROVE  ReceiptMove
<1>1. /\ proc \in [Fetchers -> Process] /\ build \in BuildRecord /\ BuilderInv /\ StageInv
      /\ report \in [Reports -> [wanted : SUBSET Entries, complete : BOOLEAN]]
  BY BundleTypes DEF KindInv, DirectoryOK
<1>2. sidecar' \subseteq sidecar /\ report' = report => ReceiptMove
  BY DEF ReceiptMove
<1>3. ASSUME sidecar' = sidecar, file' = file, taken' = taken, NEW kind, NEW v,
             report' = [report EXCEPT ![kind] = v],
             v.complete => \A e \in v.wanted : OrTaken(e)
      PROVE  ReceiptMove
  <2>1. \A k \in Reports \ {kind} : report'[k] = report[k]
    BY <1>1, <1>3
  <2>2. kind \in Reports => report'[kind] = v
    BY <1>1, <1>3
  <2> QED BY <1>3, <2>1, <2>2 DEF ReceiptMove
<1>4. CASE CacheStep /\ UNCHANGED bundleVars
  <2>1. taken' = taken
    BY <1>4 DEF bundleVars
  <2>2. ASSUME NEW p \in Fetchers, Record(p) PROVE ReceiptMove
    <3>1. /\ report' = report /\ file' = file /\ At(p, "record")
          /\ sidecar' \subseteq sidecar \union {Entry(p)}
      BY <2>2 DEF Record
    <3>2. Published(Entry(p))
      BY <3>1 DEF GotInv
    <3> QED BY <3>1, <3>2 DEF ReceiptMove
  <2>3. ASSUME NEW p \in Fetchers, Finish(p) PROVE ReceiptMove
    <3>1. sidecar' = sidecar /\ file' = file
      BY <2>3 DEF Finish
    <3>2. CASE report' = report
      BY <1>2, <3>1, <3>2
    <3>3. CASE report' = [report EXCEPT ![proc[p].task] =
                             [wanted |-> proc[p].wanted,
                              complete |-> proc[p].got = proc[p].wanted]]
      <4> DEFINE v == [wanted |-> proc[p].wanted, complete |-> proc[p].got = proc[p].wanted]
      <4>1. v.complete => \A e \in v.wanted : OrTaken(e)
        BY DEF GotInv
      <4> HIDE DEF v
      <4>2. report' = [report EXCEPT ![proc[p].task] = v]
        BY <3>3 DEF v
      <4> QED BY <1>3, <2>1, <3>1, <4>1, <4>2
    <3> QED BY <2>3, <3>2, <3>3, Zenon DEF Finish
  <2>4. CASE EndAudit
    <3> DEFINE v == [wanted |-> audit.wanted, complete |-> audit.ok]
    <3>1. sidecar' = sidecar /\ file' = file /\ report' = [report EXCEPT !["audit"] = v]
      BY <2>4 DEF EndAudit
    <3>2. v.complete => \A e \in v.wanted : OrTaken(e)
      BY <2>4 DEF EndAudit, GotInv
    <3> HIDE DEF v
    <3> QED BY <1>3, <2>1, <3>1, <3>2
  <2>5. ASSUME NEW p \in Fetchers,
               Provision(p) \/ Acquire(p) \/ Index(p) \/ Stage(p) \/ GiveUp(p)
        PROVE  ReceiptMove
    BY <1>2, <2>5 DEF Provision, Acquire, Index, Stage, GiveUp
  <2>6. ASSUME NEW p \in Fetchers, Fetch(p), ~Record(p) PROVE ReceiptMove
    BY <1>2, <2>6 DEF Fetch, FetchModel, FetchArchive, Inspect, Quarantine, Answer, Interrupted,
       Block, EndOfBody, Check, Publish, Retry
  <2>7. CASE StartAudit \/ \E m \in Models : AuditFile(m)
    BY <1>2, <2>7 DEF StartAudit, AuditFile
  <2> QED BY <1>4, <2>2, <2>3, <2>4, <2>5, <2>6, <2>7 DEF CacheStep
<1>5. CASE BuildStep
  <2>1. ASSUME NEW p \in Fetchers, Fetched(p) PROVE ReceiptMove
    <3>1. sidecar' = sidecar /\ file' = file /\ taken' = taken
      BY <2>1 DEF Fetched
    <3>2. CASE build.asset \in Models
      <4>1. /\ proc[p].task = "build" /\ At(p, "next") /\ proc[p].todo = {}
            /\ report' = [report EXCEPT !["provision"] =
                             [wanted |-> {build.asset}, complete |-> TRUE]]
        BY <2>1, <3>2 DEF Fetched
      <4>2. build.at = "fetching"
        BY <1>1, <4>1 DEF BuilderInv, At
      <4>3. Published(build.asset)
        BY <3>2, <4>1, <4>2 DEF GotInv
      <4> QED BY <1>3, <3>1, <4>1, <4>3 DEF OrTaken
    <3>3. CASE build.asset \notin Models
      BY <1>2, <2>1, <3>1, <3>3 DEF Fetched
    <3> QED BY <3>2, <3>3
  <2>2. ASSUME NEW p \in Fetchers,
               \/ Build(p) \/ FetchFailed(p) \/ Unpack(p) \/ ProvisionSpeech(p)
               \/ Assemble(p) \/ Manifest(p) \/ BuildError(p) \/ Drop(p)
        PROVE  ReceiptMove
    BY <1>2, <2>2 DEF Build, FetchFailed, Unpack, ProvisionSpeech, Assemble, Manifest,
       BuildError, Drop
  <2>3. ASSUME NEW p \in Fetchers,
               \/ \E a \in Runtimes \union {Speech} : StreamRuntime(p, a)
               \/ Pack(p) \/ Extract(p) \/ Consume(p) \/ Relocate(p)
        PROVE  ReceiptMove
    BY <1>2, <2>3 DEF StreamRuntime, Pack, Extract, Consume, Relocate, cacheVars
  <2>4. ASSUME NEW p \in Fetchers,
               (\E m \in Models : Supply(p, m)) \/ (\E r \in Runtimes : FetchRuntime(p, r))
        PROVE  ReceiptMove
    BY <1>2, <2>4 DEF Supply, FetchRuntime, Want
  <2> QED BY <1>5, <2>1, <2>2, <2>3, <2>4 DEF BuildStep
<1>6. CASE Rest
  <2>1. sidecar' = sidecar /\ report' = report
    <3>1. CASE PowerCut \/ (\E p \in Fetchers : Kill(p)) \/ (\E m \in Models : Restore(m))
      BY <3>1 DEF PowerCut, PowerLoss, Kill, Crash, Restore
    <3>2. CASE \E b \in Bundles : Examine(b) \/ ChildDies(b)
      BY <3>2 DEF Examine, ChildDies, cacheVars
    <3>3. CASE \E p \in Fetchers : Qualify(p) \/ Qualified(p) \/ Retain(p)
      BY <3>3 DEF Qualify, Qualified, Retain, cacheVars
    <3>4. CASE Deliver \/ Wear \/ Purge \/ Smoke \/ Smoked \/ TimedOut \/ FieldCrash
      BY <3>4 DEF Deliver, Wear, Purge, Smoke, Smoked, TimedOut, FieldCrash, cacheVars
    <3> QED BY <1>6, <3>1, <3>2, <3>3, <3>4 DEF Rest
  <2> QED BY <1>2, <2>1
<1> QED BY <1>4, <1>5, <1>6, Steps

\* Receipts stay true.
LEMMA ReceiptStep ==
    ASSUME KindInv, PublishInv, GotInv, ReceiptsAreTrue, BundleNext
    PROVE  ReceiptsAreTrue'
<1>1. DestMove /\ ReceiptMove
  BY DestMoves, ReceiptMoves
<1>2. \A e \in Entries : OrTaken(e) => Keeping(e)
  BY <1>1 DEF DestMove, OrTaken, Published, Keeping, Locking
<1>3. /\ report \in [Reports -> [wanted : SUBSET Entries, complete : BOOLEAN]]
      /\ sidecar \subseteq Entries
  BY BundleTypes DEF KindInv, DirectoryOK
<1>4. file' = file /\ taken' = taken => \A e : OrTaken(e) => Keeping(e)
  BY DEF OrTaken, Published, Keeping, Locking
<1>5. ASSUME NEW kind \in Reports, report'[kind].complete, NEW e \in report'[kind].wanted
      PROVE  Keeping(e)
  <2>1. CASE report'[kind] = report[kind]
    <3>1. e \in Entries /\ OrTaken(e)
      BY <1>3, <1>5, <2>1 DEF ReceiptsAreTrue, OrTaken
    <3> QED BY <1>2, <3>1
  <2>2. CASE report'[kind] # report[kind]
    BY <1>1, <1>4, <1>5, <2>2 DEF ReceiptMove
  <2> QED BY <2>1, <2>2
<1>6. ASSUME NEW e \in sidecar' PROVE Locking(e)
  <2>1. CASE e \in sidecar
    BY <1>1, <1>3, <1>6, <2>1 DEF ReceiptsAreTrue, DestMove, Published, Locking
  <2>2. CASE e \notin sidecar
    BY <1>1, <1>6, <2>2 DEF ReceiptMove, Published, Locking
  <2> QED BY <2>1, <2>2
<1> QED BY <1>5, <1>6 DEF ReceiptsAreTrue, Keeping, Locking, Published, Locked

-----------------------------------------------------------------------------
(* The invariant, and what follows from it *)

\* The part that holds with one process that downloads.
Alone == PublishInv /\ GotInv /\ HonestInv /\ ReceiptsAreTrue

BundleInv ==
    /\ KindInv
    /\ ChildInv
    /\ StreamInv
    /\ ManifestInv
    /\ Placed
    /\ OneFetcher => Alone

\* What holds of one fetcher holds at first.
LEMMA AloneInit == BundleInit => Alone
<1> SUFFICES ASSUME BundleInit PROVE Alone
  OBVIOUS
<1>1. /\ proc = [p \in Fetchers |-> Idle] /\ build = NoBuild /\ audit = NoAudit
      /\ sidecar = {} /\ report = [kind \in Reports |-> [wanted |-> {}, complete |-> FALSE]]
  BY DEF BundleInit, CacheInit
<1>2. Idle.at = "idle" /\ Idle.task = "provision" /\ Idle.got = {} /\ Idle.open = "none"
  BY DEF Idle
<1>3. PublishInv
  BY <1>1, <1>2 DEF PublishInv, At
<1>4. GotInv
  BY <1>1, <1>2 DEF GotInv, At, NoBuild, NoAudit
<1>5. HonestInv
  BY <1>1, <1>2 DEF HonestInv, At
<1>6. ReceiptsAreTrue
  BY <1>1 DEF ReceiptsAreTrue
<1> QED BY <1>3, <1>4, <1>5, <1>6 DEF Alone

\* The invariant holds at first.
LEMMA BundleInvInit == BundleInit => BundleInv
BY KindInit, OtherInits, AloneInit DEF BundleInv

\* Every step keeps it.
LEMMA BundleInvNext == BundleInv /\ BundleNext => BundleInv'
<1> SUFFICES ASSUME BundleInv, BundleNext PROVE BundleInv'
  OBVIOUS
<1>1. KindInv' /\ ChildInv' /\ StreamInv' /\ ManifestInv' /\ Placed'
  BY KindStep, ChildStep, StreamStep, ManifestStep, PlacedStep DEF BundleInv, Alone
<1>2. ASSUME OneFetcher PROVE Alone'
  BY <1>2, PublishStep, GotStep, HonestStep, ReceiptStep DEF BundleInv, Alone
<1>3. OneFetcher' <=> OneFetcher
  BY DEF OneFetcher
<1> QED BY <1>1, <1>2, <1>3 DEF BundleInv

\* So does none.
LEMMA BundleInvStutters == BundleInv /\ UNCHANGED bundleState => BundleInv'
<1> SUFFICES ASSUME BundleInv, UNCHANGED bundleState PROVE BundleInv'
  OBVIOUS
<1>1. UNCHANGED <<file, sidecar, report, proc, audit, spare, build, made, tar, taken, package,
                  child, qualification, field, receipt>>
  BY DEF bundleState, cacheVars, bundleVars
<1>2. KindInv'
  BY <1>1 DEF BundleInv, KindInv, BundleTypeOK, CacheTypeOK, FetchInv, BuilderInv, StageInv
<1>3. ChildInv' /\ StreamInv' /\ ManifestInv' /\ Placed'
  BY <1>1 DEF BundleInv, ChildInv, StreamInv, Making, Packing, ManifestInv, Placed, Verified
<1>4. OneFetcher => Alone'
  <2> SUFFICES ASSUME OneFetcher PROVE Alone'
    OBVIOUS
  <2>1. Alone
    BY DEF BundleInv
  <2>2. PublishInv' /\ GotInv' /\ ReceiptsAreTrue'
    BY <1>1, <2>1 DEF Alone, PublishInv, GotInv, ReceiptsAreTrue, At, Entry, Here, Locked,
       Published, OrTaken
  <2>3. HonestInv'
    BY <1>1, <2>1 DEF Alone, HonestInv, At, Entry, Here, Full, Resumed
  <2> QED BY <2>2, <2>3 DEF Alone
<1>5. OneFetcher' <=> OneFetcher
  BY DEF OneFetcher
<1> QED BY <1>2, <1>3, <1>4, <1>5 DEF BundleInv

\* The invariant holds of every state, however many processes download.
THEOREM BundleIsInvariant == BundleSpec => []BundleInv
<1>1. BundleInv /\ [BundleNext]_bundleState => BundleInv'
  BY BundleInvNext, BundleInvStutters
<1> QED BY <1>1, BundleInvInit, PTL DEF BundleSpec

\* Directories, builds, packages and receipts keep their types.
THEOREM BundleTypesAreKept == BundleSpec => []BundleTypeOK
<1>1. BundleInv => BundleTypeOK
  BY DEF BundleInv, KindInv
<1> QED BY <1>1, BundleIsInvariant, PTL

\* A claim is made by verify_or_smoke when its own child has passed all its checks.
THEOREM ClaimsAreAlwaysEarned == BundleSpec => ClaimsAreEarned
<1>1. ASSUME BundleInv, BundleNext, receipt' # receipt /\ receipt'.claimed
      PROVE  child["field"].at = "passed" /\ child["field"].passed = CheckNames
  <2>1. ~NoReceipt.claimed
    BY DEF NoReceipt
  <2>2. \A status : [NoReceipt EXCEPT !.status = status].claimed = FALSE
    BY DEF NoReceipt
  <2>3. CASE CacheStep /\ UNCHANGED bundleVars
    BY <1>1, <2>3 DEF bundleVars
  <2>4. CASE BuildStep /\ UNCHANGED <<child, qualification, field, receipt>>
    BY <1>1, <2>4
  <2>5. CASE Rest
    <3>1. CASE Smoke
      BY <1>1, <2>2, <3>1 DEF Smoke
    <3>2. CASE TimedOut
      BY <1>1, <2>2, <3>2 DEF TimedOut
    <3>3. CASE Smoked
      <4>1. child["field"].at = "passed"
        <5> DEFINE said == qualification["field"]
                   status == IF child["field"].at = "passed" /\ said.status = "passed"
                             THEN "passed" ELSE "failed"
        <5>1. receipt'.claimed => status = "passed"
          BY <3>3 DEF Smoked
        <5>2. status = "passed" => child["field"].at = "passed"
          OBVIOUS
        <5> QED BY <1>1, <5>1, <5>2
      <4>2. "field" \in Bundles
        BY DEF Bundles
      <4> QED BY <1>1, <4>1, <4>2 DEF BundleInv, ChildInv
    <3>4. CASE \/ \E b \in Bundles : Examine(b) \/ ChildDies(b)
               \/ \E p \in Fetchers : Qualify(p) \/ Qualified(p) \/ Retain(p) \/ Kill(p)
      BY <1>1, <3>4 DEF Examine, ChildDies, Qualify, Qualified, Retain, Kill
    <3>5. CASE \/ \E m \in Models : Restore(m)
               \/ PowerCut \/ Deliver \/ Wear \/ Purge \/ FieldCrash
      BY <1>1, <3>5 DEF Restore, PowerCut, Deliver, Wear, Purge, FieldCrash
    <3> QED BY <2>5, <3>1, <3>2, <3>3, <3>4, <3>5 DEF Rest
  <2> QED BY <1>1, <2>3, <2>4, <2>5, Steps
<1>2. BundleInv /\ [BundleNext]_bundleState =>
          [receipt' # receipt /\ receipt'.claimed =>
               child["field"].at = "passed" /\ child["field"].passed = CheckNames]_bundleState
  BY <1>1
<1> QED BY <1>2, BundleIsInvariant, PTL DEF BundleSpec, ClaimsAreEarned

\* With one process a destination changes into the locked bytes, or a build removes it.
THEOREM PublishedIsAlwaysLocked == OneFetcher => (BundleSpec => PublishedIsLocked)
<1> SUFFICES ASSUME OneFetcher PROVE BundleSpec => PublishedIsLocked
  OBVIOUS
<1>1. ASSUME BundleInv, BundleNext
      PROVE  \A e \in Entries : file'[e]["dest"] \in {file[e]["dest"], Absent}
                                    \/ Locked(e, file'[e]["dest"])
  BY <1>1, DestMoves DEF BundleInv, Alone, DestMove
<1>2. UNCHANGED bundleState => UNCHANGED cacheVars
  BY DEF bundleState
<1>3. BundleInv /\ [BundleNext]_bundleState =>
          [\A e \in Entries : file'[e]["dest"] \in {file[e]["dest"], Absent}
                                  \/ Locked(e, file'[e]["dest"])]_cacheVars
  BY <1>1, <1>2
<1> QED BY <1>3, BundleIsInvariant, PTL DEF BundleSpec, PublishedIsLocked

\* With one process a fetch that meets no fault gets its file.
THEOREM HonestServersAlwaysSuffice == OneFetcher => (BundleSpec => []HonestServerSuffices)
<1> SUFFICES ASSUME OneFetcher PROVE BundleSpec => []HonestServerSuffices
  OBVIOUS
<1>1. BundleInv => HonestServerSuffices
  BY DEF BundleInv, Alone, HonestInv, HonestServerSuffices, At, Entry
<1> QED BY <1>1, BundleIsInvariant, PTL

\* With one process what is certified has the locked bytes.
THEOREM CertifiedIsAlwaysLocked == OneFetcher => (BundleSpec => []CertifiedIsLocked)
<1> SUFFICES ASSUME OneFetcher PROVE BundleSpec => []CertifiedIsLocked
  OBVIOUS
<1>1. ASSUME BundleInv PROVE CertifiedIsLocked
  <2>1. ReceiptsAreTrue
    BY <1>1 DEF BundleInv, Alone
  <2>2. PackagesAreWhole
    BY <1>1, ManifestsAreGood DEF BundleInv, Placed, PackagesAreWhole
  <2> QED BY <2>1, <2>2 DEF CertifiedIsLocked
<1> QED BY <1>1, BundleIsInvariant, PTL
-----------------------------------------------------------------------------
(* Sums over finite sets *)

\* What holds of a set when it holds of it without any one of its elements holds of
\* every subset of a finite set.
LEMMA Smaller ==
    ASSUME NEW T, IsFiniteSet(T), NEW Z,
           \A s \in SUBSET T : (\A x \in s : s \ {x} \in Z) => s \in Z
    PROVE  \A s \in SUBSET T : s \in Z
<1> DEFINE Bad == {s \in SUBSET T : s \notin Z}
<1> SUFFICES ASSUME Bad # {} PROVE FALSE
  OBVIOUS
<1>1. IsWellFoundedOn(StrictSubsetOrdering(T), FiniteSubsetsOf(T))
  BY FS_StrictSubsetOrderingWellFounded
<1>2. Bad \subseteq FiniteSubsetsOf(T)
  BY FS_Subset DEF FiniteSubsetsOf
<1>3. \E s \in Bad : \A u \in Bad : ~ (<<u, s>> \in StrictSubsetOrdering(T))
  <2> HIDE DEF Bad
  <2> QED BY <1>1, <1>2, WFMin
<1>4. PICK s \in Bad : \A u \in Bad : ~ (<<u, s>> \in StrictSubsetOrdering(T))
  BY <1>3
<1>5. ASSUME NEW x \in s PROVE s \ {x} \in Z
  <2>1. s \ {x} \in SUBSET T /\ s \ {x} \subseteq s /\ s \ {x} # s
    BY <1>5
  <2>2. <<s \ {x}, s>> \in StrictSubsetOrdering(T)
    BY <2>1 DEF StrictSubsetOrdering
  <2> QED BY <1>4, <2>1, <2>2
<1> QED BY <1>4, <1>5

\* What holds of 0 and of the successor of each number it holds of holds of all.
LEMMA Counting ==
    ASSUME NEW Z, 0 \in Z, \A n \in Nat : n \in Z => n + 1 \in Z
    PROVE  \A n \in Nat : n \in Z
<1> DEFINE Bad == {n \in Nat : n \notin Z}
           R == OpToRel(<, Nat)
<1> SUFFICES ASSUME Bad # {} PROVE FALSE
  OBVIOUS
<1>1. IsWellFoundedOn(R, Nat)
  BY NatLessThanWellFounded
<1>2. \A x, y \in Nat : <<x, y>> \in R <=> x < y
  BY DEF OpToRel
<1>3. Bad \subseteq Nat
  OBVIOUS
<1>4. \E n \in Bad : \A k \in Bad : ~ (<<k, n>> \in R)
  <2> HIDE DEF Bad, R
  <2> QED BY <1>1, <1>3, WFMin
<1>5. PICK n \in Bad : \A k \in Bad : ~ (<<k, n>> \in R)
  BY <1>4
<1> HIDE DEF R
<1>6. n \in Nat /\ n # 0
  BY <1>5
<1>7. n - 1 \in Nat /\ n - 1 < n /\ (n - 1) + 1 = n
  BY <1>6
<1>8. n - 1 \in Z
  BY <1>2, <1>5, <1>7
<1> QED BY <1>5, <1>7, <1>8

\* g is the sum of f over each subset of T, taken in the order of MapThenSumSet.
Pick(s) == CHOOSE x \in s : TRUE

IsSum(g, f, T) ==
    g = [s \in SUBSET T |-> IF s = {} THEN 0 ELSE f[Pick(s)] + g[s \ {Pick(s)}]]

\* It is one of them.
LEMMA PickOne == ASSUME NEW s, s # {} PROVE Pick(s) \in s
BY DEF Pick

\* Such a function exists: it is right for sets of n elements, for one n after the other.
LEMMA SumExists ==
    ASSUME NEW T, IsFiniteSet(T), NEW f \in [T -> Nat]
    PROVE  \E g : IsSum(g, f, T)
<1> DEFINE Right(g, n) ==
               \A s \in SUBSET T : Cardinality(s) <= n =>
                   g[s] = IF s = {} THEN 0 ELSE f[Pick(s)] + g[s \ {Pick(s)}]
           Z == {n \in Nat : \E g \in [SUBSET T -> Nat] : Right(g, n)}
<1>1. \A s \in SUBSET T : IsFiniteSet(s) /\ Cardinality(s) \in Nat
                              /\ Cardinality(s) <= Cardinality(T)
  BY FS_Subset, FS_CardinalityType
<1>2. \A s \in SUBSET T : s # {} =>
          /\ Pick(s) \in s /\ s \ {Pick(s)} \in SUBSET T
          /\ Cardinality(s \ {Pick(s)}) = Cardinality(s) - 1
          /\ f[Pick(s)] \in Nat
  BY <1>1, PickOne, FS_RemoveElement
<1>3. 0 \in Z
  <2> DEFINE g == [s \in SUBSET T |-> 0]
  <2>1. \A s \in SUBSET T : Cardinality(s) <= 0 => s = {}
    BY <1>1, FS_EmptySet
  <2>2. Right(g, 0)
    BY <2>1
  <2>3. g \in [SUBSET T -> Nat]
    OBVIOUS
  <2> QED BY <2>2, <2>3
<1>4. ASSUME NEW n \in Nat, n \in Z PROVE n + 1 \in Z
  <2>1. PICK g \in [SUBSET T -> Nat] : Right(g, n)
    BY <1>4
  <2> DEFINE h == [s \in SUBSET T |-> IF Cardinality(s) = n + 1
                                      THEN f[Pick(s)] + g[s \ {Pick(s)}] ELSE g[s]]
  <2>2. \A s \in SUBSET T : Cardinality(s) = n + 1 => s # {}
    BY <1>1, FS_EmptySet
  <2>3. ASSUME NEW s \in SUBSET T PROVE h[s] \in Nat
    BY <1>2, <2>2, <2>3
  <2>4. h \in [SUBSET T -> Nat]
    BY <2>3
  <2>5. ASSUME NEW s \in SUBSET T, Cardinality(s) <= n + 1
        PROVE  h[s] = IF s = {} THEN 0 ELSE f[Pick(s)] + h[s \ {Pick(s)}]
    <3>1. CASE s = {}
      <4>1. Cardinality(s) = 0
        BY <3>1, FS_EmptySet
      <4>2. Cardinality(s) <= n /\ Cardinality(s) # n + 1
        BY <4>1
      <4> QED BY <2>1, <3>1, <4>2
    <3>2. CASE s # {}
      <4> DEFINE r == s \ {Pick(s)}
      <4>1. r \in SUBSET T /\ Cardinality(r) = Cardinality(s) - 1 /\ Cardinality(s) \in Nat
        BY <1>1, <1>2, <3>2
      <4>2. h[r] = g[r]
        <5>1. Cardinality(r) # n + 1
          BY <2>5, <4>1
        <5> QED BY <4>1, <5>1
      <4>3. CASE Cardinality(s) = n + 1
        BY <3>2, <4>2, <4>3
      <4>4. CASE Cardinality(s) <= n
        BY <2>1, <3>2, <4>1, <4>2, <4>4
      <4> QED BY <2>5, <4>1, <4>3, <4>4
    <3> QED BY <3>1, <3>2
  <2>6. Right(h, n + 1)
    BY <2>5
  <2> HIDE DEF h, Right
  <2> QED BY <2>4, <2>6
<1>5. Cardinality(T) \in Nat
  BY FS_CardinalityType
<1>6. Cardinality(T) \in Z
  <2> HIDE DEF Z
  <2> QED BY <1>3, <1>4, <1>5, Counting
<1>7. PICK g \in [SUBSET T -> Nat] : Right(g, Cardinality(T))
  BY <1>6
<1>8. \A s \in SUBSET T : g[s] = IF s = {} THEN 0 ELSE f[Pick(s)] + g[s \ {Pick(s)}]
  BY <1>1, <1>7
<1>9. g = [s \in SUBSET T |-> g[s]]
  OBVIOUS
<1>10. g = [s \in SUBSET T |-> IF s = {} THEN 0 ELSE f[Pick(s)] + g[s \ {Pick(s)}]]
  BY <1>8, <1>9
<1> QED BY <1>10 DEF IsSum

\* Whichever element is taken first, the sum is the same.
LEMMA SumOfRest ==
    ASSUME NEW T, IsFiniteSet(T), NEW f \in [T -> Nat], NEW g, IsSum(g, f, T)
    PROVE  /\ g[{}] = 0
           /\ \A s \in SUBSET T : g[s] \in Nat
           /\ \A s \in SUBSET T : \A x \in s : g[s] = f[x] + g[s \ {x}]
<1>1. \A s \in SUBSET T : g[s] = IF s = {} THEN 0 ELSE f[Pick(s)] + g[s \ {Pick(s)}]
  BY DEF IsSum
<1>2. g[{}] = 0
  BY <1>1
<1>3. \A s \in SUBSET T : s # {} =>
          /\ Pick(s) \in s /\ f[Pick(s)] \in Nat /\ s \ {Pick(s)} \in SUBSET T
          /\ g[s] = f[Pick(s)] + g[s \ {Pick(s)}]
  BY <1>1, PickOne
<1>4. \A s \in SUBSET T : g[s] \in Nat
  <2> DEFINE Z == {s \in SUBSET T : g[s] \in Nat}
  <2>1. ASSUME NEW s \in SUBSET T, \A x \in s : s \ {x} \in Z PROVE s \in Z
    <3>1. CASE s = {}
      BY <1>2, <3>1
    <3>2. CASE s # {}
      <4>1. g[s \ {Pick(s)}] \in Nat
        BY <1>3, <2>1, <3>2
      <4> QED BY <1>3, <3>2, <4>1
    <3> QED BY <3>1, <3>2
  <2>2. \A s \in SUBSET T : s \in Z
    <3> HIDE DEF Z
    <3> QED BY <2>1, Smaller
  <2> QED BY <2>2
<1>5. \A s \in SUBSET T : \A x \in s : g[s] = f[x] + g[s \ {x}]
  <2> DEFINE Z == {s \in SUBSET T : \A x \in s : g[s] = f[x] + g[s \ {x}]}
  <2>1. ASSUME NEW s \in SUBSET T, \A x \in s : s \ {x} \in Z PROVE s \in Z
    <3> SUFFICES ASSUME NEW x \in s, x # Pick(s) PROVE g[s] = f[x] + g[s \ {x}]
      BY <1>3
    <3> DEFINE p == Pick(s)
               r == (s \ {p}) \ {x}
    <3>1. p \in s /\ g[s] = f[p] + g[s \ {p}]
      BY <1>3
    <3>2. g[s \ {p}] = f[x] + g[r]
      BY <2>1, <3>1
    <3>3. r = (s \ {x}) \ {p} /\ r \in SUBSET T
      OBVIOUS
    <3>4. g[s \ {x}] = f[p] + g[r]
      BY <2>1, <3>1, <3>3
    <3>5. f[p] \in Nat /\ f[x] \in Nat /\ g[r] \in Nat
      BY <1>4, <3>1, <3>3
    <3> HIDE DEF p, r
    <3> QED BY <3>1, <3>2, <3>4, <3>5
  <2>2. \A s \in SUBSET T : s \in Z
    <3> HIDE DEF Z
    <3> QED BY <2>1, Smaller
  <2> QED BY <2>2
<1> QED BY <1>2, <1>4, <1>5

\* A sum whose terms are no greater, but for one that is by at most d.
LEMMA SumIncreases ==
    ASSUME NEW T, IsFiniteSet(T), NEW f \in [T -> Nat],
           NEW k \in [T -> Nat],
           NEW g, IsSum(g, f, T), NEW h, IsSum(h, k, T),
           NEW x, NEW d \in Nat,
           \A m \in T : f[m] <= k[m] + (IF m = x THEN d ELSE 0)
    PROVE  g[T] <= h[T] + d
<1> DEFINE Z == {s \in SUBSET T : g[s] <= h[s] + (IF x \in s THEN d ELSE 0)}
<1>1. /\ g[{}] = 0 /\ h[{}] = 0
      /\ \A s \in SUBSET T : g[s] \in Nat /\ h[s] \in Nat
      /\ \A s \in SUBSET T : \A y \in s : g[s] = f[y] + g[s \ {y}]
      /\ \A s \in SUBSET T : \A y \in s : h[s] = k[y] + h[s \ {y}]
  <2>1. /\ g[{}] = 0 /\ \A s \in SUBSET T : g[s] \in Nat
        /\ \A s \in SUBSET T : \A y \in s : g[s] = f[y] + g[s \ {y}]
    BY SumOfRest
  <2>2. /\ h[{}] = 0 /\ \A s \in SUBSET T : h[s] \in Nat
        /\ \A s \in SUBSET T : \A y \in s : h[s] = k[y] + h[s \ {y}]
    BY SumOfRest
  <2> QED BY <2>1, <2>2
<1>2. ASSUME NEW s \in SUBSET T, \A y \in s : s \ {y} \in Z PROVE s \in Z
  <2>1. CASE s = {}
    BY <1>1, <2>1
  <2>2. CASE s # {}
    <3>1. PICK y \in s : TRUE
      BY <2>2
    <3> DEFINE r == s \ {y}
    <3>2. g[s] = f[y] + g[r] /\ h[s] = k[y] + h[r] /\ r \in SUBSET T
      BY <1>1
    <3>3. g[r] <= h[r] + (IF x \in r THEN d ELSE 0)
      BY <1>2
    <3>4. f[y] <= k[y] + (IF y = x THEN d ELSE 0)
      OBVIOUS
    <3>5. g[r] \in Nat /\ h[r] \in Nat /\ f[y] \in Nat /\ k[y] \in Nat
      BY <1>1, <3>2
    <3>6. x \in s <=> x \in r \/ y = x
      OBVIOUS
    <3>7. ~(x \in r /\ y = x)
      OBVIOUS
    <3> HIDE DEF r
    <3>8. g[s] <= h[s] + (IF x \in s THEN d ELSE 0)
      BY <3>2, <3>3, <3>4, <3>5, <3>6, <3>7
    <3> QED BY <3>8
  <2> QED BY <2>1, <2>2
<1>3. \A s \in SUBSET T : s \in Z
  <2> HIDE DEF Z
  <2> QED BY <1>2, Smaller
<1>4. T \in Z
  BY <1>3
<1>5. g[T] \in Nat /\ h[T] \in Nat
  BY <1>1
<1> QED BY <1>4, <1>5

\* A sum with one term.
LEMMA SumOfOne ==
    ASSUME NEW T, IsFiniteSet(T), NEW f \in [T -> Nat], NEW g, IsSum(g, f, T)
    PROVE  \A x \in T : (\A m \in T \ {x} : f[m] = 0) => g[T] = f[x]
<1>1. /\ g[{}] = 0
      /\ \A s \in SUBSET T : g[s] \in Nat
      /\ \A s \in SUBSET T : \A y \in s : g[s] = f[y] + g[s \ {y}]
  BY SumOfRest
<1> SUFFICES ASSUME NEW x \in T, \A m \in T \ {x} : f[m] = 0 PROVE g[T] = f[x]
  OBVIOUS
<1> DEFINE Z == {s \in SUBSET T : x \notin s => g[s] = 0}
<1>2. ASSUME NEW s \in SUBSET T, \A y \in s : s \ {y} \in Z PROVE s \in Z
  <2>1. CASE s = {}
    BY <1>1, <2>1
  <2>2. CASE s # {}
    <3> SUFFICES ASSUME x \notin s PROVE g[s] = 0
      OBVIOUS
    <3>1. PICK y \in s : TRUE
      BY <2>2
    <3>2. g[s] = f[y] + g[s \ {y}] /\ f[y] = 0 /\ g[s \ {y}] = 0
      BY <1>1, <1>2
    <3> QED BY <3>2
  <2> QED BY <2>1, <2>2
<1>3. \A s \in SUBSET T : s \in Z
  <2> HIDE DEF Z
  <2> QED BY <1>2, Smaller
<1>4. T \ {x} \in SUBSET T /\ x \notin T \ {x}
  OBVIOUS
<1>5. g[T \ {x}] = 0
  BY <1>3, <1>4
<1>6. g[T] = f[x] + 0 /\ f[x] \in Nat
  BY <1>1, <1>5
<1> QED BY <1>6

\* One of finitely many numbers is the greatest.
LEMMA GreatestExists ==
    ASSUME NEW T, IsFiniteSet(T), NEW f \in [T -> Nat]
    PROVE  \A s \in SUBSET T : s # {} => \E m \in s : \A n \in s : f[n] <= f[m]
<1> DEFINE Z == {s \in SUBSET T : s # {} => \E m \in s : \A n \in s : f[n] <= f[m]}
<1>1. ASSUME NEW s \in SUBSET T, \A y \in s : s \ {y} \in Z PROVE s \in Z
  <2> SUFFICES ASSUME s # {} PROVE \E m \in s : \A n \in s : f[n] <= f[m]
    OBVIOUS
  <2>1. PICK y \in s : TRUE
    OBVIOUS
  <2>2. CASE s \ {y} = {}
    BY <2>1, <2>2
  <2>3. CASE s \ {y} # {}
    <3>1. PICK m \in s \ {y} : \A n \in s \ {y} : f[n] <= f[m]
      BY <1>1, <2>1, <2>3
    <3>2. f[m] \in Nat /\ f[y] \in Nat /\ \A n \in s : f[n] \in Nat
      BY <2>1, <3>1
    <3>3. CASE f[y] <= f[m]
      BY <3>1, <3>3
    <3>4. CASE ~(f[y] <= f[m])
      <4>1. \A n \in s : f[n] <= f[y]
        BY <3>1, <3>2, <3>4
      <4> QED BY <2>1, <4>1
    <3> QED BY <3>3, <3>4
  <2> QED BY <2>2, <2>3
<1>2. \A s \in SUBSET T : s \in Z
  <2> HIDE DEF Z
  <2> QED BY <1>1, Smaller
<1> QED BY <1>2

\* Max of a set that has a greatest number.
LEMMA MaxOf ==
    ASSUME NEW S \in SUBSET Nat, NEW x \in S, \A y \in S : y <= x
    PROVE  Max(S) \in Nat /\ \A y \in S : y <= Max(S)
<1>1. \E m \in S : \A y \in S : m >= y
  OBVIOUS
<1>2. Max(S) \in S /\ \A y \in S : Max(S) >= y
  BY <1>1 DEF Max
<1> QED BY <1>2
SumOver(f, T) == MapThenSumSet(LAMBDA x : f[x], T)

\* MapThenSumSet of a function that is a number everywhere is such a sum.
LEMMA SumIs ==
    ASSUME NEW T, IsFiniteSet(T), NEW f, \A x \in T : f[x] \in Nat
    PROVE  \E g : IsSum(g, [x \in T |-> f[x]], T) /\ SumOver(f, T) = g[T]
<1> DEFINE h == [x \in T |-> f[x]]
           it == CHOOSE g : g = [s \in SUBSET T |->
                     IF s = {} THEN 0 ELSE f[Pick(s)] + g[s \ {Pick(s)}]]
<1>1. h \in [T -> Nat]
  OBVIOUS
<1>2. \E g : IsSum(g, h, T)
  <2> HIDE DEF h
  <2> QED BY <1>1, SumExists
<1>3. \A s \in SUBSET T : s # {} => h[Pick(s)] = f[Pick(s)]
  BY PickOne
<1>4. \E g : g = [s \in SUBSET T |-> IF s = {} THEN 0 ELSE f[Pick(s)] + g[s \ {Pick(s)}]]
  <2> HIDE DEF h
  <2> QED BY <1>2, <1>3 DEF IsSum
<1>5. it = [s \in SUBSET T |-> IF s = {} THEN 0 ELSE f[Pick(s)] + it[s \ {Pick(s)}]]
  BY <1>4
<1>6. IsSum(it, h, T)
  <2> HIDE DEF h, it
  <2> QED BY <1>3, <1>5 DEF IsSum
<1>7. SumOver(f, T) = it[T]
  BY DEF SumOver, MapThenSumSet, MapThenFoldSet, Pick
<1> QED BY <1>6, <1>7

\* The sum of five numbers.
LEMMA SumOfFive ==
    /\ IsFiniteSet(1..5)
    /\ \A f \in [1..5 -> Nat] : \A g : IsSum(g, f, 1..5) =>
           g[1..5] = f[5] + (f[4] + (f[3] + (f[2] + (f[1] + 0))))
<1>1. IsFiniteSet(1..5)
  <2>1. 1 \in Int /\ 5 \in Int
    OBVIOUS
  <2> QED BY <2>1, FS_Interval
<1>2. ASSUME NEW T, T = 1..5, NEW f \in [T -> Nat], NEW g, IsSum(g, f, T)
      PROVE  g[T] = f[5] + (f[4] + (f[3] + (f[2] + (f[1] + 0))))
  <2>1. /\ g[{}] = 0
        /\ \A s \in SUBSET T : g[s] \in Nat
        /\ \A s \in SUBSET T : \A i \in s : g[s] = f[i] + g[s \ {i}]
    <3>1. IsFiniteSet(T)
      BY <1>1, <1>2
    <3>2. f \in [T -> Nat] /\ IsSum(g, f, T)
      BY <1>2
    <3> QED BY <3>1, <3>2, SumOfRest
  <2>2. /\ T = {1, 2, 3, 4, 5}
        /\ {1, 2, 3, 4, 5} \ {5} = {1, 2, 3, 4}
        /\ {1, 2, 3, 4} \ {4} = {1, 2, 3}
        /\ {1, 2, 3} \ {3} = {1, 2}
        /\ {1, 2} \ {2} = {1}
        /\ {1} \ {1} = {}
    BY <1>2
  <2>3. g[T] = f[5] + g[{1, 2, 3, 4}]
    BY <2>1, <2>2
  <2>4. g[{1, 2, 3, 4}] = f[4] + g[{1, 2, 3}]
    BY <2>1, <2>2
  <2>5. g[{1, 2, 3}] = f[3] + g[{1, 2}]
    BY <2>1, <2>2
  <2>6. g[{1, 2}] = f[2] + g[{1}]
    BY <2>1, <2>2
  <2>7. g[{1}] = f[1] + g[{}]
    BY <2>1, <2>2
  <2> QED BY <2>1, <2>3, <2>4, <2>5, <2>6, <2>7
<1> QED BY <1>1, <1>2
-----------------------------------------------------------------------------
(* Where the bytes of the models are *)

\* From here on the build has made something of everything but models.
Streaming == Packing \/ build.at \in {"assemble", "relocate", "qualify", "child", "retain"}

In(place, m) == package[place].part[m] # Absent
InTar(m) == tar[m] # Absent

Clear(m) == ~InTar(m) /\ ~In("temp", m) /\ ~In("original", m) /\ ~In("relocated", m)
Double(m) == ~In("original", m) /\ ~In("relocated", m)
Single(m) == \/ ~InTar(m) /\ ~In("temp", m) /\ (~In("original", m) \/ ~In("relocated", m))
             \/ Double(m) /\ (~InTar(m) \/ ~In("temp", m))

\* There is another model as large as x, or there is nothing of any other.
Beside(x) ==
    \/ \E d \in Models \ {x} : Blocks[d] >= Blocks[x]
    \/ \A m \in Models \ {x} : Clear(m)

\* No model has more than one place, but for one that is not the largest or is alone.
RoomInv ==
    \/ \A m \in Models : Single(m)
    \/ \E x \in Models :
           Double(x) /\ Beside(x) /\ \A m \in Models \ {x} : Single(m)

\* A second build does not come as far as the first that has made everything.
OnceInv ==
    /\ Speech \notin made => \A m \in Models : Clear(m)
    /\ Streaming => Speech \in made

\* The place of each model while a build goes from one to the next.
PlaceInv ==
    /\ Packing \/ build.at = "assemble" =>
           /\ \A m \in Models : Double(m)
           /\ \A m \in Models \ {build.asset} : ~InTar(m)
           /\ \A m \in (build.left \intersect Models) \ {build.asset} : ~In("temp", m)
           /\ \A m \in Models \ build.left, n \in build.left \intersect Models :
                  Blocks[n] <= Blocks[m]
           /\ build.asset \in Models =>
                  /\ \A n \in build.left : Blocks[n] <= Blocks[build.asset]
                  /\ build.at \in {"fetching", "pack"} => ~InTar(build.asset)
                  /\ build.at # "consume" => ~In("temp", build.asset)
                  /\ build.at \in {"extract", "consume"} =>
                         \A n \in Names : file[build.asset][n] = Absent
    /\ build.at = "relocate" =>
           \A m \in Models : ~InTar(m) /\ ~In("temp", m) /\ ~In("relocated", m)
    /\ build.at \in {"qualify", "child", "retain"} =>
           \A m \in Models : ~InTar(m) /\ ~In("temp", m) /\ ~In("original", m)

\* While a build runs, no process does anything else.
BusyInv == build.at # "none" => \A p \in Fetchers : proc[p].task = "build"

Roomy == RoomInv /\ OnceInv /\ PlaceInv /\ BusyInv
\* Of no model is there more than before.
Fewer ==
    \A m \in Models :
        /\ tar'[m] # Absent => tar[m] # Absent
        /\ \A k \in {"temp", "original", "relocated"} :
               package'[k].part[m] # Absent => package[k].part[m] # Absent

RoomMove ==
    /\ made \subseteq made'
    /\ Fewer \/ (Streaming /\ Streaming')
    /\ Streaming' => Streaming \/ Speech \in made' \ made

\* A build that is not among the models, or is none.
LEMMA RoomBefore ==
    ASSUME \/ build'.at \in {"none", "runtime", "unpack", "speech"}
           \/ build'.at = "fetching" /\ build'.asset \notin Models,
           made \subseteq made', Fewer
    PROVE  PlaceInv' /\ RoomMove
<1>1. ~Streaming' /\ ~(Packing \/ build.at = "assemble")'
  BY DEF Streaming, Packing
<1>2. PlaceInv'
  BY <1>1 DEF PlaceInv, Packing
<1> QED BY <1>1, <1>2 DEF RoomMove

\* A step that leaves build and models alone.
LEMMA RoomStays ==
    ASSUME PlaceInv, UNCHANGED <<build, tar, made>>,
           \A k \in {"temp", "original", "relocated"} : package'[k] = package[k],
           build.at \in {"extract", "consume"} => file' = file
    PROVE  PlaceInv' /\ RoomMove
<1>1. Fewer
  BY DEF Fewer
<1>2. Streaming' = Streaming
  BY DEF Streaming, Packing
<1>3. PlaceInv'
  BY DEF PlaceInv, Packing, In, InTar, Double
<1> QED BY <1>1, <1>2, <1>3 DEF RoomMove

\* A fetcher's step, and one of the audit.
LEMMA RoomCache ==
    ASSUME KindInv, PlaceInv, BusyInv, CacheStep, UNCHANGED bundleVars
    PROVE  PlaceInv' /\ RoomMove
<1>1. UNCHANGED <<build, tar, made, package>>
  BY DEF bundleVars
<1>2. CASE \E p \in Fetchers : CacheActions(p)
  <2>1. PICK p \in Fetchers : CacheActions(p)
    BY <1>2
  <2>2. proc[p].at # "busy"
    BY <2>1, NotBusy
  <2>3. build.at \notin {"extract", "consume"}
    BY <2>2 DEF BusyInv, KindInv, BuilderInv
  <2> QED BY <1>1, <2>3, RoomStays
<1>3. CASE StartAudit \/ EndAudit \/ (\E m \in Models : AuditFile(m))
  <2>1. file' = file
    BY <1>3 DEF StartAudit, EndAudit, AuditFile
  <2> QED BY <1>1, <2>1, RoomStays
<1> QED BY <1>2, <1>3, CacheSteps

\* A build that dies leaves no more in the packages than there was.
LEMMA RoomDie ==
    ASSUME KindInv, NEW p \in Fetchers, Die(p), tar' = tar, made \subseteq made'
    PROVE  PlaceInv' /\ RoomMove
<1>1. build'.at = "none"
  BY DEF Die, NoBuild
<1>2. package \in [Places -> Package]
  BY BundleTypes DEF KindInv, WorkOK
<1>3. package' = [package EXCEPT !["temp"] = NoPackage] \/ package' = package
  BY DEF Die
<1>4. \A m \in Models : package'["temp"].part[m] # Absent => package["temp"].part[m] # Absent
  BY <1>2, <1>3 DEF NoPackage, Nothing, Assets, Places
<1>5. \A k \in {"original", "relocated"} : package'[k] = package[k]
  BY <1>2, <1>3 DEF Places
<1>6. Fewer
  BY <1>4, <1>5 DEF Fewer
<1> QED BY <1>1, <1>6, RoomBefore

\* The children, the other machine, and what ends everything.
LEMMA RoomRest ==
    ASSUME KindInv, PlaceInv, Rest
    PROVE  PlaceInv' /\ RoomMove
<1>1. build \in BuildRecord /\ package \in [Places -> Package]
  BY BundleTypes DEF KindInv, WorkOK
<1> DEFINE Same == \A k \in {"temp", "original", "relocated"} : package'[k] = package[k]
<1>2. package' = package => Same
  OBVIOUS
<1>3. ASSUME NEW v, NEW k \in {"payload", "field"}, package' = [package EXCEPT ![k] = v]
      PROVE  Same
  BY <1>1, <1>3 DEF Places
<1>4. ASSUME build'.at = "none", UNCHANGED <<tar, made>>, Same
      PROVE  PlaceInv' /\ RoomMove
  <2>1. Fewer
    BY <1>4 DEF Fewer
  <2> QED BY <1>4, <2>1, RoomBefore
<1>5. ASSUME build.at \in {"qualify", "child"}, build'.at \in {"child", "retain"},
             UNCHANGED <<tar, made, package>>
      PROVE  PlaceInv' /\ RoomMove
  <2>1. Fewer
    BY <1>5 DEF Fewer
  <2>2. PlaceInv'
    BY <1>5 DEF PlaceInv, Packing, In, InTar
  <2> QED BY <1>5, <2>1, <2>2 DEF RoomMove, Streaming
<1> HIDE DEF Same
<1>6. CASE Deliver \/ Wear \/ Purge \/ \E m \in Models : Restore(m)
  <2>1. \E v : package' = [package EXCEPT !["field"] = v]
    BY <1>6 DEF Deliver, Wear, Purge, Restore
  <2>2. UNCHANGED <<build, tar, made, file>>
    BY <1>6 DEF Deliver, Wear, Purge, Restore, cacheVars
  <2>3. Same
    BY <1>3, <2>1
  <2> QED BY <2>2, <2>3, RoomStays DEF Same
<1>7. CASE \/ \E b \in Bundles : Examine(b) \/ ChildDies(b)
           \/ Smoke \/ Smoked \/ TimedOut \/ FieldCrash
  <2>1. UNCHANGED <<build, tar, made, file, package>>
    BY <1>7 DEF Examine, ChildDies, Smoke, Smoked, TimedOut, FieldCrash, cacheVars
  <2> QED BY <2>1, RoomStays
<1>8. CASE \E p \in Fetchers : Qualify(p)
  <2>1. build.at = "qualify" /\ build'.at = "child"
    BY <1>1, <1>8 DEF Qualify, By, Proceed, BuildRecord
  <2>2. UNCHANGED <<tar, made, package>>
    BY <1>8 DEF Qualify
  <2> QED BY <1>5, <2>1, <2>2
<1>9. CASE \E p \in Fetchers : Qualified(p)
  <2>1. PICK p \in Fetchers : Qualified(p)
    BY <1>9
  <2>2. build.at = "child" /\ UNCHANGED <<tar, made>>
    BY <2>1 DEF Qualified, By
  <2>3. CASE child["relocated"].at = "passed"
    <3>1. build'.at = "retain" /\ package' = package
      BY <1>1, <2>1, <2>3 DEF Qualified, Proceed, BuildRecord
    <3> QED BY <1>5, <2>2, <3>1
  <2>4. CASE child["relocated"].at # "passed"
    <3>1. Die(p)
      BY <2>1, <2>4 DEF Qualified
    <3> QED BY <2>2, <3>1, RoomDie
  <2> QED BY <2>3, <2>4
<1>10. CASE \E p \in Fetchers : Retain(p)
  <2>1. /\ \E v : package' = [package EXCEPT !["payload"] = v]
        /\ build' = NoBuild /\ UNCHANGED <<tar, made>>
    BY <1>10 DEF Retain
  <2>2. Same
    BY <1>3, <2>1
  <2> QED BY <1>4, <2>1, <2>2 DEF NoBuild
<1>11. CASE PowerCut
  BY <1>2, <1>4, <1>11 DEF PowerCut, NoBuild
<1>12. CASE \E p \in Fetchers : Kill(p)
  <2>1. UNCHANGED <<tar, made, file, package>> /\ (build' = build \/ build'.at = "none")
    BY <1>12 DEF Kill, Crash, NoBuild
  <2>2. CASE build' = build
    BY <2>1, <2>2, RoomStays
  <2>3. CASE build'.at = "none"
    BY <1>2, <1>4, <2>1, <2>3
  <2> QED BY <2>1, <2>2, <2>3
<1> QED BY <1>6, <1>7, <1>8, <1>9, <1>10, <1>11, <1>12 DEF Rest
\* A build that goes on to the next stage with what it has.
LEMMA Proceeds ==
    ASSUME KindInv, NEW stage, Proceed(stage)
    PROVE  build'.at = stage /\ build'.asset = build.asset /\ build'.left = build.left
BY BundleTypes DEF KindInv, BuildRecord, Proceed

\* What the stages of the build that assemble the package do with the models.
LEMMA RoomBuild ==
    ASSUME KindInv, StreamInv, PlaceInv, OnceInv, BuildStep
    PROVE  PlaceInv' /\ RoomMove
<1>1. /\ build \in BuildRecord /\ package \in [Places -> Package] /\ tar \in Parts
      /\ file \in Files /\ made \subseteq Runtimes \union {Speech}
      /\ BuilderInv /\ StageInv
  BY BundleTypes DEF KindInv, WorkOK, DirectoryOK
<1>2. /\ Models \subseteq Assets /\ Absent \notin Models
      /\ \A m \in Models : m \notin Runtimes \union {Speech}
      /\ {"temp", "original", "relocated"} \subseteq Places
  BY BundleAssumption DEF Assets, Places
<1>3. ASSUME Streaming, Streaming', made' = made PROVE RoomMove
  BY <1>3 DEF RoomMove
<1>4. ASSUME UNCHANGED <<tar, package>> PROVE Fewer
  BY <1>4 DEF Fewer
<1>5. ASSUME NEW p \in Fetchers, Build(p) PROVE PlaceInv' /\ RoomMove
  <2>1. build'.at = "runtime" /\ UNCHANGED <<tar, made, package>>
    BY <1>5 DEF Build
  <2> QED BY <1>4, <2>1, RoomBefore
<1>6. ASSUME NEW p \in Fetchers, FetchFailed(p) \/ BuildError(p) PROVE PlaceInv' /\ RoomMove
  BY <1>6, RoomDie DEF FetchFailed, BuildError
<1>7. ASSUME NEW p \in Fetchers, Fetched(p) PROVE PlaceInv' /\ RoomMove
  <2>1. build.at = "fetching" /\ UNCHANGED <<tar, made, package>>
    BY <1>1, <1>7 DEF Fetched, BuilderInv, At
  <2>2. CASE build.asset \notin Models
    <3>1. build'.at = "unpack"
      BY <1>7, <2>2, Proceeds DEF Fetched
    <3> QED BY <1>4, <2>1, <3>1, RoomBefore
  <2>3. CASE build.asset \in Models
    <3>1. build'.at = "pack" /\ build'.asset = build.asset /\ build'.left = build.left
      BY <1>7, <2>3, Proceeds DEF Fetched
    <3>2. PlaceInv'
      BY <2>1, <2>3, <3>1 DEF PlaceInv, Packing, In, InTar, Double
    <3> QED BY <1>3, <2>1, <2>3, <3>1, <3>2 DEF Streaming, Packing
  <2> QED BY <2>2, <2>3
<1>8. ASSUME NEW p \in Fetchers, Unpack(p) PROVE PlaceInv' /\ RoomMove
  <2>1. CASE build.asset \in made
    BY <1>8, <2>1, RoomDie DEF Unpack
  <2>2. CASE build.asset \notin made
    <3>1. build.asset \in Runtimes
      BY <1>1, <1>8 DEF Unpack, By, StageInv
    <3>2. /\ tar' = [tar EXCEPT ![build.asset] = Made] /\ package' = package
          /\ made \subseteq made'
          /\ build' = [build EXCEPT
                 !.left = @ \ {build.asset},
                 !.at = IF build.left \intersect Runtimes = {build.asset}
                        THEN "speech" ELSE "runtime"]
      BY <1>8, <2>2 DEF Unpack
    <3>3. build'.at \in {"speech", "runtime"}
      BY <1>1, <3>2 DEF BuildRecord
    <3>4. \A m \in Models : tar'[m] = tar[m]
      BY <1>1, <1>2, <3>1, <3>2 DEF Parts
    <3>5. Fewer
      BY <3>2, <3>4 DEF Fewer
    <3> QED BY <3>2, <3>3, <3>5, RoomBefore
  <2> QED BY <2>1, <2>2
<1>9. ASSUME NEW p \in Fetchers, ProvisionSpeech(p) PROVE PlaceInv' /\ RoomMove
  <2>1. CASE Speech \in made
    BY <1>9, <2>1, RoomDie DEF ProvisionSpeech
  <2>2. CASE Speech \notin made
    <3>1. /\ tar' = [tar EXCEPT ![Speech] = Made] /\ package' = package
          /\ made' = made \union {Speech}
          /\ build' = [build EXCEPT !.left = Assets, !.at = "assemble"]
      BY <1>9, <2>2 DEF ProvisionSpeech
    <3>2. build'.at = "assemble" /\ build'.left = Assets /\ build'.asset = build.asset
      BY <1>1, <3>1 DEF BuildRecord
    <3>3. \A m \in Models : tar'[m] = tar[m]
      BY <1>1, <1>2, <3>1 DEF Parts
    <3>4. build.asset \notin Models
      BY <1>1, <1>9 DEF ProvisionSpeech, By, StageInv
    <3>5. \A m \in Models : Clear(m)
      BY <2>2 DEF OnceInv
    <3>6. PlaceInv'
      BY <1>2, <3>1, <3>2, <3>3, <3>4, <3>5 DEF PlaceInv, Packing, In, InTar, Double, Clear
    <3>7. Fewer
      BY <3>1, <3>3 DEF Fewer
    <3> QED BY <2>2, <3>1, <3>6, <3>7 DEF RoomMove
  <2> QED BY <2>1, <2>2
<1>10. ASSUME NEW p \in Fetchers, Assemble(p) PROVE PlaceInv' /\ RoomMove
  <2>1. CASE package["original"].here
    BY <1>10, <2>1, RoomDie DEF Assemble
  <2>2. CASE ~package["original"].here
    <3>1. /\ build.at = "assemble" /\ Proceed("stream") /\ UNCHANGED <<tar, made>>
          /\ package' = [package EXCEPT !["temp"] = [NoPackage EXCEPT !.here = TRUE]]
      BY <1>10, <2>2 DEF Assemble, By
    <3>2. build'.at = "stream" /\ build'.left = build.left /\ build'.asset = build.asset
      BY <3>1, Proceeds
    <3>3. /\ package'["original"] = package["original"]
          /\ package'["relocated"] = package["relocated"]
          /\ \A m \in Models : package'["temp"].part[m] = Absent
      BY <1>1, <1>2, <3>1 DEF NoPackage, Nothing
    <3>4. build.asset \notin Models
      BY <1>1, <3>1 DEF StageInv
    <3>5. PlaceInv'
      BY <3>1, <3>2, <3>3, <3>4 DEF PlaceInv, Packing, In, InTar, Double
    <3> QED BY <1>3, <3>1, <3>2, <3>5 DEF Streaming, Packing
  <2> QED BY <2>1, <2>2
<1>11. ASSUME NEW p \in Fetchers, NEW a \in Runtimes \union {Speech}, StreamRuntime(p, a)
       PROVE  PlaceInv' /\ RoomMove
  <2>1. build.at = "stream" /\ UNCHANGED <<tar, made, package>> /\ a \notin Models
    BY <1>2, <1>11 DEF StreamRuntime, By
  <2>2. build'.at = "extract" /\ build'.asset = a /\ build'.left = build.left
    BY <1>1, <1>11 DEF StreamRuntime, BuildRecord
  <2>3. build.asset \notin Models
    BY <1>1, <2>1 DEF StageInv
  <2>4. PlaceInv'
    BY <2>1, <2>2, <2>3 DEF PlaceInv, Packing, In, InTar, Double
  <2> QED BY <1>3, <2>1, <2>2, <2>4 DEF Streaming, Packing
<1>12. ASSUME NEW p \in Fetchers, NEW m \in Models, Supply(p, m)
       PROVE  PlaceInv' /\ RoomMove
  <2>1. /\ build.at = "stream" /\ UNCHANGED <<tar, made, package>>
        /\ build.left \subseteq Models /\ m \in build.left
        /\ \A n \in build.left : Blocks[n] <= Blocks[m]
    BY <1>12 DEF Supply, By, Want
  <2>2. build'.at = "fetching" /\ build'.asset = m /\ build'.left = build.left
    BY <1>1, <1>12 DEF Supply, Want, BuildRecord
  <2>3. build.asset \notin Models
    BY <1>1, <2>1 DEF StageInv
  <2>4. PlaceInv'
    BY <2>1, <2>2, <2>3 DEF PlaceInv, Packing, In, InTar, Double
  <2> QED BY <1>3, <2>1, <2>2, <2>4 DEF Streaming, Packing
<1>13. ASSUME NEW p \in Fetchers, NEW r \in Runtimes, FetchRuntime(p, r)
       PROVE  PlaceInv' /\ RoomMove
  <2>1. UNCHANGED <<tar, made, package>>
    BY <1>13 DEF FetchRuntime, Want
  <2>2. build'.at = "fetching" /\ build'.asset = r /\ r \notin Models
    BY <1>1, <1>2, <1>13 DEF FetchRuntime, Want, BuildRecord
  <2> QED BY <1>4, <2>1, <2>2, RoomBefore
<1>14. ASSUME NEW p \in Fetchers, Pack(p) PROVE PlaceInv' /\ RoomMove
  <2>1. /\ build.at = "pack" /\ Proceed("drop") /\ UNCHANGED <<made, package>>
        /\ tar' = [tar EXCEPT ![build.asset] = Packed(build.asset)]
    BY <1>14 DEF Pack, By
  <2>2. build'.at = "drop" /\ build'.asset = build.asset /\ build'.left = build.left
    BY <2>1, Proceeds
  <2>3. build.asset \in Models /\ \A m \in Models \ {build.asset} : tar'[m] = tar[m]
    BY <1>1, <1>2, <2>1 DEF StageInv, Parts
  <2>4. PlaceInv'
    BY <2>1, <2>2, <2>3 DEF PlaceInv, Packing, In, InTar, Double
  <2> QED BY <1>3, <2>1, <2>2, <2>4 DEF Streaming, Packing
<1>15. ASSUME NEW p \in Fetchers, Drop(p) PROVE PlaceInv' /\ RoomMove
  <2>1. /\ build.at = "drop" /\ Proceed("extract") /\ UNCHANGED <<tar, made, package>>
        /\ file' = [file EXCEPT ![build.asset] = [n \in Names |-> Absent]]
    BY <1>15 DEF Drop, By
  <2>2. build'.at = "extract" /\ build'.asset = build.asset /\ build'.left = build.left
    BY <2>1, Proceeds
  <2>3. build.asset \in Models /\ \A n \in Names : file'[build.asset][n] = Absent
    BY <1>1, <2>1 DEF StageInv, Files, Entries
  <2>4. PlaceInv'
    BY <2>1, <2>2, <2>3 DEF PlaceInv, Packing, In, InTar, Double
  <2> QED BY <1>3, <2>1, <2>2, <2>4 DEF Streaming, Packing
<1>16. ASSUME NEW p \in Fetchers, Extract(p) PROVE PlaceInv' /\ RoomMove
  <2>1. /\ build.at = "extract" /\ Proceed("consume") /\ UNCHANGED <<tar, made, file>>
        /\ package' = [package EXCEPT !["temp"].part[build.asset] = tar[build.asset]]
    BY <1>16 DEF Extract, By, cacheVars
  <2>2. build'.at = "consume" /\ build'.asset = build.asset /\ build'.left = build.left
    BY <2>1, Proceeds
  <2>3. /\ package'["original"] = package["original"]
        /\ package'["relocated"] = package["relocated"]
        /\ package'["temp"].part = [package["temp"].part EXCEPT ![build.asset] = tar[build.asset]]
        /\ package["temp"].part \in Parts
    BY <1>1, <1>2, <2>1 DEF Package
  <2>4. \A m \in Models \ {build.asset} : package'["temp"].part[m] = package["temp"].part[m]
    BY <1>2, <2>3 DEF Parts
  <2> HIDE DEF Names
  <2>5. PlaceInv'
    BY <2>1, <2>2, <2>3, <2>4 DEF PlaceInv, Packing, In, InTar, Double
  <2> QED BY <1>3, <2>1, <2>2, <2>5 DEF Streaming, Packing
<1>17. ASSUME NEW p \in Fetchers, Consume(p) PROVE PlaceInv' /\ RoomMove
  <2> DEFINE left == build.left \ {build.asset}
             stage == IF left = {} THEN "manifest" ELSE "stream"
  <2>1. /\ build.at = "consume" /\ UNCHANGED <<made, package>>
        /\ tar' = [tar EXCEPT ![build.asset] = Absent]
        /\ build' = [at |-> stage, asset |-> Absent, left |-> left]
    BY <1>17, Zenon DEF Consume, By
  <2>2. /\ stage \in {"manifest", "stream"} /\ left = build.left \ {build.asset}
        /\ build.asset \in build.left /\ build.left \subseteq Assets
    BY <1>1, <2>1 DEF StageInv, BuildRecord
  <2> HIDE DEF left, stage
  <2>3. build'.at = stage /\ build'.left = left /\ build'.asset = Absent
    BY <2>1
  <2>4. \A m \in Models : tar'[m] = IF m = build.asset THEN Absent ELSE tar[m]
    BY <1>1, <1>2, <2>1 DEF Parts
  <2>5. Packing /\ Packing'
    BY <2>1, <2>2, <2>3 DEF Packing
  <2>6. \A m \in Models : Double(m) /\ (m # build.asset => ~InTar(m))
    BY <2>5 DEF PlaceInv
  <2>7. \A m \in (build.left \intersect Models) \ {build.asset} : ~In("temp", m)
    BY <2>5 DEF PlaceInv
  <2>8. ASSUME NEW m \in Models \ left, NEW n \in left \intersect Models
        PROVE  Blocks[n] <= Blocks[m]
    BY <2>2, <2>5 DEF PlaceInv
  <2>9. PlaceInv'
    <3>1. \A m \in Models : Double(m)' /\ ~InTar(m)'
      BY <2>1, <2>4, <2>6 DEF Double, In, InTar
    <3>2. \A m \in left \intersect Models : ~In("temp", m)'
      BY <2>1, <2>2, <2>7 DEF In
    <3> QED BY <1>2, <2>2, <2>3, <2>8, <3>1, <3>2 DEF PlaceInv
  <2> QED BY <1>3, <2>1, <2>5, <2>9 DEF Streaming
<1>18. ASSUME NEW p \in Fetchers, Manifest(p) PROVE PlaceInv' /\ RoomMove
  <2> DEFINE k == [package["temp"] EXCEPT !.manifest = package["temp"].part]
  <2>1. CASE ~Verified(k)
    BY <1>18, <2>1, RoomDie DEF Manifest
  <2>2. CASE Verified(k)
    <3>1. /\ build.at = "manifest" /\ Proceed("relocate") /\ UNCHANGED <<tar, made>>
          /\ package' = [package EXCEPT !["original"] = k, !["temp"] = NoPackage]
      BY <1>18, <2>2 DEF Manifest, By
    <3>2. build'.at = "relocate"
      BY <3>1, Proceeds
    <3> HIDE DEF k
    <3>3. /\ package'["relocated"] = package["relocated"]
          /\ \A m \in Models : package'["temp"].part[m] = Absent
      BY <1>1, <1>2, <3>1 DEF NoPackage, Nothing, Places
    <3>4. build.asset \notin Models
      BY <1>1, <3>1 DEF StageInv
    <3>5. PlaceInv'
      BY <3>1, <3>2, <3>3, <3>4 DEF PlaceInv, Packing, In, InTar, Double
    <3> QED BY <1>3, <3>1, <3>2, <3>5 DEF Streaming, Packing
  <2> QED BY <2>1, <2>2
<1>19. ASSUME NEW p \in Fetchers, Relocate(p) PROVE PlaceInv' /\ RoomMove
  <2>1. /\ build.at = "relocate" /\ Proceed("qualify") /\ UNCHANGED <<tar, made>>
        /\ package' = [package EXCEPT !["relocated"] = package["original"],
                                      !["original"] = NoPackage]
    BY <1>19 DEF Relocate, By
  <2>2. build'.at = "qualify"
    BY <2>1, Proceeds
  <2>3. /\ package'["temp"] = package["temp"]
        /\ \A m \in Models : package'["original"].part[m] = Absent
    BY <1>1, <1>2, <2>1 DEF NoPackage, Nothing, Places
  <2>4. PlaceInv'
    BY <2>1, <2>2, <2>3 DEF PlaceInv, Packing, In, InTar
  <2> QED BY <1>3, <2>1, <2>2, <2>4 DEF Streaming, Packing
<1> QED BY <1>5, <1>6, <1>7, <1>8, <1>9, <1>10, <1>11, <1>12, <1>13, <1>14, <1>15, <1>16, <1>17,
           <1>18, <1>19 DEF BuildStep
\* The model at hand is as large as any that is left; if there is none that is not
\* left, nothing has been made of the others.
LEMMA LargestFirst ==
    ASSUME KindInv, PlaceInv, build.asset \in Models
    PROVE  /\ Packing /\ Beside(build.asset)
           /\ \A m \in Models : Double(m)
           /\ \A m \in Models \ {build.asset} : ~InTar(m)
<1>1. StageInv
  BY DEF KindInv
<1>2. build.asset \in build.left /\ Packing
  BY <1>1 DEF StageInv, Packing
<1>3. /\ \A m \in Models : Double(m)
      /\ \A m \in Models \ {build.asset} : ~InTar(m)
      /\ \A m \in (build.left \intersect Models) \ {build.asset} : ~In("temp", m)
      /\ \A m \in Models \ build.left : Blocks[build.asset] <= Blocks[m]
  BY <1>2 DEF PlaceInv
<1>4. CASE Models \subseteq build.left
  <2>1. ASSUME NEW m \in Models \ {build.asset} PROVE Clear(m)
    <3>1. m \in (build.left \intersect Models) \ {build.asset}
      BY <1>4, <2>1
    <3>2. ~InTar(m) /\ ~In("temp", m) /\ Double(m)
      BY <1>3, <2>1, <3>1
    <3> QED BY <3>2 DEF Clear, Double
  <2>2. Beside(build.asset)
    BY <2>1 DEF Beside
  <2>3. (\A m \in Models : Double(m)) /\ \A m \in Models \ {build.asset} : ~InTar(m)
    BY <1>3
  <2> QED BY <1>2, <2>2, <2>3
<1>5. CASE ~(Models \subseteq build.left)
  <2>1. PICK d \in Models \ build.left : TRUE
    BY <1>5
  <2>2. d # build.asset /\ Blocks[build.asset] <= Blocks[d]
    BY <1>2, <1>3, <2>1
  <2>3. Blocks[build.asset] \in Nat /\ Blocks[d] \in Nat
    BY <2>1, CacheAssumption DEF Entries
  <2>4. Blocks[d] >= Blocks[build.asset]
    BY <2>2, <2>3
  <2> QED BY <1>2, <1>3, <2>1, <2>2, <2>4 DEF Beside
<1> QED BY <1>2, <1>3, <1>4, <1>5

\* The order of the build leaves room for one model besides those in the package.
LEMMA PlaceGivesRoom ==
    ASSUME KindInv, PlaceInv, Streaming
    PROVE  RoomInv
<1>1. CASE build.at \in {"relocate", "qualify", "child", "retain"}
  BY <1>1 DEF PlaceInv, RoomInv, Single
<1>2. CASE Packing \/ build.at = "assemble"
  <2>1. /\ \A m \in Models : Double(m)
        /\ \A m \in Models \ {build.asset} : ~InTar(m)
    BY <1>2 DEF PlaceInv
  <2>2. \A m \in Models \ {build.asset} : Single(m)
    BY <2>1 DEF Single
  <2>3. CASE build.asset \notin Models
    BY <2>2, <2>3 DEF RoomInv
  <2>4. CASE build.asset \in Models
    BY <2>1, <2>2, <2>4, LargestFirst DEF RoomInv
  <2> QED BY <2>3, <2>4
<1> QED BY <1>1, <1>2 DEF Streaming

\* With less of each model there is room as before.
LEMMA FewerNeedsNoRoom ==
    ASSUME RoomInv, Fewer
    PROVE  RoomInv'
<1>1. \A m \in Models : /\ Single(m) => Single(m)'
                        /\ Double(m) => Double(m)'
                        /\ Clear(m) => Clear(m)'
  BY DEF Fewer, Single, Double, Clear, In, InTar
<1>2. CASE \A m \in Models : Single(m)
  BY <1>1, <1>2 DEF RoomInv
<1>3. CASE ~(\A m \in Models : Single(m))
  <2>1. PICK x \in Models : Double(x) /\ Beside(x) /\ \A m \in Models \ {x} : Single(m)
    BY <1>3 DEF RoomInv
  <2>2. Double(x)' /\ \A m \in Models \ {x} : Single(m)'
    BY <1>1, <2>1
  <2>3. Beside(x)'
    BY <1>1, <2>1 DEF Beside
  <2> QED BY <2>1, <2>2, <2>3 DEF RoomInv
<1> QED BY <1>2, <1>3

\* With one process a build is all that is done, until it ends.
LEMMA BusyStep ==
    ASSUME OneFetcher, KindInv, BusyInv, BundleNext
    PROVE  BusyInv'
<1>1. proc \in [Fetchers -> Process] /\ build \in BuildRecord /\ FetchInv
  BY BundleTypes DEF KindInv
<1>2. ASSUME NEW p \in Fetchers, build'.at # "none" => proc'[p].task = "build"
      PROVE  BusyInv'
  BY <1>2 DEF OneFetcher, BusyInv
<1>3. ASSUME proc' = proc, build.at = "none" => build'.at = "none" PROVE BusyInv'
  BY <1>3 DEF BusyInv
<1>4. ASSUME NEW p \in Fetchers, Die(p) PROVE BusyInv'
  BY <1>4 DEF Die, NoBuild, BusyInv
<1>5. CASE CacheStep /\ UNCHANGED bundleVars
  <2>1. build' = build
    BY <1>5 DEF bundleVars
  <2>2. ASSUME NEW p \in Fetchers, CacheActions(p) PROVE BusyInv'
    <3>1. FetchOK(proc[p]) /\ proc[p].at # "busy"
      BY <1>1, <2>2, FetchInvOK, NotBusy
    <3>2. proc'[p].task = "build" <=> proc[p].task = "build"
      BY <1>1, <2>2, <3>1, OwnKind
    <3> QED BY <1>2, <2>1, <3>2 DEF BusyInv
  <2>3. CASE StartAudit \/ EndAudit \/ (\E m \in Models : AuditFile(m))
    BY <1>3, <2>1, <2>3 DEF StartAudit, EndAudit, AuditFile
  <2> QED BY <1>5, <2>2, <2>3, CacheSteps
<1>6. CASE BuildStep
  <2>1. ASSUME NEW p \in Fetchers, Build(p) PROVE BusyInv'
    <3>1. proc'[p].task = "build"
      BY <1>1, <2>1 DEF Build, Idle
    <3> QED BY <1>2, <3>1
  <2>2. ASSUME NEW p \in Fetchers, proc[p].task = "build",
               \/ proc' = proc
               \/ \E s : proc' = [proc EXCEPT ![p].at = s]
               \/ \E e : proc' = [proc EXCEPT ![p].at = "next", ![p].wanted = e,
                                              ![p].todo = e, ![p].got = {}]
        PROVE  BusyInv'
    <3>1. p \in DOMAIN proc /\ {"at", "task", "wanted", "todo", "got"} \subseteq DOMAIN proc[p]
      BY <1>1 DEF Process
    <3>2. ASSUME NEW s, proc' = [proc EXCEPT ![p].at = s] PROVE proc'[p].task = "build"
      BY <2>2, <3>1, <3>2
    <3>3. ASSUME NEW e, proc' = [proc EXCEPT ![p].at = "next", ![p].wanted = e,
                                             ![p].todo = e, ![p].got = {}]
          PROVE  proc'[p].task = "build"
      BY <2>2, <3>1, <3>3
    <3>4. proc'[p].task = "build"
      BY <2>2, <3>2, <3>3
    <3> QED BY <1>2, <3>4
  <2>3. ASSUME NEW p \in Fetchers, Drop(p) PROVE BusyInv'
    <3>1. proc[p].task = "build"
      BY <2>3 DEF Drop, By
    <3>2. proc' = [q \in Fetchers |->
              IF q # p /\ Entry(q) = build.asset /\ proc[q].open # "none"
              THEN [proc[q] EXCEPT !.open = "lost"] ELSE proc[q]]
      BY <2>3 DEF Drop
    <3>3. proc'[p] = proc[p]
      BY <3>2
    <3> QED BY <1>2, <3>1, <3>3
  <2>4. ASSUME NEW p \in Fetchers, Fetched(p) PROVE BusyInv'
    BY <2>2, <2>4 DEF Fetched
  <2>5. ASSUME NEW p \in Fetchers, FetchFailed(p) \/ BuildError(p) PROVE BusyInv'
    BY <1>4, <2>5 DEF FetchFailed, BuildError
  <2>6. ASSUME NEW p \in Fetchers,
               Unpack(p) \/ ProvisionSpeech(p) \/ Assemble(p) \/ Manifest(p)
        PROVE  BusyInv'
    <3>1. Die(p) \/ (proc[p].task = "build" /\ proc' = proc)
      BY <2>6 DEF Unpack, ProvisionSpeech, Assemble, Manifest, By
    <3> QED BY <1>4, <2>2, <3>1
  <2>7. ASSUME NEW p \in Fetchers,
               \/ \E a \in Runtimes \union {Speech} : StreamRuntime(p, a)
               \/ Pack(p) \/ Extract(p) \/ Consume(p) \/ Relocate(p)
        PROVE  BusyInv'
    <3>1. proc[p].task = "build" /\ proc' = proc
      BY <2>7 DEF StreamRuntime, Pack, Extract, Consume, Relocate, By, cacheVars
    <3> QED BY <2>2, <3>1
  <2>8. ASSUME NEW p \in Fetchers,
               (\E m \in Models : Supply(p, m)) \/ (\E r \in Runtimes : FetchRuntime(p, r))
        PROVE  BusyInv'
    <3>1. proc[p].task = "build" /\ \E a, e : Want(p, a, e)
      BY <2>8 DEF Supply, FetchRuntime, By
    <3>2. \E e : proc' = [proc EXCEPT ![p].at = "next", ![p].wanted = e,
                                      ![p].todo = e, ![p].got = {}]
      BY <3>1 DEF Want
    <3> QED BY <2>2, <3>1, <3>2
  <2> QED BY <1>6, <2>1, <2>3, <2>4, <2>5, <2>6, <2>7, <2>8 DEF BuildStep
<1>7. CASE Rest
  <2>1. CASE \/ \E b \in Bundles : Examine(b) \/ ChildDies(b)
             \/ \E m \in Models : Restore(m)
             \/ Deliver \/ Wear \/ Purge \/ Smoke \/ Smoked \/ TimedOut \/ FieldCrash
    BY <1>3, <2>1 DEF Examine, ChildDies, Restore, Deliver, Wear, Purge, Smoke, Smoked,
       TimedOut, FieldCrash, cacheVars
  <2>2. CASE PowerCut \/ \E p \in Fetchers : Retain(p)
    BY <2>2 DEF PowerCut, Retain, NoBuild, BusyInv
  <2>3. CASE \E p \in Fetchers : Qualify(p)
    <3>1. PICK p \in Fetchers : Qualify(p)
      BY <2>3
    <3>2. proc'[p].task = "build"
      BY <3>1 DEF Qualify, By, cacheVars
    <3> QED BY <1>2, <3>2
  <2>4. CASE \E p \in Fetchers : Qualified(p)
    <3>1. PICK p \in Fetchers : Qualified(p)
      BY <2>4
    <3>2. Die(p) \/ proc'[p].task = "build"
      BY <3>1 DEF Qualified, By
    <3> QED BY <1>2, <1>4, <3>2
  <2>5. CASE \E p \in Fetchers : Kill(p)
    <3>1. PICK p \in Fetchers : Kill(p)
      BY <2>5
    <3>2. CASE proc[p].task = "build"
      BY <3>1, <3>2 DEF Kill, NoBuild, BusyInv
    <3>3. CASE proc[p].task # "build"
      BY <3>1, <3>3 DEF Kill, BusyInv
    <3> QED BY <3>2, <3>3
  <2> QED BY <1>7, <2>1, <2>2, <2>3, <2>4, <2>5 DEF Rest
<1> QED BY <1>5, <1>6, <1>7, Steps

\* There is room at first.
LEMMA RoomyInit == BundleInit => Roomy
<1> SUFFICES ASSUME BundleInit PROVE Roomy
  OBVIOUS
<1>1. build.at = "none" /\ tar = Nothing /\ package = [k \in Places |-> NoPackage]
  BY DEF BundleInit, NoBuild
<1>2. \A m \in Models : Clear(m)
  BY <1>1 DEF Clear, In, InTar, Nothing, NoPackage, Places, Assets
<1>3. RoomInv
  BY <1>2 DEF RoomInv, Single, Clear
<1>4. ~Packing /\ ~Streaming
  BY <1>1 DEF Packing, Streaming
<1>5. OnceInv /\ PlaceInv /\ BusyInv
  BY <1>1, <1>2, <1>4 DEF OnceInv, PlaceInv, BusyInv
<1> QED BY <1>3, <1>5 DEF Roomy

\* Every step leaves room.
LEMMA RoomyNext ==
    ASSUME OneFetcher, BundleInv, Roomy, BundleNext
    PROVE  Roomy'
<1>1. KindInv /\ KindInv' /\ StreamInv
  BY BundleInvNext DEF BundleInv
<1>2. PlaceInv' /\ RoomMove
  <2>1. CASE CacheStep /\ UNCHANGED bundleVars
    BY <1>1, <2>1, RoomCache DEF Roomy
  <2>2. CASE BuildStep
    BY <1>1, <2>2, RoomBuild DEF Roomy
  <2>3. CASE Rest
    BY <1>1, <2>3, RoomRest DEF Roomy
  <2> QED BY <2>1, <2>2, <2>3, Steps
<1>3. BusyInv'
  BY <1>1, BusyStep DEF Roomy
<1>4. RoomInv'
  <2>1. CASE Fewer
    BY <2>1, FewerNeedsNoRoom DEF Roomy
  <2>2. CASE Streaming'
    <3>1. KindInv' /\ PlaceInv' /\ Streaming' => RoomInv'
      BY PlaceGivesRoom, PTL
    <3> QED BY <1>1, <1>2, <2>2, <3>1
  <2> QED BY <1>2, <2>1, <2>2 DEF RoomMove
<1>5. OnceInv'
  <2>1. Streaming' => Speech \in made'
    BY <1>2 DEF RoomMove, Roomy, OnceInv
  <2>2. ASSUME Speech \notin made' PROVE \A m \in Models : Clear(m)'
    <3>1. Speech \notin made /\ ~Streaming
      BY <1>2, <2>2 DEF RoomMove, Roomy, OnceInv
    <3>2. Fewer /\ \A m \in Models : Clear(m)
      BY <1>2, <3>1 DEF RoomMove, Roomy, OnceInv
    <3> QED BY <3>2 DEF Fewer, Clear, In, InTar
  <2> QED BY <2>1, <2>2 DEF OnceInv
<1> QED BY <1>2, <1>3, <1>4, <1>5 DEF Roomy

\* So does none.
LEMMA RoomyStutters ==
    ASSUME Roomy, UNCHANGED bundleState
    PROVE  Roomy'
<1>1. UNCHANGED <<file, proc, build, made, tar, package>>
  BY DEF bundleState, cacheVars, bundleVars
<1>2. PlaceInv' /\ Fewer /\ RoomMove
  BY <1>1, RoomStays DEF Roomy, Fewer
<1>3. BusyInv' /\ OnceInv'
  BY <1>1 DEF Roomy, BusyInv, OnceInv, Streaming, Packing, Clear, In, InTar
<1> QED BY <1>2, <1>3, FewerNeedsNoRoom DEF Roomy

\* With one process there is always room.
THEOREM RoomIsInvariant == OneFetcher => (BundleSpec => []Roomy)
<1> SUFFICES ASSUME OneFetcher PROVE BundleSpec => []Roomy
  OBVIOUS
<1>1. BundleInv /\ Roomy /\ [BundleNext]_bundleState => Roomy'
  BY RoomyNext, RoomyStutters
<1> QED BY <1>1, BundleIsInvariant, RoomyInit, PTL DEF BundleSpec
\* What a model has on the disk, by its places.
LEMMA HeldIs ==
    ASSUME KindInv, NEW m \in Models
    PROVE  /\ \A i \in 1..5 : Sizes(m)[i] \in Nat
           /\ Held(m) \in Nat
           /\ Held(m) = Sizes(m)[1] + Sizes(m)[2] + Sizes(m)[3] + Sizes(m)[4] + Sizes(m)[5]
<1>1. /\ file \in Files /\ tar \in Parts /\ package \in [Places -> Package]
  BY BundleTypes DEF KindInv, DirectoryOK, WorkOK
<1>2. Raw(m) \in Nat
  BY <1>1, PackedKind
<1>3. \A c \in Content : Bytes(c) \in Nat
  BY DEF Content, Bytes
<1>4. tar[m] \in Content
  BY <1>1 DEF Parts, Assets
<1>5. \A k \in Places : package[k].part[m] \in Content
  BY <1>1 DEF Package, Parts, Assets
<1>6. \A i \in 1..5 : Sizes(m)[i] \in Nat
  <2>1. /\ Bytes(tar[m]) \in Nat
        /\ Bytes(package["temp"].part[m]) \in Nat
        /\ Bytes(package["original"].part[m]) \in Nat
        /\ Bytes(package["relocated"].part[m]) \in Nat
    BY <1>3, <1>4, <1>5 DEF Places
  <2>2. (IF build.asset = m THEN Raw(m) ELSE 0) \in Nat
    BY <1>2
  <2>3. \A i \in 1..5 : i = 1 \/ i = 2 \/ i = 3 \/ i = 4 \/ i = 5
    OBVIOUS
  <2> QED BY <2>1, <2>2, <2>3 DEF Sizes
<1>7. Held(m) = SumOver(Sizes(m), 1..5)
  BY DEF Held, SumOver
<1> DEFINE f == [i \in 1..5 |-> Sizes(m)[i]]
<1>8. f \in [1..5 -> Nat] /\ \A i \in 1..5 : f[i] = Sizes(m)[i]
  BY <1>6
<1>9. IsFiniteSet(1..5)
  BY SumOfFive
<1> HIDE DEF f
<1>10. \E g : IsSum(g, f, 1..5) /\ Held(m) = g[1..5]
  BY <1>6, <1>7, <1>9, SumIs DEF f
<1>11. Held(m) = f[5] + (f[4] + (f[3] + (f[2] + (f[1] + 0))))
  BY <1>8, <1>10, SumOfFive
<1>12. /\ f[1] = Sizes(m)[1] /\ f[2] = Sizes(m)[2] /\ f[3] = Sizes(m)[3]
       /\ f[4] = Sizes(m)[4] /\ f[5] = Sizes(m)[5]
       /\ f[1] \in Nat /\ f[2] \in Nat /\ f[3] \in Nat /\ f[4] \in Nat /\ f[5] \in Nat
  BY <1>8
<1> QED BY <1>6, <1>11, <1>12

\* Where it is not, it has nothing.
LEMMA NothingThere ==
    ASSUME NEW m \in Models
    PROVE  /\ build.asset # m => Sizes(m)[1] = 0
           /\ (\A n \in Names : file[m][n] = Absent) => Sizes(m)[1] = 0
           /\ ~InTar(m) => Sizes(m)[2] = 0
           /\ ~In("temp", m) => Sizes(m)[3] = 0
           /\ ~In("original", m) => Sizes(m)[4] = 0
           /\ ~In("relocated", m) => Sizes(m)[5] = 0
<1>1. (\A n \in Names : file[m][n] = Absent) => Raw(m) = 0
  <2>1. {"dest", "part", "invalid"} = Names
    BY DEF Names
  <2> SUFFICES ASSUME \A n \in Names : file[m][n] = Absent PROVE Raw(m) = 0
    OBVIOUS
  <2>2. /\ Length(file[m]["dest"]) = 0 /\ Length(file[m]["part"]) = 0
        /\ Length(file[m]["invalid"]) = 0
    BY <2>1 DEF Length
  <2> QED BY <2>2 DEF Raw
<1> QED BY <1>1 DEF Sizes, Bytes, InTar, In

\* With room, each model but one has its size on the disk at most, and that one has
\* twice as much and is not the largest or is alone.
LEMMA HeldIsBounded ==
    ASSUME KindInv, Roomy, \A m \in Models, i \in 1..5 : Sizes(m)[i] <= Blocks[m]
    PROVE  \/ \A m \in Models : Held(m) <= Blocks[m]
           \/ \E x \in Models :
                  /\ Held(x) <= 2 * Blocks[x]
                  /\ \A m \in Models \ {x} : Held(m) <= Blocks[m]
                  /\ \/ \E d \in Models \ {x} : Blocks[d] >= Blocks[x]
                     \/ \A m \in Models \ {x} : Held(m) = 0
<1>1. \A m \in Models : Blocks[m] \in Nat
  BY CacheAssumption DEF Entries
<1>2. ASSUME NEW m \in Models
      PROVE  /\ Sizes(m)[1] \in Nat /\ Sizes(m)[2] \in Nat /\ Sizes(m)[3] \in Nat
             /\ Sizes(m)[4] \in Nat /\ Sizes(m)[5] \in Nat /\ Blocks[m] \in Nat
             /\ Sizes(m)[1] <= Blocks[m] /\ Sizes(m)[2] <= Blocks[m]
             /\ Sizes(m)[3] <= Blocks[m] /\ Sizes(m)[4] <= Blocks[m]
             /\ Sizes(m)[5] <= Blocks[m]
             /\ Held(m) = Sizes(m)[1] + Sizes(m)[2] + Sizes(m)[3] + Sizes(m)[4]
                              + Sizes(m)[5]
  BY <1>1, <1>2, HeldIs
<1>3. ASSUME NEW m \in Models, m # build.asset
      PROVE  /\ Single(m) => Held(m) <= Blocks[m]
             /\ Double(m) => Held(m) <= 2 * Blocks[m]
             /\ Clear(m) => Held(m) = 0
  <2>1. Sizes(m)[1] = 0
    BY <1>3, NothingThere
  <2>2. Clear(m) => Sizes(m)[2] = 0 /\ Sizes(m)[3] = 0 /\ Sizes(m)[4] = 0 /\ Sizes(m)[5] = 0
    BY NothingThere DEF Clear
  <2>3. Double(m) => Sizes(m)[4] = 0 /\ Sizes(m)[5] = 0
    BY NothingThere DEF Double
  <2>4. Single(m) =>
            \/ Sizes(m)[2] = 0 /\ Sizes(m)[3] = 0 /\ (Sizes(m)[4] = 0 \/ Sizes(m)[5] = 0)
            \/ Sizes(m)[4] = 0 /\ Sizes(m)[5] = 0 /\ (Sizes(m)[2] = 0 \/ Sizes(m)[3] = 0)
    BY NothingThere DEF Single, Double
  <2> QED BY <1>2, <2>1, <2>2, <2>3, <2>4
<1>4. CASE build.asset \notin Models
  <2>1. CASE \A m \in Models : Single(m)
    BY <1>3, <1>4, <2>1
  <2>2. CASE ~(\A m \in Models : Single(m))
    <3>1. PICK x \in Models : Double(x) /\ Beside(x) /\ \A m \in Models \ {x} : Single(m)
      BY <2>2 DEF Roomy, RoomInv
    <3>2. Held(x) <= 2 * Blocks[x] /\ \A m \in Models \ {x} : Held(m) <= Blocks[m]
      BY <1>3, <1>4, <3>1
    <3>3. \/ \E d \in Models \ {x} : Blocks[d] >= Blocks[x]
          \/ \A m \in Models \ {x} : Held(m) = 0
      BY <1>3, <1>4, <3>1 DEF Beside
    <3> QED BY <3>1, <3>2, <3>3
  <2> QED BY <2>1, <2>2
<1>5. CASE build.asset \in Models
  <2> DEFINE x == build.asset
  <2>1. /\ Packing /\ Beside(x) /\ Double(x)
        /\ \A m \in Models \ {x} : Double(m) /\ ~InTar(m)
    BY <1>5, LargestFirst DEF Roomy
  <2>2. \A m \in Models \ {x} : Held(m) <= Blocks[m]
    <3>1. \A m \in Models \ {x} : Single(m)
      BY <2>1 DEF Single
    <3> QED BY <1>3, <3>1
  <2>3. \/ \E d \in Models \ {x} : Blocks[d] >= Blocks[x]
        \/ \A m \in Models \ {x} : Held(m) = 0
    BY <1>3, <2>1 DEF Beside
  <2>4. Held(x) <= 2 * Blocks[x]
    <3>1. Sizes(x)[4] = 0 /\ Sizes(x)[5] = 0
      BY <1>5, <2>1, NothingThere DEF Double
    <3>2. build.at \in {"fetching", "pack", "drop", "extract", "consume"}
      BY <1>5 DEF KindInv, StageInv
    <3>3. CASE build.at \in {"fetching", "pack", "drop"}
      <4>1. ~In("temp", x)
        BY <1>5, <2>1, <3>3 DEF Roomy, PlaceInv
      <4>2. Sizes(x)[3] = 0
        BY <1>5, <4>1, NothingThere
      <4> QED BY <1>2, <1>5, <3>1, <4>2
    <3>4. CASE build.at \in {"extract", "consume"}
      <4>1. \A n \in Names : file[x][n] = Absent
        BY <1>5, <2>1, <3>4 DEF Roomy, PlaceInv
      <4>2. Sizes(x)[1] = 0
        BY <1>5, <4>1, NothingThere
      <4> QED BY <1>2, <1>5, <3>1, <4>2
    <3> QED BY <3>2, <3>3, <3>4
  <2> QED BY <1>5, <2>2, <2>3, <2>4
<1> QED BY <1>4, <1>5

\* The disk is bounded where there is room.
LEMMA RoomIsEnough ==
    ASSUME KindInv, Roomy, Models # {}
    PROVE  DiskIsBounded
<1> DEFINE largest == CHOOSE m \in Models : \A n \in Models : Blocks[n] <= Blocks[m]
           total == MapThenSumSet(LAMBDA m : Blocks[m], Models)
           others == {0} \union {Blocks[n] : n \in Models \ {largest}}
           second == Max(others)
           held == MapThenSumSet(Held, Models)
           most == Max({2 * Blocks[largest], total + second})
<1> SUFFICES ASSUME \A m \in Models, i \in 1..5 : Sizes(m)[i] <= Blocks[m]
             PROVE  held <= most
  BY DEF DiskIsBounded
<1> DEFINE b == [m \in Models |-> Blocks[m]]
           h == [m \in Models |-> Held(m)]
<1>1. IsFiniteSet(Models)
  <2>1. Models \subseteq Assets
    BY DEF Assets
  <2> QED BY <2>1, BundleAssumption, FS_Subset
<1>2. \A m \in Models : Blocks[m] \in Nat /\ Held(m) \in Nat
  BY CacheAssumption, HeldIs DEF Entries
<1>3. b \in [Models -> Nat] /\ h \in [Models -> Nat]
  BY <1>2
<1>4. \A m \in Models : b[m] = Blocks[m] /\ h[m] = Held(m)
  OBVIOUS
<1>5. largest \in Models /\ \A n \in Models : Blocks[n] <= Blocks[largest]
  <2>1. \E m \in Models : \A n \in Models : b[n] <= b[m]
    <3> HIDE DEF b
    <3> QED BY <1>1, <1>3, GreatestExists
  <2>2. \E m \in Models : \A n \in Models : Blocks[n] <= Blocks[m]
    BY <1>4, <2>1
  <2> QED BY <2>2
<1>6. \E g : IsSum(g, b, Models) /\ total = g[Models]
  <2>1. total = SumOver(Blocks, Models)
    BY DEF SumOver
  <2> HIDE DEF total
  <2> QED BY <1>1, <1>2, <2>1, SumIs
<1>7. \E g : IsSum(g, h, Models) /\ held = g[Models]
  <2> DEFINE it == CHOOSE g : g = [s \in SUBSET Models |->
                       IF s = {} THEN 0 ELSE Held(Pick(s)) + g[s \ {Pick(s)}]]
  <2>1. \E g : IsSum(g, h, Models)
    <3> HIDE DEF h
    <3> QED BY <1>1, <1>3, SumExists
  <2>2. \A s \in SUBSET Models : s # {} => h[Pick(s)] = Held(Pick(s))
    BY PickOne
  <2>3. \E g : g = [s \in SUBSET Models |->
                       IF s = {} THEN 0 ELSE Held(Pick(s)) + g[s \ {Pick(s)}]]
    <3> HIDE DEF h
    <3> QED BY <2>1, <2>2 DEF IsSum
  <2>4. it = [s \in SUBSET Models |->
                 IF s = {} THEN 0 ELSE Held(Pick(s)) + it[s \ {Pick(s)}]]
    BY <2>3
  <2>5. IsSum(it, h, Models)
    <3> HIDE DEF h, it
    <3> QED BY <2>2, <2>4 DEF IsSum
  <2>6. held = it[Models]
    BY DEF MapThenSumSet, MapThenFoldSet, Pick
  <2> QED BY <2>5, <2>6
<1> HIDE DEF b, h, total, held
<1>8. PICK t : IsSum(t, b, Models) /\ total = t[Models]
  BY <1>6
<1>9. PICK u : IsSum(u, h, Models) /\ held = u[Models]
  BY <1>7
<1>10. total \in Nat /\ held \in Nat
  BY <1>1, <1>3, <1>8, <1>9, SumOfRest
<1>11. second \in Nat /\ \A n \in Models \ {largest} : Blocks[n] <= second
  <2> HIDE DEF largest
  <2>1. others \in SUBSET Nat
    BY <1>2
  <2>2. \E y \in others : \A z \in others : z <= y
    <3>1. CASE Models \ {largest} = {}
      BY <3>1
    <3>2. CASE Models \ {largest} # {}
      <4>1. PICK m \in Models \ {largest} : \A n \in Models \ {largest} : b[n] <= b[m]
        BY <1>1, <1>3, <3>2, GreatestExists
      <4>2. \A n \in Models \ {largest} : Blocks[n] <= Blocks[m]
        BY <1>4, <4>1
      <4>3. Blocks[m] \in others /\ \A z \in others : z <= Blocks[m]
        BY <1>2, <4>2
      <4> QED BY <4>3
    <3> QED BY <3>1, <3>2
  <2>3. second \in Nat /\ \A z \in others : z <= second
    <3> HIDE DEF others
    <3> QED BY <2>1, <2>2, MaxOf
  <2> QED BY <2>3
<1> HIDE DEF second, largest
<1>12. /\ most \in Nat
       /\ 2 * Blocks[largest] <= most
       /\ total + second <= most
  <2> DEFINE two == {2 * Blocks[largest], total + second}
  <2>1. Blocks[largest] \in Nat
    BY <1>2, <1>5
  <2>2. two \in SUBSET Nat
    BY <1>10, <1>11, <2>1
  <2>3. \E y \in two : \A z \in two : z <= y
    BY <1>10, <1>11, <2>1
  <2>4. Max(two) \in Nat /\ \A z \in two : z <= Max(two)
    <3> HIDE DEF two
    <3> QED BY <2>2, <2>3, MaxOf
  <2> QED BY <2>4
<1> HIDE DEF most
<1>13. ASSUME NEW x, NEW d \in Nat,
              \A m \in Models : h[m] <= b[m] + (IF m = x THEN d ELSE 0)
       PROVE  held <= total + d
  BY <1>1, <1>3, <1>8, <1>9, <1>13, SumIncreases
<1>14. CASE \A m \in Models : Held(m) <= Blocks[m]
  <2>1. ASSUME NEW m \in Models PROVE h[m] <= b[m] + (IF m = largest THEN 0 ELSE 0)
    <3>1. h[m] <= b[m] /\ h[m] \in Nat /\ b[m] \in Nat
      BY <1>2, <1>4, <1>14
    <3> QED BY <3>1
  <2>2. held <= total + 0
    BY <1>13, <2>1
  <2> QED BY <1>10, <1>11, <1>12, <2>2
<1>15. CASE \E x \in Models :
               /\ Held(x) <= 2 * Blocks[x]
               /\ \A m \in Models \ {x} : Held(m) <= Blocks[m]
               /\ \/ \E d \in Models \ {x} : Blocks[d] >= Blocks[x]
                  \/ \A m \in Models \ {x} : Held(m) = 0
  <2>1. PICK x \in Models :
               /\ Held(x) <= 2 * Blocks[x]
               /\ \A m \in Models \ {x} : Held(m) <= Blocks[m]
               /\ \/ \E d \in Models \ {x} : Blocks[d] >= Blocks[x]
                  \/ \A m \in Models \ {x} : Held(m) = 0
    BY <1>15
  <2>2. Blocks[x] \in Nat /\ Blocks[x] <= Blocks[largest] /\ Blocks[largest] \in Nat
    BY <1>2, <1>5
  <2>3. CASE \E d \in Models \ {x} : Blocks[d] >= Blocks[x]
    <3>1. Blocks[x] <= second
      <4>1. CASE x # largest
        BY <1>11, <4>1
      <4>2. CASE x = largest
        <5>1. PICK d \in Models \ {largest} : Blocks[d] >= Blocks[x]
          BY <2>3, <4>2
        <5>2. Blocks[d] <= second /\ Blocks[d] \in Nat
          BY <1>2, <1>11
        <5> QED BY <1>11, <2>2, <5>1, <5>2
      <4> QED BY <4>1, <4>2
    <3>2. ASSUME NEW m \in Models PROVE h[m] <= b[m] + (IF m = x THEN Blocks[x] ELSE 0)
      BY <1>2, <1>4, <2>1
    <3>3. held <= total + Blocks[x]
      BY <1>13, <2>2, <3>2
    <3> QED BY <1>10, <1>11, <1>12, <2>2, <3>1, <3>3
  <2>4. CASE \A m \in Models \ {x} : Held(m) = 0
    <3>1. \A m \in Models \ {x} : h[m] = 0
      BY <1>4, <2>4
    <3>2. held = h[x]
      BY <1>1, <1>3, <1>9, <3>1, SumOfOne
    <3>3. held <= 2 * Blocks[x]
      BY <1>4, <2>1, <3>2
    <3> QED BY <1>10, <1>12, <2>2, <3>3
  <2> QED BY <2>1, <2>3, <2>4
<1> QED BY <1>14, <1>15, HeldIsBounded

\* The space that provision_native.py wants to make do with: with one process the copies
\* of the models that the build has had its turn with never take more than the models and
\* the second largest of them, or two of the largest.  Models that lie in their directory
\* before their turn are not counted.
THEOREM DiskIsAlwaysBounded ==
    OneFetcher /\ Models # {} => (BundleSpec => []DiskIsBounded)
<1> SUFFICES ASSUME OneFetcher, Models # {} PROVE BundleSpec => []DiskIsBounded
  OBVIOUS
<1>1. BundleInv /\ Roomy => DiskIsBounded
  BY RoomIsEnough DEF BundleInv
<1> QED BY <1>1, BundleIsInvariant, RoomIsInvariant, PTL

=============================================================================
