------------------------- MODULE HeadlessCrawlProofs --------------------------
(***************************************************************************)
(* Theorems about HeadlessCrawl for every site, every profile and every    *)
(* answer of the network, and about the rules it asks (CrawlRules) for     *)
(* every list of rules and every resource.                                 *)
(*                                                                         *)
(* The loops of the code are recursive functions in the model (EnqueueAll, *)
(* Unseen).  That each has a value, and what is kept by every round of the *)
(* loop, is proved by the set of the places where it is so (Upward).       *)
(***************************************************************************)
EXTENDS HeadlessCrawl, FiniteSetTheorems, WellFoundedInduction, TLAPS

\* Rules in a list, with fields that exist.
RuleList(list) ==
    /\ \E n \in Nat : DOMAIN list = 1..n
    /\ \A i \in DOMAIN list : DOMAIN list[i].match \subseteq DOMAIN FieldOf

\* What is known of a resource stays as it is when more becomes known.
Refines(more, r) ==
    /\ DOMAIN r \subseteq DOMAIN more
    /\ \A field \in DOMAIN r : more[field] = r[field]

-----------------------------------------------------------------------------
(* The first rule that matches *)

\* Places of a list that match have a first one.
LEMMA FirstExists ==
    ASSUME NEW n \in Nat, NEW S \in SUBSET (1..n), S # {}
    PROVE  First(S) \in S /\ \A j \in S : First(S) <= j
<1> DEFINE R == OpToRel(<, Nat)
<1>1. IsWellFoundedOn(R, Nat)
  BY NatLessThanWellFounded
<1>2. \A x, y \in Nat : <<x, y>> \in R <=> x < y
  BY DEF OpToRel
<1> HIDE DEF R
<1>3. S \subseteq Nat
  OBVIOUS
<1>4. \E i \in S : \A j \in S : ~ (<<j, i>> \in R)
  BY <1>1, <1>3, WFMin
<1>5. PICK i \in S : \A j \in S : ~ (<<j, i>> \in R)
  BY <1>4
<1>6. ASSUME NEW j \in S PROVE i <= j
  <2>1. i \in Nat /\ j \in Nat
    BY <1>3
  <2>2. ~ (j < i)
    BY <1>2, <1>5, <2>1
  <2> QED
    BY <2>1, <2>2
<1> QED
  BY <1>6 DEF First

\* It is the only one.
LEMMA FirstIsUnique ==
    ASSUME NEW n \in Nat, NEW S \in SUBSET (1..n),
           NEW i \in S, \A j \in S : i <= j
    PROVE  First(S) = i
<1>1. First(S) \in S /\ \A j \in S : First(S) <= j
  BY FirstExists
<1>2. i \in 1..n /\ First(S) \in 1..n
  BY <1>1
<1>3. First(S) <= i /\ i <= First(S)
  BY <1>1
<1> QED
  BY <1>2, <1>3

-----------------------------------------------------------------------------
(* More metadata *)

\* The nine keys of a matcher look at fields that exist.
LEMMA FieldOfKeys ==
    /\ DOMAIN FieldOf = {"url_prefix", "path_prefix", "host", "kind", "mime",
                         "min_depth", "max_depth", "min_bytes", "max_bytes"}
    /\ FieldOf["url_prefix"] = "url" /\ FieldOf["path_prefix"] = "url"
    /\ FieldOf["host"] = "url" /\ FieldOf["kind"] = "kind"
    /\ FieldOf["mime"] = "mime"
    /\ FieldOf["min_depth"] = "depth" /\ FieldOf["max_depth"] = "depth"
    /\ FieldOf["min_bytes"] = "bytes" /\ FieldOf["max_bytes"] = "bytes"
  BY DEF FieldOf

\* A key is met or not as soon as its field is known.
LEMMA MeetsIsStable ==
    ASSUME NEW r, NEW more, Refines(more, r),
           NEW key \in DOMAIN FieldOf, FieldOf[key] \in DOMAIN r,
           NEW expected
    PROVE  Meets(key, expected, more) = Meets(key, expected, r)
<1>1. more[FieldOf[key]] = r[FieldOf[key]]
  BY DEF Refines
<1>2. CASE key \in {"url_prefix", "path_prefix", "host"}
  <2>1. more.url = r.url
    BY <1>1, <1>2, FieldOfKeys
  <2> QED
    BY <1>2, <2>1 DEF Meets
<1>3. CASE key = "kind"
  <2>1. more.kind = r.kind
    BY <1>1, <1>3, FieldOfKeys
  <2> QED
    BY <1>3, <2>1 DEF Meets
<1>4. CASE key = "mime"
  <2>1. more.mime = r.mime
    BY <1>1, <1>4, FieldOfKeys
  <2> QED
    BY <1>4, <2>1 DEF Meets
<1>5. CASE key \in {"min_depth", "max_depth"}
  <2>1. more.depth = r.depth
    BY <1>1, <1>5, FieldOfKeys
  <2> QED
    BY <1>5, <2>1 DEF Meets
<1>6. CASE key \in {"min_bytes", "max_bytes"}
  <2>1. more.bytes = r.bytes
    BY <1>1, <1>6, FieldOfKeys
  <2> QED
    BY <1>6, <2>1 DEF Meets
<1> QED
  BY <1>2, <1>3, <1>4, <1>5, <1>6, FieldOfKeys

\* More metadata can rule a rule out and never in.
LEMMA MatchesShrinks ==
    ASSUME NEW list, RuleList(list), NEW r, NEW more, Refines(more, r),
           NEW i \in DOMAIN list, Matches(list[i], more)
    PROVE  Matches(list[i], r)
<1> SUFFICES ASSUME NEW key \in DOMAIN list[i].match, FieldOf[key] \in DOMAIN r
             PROVE  Meets(key, list[i].match[key], r)
  BY DEF Matches
<1>1. key \in DOMAIN FieldOf
  BY DEF RuleList
<1>2. Meets(key, list[i].match[key], more)
  BY DEF Matches, Refines
<1> QED
  BY <1>1, <1>2, MeetsIsStable

\* A rule of which everything is known matches for good.
LEMMA KnownMatchStays ==
    ASSUME NEW list, RuleList(list), NEW r, NEW more, Refines(more, r),
           NEW i \in DOMAIN list, Matches(list[i], r), Missing(list[i], r) = {}
    PROVE  Matches(list[i], more) /\ Missing(list[i], more) = {}
<1>1. ASSUME NEW key \in DOMAIN list[i].match
      PROVE  FieldOf[key] \in DOMAIN r /\ key \in DOMAIN FieldOf
  BY DEF Missing, RuleList
<1>2. ASSUME NEW key \in DOMAIN list[i].match
      PROVE  Meets(key, list[i].match[key], more)
  BY <1>1, MeetsIsStable DEF Matches
<1>3. Missing(list[i], more) = {}
  BY <1>1 DEF Missing, Refines
<1> QED
  BY <1>2, <1>3 DEF Matches

\* A decision that was made is not changed by what becomes known later: what
\* evaluate_rules decides of a URL before it is requested holds for the
\* response, whatever its type and size (cli/aegis_cli.py asks it both times).
THEOREM DecisionsAreFinal ==
    ASSUME NEW list, RuleList(list), NEW r, NEW more, Refines(more, r),
           NEW inScope \in BOOLEAN,
           EvaluateRules(list, r, inScope).state # "needs_metadata"
    PROVE  EvaluateRules(list, more, inScope) = EvaluateRules(list, r, inScope)
<1>1. CASE ~inScope
  BY <1>1 DEF EvaluateRules
<1>2. PICK n \in Nat : DOMAIN list = 1..n
  BY DEF RuleList
<1>3. /\ Matching(list, r) \in SUBSET (1..n)
      /\ Matching(list, more) \in SUBSET (1..n)
      /\ Matching(list, more) \subseteq Matching(list, r)
  BY <1>2, MatchesShrinks DEF Matching
<1>4. CASE inScope /\ Matching(list, r) = {}
  BY <1>3, <1>4 DEF EvaluateRules
<1>5. CASE inScope /\ Matching(list, r) # {}
  <2> DEFINE i == First(Matching(list, r))
  <2>1. i \in Matching(list, r) /\ \A j \in Matching(list, r) : i <= j
    BY <1>3, <1>5, FirstExists
  <2>2. EvaluateRules(list, r, inScope) = DecisionOf(list[i], r)
    BY <1>5 DEF EvaluateRules
  <2>3. Missing(list[i], r) = {}
    BY <2>2 DEF DecisionOf
  <2>4. Matches(list[i], more) /\ Missing(list[i], more) = {}
    BY <2>1, <2>3, KnownMatchStays DEF Matching
  <2>5. i \in Matching(list, more)
    BY <2>1, <2>4 DEF Matching
  <2> HIDE DEF i
  <2>6. First(Matching(list, more)) = i
    BY <1>3, <2>1, <2>5, FirstIsUnique
  <2>7. EvaluateRules(list, more, inScope) = DecisionOf(list[i], more)
    BY <1>5, <2>5, <2>6 DEF EvaluateRules
  <2> QED
    BY <2>2, <2>3, <2>4, <2>7 DEF DecisionOf
<1> QED
  BY <1>1, <1>4, <1>5

\* What is not downloaded while metadata are missing is not downloaded by a
\* rule that turns out not to match: as long as the first rule that may match
\* is undecided, no later rule permits a request's body to be kept.
THEOREM UndecidedKeepsNothing ==
    ASSUME NEW list, RuleList(list), NEW r,
           NEW i \in DOMAIN list, Matches(list[i], r),
           Missing(list[i], r) # {},
           EvaluateRules(list, r, TRUE).download
    PROVE  \E j \in DOMAIN list :
               j < i /\ Matches(list[j], r) /\ Missing(list[j], r) = {}
<1> DEFINE j == First(Matching(list, r))
<1>1. PICK n \in Nat : DOMAIN list = 1..n
  BY DEF RuleList
<1>2. Matching(list, r) \in SUBSET (1..n) /\ i \in Matching(list, r)
  BY <1>1 DEF Matching
<1>3. j \in Matching(list, r) /\ j <= i
  BY <1>2, FirstExists
<1>4. EvaluateRules(list, r, TRUE) = DecisionOf(list[j], r)
  BY <1>2 DEF EvaluateRules
<1>5. Missing(list[j], r) = {}
  <2> SUFFICES ASSUME Missing(list[j], r) # {} PROVE FALSE
    OBVIOUS
  <2>1. DecisionOf(list[j], r).download = FALSE
    BY DEF DecisionOf
  <2> QED
    BY <1>4, <2>1
<1>6. j # i
  BY <1>5
<1> QED
  BY <1>1, <1>2, <1>3, <1>5, <1>6 DEF Matching

\* The first rule that matches decides: rules after it have no say.
THEOREM FirstMatchDecides ==
    ASSUME NEW list, RuleList(list), NEW longer, RuleList(longer),
           DOMAIN list \subseteq DOMAIN longer,
           \A i \in DOMAIN list : longer[i] = list[i],
           NEW r, NEW inScope \in BOOLEAN, Matching(list, r) # {}
    PROVE  EvaluateRules(longer, r, inScope) = EvaluateRules(list, r, inScope)
<1>1. PICK n \in Nat : DOMAIN list = 1..n
  BY DEF RuleList
<1>2. PICK m \in Nat : DOMAIN longer = 1..m
  BY DEF RuleList
<1> DEFINE i == First(Matching(list, r))
<1>3. /\ Matching(list, r) \in SUBSET (1..n)
      /\ Matching(longer, r) \in SUBSET (1..m)
      /\ Matching(list, r) \subseteq Matching(longer, r)
  BY <1>1, <1>2 DEF Matching
<1>4. i \in Matching(list, r) /\ \A j \in Matching(list, r) : i <= j
  BY <1>3, FirstExists
<1>5. ASSUME NEW j \in Matching(longer, r) PROVE i <= j
  <2>1. CASE j \in 1..n
    BY <1>1, <1>4, <2>1 DEF Matching
  <2>2. CASE j \notin 1..n
    BY <1>3, <1>4, <2>2
  <2> QED
    BY <2>1, <2>2
<1> HIDE DEF i
<1>6. First(Matching(longer, r)) = i
  BY <1>3, <1>4, <1>5, FirstIsUnique
<1>7. longer[i] = list[i]
  BY <1>1, <1>3, <1>4
<1> QED
  BY <1>3, <1>4, <1>6, <1>7 DEF EvaluateRules, i

-----------------------------------------------------------------------------
(* Loops *)

\* What holds at 0, and at i + 1 if at i, holds up to n.
LEMMA Upward ==
    ASSUME NEW n \in Nat, NEW S, 0 \in S,
           \A i \in Nat : i < n /\ i \in S => i + 1 \in S
    PROVE  \A i \in 0..n : i \in S
<1> DEFINE T == {i \in 0..n : i \notin S}
<1> SUFFICES ASSUME T # {} PROVE FALSE
  OBVIOUS
<1>1. T \in SUBSET (1..n)
  OBVIOUS
<1> DEFINE m == First(T)
<1>2. m \in T /\ \A j \in T : m <= j
  BY <1>1, FirstExists
<1>3. m \in 1..n
  BY <1>1, <1>2
<1> HIDE DEF m
<1>4. m - 1 \in Nat /\ m - 1 < n /\ m - 1 \in 0..n /\ m - 1 < m /\ (m - 1) + 1 = m
  BY <1>3
<1>5. m - 1 \in S
  BY <1>2, <1>4
<1> QED BY <1>2, <1>4, <1>5

\* The crawl after the first i references.
Rounds(f, n, c, base, refs, depth) ==
    f = [i \in 0..n |-> IF i = 0 THEN c ELSE Enqueue(f[i - 1], base, refs[i], depth)]

LEMMA RoundsExist ==
    ASSUME NEW n \in Nat, NEW c, NEW base, NEW refs, NEW depth
    PROVE  \E f : Rounds(f, n, c, base, refs, depth)
<1> DEFINE S == {i \in Nat : \E f : Rounds(f, i, c, base, refs, depth)}
<1>1. 0 \in S
  <2> DEFINE f == [i \in 0..0 |-> c]
  <2>1. f = [i \in 0..0 |-> IF i = 0 THEN c ELSE Enqueue(f[i - 1], base, refs[i], depth)]
    OBVIOUS
  <2> QED BY <2>1 DEF Rounds
<1>2. ASSUME NEW k \in Nat, k \in S
      PROVE  k + 1 \in S
  <2>1. PICK f : Rounds(f, k, c, base, refs, depth)
    BY <1>2
  <2> DEFINE g == [i \in 0..(k + 1) |-> IF i = k + 1 THEN Enqueue(f[k], base, refs[i], depth)
                                        ELSE f[i]]
  <2>2. \A i \in 0..k : f[i] = IF i = 0 THEN c ELSE Enqueue(f[i - 1], base, refs[i], depth)
    BY <2>1 DEF Rounds
  <2>3. ASSUME NEW i \in 0..(k + 1)
        PROVE  g[i] = IF i = 0 THEN c ELSE Enqueue(g[i - 1], base, refs[i], depth)
    <3>1. CASE i = k + 1
      <4>1. i # 0 /\ i - 1 = k /\ k \in 0..(k + 1) /\ k # k + 1
        BY <3>1
      <4> QED BY <3>1, <4>1
    <3>2. CASE i # k + 1
      <4>1. i \in 0..k /\ (i # 0 => i - 1 \in 0..k /\ i - 1 # k + 1 /\ i - 1 \in 0..(k + 1))
        BY <3>2
      <4>2. g[i] = f[i]
        BY <3>2
      <4>3. i # 0 => g[i - 1] = f[i - 1]
        BY <4>1
      <4> HIDE DEF g
      <4> QED BY <2>2, <4>1, <4>2, <4>3
    <3> QED BY <3>1, <3>2
  <2>4. g = [i \in 0..(k + 1) |-> IF i = 0 THEN c ELSE Enqueue(g[i - 1], base, refs[i], depth)]
    <3> DEFINE h == [i \in 0..(k + 1) |->
                        IF i = 0 THEN c ELSE Enqueue(g[i - 1], base, refs[i], depth)]
    <3>1. \A i \in 0..(k + 1) : g[i] = h[i]
      BY <2>3
    <3>2. g = h
      <4>1. g = [i \in 0..(k + 1) |-> g[i]] /\ h = [i \in 0..(k + 1) |-> h[i]]
        OBVIOUS
      <4> HIDE DEF g, h
      <4> QED BY <3>1, <4>1
    <3> QED BY <3>2
  <2> HIDE DEF g
  <2>5. Rounds(g, k + 1, c, base, refs, depth)
    BY <2>4 DEF Rounds
  <2> QED BY <2>5
<1> HIDE DEF S
<1>3. \A i \in 0..n : i \in S
  BY <1>1, <1>2, Upward
<1> QED BY <1>3 DEF S

LEMMA EnqueueAllRounds ==
    ASSUME NEW c, NEW base, NEW refs, NEW depth, Len(refs) \in Nat
    PROVE  \E f : /\ f[0] = c
                  /\ \A i \in 1..Len(refs) : f[i] = Enqueue(f[i - 1], base, refs[i], depth)
                  /\ EnqueueAll(c, base, refs, depth) = f[Len(refs)]
<1> DEFINE f == CHOOSE f : f = [i \in 0..Len(refs) |->
                    IF i = 0 THEN c ELSE Enqueue(f[i - 1], base, refs[i], depth)]
<1>1. f = [i \in 0..Len(refs) |->
              IF i = 0 THEN c ELSE Enqueue(f[i - 1], base, refs[i], depth)]
  <2>1. \E g : g = [i \in 0..Len(refs) |->
                   IF i = 0 THEN c ELSE Enqueue(g[i - 1], base, refs[i], depth)]
    <3> HIDE DEF f
    <3>1. PICK g : Rounds(g, Len(refs), c, base, refs, depth)
      BY RoundsExist
    <3>2. g = [i \in 0..Len(refs) |->
                  IF i = 0 THEN c ELSE Enqueue(g[i - 1], base, refs[i], depth)]
      BY <3>1 DEF Rounds
    <3> QED BY <3>2
  <2> QED BY <2>1, Zenon
<1>2. EnqueueAll(c, base, refs, depth) = f[Len(refs)]
  BY DEF EnqueueAll
<1> HIDE DEF f
<1>3. f[0] = c
  BY <1>1
<1>4. \A i \in 1..Len(refs) : f[i] = Enqueue(f[i - 1], base, refs[i], depth)
  BY <1>1
<1> QED BY <1>2, <1>3, <1>4

\* The same for the loop of discover_sitemap.
Mentions(f, n, identities, seen) ==
    f = [i \in 0..n |->
            IF i = 0 THEN <<>>
            ELSE IF identities[i] \in seen \union Range(f[i - 1]) THEN f[i - 1]
            ELSE Append(f[i - 1], identities[i])]

LEMMA MentionsExist ==
    ASSUME NEW n \in Nat, NEW identities, NEW seen
    PROVE  \E f : Mentions(f, n, identities, seen)
<1> DEFINE S == {i \in Nat : \E f : Mentions(f, i, identities, seen)}
           Following(s, i) == IF identities[i] \in seen \union Range(s) THEN s
                              ELSE Append(s, identities[i])
<1>0. \A f : \A k \in Nat :
         Mentions(f, k, identities, seen)
            <=> f = [i \in 0..k |-> IF i = 0 THEN <<>> ELSE Following(f[i - 1], i)]
  BY DEF Mentions
<1> HIDE DEF Following
<1>1. 0 \in S
  <2> DEFINE f == [i \in 0..0 |-> <<>>]
  <2>1. f = [i \in 0..0 |-> IF i = 0 THEN <<>> ELSE Following(f[i - 1], i)]
    OBVIOUS
  <2>2. Mentions(f, 0, identities, seen)
    BY <1>0, <2>1
  <2> HIDE DEF f
  <2> QED BY <2>2
<1>2. ASSUME NEW k \in Nat, k \in S
      PROVE  k + 1 \in S
  <2>1. PICK f : Mentions(f, k, identities, seen)
    BY <1>2
  <2> DEFINE g == [i \in 0..(k + 1) |-> IF i = k + 1 THEN Following(f[k], i) ELSE f[i]]
  <2>2. \A i \in 0..k : f[i] = IF i = 0 THEN <<>> ELSE Following(f[i - 1], i)
    <3>1. f = [i \in 0..k |-> IF i = 0 THEN <<>> ELSE Following(f[i - 1], i)]
      BY <1>0, <2>1
    <3> QED BY <3>1
  <2>3. ASSUME NEW i \in 0..(k + 1)
        PROVE  g[i] = IF i = 0 THEN <<>> ELSE Following(g[i - 1], i)
    <3>1. CASE i = k + 1
      <4>1. i # 0 /\ i - 1 = k /\ k \in 0..(k + 1) /\ k # k + 1
        BY <3>1
      <4> QED BY <3>1, <4>1
    <3>2. CASE i # k + 1
      <4>1. i \in 0..k /\ (i # 0 => i - 1 \in 0..k /\ i - 1 # k + 1 /\ i - 1 \in 0..(k + 1))
        BY <3>2
      <4>2. g[i] = f[i]
        BY <3>2
      <4>3. i # 0 => g[i - 1] = f[i - 1]
        BY <4>1
      <4> HIDE DEF g
      <4> QED BY <2>2, <4>1, <4>2, <4>3
    <3> QED BY <3>1, <3>2
  <2>4. g = [i \in 0..(k + 1) |-> IF i = 0 THEN <<>> ELSE Following(g[i - 1], i)]
    <3> DEFINE h == [i \in 0..(k + 1) |-> IF i = 0 THEN <<>> ELSE Following(g[i - 1], i)]
    <3>1. \A i \in 0..(k + 1) : g[i] = h[i]
      BY <2>3
    <3>2. g = [i \in 0..(k + 1) |-> g[i]] /\ h = [i \in 0..(k + 1) |-> h[i]]
      OBVIOUS
    <3>3. g = h
      <4> HIDE DEF g, h
      <4> QED BY <3>1, <3>2
    <3> QED BY <3>3
  <2> HIDE DEF g
  <2>5. Mentions(g, k + 1, identities, seen)
    BY <1>0, <2>4
  <2> QED BY <2>5
<1> HIDE DEF S
<1>3. \A i \in 0..n : i \in S
  BY <1>1, <1>2, Upward
<1> QED BY <1>3 DEF S

\* discover_sitemap finds nothing but what the sitemap lists.
LEMMA UnseenAreListed ==
    ASSUME NEW S, NEW identities \in Seq(S), NEW seen
    PROVE  Unseen(identities, seen) \in Seq(S)
<1> DEFINE n == Len(identities)
           f == CHOOSE f : f = [i \in 0..Len(identities) |->
                    IF i = 0 THEN <<>>
                    ELSE IF identities[i] \in seen \union Range(f[i - 1]) THEN f[i - 1]
                    ELSE Append(f[i - 1], identities[i])]
<1>1. f = [i \in 0..Len(identities) |->
              IF i = 0 THEN <<>>
              ELSE IF identities[i] \in seen \union Range(f[i - 1]) THEN f[i - 1]
              ELSE Append(f[i - 1], identities[i])]
  <2>1. \E g : g = [i \in 0..Len(identities) |->
                   IF i = 0 THEN <<>>
                   ELSE IF identities[i] \in seen \union Range(g[i - 1]) THEN g[i - 1]
                   ELSE Append(g[i - 1], identities[i])]
    <3> HIDE DEF f
    <3>1. PICK g : Mentions(g, Len(identities), identities, seen)
      BY MentionsExist
    <3>2. g = [i \in 0..Len(identities) |->
                  IF i = 0 THEN <<>>
                  ELSE IF identities[i] \in seen \union Range(g[i - 1]) THEN g[i - 1]
                  ELSE Append(g[i - 1], identities[i])]
      BY <3>1 DEF Mentions
    <3> QED BY <3>2
  <2> QED BY <2>1, Zenon
<1>2. Unseen(identities, seen) = f[Len(identities)]
  BY DEF Unseen
<1> HIDE DEF f
<1>3. f[0] = <<>>
  BY <1>1
<1>4. ASSUME NEW i \in 1..n
      PROVE  f[i] \in {f[i - 1], Append(f[i - 1], identities[i])}
  <2>1. i \in 0..Len(identities) /\ i # 0
    OBVIOUS
  <2>2. f[i] = IF i = 0 THEN <<>>
               ELSE IF identities[i] \in seen \union Range(f[i - 1]) THEN f[i - 1]
               ELSE Append(f[i - 1], identities[i])
    BY <1>1, <2>1
  <2> QED BY <2>1, <2>2
<1> DEFINE T == {i \in Nat : i <= n => f[i] \in Seq(S)}
<1>5. 0 \in T
  <2>1. <<>> \in Seq(S)
    OBVIOUS
  <2> QED BY <1>3, <2>1
<1>6. ASSUME NEW i \in Nat, i < n, i \in T
      PROVE  i + 1 \in T
  <2>1. f[i] \in Seq(S) /\ i + 1 \in 1..n /\ (i + 1) - 1 = i
    BY <1>6
  <2>2. identities[i + 1] \in S
    BY <2>1
  <2>3. f[i + 1] \in {f[i], Append(f[i], identities[i + 1])}
    BY <1>4, <2>1
  <2>4. \A s \in Seq(S), x \in S : Append(s, x) \in Seq(S)
    OBVIOUS
  <2>5. f[i + 1] \in Seq(S)
    BY <2>1, <2>2, <2>3, <2>4
  <2> QED BY <2>5
<1> HIDE DEF T
<1>7. n \in Nat /\ n \in 0..n
  OBVIOUS
<1>8. \A i \in 0..n : i \in T
  BY <1>5, <1>6, <1>7, Upward
<1>9. n \in T
  BY <1>7, <1>8
<1> QED BY <1>2, <1>7, <1>9 DEF T

\* What the constants are.
LEMMA Profile ==
    /\ MaxDepth \in Nat /\ MaxPages \in Nat /\ Respect \in BOOLEAN
    /\ Nothing \notin Urls /\ Nothing \notin Task
    /\ \A u \in Urls : Body[u].size \in Nat /\ Body[u].refs \in Seq(Reference)
    /\ \A u \in DOMAIN Location : Location[u] \in Urls \union {Nothing}
    /\ DOMAIN Location \subseteq Urls
    /\ Seeds \in Seq(Reference)
    /\ \A i \in DOMAIN Seeds : Seeds[i].url \notin TooLong
BY HeadlessAssumption

LEMMA SitemapsListUrls ==
    ASSUME NEW u \in Urls, NEW seen
    PROVE  LET found == DiscoverSitemap(Body[u], u, Hosts, seen)
           IN  /\ found.pages \in Seq(Urls) /\ found.sitemaps \in Seq(Urls)
               /\ found.excluded \in Seq(Urls)
<1> DEFINE locations == Body[u].locations
           all == [i \in DOMAIN locations |-> SitemapIdentity(locations[i])]
<1>1. locations \in Seq(Range(locations))
  BY HeadlessAssumption DEF IsSequence
<1>2. \A i \in DOMAIN locations : SitemapIdentity(locations[i]) \in Urls
  BY HeadlessAssumption
<1> HIDE DEF locations
<1>3. all \in Seq(Urls)
  <2>1. Len(locations) \in Nat /\ DOMAIN locations = 1..Len(locations)
    BY <1>1
  <2>2. all \in [1..Len(locations) -> Urls]
    BY <1>2, <2>1
  <2> HIDE DEF all
  <2> QED BY <2>1, <2>2
<1> HIDE DEF all
<1>4. \A s : Unseen(all, s) \in Seq(Urls)
  BY <1>3, UnseenAreListed
<1>5. <<>> \in Seq(Urls)
  OBVIOUS
<1> QED BY <1>4, <1>5 DEF DiscoverSitemap, all, locations

-----------------------------------------------------------------------------
(* The frontier: what is queued, what is known and what is pending *)

QueuedIn(c) == {c.queue[i].url : i \in DOMAIN c.queue}
PendingIn(c) == {u \in DOMAIN c.outcomes : c.outcomes[u].state = "pending"}
CapturedIn(c) == {u \in DOMAIN c.outcomes : c.outcomes[u].state = "captured"}

CrawlFields(c) ==
    c = [queue |-> c.queue, outcomes |-> c.outcomes, limits |-> c.limits,
         edges |-> c.edges, sitemaps |-> c.sitemaps, raised |-> c.raised]

IsOutcome(r) ==
    /\ {"state", "kind"} \subseteq DOMAIN r
    /\ r.state \in ResourceStates
    /\ r.kind \in Kinds

\* Nothing is queued twice, unknown or out of scope.
QueueIsSound(c) ==
    /\ c.queue \in Seq(Task)
    /\ \A i \in DOMAIN c.queue :
          /\ c.queue[i].url \in DOMAIN c.outcomes
          /\ HostInScope(c.queue[i].url.host, Hosts)
    /\ \A i, j \in DOMAIN c.queue : c.queue[i].url = c.queue[j].url => i = j

Sound(c) ==
    /\ CrawlFields(c)
    /\ DOMAIN c.outcomes \subseteq Urls
    /\ \A u \in DOMAIN c.outcomes : IsOutcome(c.outcomes[u])
    /\ c.edges \subseteq Urls \X Urls
    /\ c.raised \in BOOLEAN
    /\ QueueIsSound(c)

NewIn(c, d) == DOMAIN d.outcomes \ DOMAIN c.outcomes

\* d is c after some references were looked at: what was known is as it was,
\* and what is new is queued exactly if it is pending.
Grown(c, d) ==
    /\ Sound(d)
    /\ DOMAIN c.outcomes \subseteq DOMAIN d.outcomes
    /\ \A u \in DOMAIN c.outcomes : d.outcomes[u] = c.outcomes[u]
    /\ \A u \in NewIn(c, d) : d.outcomes[u].state \in {"pending", "excluded"}
    /\ QueuedIn(d) = QueuedIn(c) \union {u \in NewIn(c, d) : d.outcomes[u].state = "pending"}

LEMMA GrownFromItself == ASSUME NEW c, Sound(c) PROVE Grown(c, c)
BY DEF Grown, NewIn

\* Links, limits and errors do not touch the frontier.
LEMMA GrownElsewhere ==
    ASSUME NEW c, NEW d, NEW e, Grown(c, d), CrawlFields(e),
           e.queue = d.queue, e.outcomes = d.outcomes,
           e.edges \subseteq Urls \X Urls, e.raised \in BOOLEAN
    PROVE  Grown(c, e)
<1>1. Sound(e)
  BY DEF Grown, Sound, QueueIsSound
<1> QED BY <1>1 DEF Grown, NewIn, QueuedIn

\* A URL that is new and excluded.
LEMMA GrownByExcluded ==
    ASSUME NEW c, NEW d, NEW e, Grown(c, d), CrawlFields(e),
           NEW u \in Urls, u \notin DOMAIN d.outcomes,
           NEW value, IsOutcome(value), value.state = "excluded",
           e.queue = d.queue, e.outcomes = Put(d.outcomes, u, value),
           e.edges \subseteq Urls \X Urls, e.raised \in BOOLEAN
    PROVE  Grown(c, e)
<1>1. /\ DOMAIN e.outcomes = DOMAIN d.outcomes \union {u} /\ e.outcomes[u] = value
      /\ \A v \in DOMAIN d.outcomes : e.outcomes[v] = d.outcomes[v]
  BY DEF Put
<1>2. Sound(e)
  BY <1>1 DEF Grown, Sound, QueueIsSound
<1>3. QueuedIn(e) = QueuedIn(d)
  BY DEF QueuedIn
<1>4. NewIn(c, e) = NewIn(c, d) \union {u}
  BY <1>1 DEF Grown, NewIn
<1>5. {v \in NewIn(c, e) : e.outcomes[v].state = "pending"}
         = {v \in NewIn(c, d) : d.outcomes[v].state = "pending"}
  BY <1>1, <1>4 DEF NewIn
<1>6. \A v \in NewIn(c, e) : e.outcomes[v].state \in {"pending", "excluded"}
  BY <1>1, <1>4 DEF Grown, NewIn
<1> QED BY <1>1, <1>2, <1>3, <1>5, <1>6 DEF Grown

LEMMA AppendPlaces ==
    ASSUME NEW S, NEW s \in Seq(S), NEW x \in S
    PROVE  /\ Append(s, x) \in Seq(S)
           /\ DOMAIN s = 1..Len(s) /\ Len(s) \in Nat
           /\ DOMAIN Append(s, x) = DOMAIN s \union {Len(s) + 1}
           /\ Len(s) + 1 \notin DOMAIN s
           /\ \A i \in DOMAIN s : Append(s, x)[i] = s[i]
           /\ Append(s, x)[Len(s) + 1] = x
<1>1. Append(s, x) \in Seq(S) /\ Len(Append(s, x)) = Len(s) + 1 /\ Len(s) \in Nat
  OBVIOUS
<1>2. DOMAIN s = 1..Len(s) /\ DOMAIN Append(s, x) = 1..(Len(s) + 1)
  BY <1>1
<1>3. 1..(Len(s) + 1) = (1..Len(s)) \union {Len(s) + 1} /\ Len(s) + 1 \notin 1..Len(s)
  BY <1>1
<1> QED BY <1>1, <1>2, <1>3

\* What is put at the end of the queue, known and not queued before.
LEMMA QueueGrows ==
    ASSUME NEW d, NEW e, QueueIsSound(d), NEW t \in Task,
           e.queue = Append(d.queue, t), DOMAIN d.outcomes \subseteq DOMAIN e.outcomes,
           t.url \in DOMAIN e.outcomes, t.url \notin QueuedIn(d),
           HostInScope(t.url.host, Hosts)
    PROVE  QueueIsSound(e) /\ QueuedIn(e) = QueuedIn(d) \union {t.url}
<1>1. /\ e.queue \in Seq(Task)
      /\ DOMAIN e.queue = DOMAIN d.queue \union {Len(d.queue) + 1}
      /\ Len(d.queue) + 1 \notin DOMAIN d.queue
      /\ \A i \in DOMAIN d.queue : e.queue[i] = d.queue[i]
      /\ e.queue[Len(d.queue) + 1] = t
  BY AppendPlaces DEF QueueIsSound
<1>2. QueuedIn(e) = QueuedIn(d) \union {t.url}
  BY <1>1 DEF QueuedIn
<1>3. \A i, j \in DOMAIN e.queue : e.queue[i].url = e.queue[j].url => i = j
  BY <1>1 DEF QueueIsSound, QueuedIn
<1>4. \A i \in DOMAIN e.queue :
         /\ e.queue[i].url \in DOMAIN e.outcomes
         /\ HostInScope(e.queue[i].url.host, Hosts)
  BY <1>1 DEF QueueIsSound
<1> QED BY <1>1, <1>2, <1>3, <1>4 DEF QueueIsSound

\* A URL that is new and queued.
LEMMA GrownByQueued ==
    ASSUME NEW c, NEW d, NEW e, Grown(c, d), CrawlFields(e),
           NEW t \in Task, t.url \notin DOMAIN d.outcomes,
           NEW value, IsOutcome(value), value.state = "pending",
           HostInScope(t.url.host, Hosts),
           e.queue = Append(d.queue, t), e.outcomes = Put(d.outcomes, t.url, value),
           e.edges \subseteq Urls \X Urls, e.raised \in BOOLEAN
    PROVE  Grown(c, e)
<1> DEFINE u == t.url
<1>0. u \in Urls
  BY DEF Task
<1>1. /\ DOMAIN e.outcomes = DOMAIN d.outcomes \union {u} /\ e.outcomes[u] = value
      /\ \A v \in DOMAIN d.outcomes : e.outcomes[v] = d.outcomes[v]
  BY DEF Put
<1>2. QueueIsSound(d) /\ u \notin QueuedIn(d)
  BY DEF Grown, Sound, QueueIsSound, QueuedIn
<1>3. QueueIsSound(e) /\ QueuedIn(e) = QueuedIn(d) \union {u}
  BY <1>1, <1>2, QueueGrows
<1> HIDE DEF u
<1>4. Sound(e)
  BY <1>0, <1>1, <1>3 DEF Grown, Sound
<1>5. NewIn(c, e) = NewIn(c, d) \union {u} /\ u \notin NewIn(c, d)
  BY <1>1 DEF Grown, NewIn, u
<1>6. {v \in NewIn(c, e) : e.outcomes[v].state = "pending"}
         = {v \in NewIn(c, d) : d.outcomes[v].state = "pending"} \union {u}
  BY <1>1, <1>5 DEF NewIn
<1>7. \A v \in NewIn(c, e) : e.outcomes[v].state \in {"pending", "excluded"}
  BY <1>1, <1>5 DEF Grown, NewIn
<1>8. \A v \in DOMAIN c.outcomes : v \in DOMAIN e.outcomes /\ e.outcomes[v] = c.outcomes[v]
  BY <1>1 DEF Grown
<1> QED BY <1>3, <1>4, <1>6, <1>7, <1>8 DEF Grown

\* enqueue keeps what is known and queues what is new and wanted; it raises an
\* error only for a URL that is too long.
LEMMA EnqueueGrows ==
    ASSUME NEW c, NEW d, Grown(c, d), NEW base \in Urls \union {Nothing},
           NEW ref \in Reference, NEW depth \in Nat
    PROVE  /\ Grown(c, Enqueue(d, base, ref, depth))
           /\ ~d.raised /\ ref.url \notin TooLong => ~Enqueue(d, base, ref, depth).raised
<1> DEFINE linked == IF base = Nothing THEN d
                     ELSE [d EXCEPT !.edges = @ \union {<<base, ref.url>>}]
           reason == Reason(ref, depth)
           value == Outcome(ref, reason)
           found == [linked EXCEPT !.outcomes = Put(@, ref.url, value)]
           t == [url |-> ref.url, depth |-> depth, retries |-> 0]
           e == Enqueue(d, base, ref, depth)
<1>1. CrawlFields(d) /\ d.edges \subseteq Urls \X Urls /\ d.raised \in BOOLEAN
  BY DEF Grown, Sound
<1>2. ref.kind \in Kinds /\ ref.url \in Urls \union {Nothing}
  BY DEF Reference
<1>3. e = IF d.raised THEN d
          ELSE IF ref.url = Nothing THEN Limit(d, base, "unsupported reference")
          ELSE IF ~IsNew(d, ref.url) THEN linked
          ELSE IF Raises(ref, depth) THEN [linked EXCEPT !.raised = TRUE]
          ELSE IF reason # "none" THEN found
          ELSE [found EXCEPT !.queue = Append(@, t)]
  BY DEF Enqueue
<1>4. /\ CrawlFields(linked) /\ linked.queue = d.queue /\ linked.outcomes = d.outcomes
      /\ linked.raised = d.raised
      /\ ref.url # Nothing => linked.edges \subseteq Urls \X Urls
  <2>1. CASE base = Nothing
    BY <1>1, <2>1
  <2>2. CASE base # Nothing
    BY <1>1, <1>2, <2>2 DEF CrawlFields
  <2> QED BY <2>1, <2>2
<1>5. IsOutcome(value) /\ value.state = IF reason = "none" THEN "pending" ELSE "excluded"
  BY <1>2 DEF Outcome, IsOutcome, ResourceStates
<1> HIDE DEF e, value, reason, linked
<1>6. /\ CrawlFields(found) /\ found.queue = d.queue
      /\ found.outcomes = Put(d.outcomes, ref.url, value)
      /\ found.raised = d.raised /\ found.edges = linked.edges
  BY <1>4 DEF CrawlFields
<1> HIDE DEF found
<1>7. CASE d.raised
  <2>1. e = d
    BY <1>3, <1>7
  <2> QED BY <1>7, <2>1 DEF e
<1>8. CASE ~d.raised /\ ref.url = Nothing
  <2>1. e = Limit(d, base, "unsupported reference")
    BY <1>3, <1>8
  <2>2. /\ CrawlFields(e) /\ e.queue = d.queue /\ e.outcomes = d.outcomes
        /\ e.edges = d.edges /\ e.raised = d.raised
    BY <1>1, <2>1 DEF Limit, CrawlFields
  <2> QED BY <1>1, <1>8, <2>2, GrownElsewhere DEF e
<1>9. CASE ~d.raised /\ ref.url # Nothing /\ ~IsNew(d, ref.url)
  <2>1. e = linked
    BY <1>3, <1>9
  <2> QED BY <1>1, <1>4, <1>9, <2>1, GrownElsewhere DEF e
<1>10. CASE ~d.raised /\ ref.url # Nothing /\ IsNew(d, ref.url)
  <2>0. ref.url \in Urls /\ ref.url \notin DOMAIN d.outcomes
    BY <1>2, <1>10 DEF IsNew
  <2>1. e = IF Raises(ref, depth) THEN [linked EXCEPT !.raised = TRUE]
            ELSE IF reason # "none" THEN found
            ELSE [found EXCEPT !.queue = Append(@, t)]
    BY <1>3, <1>10
  <2>2. CASE Raises(ref, depth)
    <3>1. e = [linked EXCEPT !.raised = TRUE] /\ ref.url \in TooLong
      BY <2>1, <2>2 DEF Raises
    <3>2. /\ CrawlFields(e) /\ e.queue = d.queue /\ e.outcomes = d.outcomes
          /\ e.edges = linked.edges /\ e.raised = TRUE
      BY <1>4, <3>1 DEF CrawlFields
    <3> QED BY <1>4, <1>10, <3>1, <3>2, GrownElsewhere DEF e
  <2>3. CASE ~Raises(ref, depth) /\ reason # "none"
    <3>1. e = found
      BY <2>1, <2>3
    <3>2. Grown(c, e)
      BY <1>1, <1>4, <1>5, <1>6, <1>10, <2>0, <2>3, <3>1, GrownByExcluded
    <3> QED BY <1>6, <1>10, <3>1, <3>2 DEF e
  <2>4. CASE ~Raises(ref, depth) /\ reason = "none"
    <3>1. e = [found EXCEPT !.queue = Append(@, t)]
      BY <2>1, <2>4
    <3>2. /\ CrawlFields(e) /\ e.queue = Append(d.queue, t)
          /\ e.outcomes = Put(d.outcomes, ref.url, value)
          /\ e.raised = d.raised /\ e.edges = linked.edges
      BY <1>6, <3>1 DEF CrawlFields
    <3>3. t \in Task /\ t.url = ref.url
      BY <2>0 DEF Task, MaxRetries
    <3>4. HostInScope(ref.url.host, Hosts)
      BY <2>4 DEF reason, Reason, InScope
    <3> HIDE DEF t
    <3>5. Grown(c, e)
      BY <1>1, <1>4, <1>5, <1>10, <2>0, <2>4, <3>2, <3>3, <3>4, GrownByQueued
    <3> QED BY <1>10, <3>2, <3>5 DEF e
  <2> QED BY <2>2, <2>3, <2>4
<1> QED BY <1>7, <1>8, <1>9, <1>10 DEF e

\* The same for all references of a document.
LEMMA EnqueueAllGrows ==
    ASSUME NEW c, NEW d, Grown(c, d), NEW base \in Urls \union {Nothing},
           NEW refs \in Seq(Reference), NEW depth \in Nat
    PROVE  /\ Grown(c, EnqueueAll(d, base, refs, depth))
           /\ ~d.raised /\ (\A i \in DOMAIN refs : refs[i].url \notin TooLong)
                 => ~EnqueueAll(d, base, refs, depth).raised
<1> DEFINE n == Len(refs)
<1>1. n \in Nat /\ DOMAIN refs = 1..n /\ \A i \in 1..n : refs[i] \in Reference
  OBVIOUS
<1>2. PICK f : /\ f[0] = d
               /\ \A i \in 1..n : f[i] = Enqueue(f[i - 1], base, refs[i], depth)
               /\ EnqueueAll(d, base, refs, depth) = f[n]
  BY <1>1, EnqueueAllRounds
<1> DEFINE Short == \A i \in DOMAIN refs : refs[i].url \notin TooLong
           S == {i \in Nat : i <= n => Grown(c, f[i]) /\ (~d.raised /\ Short => ~f[i].raised)}
<1> HIDE DEF n, Short
<1>3. 0 \in S
  BY <1>2
<1>4. ASSUME NEW i \in Nat, i < n, i \in S
      PROVE  i + 1 \in S
  <2>1. Grown(c, f[i]) /\ (~d.raised /\ Short => ~f[i].raised)
    BY <1>1, <1>4
  <2>2. i + 1 \in 1..n /\ (i + 1) - 1 = i
    BY <1>1, <1>4
  <2>3. f[i + 1] = Enqueue(f[i], base, refs[i + 1], depth) /\ refs[i + 1] \in Reference
    BY <1>1, <1>2, <2>2
  <2>4. Grown(c, f[i + 1])
    BY <2>1, <2>3, EnqueueGrows
  <2>5. Short => refs[i + 1].url \notin TooLong
    BY <1>1, <2>2 DEF Short
  <2>6. ~d.raised /\ Short => ~f[i + 1].raised
    BY <2>1, <2>3, <2>5, EnqueueGrows
  <2> QED BY <2>4, <2>6
<1> HIDE DEF S
<1>5. \A i \in 0..n : i \in S
  BY <1>1, <1>3, <1>4, Upward
<1>6. n \in S
  BY <1>1, <1>5
<1> QED BY <1>1, <1>2, <1>6 DEF S, Short

LEMMA PlainReferences ==
    ASSUME NEW locations \in Seq(Urls), NEW kind \in Kinds
    PROVE  Plain(locations, kind) \in Seq(Reference)
<1>1. Len(locations) \in Nat /\ DOMAIN locations = 1..Len(locations)
  OBVIOUS
<1>2. Plain(locations, kind) \in [1..Len(locations) -> Reference]
  BY <1>1 DEF Plain, Reference
<1> QED BY <1>1, <1>2

\* What a document adds.
LEMMA TraversedGrows ==
    ASSUME NEW c, Sound(c), task \in Task, KindOf(task.url) \in Kinds
    PROVE  /\ Grown(c, Traversed(c))
           /\ TooLong = {} /\ ~c.raised => ~Traversed(c).raised
<1> DEFINE u == task.url
           found == DiscoverSitemap(Body[u], u, Hosts, c.sitemaps)
           marked == [c EXCEPT !.sitemaps = @ \union {u}]
           listed == Plain(found.sitemaps, "sitemap")
                        \o Plain(found.pages \o found.excluded, "page")
           refused == Limit(c, u, "unsupported")
           viaSitemap == EnqueueAll(marked, u, listed, task.depth + 1)
           viaPage == EnqueueAll(c, u, Body[u].refs, task.depth + 1)
<1>1. Traversed(c) \in {refused, viaSitemap, viaPage}
  BY DEF Traversed
<1>2. u \in Urls /\ task.depth + 1 \in Nat
  BY DEF Task
<1>3. Grown(c, c)
  BY GrownFromItself
<1>4. CrawlFields(c) /\ c.edges \subseteq Urls \X Urls /\ c.raised \in BOOLEAN
  BY DEF Sound
<1>5. Grown(c, refused) /\ refused.raised = c.raised
  <2>1. /\ CrawlFields(refused) /\ refused.queue = c.queue
        /\ refused.outcomes = c.outcomes /\ refused.edges = c.edges
        /\ refused.raised = c.raised
    BY <1>4, SMTT(30) DEF CrawlFields, Limit
  <2> HIDE DEF refused
  <2> QED BY <1>3, <1>4, <2>1, GrownElsewhere
<1>6. Grown(c, marked) /\ marked.raised = c.raised
  <2>1. /\ CrawlFields(marked) /\ marked.queue = c.queue
        /\ marked.outcomes = c.outcomes /\ marked.edges = c.edges
        /\ marked.raised = c.raised
    BY <1>4 DEF CrawlFields
  <2> HIDE DEF marked
  <2> QED BY <1>3, <1>4, <2>1, GrownElsewhere
<1>7. listed \in Seq(Reference)
  <2>1. found.pages \in Seq(Urls) /\ found.sitemaps \in Seq(Urls) /\ found.excluded \in Seq(Urls)
    BY <1>2, SitemapsListUrls
  <2> HIDE DEF found
  <2>2. found.pages \o found.excluded \in Seq(Urls)
    BY <2>1
  <2>3. /\ Plain(found.sitemaps, "sitemap") \in Seq(Reference)
        /\ Plain(found.pages \o found.excluded, "page") \in Seq(Reference)
    BY <2>1, <2>2, PlainReferences DEF Kinds
  <2> QED BY <2>3
<1>8. Body[u].refs \in Seq(Reference)
  BY <1>2, Profile
<1> HIDE DEF u, listed, marked, refused
<1>9. Grown(c, viaSitemap) /\ (TooLong = {} /\ ~c.raised => ~viaSitemap.raised)
  BY <1>2, <1>6, <1>7, EnqueueAllGrows
<1>10. Grown(c, viaPage) /\ (TooLong = {} /\ ~c.raised => ~viaPage.raised)
  BY <1>2, <1>3, <1>8, EnqueueAllGrows
<1> HIDE DEF viaSitemap, viaPage
<1> QED BY <1>1, <1>5, <1>9, <1>10

-----------------------------------------------------------------------------
(* The URL at hand *)

\* u is at hand: known, not queued; all that is pending otherwise is queued.
AtHandIn(c, u) ==
    /\ Sound(c)
    /\ u \in DOMAIN c.outcomes
    /\ u \notin QueuedIn(c)
    /\ PendingIn(c) \ {u} = QueuedIn(c)

LEMMA UpdateFacts ==
    ASSUME NEW c, NEW u, AtHandIn(c, u), NEW fields, "kind" \notin DOMAIN fields,
           "state" \in DOMAIN fields => fields.state \in ResourceStates
    PROVE  LET d == Update(c, u, fields)
           IN  /\ AtHandIn(d, u)
               /\ d.queue = c.queue /\ DOMAIN d.outcomes = DOMAIN c.outcomes
               /\ d.raised = c.raised /\ d.limits = c.limits /\ d.sitemaps = c.sitemaps
               /\ \A v \in DOMAIN c.outcomes : v # u => d.outcomes[v] = c.outcomes[v]
               /\ d.outcomes[u].kind = c.outcomes[u].kind
               /\ d.outcomes[u].state = IF "state" \in DOMAIN fields THEN fields.state
                                        ELSE c.outcomes[u].state
<1> DEFINE d == Update(c, u, fields)
           r == With(c.outcomes[u], fields)
<1>1. CrawlFields(c) /\ IsOutcome(c.outcomes[u]) /\ u \in DOMAIN c.outcomes
  BY DEF AtHandIn, Sound
<1>2. /\ CrawlFields(d) /\ d.queue = c.queue /\ d.limits = c.limits /\ d.edges = c.edges
      /\ d.sitemaps = c.sitemaps /\ d.raised = c.raised
      /\ d.outcomes = [c.outcomes EXCEPT ![u] = r]
  BY <1>1 DEF Update, CrawlFields
<1>3. /\ IsOutcome(r) /\ r.kind = c.outcomes[u].kind
      /\ r.state = IF "state" \in DOMAIN fields THEN fields.state ELSE c.outcomes[u].state
  BY <1>1 DEF With, IsOutcome
<1> HIDE DEF d, r
<1>4. /\ DOMAIN d.outcomes = DOMAIN c.outcomes /\ d.outcomes[u] = r
      /\ \A v \in DOMAIN c.outcomes : v # u => d.outcomes[v] = c.outcomes[v]
  BY <1>1, <1>2
<1>5. Sound(d)
  <2>1. QueueIsSound(d)
    BY <1>2, <1>4 DEF AtHandIn, Sound, QueueIsSound
  <2>2. \A v \in DOMAIN d.outcomes : IsOutcome(d.outcomes[v])
    BY <1>3, <1>4 DEF AtHandIn, Sound
  <2> QED BY <1>2, <1>4, <2>1, <2>2 DEF AtHandIn, Sound
<1>6. QueuedIn(d) = QueuedIn(c)
  BY <1>2 DEF QueuedIn
<1>7. PendingIn(d) \ {u} = PendingIn(c) \ {u}
  BY <1>4 DEF PendingIn
<1>8. AtHandIn(d, u)
  BY <1>1, <1>4, <1>5, <1>6, <1>7 DEF AtHandIn
<1> QED BY <1>2, <1>3, <1>4, <1>8 DEF d

\* What grows from a crawl has the same URL at hand.
LEMMA GrownAtHand ==
    ASSUME NEW c, NEW d, NEW u, AtHandIn(c, u), Grown(c, d)
    PROVE  /\ AtHandIn(d, u) /\ d.outcomes[u] = c.outcomes[u]
           /\ CapturedIn(d) = CapturedIn(c)
           /\ DOMAIN c.outcomes \subseteq DOMAIN d.outcomes
           /\ QueuedIn(d) \cap DOMAIN c.outcomes = QueuedIn(c)
<1>1. Sound(d) /\ u \in DOMAIN d.outcomes /\ d.outcomes[u] = c.outcomes[u]
  BY DEF AtHandIn, Grown
<1>2. u \notin QueuedIn(d)
  BY DEF AtHandIn, Grown, NewIn
<1>3. QueuedIn(c) \subseteq DOMAIN c.outcomes
  BY DEF AtHandIn, PendingIn
<1>4. PendingIn(d) \ {u} = QueuedIn(d)
  BY DEF AtHandIn, Grown, NewIn, PendingIn
<1>5. CapturedIn(d) = CapturedIn(c)
  BY DEF Grown, NewIn, CapturedIn
<1>6. QueuedIn(d) \cap DOMAIN c.outcomes = QueuedIn(c)
  BY <1>3 DEF Grown, NewIn
<1> QED BY <1>1, <1>2, <1>4, <1>5, <1>6 DEF AtHandIn, Grown

-----------------------------------------------------------------------------
(* After the request *)

\* The crawl between two requests, with what has been visited.
Done(d, seen) ==
    /\ Sound(d)
    /\ ~d.raised
    /\ PendingIn(d) = QueuedIn(d)
    /\ QueuedIn(d) \cap seen = {}
    /\ seen \subseteq DOMAIN d.outcomes

\* The URL at hand has an outcome and is not queued again.
LEMMA AnsweredIsDone ==
    ASSUME NEW d, NEW u, AtHandIn(d, u), d.outcomes[u].state # "pending", ~d.raised,
           NEW seen, seen \subseteq DOMAIN d.outcomes, QueuedIn(d) \cap seen = {}
    PROVE  Done(d, seen)
BY DEF AtHandIn, PendingIn, Done

\* The queue is set, and nothing else.
LEMMA QueueFacts ==
    ASSUME NEW c, CrawlFields(c), NEW q
    PROVE  LET d == [c EXCEPT !.queue = q]
           IN  /\ CrawlFields(d) /\ d.queue = q /\ d.outcomes = c.outcomes
               /\ d.edges = c.edges /\ d.raised = c.raised
BY DEF CrawlFields

\* The URL at hand failed; it is queued again if it may be retried.
LEMMA RequeueIsDone ==
    ASSUME task \in Task, HostInScope(task.url.host, Hosts),
           NEW d, AtHandIn(d, task.url), d.outcomes[task.url].state = "failed", ~d.raised,
           visited \subseteq DOMAIN d.outcomes, QueuedIn(d) \cap visited = {}
    PROVE  /\ Done(Requeue(d), Unvisit)
           /\ CapturedIn(Requeue(d)) = CapturedIn(d)
<1>1. CASE task.retries >= MaxRetries
  <2>1. Requeue(d) = d /\ Unvisit = visited
    BY <1>1 DEF Requeue, Unvisit
  <2> QED BY <2>1, AnsweredIsDone
<1>2. CASE ~(task.retries >= MaxRetries)
  <2> DEFINE u == task.url
             fields == [state |-> "pending", reason |-> "retry"]
             c == Update(d, u, fields)
             t == [task EXCEPT !.retries = @ + 1]
             e == [c EXCEPT !.queue = Append(@, t)]
  <2>1. Requeue(d) = e /\ Unvisit = visited \ {u}
    BY <1>2 DEF Requeue, Unvisit
  <2>2. t \in Task /\ t.url = u
    BY <1>2 DEF Task, MaxRetries
  <2>3. /\ DOMAIN fields = {"state", "reason"} /\ fields.state = "pending"
        /\ "pending" \in ResourceStates
    BY DEF ResourceStates
  <2> HIDE DEF fields, t
  <2>4. /\ AtHandIn(c, u) /\ c.queue = d.queue /\ DOMAIN c.outcomes = DOMAIN d.outcomes
        /\ c.raised = d.raised
        /\ \A v \in DOMAIN d.outcomes : v # u => c.outcomes[v] = d.outcomes[v]
        /\ c.outcomes[u].state = "pending"
    BY <2>3, UpdateFacts
  <2> HIDE DEF c
  <2>5. /\ CrawlFields(e) /\ e.queue = Append(c.queue, t) /\ e.outcomes = c.outcomes
        /\ e.edges = c.edges /\ e.raised = c.raised
    <3>1. CrawlFields(c)
      BY <2>4 DEF AtHandIn, Sound
    <3>2. PICK q : q = Append(c.queue, t)
      OBVIOUS
    <3>3. e = [c EXCEPT !.queue = q]
      BY <3>2
    <3> QED BY <3>1, <3>2, <3>3, QueueFacts
  <2> HIDE DEF e
  <2>6. QueueIsSound(e) /\ QueuedIn(e) = QueuedIn(c) \union {u}
    <3>1. /\ QueueIsSound(c) /\ t.url \in DOMAIN e.outcomes /\ t.url \notin QueuedIn(c)
          /\ DOMAIN c.outcomes \subseteq DOMAIN e.outcomes
      BY <2>2, <2>4, <2>5 DEF AtHandIn, Sound
    <3>2. HostInScope(t.url.host, Hosts)
      BY <2>2
    <3>3. QueueIsSound(e) /\ QueuedIn(e) = QueuedIn(c) \union {t.url}
      BY <2>2, <2>5, <3>1, <3>2, QueueGrows
    <3> QED BY <2>2, <3>3
  <2>7. Sound(e) /\ ~e.raised
    BY <2>4, <2>5, <2>6 DEF AtHandIn, Sound
  <2> HIDE DEF u
  <2>8. PendingIn(e) = QueuedIn(e)
    <3>1. PendingIn(e) = (PendingIn(c) \ {u}) \union {u}
      BY <2>4, <2>5 DEF AtHandIn, PendingIn
    <3> QED BY <2>4, <2>6, <3>1 DEF AtHandIn
  <2>9. QueuedIn(c) = QueuedIn(d)
    BY <2>4 DEF QueuedIn
  <2>11. d.outcomes[u].state = "failed"
    BY DEF u
  <2>10. CapturedIn(e) = CapturedIn(d)
    <3>1. \A v \in DOMAIN d.outcomes :
             e.outcomes[v].state = "captured" <=> d.outcomes[v].state = "captured"
      BY <2>4, <2>5, <2>11
    <3> QED BY <2>4, <2>5, <3>1 DEF CapturedIn
  <2> QED BY <2>1, <2>4, <2>5, <2>6, <2>7, <2>8, <2>9, <2>10 DEF Done, u
<1> QED BY <1>1, <1>2

LEMMA TransferFailedIsDone ==
    ASSUME task \in Task, HostInScope(task.url.host, Hosts),
           NEW d, AtHandIn(d, task.url),
           visited \subseteq DOMAIN d.outcomes, QueuedIn(d) \cap visited = {}
    PROVE  /\ Done(TransferFailed(d), Unvisit)
           /\ CapturedIn(TransferFailed(d)) = CapturedIn(d) \ {task.url}
<1> DEFINE u == task.url
           fields == [state |-> "failed", reason |-> "network_or_decode_error"]
           c == [d EXCEPT !.raised = FALSE]
           e == Update(c, u, fields)
<1>1. TransferFailed(d) = Requeue(e)
  BY DEF TransferFailed
<1>2. DOMAIN fields = {"state", "reason"} /\ fields.state = "failed" /\ "failed" \in ResourceStates
  BY DEF ResourceStates
<1> HIDE DEF fields
<1>3. /\ CrawlFields(c) /\ c.queue = d.queue /\ c.outcomes = d.outcomes
      /\ c.edges = d.edges /\ c.raised = FALSE
  <2>1. CrawlFields(d)
    BY DEF AtHandIn, Sound
  <2>2. ASSUME NEW x
        PROVE  LET f == [d EXCEPT !.raised = x]
               IN  /\ CrawlFields(f) /\ f.queue = d.queue /\ f.outcomes = d.outcomes
                   /\ f.edges = d.edges /\ f.raised = x
    BY <2>1 DEF CrawlFields
  <2> QED BY <2>2, Zenon
<1> HIDE DEF c
<1>4. AtHandIn(c, u) /\ QueuedIn(c) = QueuedIn(d)
  <2>1. QueuedIn(c) = QueuedIn(d) /\ PendingIn(c) = PendingIn(d)
    BY <1>3 DEF QueuedIn, PendingIn
  <2>2. Sound(c)
    BY <1>3 DEF AtHandIn, Sound, QueueIsSound
  <2>3. c.outcomes = d.outcomes
    BY <1>3
  <2> QED BY <2>1, <2>2, <2>3 DEF AtHandIn
<1>5. /\ AtHandIn(e, u) /\ e.queue = c.queue /\ DOMAIN e.outcomes = DOMAIN c.outcomes
      /\ e.raised = c.raised /\ u \in DOMAIN c.outcomes
      /\ \A v \in DOMAIN c.outcomes : v # u => e.outcomes[v] = c.outcomes[v]
      /\ e.outcomes[u].state = "failed"
  BY <1>2, <1>4, UpdateFacts DEF AtHandIn
<1> HIDE DEF e
<1>6. QueuedIn(e) = QueuedIn(d)
  <2>1. QueuedIn(c) = QueuedIn(d) /\ e.queue = c.queue
    BY <1>4, <1>5
  <2>2. QueuedIn(e) = QueuedIn(c)
    BY <2>1 DEF QueuedIn
  <2> QED BY <2>1, <2>2
<1>7. CapturedIn(e) = CapturedIn(d) \ {u}
  <2>1. \A v \in DOMAIN d.outcomes :
           e.outcomes[v].state = "captured" <=> v # u /\ d.outcomes[v].state = "captured"
    BY <1>3, <1>5
  <2> QED BY <1>3, <1>5, <2>1 DEF CapturedIn
<1>8. /\ Done(Requeue(e), Unvisit)
      /\ CapturedIn(Requeue(e)) = CapturedIn(e)
  BY <1>3, <1>5, <1>6, RequeueIsDone
<1> QED BY <1>1, <1>7, <1>8

\* The URL at hand is archived and what it refers to is queued, or it counts
\* as failed because of an error on the way.
LEMMA SettledIsDone ==
    ASSUME task \in Task, HostInScope(task.url.host, Hosts),
           NEW d, AtHandIn(d, task.url), d.outcomes[task.url].state = "captured",
           visited \subseteq DOMAIN d.outcomes, QueuedIn(d) \cap visited = {}
    PROVE  /\ Done(Settle(d), IF d.raised THEN Unvisit ELSE visited)
           /\ ~d.raised => CapturedIn(Settle(d)) = CapturedIn(d)
<1>1. CASE d.raised
  <2>1. Settle(d) = TransferFailed(d)
    BY <1>1 DEF Settle
  <2> QED BY <1>1, <2>1, TransferFailedIsDone
<1>2. CASE ~d.raised
  <2>1. Settle(d) = d
    BY <1>2 DEF Settle
  <2>2. Done(d, visited)
    BY <1>2, AnsweredIsDone
  <2> QED BY <1>2, <2>1, <2>2
<1> QED BY <1>1, <1>2

\* A request is on its way: what holds of the crawl then.
Requesting ==
    /\ task \in Task
    /\ HostInScope(task.url.host, Hosts)
    /\ AtHandIn(crawl, task.url)
    /\ crawl.outcomes[task.url].state = "pending"
    /\ ~crawl.raised
    /\ visited \subseteq DOMAIN crawl.outcomes
    /\ QueuedIn(crawl) \cap visited = {}

FrontierInv ==
    IF task = Nothing THEN Done(crawl, visited) ELSE Requesting

LEMMA DeclaredFacts ==
    ASSUME Requesting, NEW headers
    PROVE  LET d == Declared(crawl, headers)
           IN  /\ AtHandIn(d, task.url)
               /\ d.queue = crawl.queue /\ DOMAIN d.outcomes = DOMAIN crawl.outcomes
               /\ d.raised = crawl.raised
               /\ \A v \in DOMAIN d.outcomes : d.outcomes[v].state = crawl.outcomes[v].state
<1> DEFINE d == Declared(crawl, headers)
           fields == [declared |-> IF "bytes" \in DOMAIN headers THEN headers.bytes
                                   ELSE Nothing]
           u == task.url
<1>1. DOMAIN fields = {"declared"}
  OBVIOUS
<1>2. d = Update(crawl, u, fields)
  BY DEF Declared
<1>3. AtHandIn(crawl, u) /\ u \in DOMAIN crawl.outcomes
  BY DEF Requesting, AtHandIn
<1> HIDE DEF fields, u, d
<1>4. /\ AtHandIn(d, u)
      /\ d.queue = crawl.queue /\ DOMAIN d.outcomes = DOMAIN crawl.outcomes
      /\ d.raised = crawl.raised
      /\ \A v \in DOMAIN crawl.outcomes : v # u => d.outcomes[v] = crawl.outcomes[v]
      /\ d.outcomes[u].state = crawl.outcomes[u].state
  BY <1>1, <1>2, <1>3, UpdateFacts
<1> QED BY <1>3, <1>4 DEF d, u

\* The answer for the URL at hand is set, after what the headers said.
LEMMA AnswerFacts ==
    ASSUME Requesting, NEW c, AtHandIn(c, task.url), c.queue = crawl.queue,
           DOMAIN c.outcomes = DOMAIN crawl.outcomes, c.raised = crawl.raised,
           \A v \in DOMAIN c.outcomes : c.outcomes[v].state = crawl.outcomes[v].state,
           NEW fields, "kind" \notin DOMAIN fields, "state" \in DOMAIN fields,
           fields.state \in ResourceStates
    PROVE  LET d == Update(c, task.url, fields)
           IN  /\ AtHandIn(d, task.url) /\ d.outcomes[task.url].state = fields.state
               /\ ~d.raised
               /\ DOMAIN d.outcomes = DOMAIN crawl.outcomes
               /\ QueuedIn(d) \cap visited = {}
               /\ CapturedIn(d) = IF fields.state = "captured"
                                  THEN CapturedIn(crawl) \union {task.url}
                                  ELSE CapturedIn(crawl)
<1> DEFINE u == task.url
           d == Update(c, u, fields)
<1>1. u \in DOMAIN crawl.outcomes /\ crawl.outcomes[u].state = "pending" /\ AtHandIn(c, u)
  BY DEF Requesting, AtHandIn
<1> HIDE DEF u, d
<1>2. /\ AtHandIn(d, u)
      /\ d.queue = c.queue /\ DOMAIN d.outcomes = DOMAIN c.outcomes
      /\ d.raised = c.raised
      /\ \A v \in DOMAIN c.outcomes : v # u => d.outcomes[v] = c.outcomes[v]
      /\ d.outcomes[u].state = fields.state
  BY <1>1, UpdateFacts DEF d
<1>3. QueuedIn(d) = QueuedIn(crawl)
  BY <1>2 DEF QueuedIn
<1>4. \A v \in DOMAIN crawl.outcomes :
         d.outcomes[v].state = "captured" <=>
             IF v = u THEN fields.state = "captured" ELSE crawl.outcomes[v].state = "captured"
  BY <1>2
<1>5. CapturedIn(d) = IF fields.state = "captured" THEN CapturedIn(crawl) \union {u}
                      ELSE CapturedIn(crawl)
  BY <1>1, <1>2, <1>4 DEF CapturedIn
<1> QED BY <1>2, <1>3, <1>5 DEF Requesting, d, u

-----------------------------------------------------------------------------
(* One lemma per step that answers a request *)

\* Requests that archive nothing.
NothingArchived ==
    /\ Done(crawl', visited')
    /\ CapturedIn(crawl') = CapturedIn(crawl)
    /\ UNCHANGED archive

LEMMA TransferFailsStep ==
    ASSUME Requesting, TransferFails PROVE NothingArchived
<1>1. /\ Done(TransferFailed(crawl), Unvisit)
      /\ CapturedIn(TransferFailed(crawl)) = CapturedIn(crawl) \ {task.url}
  BY TransferFailedIsDone DEF Requesting
<1>2. task.url \notin CapturedIn(crawl)
  BY DEF Requesting, CapturedIn
<1>3. crawl' = TransferFailed(crawl) /\ visited' = Unvisit /\ UNCHANGED archive
  BY DEF TransferFails
<1> QED BY <1>1, <1>2, <1>3 DEF NothingArchived

LEMMA HttpFailsStep ==
    ASSUME Requesting, HttpFails PROVE NothingArchived
<1>1. PICK status \in ErrorStatuses :
         LET failed == Update(crawl, task.url, [state |-> "failed",
                              reason |-> "http_error", status |-> status])
         IN  /\ crawl' = IF Countable(status) THEN Requeue(failed) ELSE failed
             /\ visited' = IF Countable(status) THEN Unvisit ELSE visited
  BY DEF HttpFails
<1> DEFINE fields == [state |-> "failed", reason |-> "http_error", status |-> status]
           failed == Update(crawl, task.url, fields)
<1>2. /\ crawl' = IF Countable(status) THEN Requeue(failed) ELSE failed
      /\ visited' = IF Countable(status) THEN Unvisit ELSE visited
      /\ UNCHANGED archive
  BY <1>1 DEF HttpFails
<1>3. /\ DOMAIN fields = {"state", "reason", "status"} /\ fields.state = "failed"
      /\ "failed" \in ResourceStates
  BY DEF ResourceStates
<1> HIDE DEF fields
<1>4. /\ AtHandIn(failed, task.url) /\ failed.outcomes[task.url].state = "failed"
      /\ ~failed.raised
      /\ DOMAIN failed.outcomes = DOMAIN crawl.outcomes
      /\ QueuedIn(failed) \cap visited = {}
      /\ CapturedIn(failed) = CapturedIn(crawl)
  BY <1>3, AnswerFacts DEF Requesting
<1> HIDE DEF failed
<1>5. visited \subseteq DOMAIN failed.outcomes
  BY <1>4 DEF Requesting
<1>6. CASE Countable(status)
  <2>1. Done(Requeue(failed), Unvisit) /\ CapturedIn(Requeue(failed)) = CapturedIn(failed)
    BY <1>4, <1>5, RequeueIsDone DEF Requesting
  <2> QED BY <1>2, <1>4, <1>6, <2>1 DEF NothingArchived
<1>7. CASE ~Countable(status)
  <2>1. Done(failed, visited)
    BY <1>4, <1>5, AnsweredIsDone
  <2> QED BY <1>2, <1>4, <1>7, <2>1 DEF NothingArchived
<1> QED BY <1>6, <1>7

LEMMA RefusedStep ==
    ASSUME Requesting, Refused PROVE NothingArchived
<1>1. PICK headers \in HeaderSets(task.url) :
         crawl' = Update(Declared(crawl, headers), task.url,
                         [state |-> "excluded", reason |-> "rule"])
  BY DEF Refused
<1> DEFINE c == Declared(crawl, headers)
           fields == [state |-> "excluded", reason |-> "rule"]
           d == Update(c, task.url, fields)
<1>2. crawl' = d /\ UNCHANGED <<visited, archive>>
  BY <1>1 DEF Refused
<1>3. /\ DOMAIN fields = {"state", "reason"} /\ fields.state = "excluded"
      /\ "excluded" \in ResourceStates
  BY DEF ResourceStates
<1>4. /\ AtHandIn(c, task.url)
      /\ c.queue = crawl.queue /\ DOMAIN c.outcomes = DOMAIN crawl.outcomes
      /\ c.raised = crawl.raised
      /\ \A v \in DOMAIN c.outcomes : c.outcomes[v].state = crawl.outcomes[v].state
  BY DeclaredFacts
<1> HIDE DEF fields, c
<1>5. /\ AtHandIn(d, task.url) /\ d.outcomes[task.url].state = "excluded"
      /\ ~d.raised
      /\ DOMAIN d.outcomes = DOMAIN crawl.outcomes
      /\ QueuedIn(d) \cap visited = {}
      /\ CapturedIn(d) = CapturedIn(crawl)
  BY <1>3, <1>4, AnswerFacts
<1> HIDE DEF d
<1>6. Done(d, visited)
  BY <1>5, AnsweredIsDone DEF Requesting
<1> QED BY <1>2, <1>5, <1>6 DEF NothingArchived

LEMMA TooLargeStep ==
    ASSUME Requesting, TooLarge PROVE NothingArchived
<1>1. PICK headers \in HeaderSets(task.url) :
         crawl' = Limit(Update(Declared(crawl, headers), task.url,
                               [state |-> "unsupported", reason |-> "sitemap_byte_limit"]),
                        task.url, "sitemap_byte_limit")
  BY DEF TooLarge
<1> DEFINE c == Declared(crawl, headers)
           fields == [state |-> "unsupported", reason |-> "sitemap_byte_limit"]
           d == Update(c, task.url, fields)
           e == Limit(d, task.url, "sitemap_byte_limit")
<1>2. crawl' = e /\ UNCHANGED <<visited, archive>>
  BY <1>1 DEF TooLarge
<1>3. /\ DOMAIN fields = {"state", "reason"} /\ fields.state = "unsupported"
      /\ "unsupported" \in ResourceStates
  BY DEF ResourceStates
<1>4. /\ AtHandIn(c, task.url)
      /\ c.queue = crawl.queue /\ DOMAIN c.outcomes = DOMAIN crawl.outcomes
      /\ c.raised = crawl.raised
      /\ \A v \in DOMAIN c.outcomes : c.outcomes[v].state = crawl.outcomes[v].state
  BY DeclaredFacts
<1> HIDE DEF fields, c
<1>5. /\ AtHandIn(d, task.url) /\ d.outcomes[task.url].state = "unsupported"
      /\ ~d.raised
      /\ DOMAIN d.outcomes = DOMAIN crawl.outcomes
      /\ QueuedIn(d) \cap visited = {}
      /\ CapturedIn(d) = CapturedIn(crawl)
  BY <1>3, <1>4, AnswerFacts
<1> HIDE DEF d
<1>6. /\ CrawlFields(e) /\ e.queue = d.queue /\ e.outcomes = d.outcomes
      /\ e.edges = d.edges /\ e.raised = d.raised
  <2>1. CrawlFields(d)
    BY <1>5 DEF AtHandIn, Sound
  <2> QED BY <2>1 DEF CrawlFields, Limit
<1> HIDE DEF e
<1>7. Done(d, visited)
  BY <1>5, AnsweredIsDone DEF Requesting
<1>8. Sound(e)
  BY <1>6, <1>7 DEF Done, Sound, QueueIsSound
<1>9. QueuedIn(e) = QueuedIn(d) /\ PendingIn(e) = PendingIn(d) /\ CapturedIn(e) = CapturedIn(d)
  BY <1>6 DEF QueuedIn, PendingIn, CapturedIn
<1>10. Done(e, visited)
  BY <1>6, <1>7, <1>8, <1>9 DEF Done
<1> QED BY <1>2, <1>5, <1>9, <1>10 DEF NothingArchived

\* The URL at hand, archived and grown by what it refers to.
LEMMA ArchivedIsDone ==
    ASSUME Requesting, NEW saved, NEW d, AtHandIn(saved, task.url), Grown(saved, d),
           saved.outcomes[task.url].state = "captured",
           DOMAIN saved.outcomes = DOMAIN crawl.outcomes,
           QueuedIn(saved) \cap visited = {},
           CapturedIn(saved) = CapturedIn(crawl) \union {task.url}
    PROVE  /\ Done(Settle(d), IF d.raised THEN Unvisit ELSE visited)
           /\ ~d.raised => CapturedIn(Settle(d)) = CapturedIn(crawl) \union {task.url}
<1>1. /\ AtHandIn(d, task.url) /\ d.outcomes[task.url] = saved.outcomes[task.url]
      /\ CapturedIn(d) = CapturedIn(saved)
      /\ DOMAIN saved.outcomes \subseteq DOMAIN d.outcomes
      /\ QueuedIn(d) \cap DOMAIN saved.outcomes = QueuedIn(saved)
  BY GrownAtHand
<1>2. visited \subseteq DOMAIN d.outcomes /\ QueuedIn(d) \cap visited = {}
  BY <1>1 DEF Requesting
<1> QED BY <1>1, <1>2, SettledIsDone DEF Requesting

LEMMA CapturedFacts ==
    ASSUME Requesting, NEW headers, NEW status, NEW location
    PROVE  LET saved == Captured(crawl, headers, status, location)
           IN  /\ AtHandIn(saved, task.url)
               /\ saved.outcomes[task.url].state = "captured"
               /\ ~saved.raised
               /\ DOMAIN saved.outcomes = DOMAIN crawl.outcomes
               /\ QueuedIn(saved) \cap visited = {}
               /\ CapturedIn(saved) = CapturedIn(crawl) \union {task.url}
<1> DEFINE c == Declared(crawl, headers)
           fields == [state |-> "captured", reason |-> "none", status |-> status,
                      bytes |-> Body[task.url].size, digest |-> Body[task.url].digest,
                      redirect |-> location]
<1>1. Captured(crawl, headers, status, location) = Update(c, task.url, fields)
  BY DEF Captured
<1>2. /\ DOMAIN fields = {"state", "reason", "status", "bytes", "digest", "redirect"}
      /\ fields.state = "captured" /\ "captured" \in ResourceStates
  BY DEF ResourceStates
<1>3. /\ AtHandIn(c, task.url)
      /\ c.queue = crawl.queue /\ DOMAIN c.outcomes = DOMAIN crawl.outcomes
      /\ c.raised = crawl.raised
      /\ \A v \in DOMAIN c.outcomes : c.outcomes[v].state = crawl.outcomes[v].state
  BY DeclaredFacts
<1> HIDE DEF fields, c
<1> QED BY <1>1, <1>2, <1>3, AnswerFacts

LEMMA LimitFacts ==
    ASSUME NEW c, CrawlFields(c), NEW source, NEW reason
    PROVE  /\ CrawlFields(Limit(c, source, reason))
           /\ Limit(c, source, reason).queue = c.queue
           /\ Limit(c, source, reason).outcomes = c.outcomes
           /\ Limit(c, source, reason).edges = c.edges
           /\ Limit(c, source, reason).raised = c.raised
BY DEF CrawlFields, Limit

\* What was archived last, and the rules with all that is known of it.
Known5(r) ==
    [url |-> r.url, kind |-> r.kind, depth |-> r.depth,
     mime |-> Body[r.url].mime, bytes |-> Body[r.url].size]

LEMMA ConfigsAreLists ==
    ASSUME NEW config \in Configs PROVE RuleList(config)
<1>1. config \in Seq(Range(config)) /\ ValidRules(config)
  BY HeadlessAssumption DEF IsSequence
<1>2. DOMAIN config = 1..Len(config) /\ Len(config) \in Nat
  BY <1>1
<1> QED BY <1>1, <1>2 DEF RuleList, ValidRules

\* What permit_body grants with the headers and the actual size, the rules
\* grant with the actual type, too.
LEMMA PermittedForGood ==
    ASSUME rules \in Configs, NEW headers \in HeaderSets(task.url),
           Permitted(headers).download
    PROVE  EvaluateRules(rules, Known5([url |-> task.url, kind |-> KindOf(task.url),
                                        depth |-> task.depth]), TRUE).download
<1> DEFINE u == task.url
           body == Body[u]
           known == Known([url |-> u, kind |-> KindOf(u)], task.depth)
           more == With(headers, [bytes |-> body.size])
           r == With(known, more)
           full == Known5([url |-> u, kind |-> KindOf(u), depth |-> task.depth])
<1>1. /\ DOMAIN headers \subseteq {"mime", "bytes"}
      /\ "mime" \in DOMAIN headers => headers.mime = body.mime
  BY DEF HeaderSets
<1>2. /\ DOMAIN more \subseteq {"mime", "bytes"}
      /\ "bytes" \in DOMAIN more => more["bytes"] = body.size
      /\ "mime" \in DOMAIN more => more["mime"] = body.mime
  BY <1>1 DEF With
<1>3. /\ DOMAIN known = {"url", "kind", "depth"}
      /\ known["url"] = u /\ known["kind"] = KindOf(u) /\ known["depth"] = task.depth
  BY DEF Known
<1>4. /\ DOMAIN full = {"url", "kind", "depth", "mime", "bytes"}
      /\ full["url"] = u /\ full["kind"] = KindOf(u) /\ full["depth"] = task.depth
      /\ full["mime"] = body.mime /\ full["bytes"] = body.size
  BY DEF Known5
<1>5. EvaluateRules(rules, r, TRUE).download
  BY DEF Permitted, DecisionAt
<1> HIDE DEF more, known, full, body, u
<1>6. Refines(full, r)
  <2>1. DOMAIN r \subseteq {"url", "kind", "depth", "mime", "bytes"}
    BY <1>2, <1>3 DEF With
  <2>2. ASSUME NEW field \in DOMAIN r PROVE full[field] = r[field]
    <3>1. CASE field \in DOMAIN more
      BY <1>2, <1>4, <3>1 DEF With
    <3>2. CASE field \notin DOMAIN more
      BY <1>3, <1>4, <2>2, <3>2 DEF With
    <3> QED BY <3>1, <3>2
  <2> QED BY <1>4, <2>1, <2>2 DEF Refines
<1> HIDE DEF r
<1>7. RuleList(rules)
  BY ConfigsAreLists
<1>8. EvaluateRules(rules, r, TRUE).state # "needs_metadata"
  <2> SUFFICES ASSUME EvaluateRules(rules, r, TRUE).state = "needs_metadata" PROVE FALSE
    OBVIOUS
  <2>1. ~EvaluateRules(rules, r, TRUE).download
    BY DEF EvaluateRules, Decided, DecisionOf
  <2> QED BY <1>5, <2>1
<1>9. EvaluateRules(rules, full, TRUE) = EvaluateRules(rules, r, TRUE)
  BY <1>6, <1>7, <1>8, DecisionsAreFinal
<1> QED BY <1>5, <1>9 DEF full, u

\* Requests that are answered.
OneArchived ==
    \E r : /\ r.url = task.url
           /\ EvaluateRules(rules, Known5(r), TRUE).download
           /\ archive' = Append(archive, r)
           /\ Done(crawl', visited')
           /\ TooLong = {} => CapturedIn(crawl') = CapturedIn(crawl) \union {task.url}

LEMMA WriteStep ==
    ASSUME rules \in Configs, NEW headers \in HeaderSets(task.url), Answered(headers)
    PROVE  \E r : /\ r.url = task.url
                  /\ EvaluateRules(rules, Known5(r), TRUE).download
                  /\ archive' = Append(archive, r)
<1>1. Permitted(headers).download /\ WriteResponse
  BY DEF Answered
<1> DEFINE u == task.url
           last == FirstOf(Body[u].digest)
           r == [url |-> u, digest |-> Body[u].digest, depth |-> task.depth,
                 kind |-> KindOf(u),
                 refers |-> IF last = {} THEN 0
                            ELSE CHOOSE i \in last : \A j \in last : j <= i]
<1>2. archive' = Append(archive, r)
  BY <1>1 DEF WriteResponse
<1>3. r.url = u /\ Known5(r) = Known5([url |-> u, kind |-> KindOf(u), depth |-> task.depth])
  BY DEF Known5
<1> HIDE DEF r
<1>4. EvaluateRules(rules, Known5(r), TRUE).download
  BY <1>1, <1>3, PermittedForGood
<1> QED BY <1>2, <1>3, <1>4

LEMMA CaptureStep ==
    ASSUME Requesting, rules \in Configs, Capture PROVE OneArchived
<1>1. PICK headers \in HeaderSets(task.url) :
          LET saved == Captured(crawl, headers, 200, Nothing)
              after == IF Permitted(headers).traverse THEN Traversed(saved) ELSE saved
          IN  /\ Answered(headers)
              /\ crawl' = Settle(after)
              /\ visited' = IF after.raised THEN Unvisit ELSE visited
  BY DEF Capture
<1> DEFINE saved == Captured(crawl, headers, 200, Nothing)
           after == IF Permitted(headers).traverse THEN Traversed(saved) ELSE saved
<1>2. /\ Answered(headers)
      /\ crawl' = Settle(after)
      /\ visited' = IF after.raised THEN Unvisit ELSE visited
  BY <1>1
<1>3. /\ AtHandIn(saved, task.url)
      /\ saved.outcomes[task.url].state = "captured"
      /\ ~saved.raised
      /\ DOMAIN saved.outcomes = DOMAIN crawl.outcomes
      /\ QueuedIn(saved) \cap visited = {}
      /\ CapturedIn(saved) = CapturedIn(crawl) \union {task.url}
  BY CapturedFacts
<1> HIDE DEF saved
<1>4. Sound(saved)
  BY <1>3 DEF AtHandIn
<1>5. KindOf(task.url) \in Kinds
  BY DEF Requesting, AtHandIn, Sound, IsOutcome, KindOf
<1>6. Grown(saved, after) /\ (TooLong = {} => ~after.raised)
  <2>1. Grown(saved, Traversed(saved)) /\ (TooLong = {} => ~Traversed(saved).raised)
    BY <1>3, <1>4, <1>5, TraversedGrows DEF Requesting
  <2>2. Grown(saved, saved)
    BY <1>4, GrownFromItself
  <2> QED BY <1>3, <2>1, <2>2
<1> HIDE DEF after
<1>7. /\ Done(Settle(after), IF after.raised THEN Unvisit ELSE visited)
      /\ ~after.raised => CapturedIn(Settle(after)) = CapturedIn(crawl) \union {task.url}
  BY <1>3, <1>6, ArchivedIsDone
<1>8. PICK r : /\ r.url = task.url
               /\ EvaluateRules(rules, Known5(r), TRUE).download
               /\ archive' = Append(archive, r)
  BY <1>2, WriteStep
<1>9. Done(crawl', visited')
  BY <1>2, <1>7
<1> QED BY <1>2, <1>6, <1>7, <1>8, <1>9 DEF OneArchived

LEMMA RedirectStep ==
    ASSUME Requesting, rules \in Configs, Redirect PROVE OneArchived
<1>1. PICK headers \in HeaderSets(task.url) :
          LET to == Location[task.url]
              saved == Captured(crawl, headers, 302, to)
              ref == [url |-> to, kind |-> KindOf(task.url), strict |-> FALSE]
              after == IF to = Nothing THEN Limit(saved, task.url, "no location")
                       ELSE IF Permitted(headers).traverse
                       THEN Enqueue(saved, task.url, ref, task.depth)
                       ELSE saved
          IN  /\ Answered(headers)
              /\ crawl' = Settle(after)
              /\ visited' = IF after.raised THEN Unvisit ELSE visited
  BY DEF Redirect
<1> DEFINE to == Location[task.url]
           saved == Captured(crawl, headers, 302, to)
           ref == [url |-> to, kind |-> KindOf(task.url), strict |-> FALSE]
           limited == Limit(saved, task.url, "no location")
           linked == Enqueue(saved, task.url, ref, task.depth)
           after == IF to = Nothing THEN limited
                    ELSE IF Permitted(headers).traverse THEN linked ELSE saved
<1>2. /\ Answered(headers)
      /\ crawl' = Settle(after)
      /\ visited' = IF after.raised THEN Unvisit ELSE visited
  BY <1>1
<1>3. /\ AtHandIn(saved, task.url)
      /\ saved.outcomes[task.url].state = "captured"
      /\ ~saved.raised
      /\ DOMAIN saved.outcomes = DOMAIN crawl.outcomes
      /\ QueuedIn(saved) \cap visited = {}
      /\ CapturedIn(saved) = CapturedIn(crawl) \union {task.url}
  BY CapturedFacts
<1>4. ref \in Reference /\ (TooLong = {} => ref.url \notin TooLong)
  <2>1. to \in Urls \union {Nothing}
    BY Profile DEF Redirect
  <2>2. KindOf(task.url) \in Kinds
    BY DEF Requesting, AtHandIn, Sound, IsOutcome, KindOf
  <2> QED BY <2>1, <2>2 DEF Reference
<1> HIDE DEF saved, ref, to
<1>5. Sound(saved) /\ CrawlFields(saved)
  BY <1>3 DEF AtHandIn, Sound
<1>6. Grown(saved, saved)
  BY <1>5, GrownFromItself
<1>7. Grown(saved, limited) /\ limited.raised = saved.raised
  <2>1. /\ CrawlFields(limited) /\ limited.queue = saved.queue
        /\ limited.outcomes = saved.outcomes /\ limited.edges = saved.edges
        /\ limited.raised = saved.raised
    <3>1. limited = Limit(saved, task.url, "no location") /\ CrawlFields(saved)
      BY <1>5
    <3> HIDE DEF limited
    <3> QED BY <3>1, LimitFacts, ZenonT(60)
  <2> HIDE DEF limited
  <2> QED BY <1>5, <1>6, <2>1, GrownElsewhere DEF Sound
<1>8. Grown(saved, linked) /\ (TooLong = {} => ~linked.raised)
  <2>1. task.url \in Urls \union {Nothing} /\ task.depth \in Nat
    BY DEF Requesting, Task
  <2>2. /\ Grown(saved, Enqueue(saved, task.url, ref, task.depth))
        /\ ~saved.raised /\ ref.url \notin TooLong
              => ~Enqueue(saved, task.url, ref, task.depth).raised
    <3>1. ref \in Reference
      BY <1>4
    <3> QED BY <1>6, <2>1, <3>1, EnqueueGrows
  <2> QED BY <1>3, <1>4, <2>2
<1> HIDE DEF limited, linked
<1>9. Grown(saved, after) /\ (TooLong = {} => ~after.raised)
  BY <1>3, <1>6, <1>7, <1>8
<1> HIDE DEF after
<1>10. /\ Done(Settle(after), IF after.raised THEN Unvisit ELSE visited)
       /\ ~after.raised => CapturedIn(Settle(after)) = CapturedIn(crawl) \union {task.url}
  BY <1>3, <1>9, ArchivedIsDone
<1>11. PICK r : /\ r.url = task.url
                /\ EvaluateRules(rules, Known5(r), TRUE).download
                /\ archive' = Append(archive, r)
  BY <1>2, WriteStep
<1>12. Done(crawl', visited')
  BY <1>2, <1>10
<1> QED BY <1>2, <1>9, <1>10, <1>11, <1>12 DEF OneArchived

-----------------------------------------------------------------------------
(* The steps that send nothing *)

LEMMA QueueShrinks ==
    ASSUME NEW c, Sound(c), PendingIn(c) = QueuedIn(c), c.queue # <<>>,
           NEW rest, CrawlFields(rest), rest.queue = Tail(c.queue),
           rest.outcomes = c.outcomes, rest.edges = c.edges, rest.raised = c.raised
    PROVE  LET k == Head(c.queue)
           IN  /\ k \in Task /\ HostInScope(k.url.host, Hosts)
               /\ k.url \in QueuedIn(c)
               /\ AtHandIn(rest, k.url) /\ rest.outcomes[k.url].state = "pending"
               /\ QueuedIn(rest) \subseteq QueuedIn(c)
               /\ CapturedIn(rest) = CapturedIn(c)
<1> DEFINE k == Head(c.queue)
           s == c.queue
           t == Tail(s)
           n == Len(s)
<1>1. s \in Seq(Task) /\ s # <<>>
  BY DEF Sound, QueueIsSound
<1>2. /\ n \in Nat /\ n # 0 /\ DOMAIN s = 1..n
      /\ t \in Seq(Task) /\ DOMAIN t = 1..(n - 1)
      /\ \A i \in 1..(n - 1) : t[i] = s[i + 1] /\ i + 1 \in 1..n
      /\ k = s[1] /\ 1 \in 1..n
      /\ \A i \in 1..n : i = 1 \/ (i - 1 \in 1..(n - 1) /\ (i - 1) + 1 = i)
      /\ \A i, j \in 1..(n - 1) : i + 1 = j + 1 => i = j
      /\ \A i \in 1..(n - 1) : i + 1 # 1
  BY <1>1
<1>3. /\ \A i \in DOMAIN s : s[i].url \in DOMAIN c.outcomes /\ HostInScope(s[i].url.host, Hosts)
      /\ \A i, j \in DOMAIN s : s[i].url = s[j].url => i = j
  BY DEF Sound, QueueIsSound
<1>4. k \in Task /\ HostInScope(k.url.host, Hosts)
  BY <1>1, <1>2, <1>3
<1>5. QueuedIn(c) = {s[i].url : i \in DOMAIN s} /\ QueuedIn(rest) = {t[i].url : i \in DOMAIN t}
  BY DEF QueuedIn
<1>11. rest.queue = t /\ rest.outcomes = c.outcomes
  OBVIOUS
<1> HIDE DEF k, s, t, n
<1>6. k.url \in QueuedIn(c) /\ QueuedIn(rest) = QueuedIn(c) \ {k.url}
  <2>1. k.url \in QueuedIn(c)
    BY <1>2, <1>5
  <2>2. ASSUME NEW i \in DOMAIN t PROVE t[i].url \in QueuedIn(c) /\ t[i].url # k.url
    <3>1. t[i] = s[i + 1] /\ i + 1 \in DOMAIN s /\ i + 1 # 1 /\ 1 \in DOMAIN s
      BY <1>2, <2>2
    <3> QED BY <1>2, <1>3, <1>5, <3>1
  <2>3. ASSUME NEW i \in DOMAIN s, s[i].url # k.url PROVE s[i].url \in QueuedIn(rest)
    <3>1. i - 1 \in DOMAIN t /\ t[i - 1] = s[i]
      BY <1>2, <2>3
    <3> QED BY <1>5, <3>1
  <2> QED BY <1>5, <2>1, <2>2, <2>3
<1>7. QueueIsSound(rest)
  <2>1. ASSUME NEW i \in DOMAIN t
        PROVE  t[i].url \in DOMAIN c.outcomes /\ HostInScope(t[i].url.host, Hosts)
    <3>1. t[i] = s[i + 1] /\ i + 1 \in DOMAIN s
      BY <1>2
    <3> QED BY <1>3, <3>1
  <2>2. ASSUME NEW i \in DOMAIN t, NEW j \in DOMAIN t, t[i].url = t[j].url
        PROVE  i = j
    <3>1. t[i] = s[i + 1] /\ t[j] = s[j + 1] /\ i + 1 \in DOMAIN s /\ j + 1 \in DOMAIN s
      BY <1>2
    <3>2. i + 1 = j + 1
      BY <1>3, <2>2, <3>1
    <3> QED BY <1>2, <3>2
  <2> QED BY <1>2, <1>11, <2>1, <2>2 DEF QueueIsSound
<1>8. Sound(rest)
  BY <1>7 DEF Sound
<1>9. PendingIn(rest) = PendingIn(c) /\ CapturedIn(rest) = CapturedIn(c)
  BY DEF PendingIn, CapturedIn
<1>10. k.url \in DOMAIN rest.outcomes /\ rest.outcomes[k.url].state = "pending"
  BY <1>6, <1>9 DEF PendingIn
<1> QED BY <1>4, <1>6, <1>8, <1>9, <1>10 DEF AtHandIn, k, s

LEMMA DequeueStep ==
    ASSUME FrontierInv, Dequeue
    PROVE  FrontierInv' /\ CapturedIn(crawl') = CapturedIn(crawl)
<1> DEFINE k == Head(crawl.queue)
           rest == [crawl EXCEPT !.queue = Tail(@)]
           fields == [state |-> "excluded", reason |-> "rule"]
           d == Update(rest, k.url, fields)
<1>1. task = Nothing /\ crawl.queue # <<>> /\ visited' = visited \union {k.url}
  BY DEF Dequeue, More
<1>2. Done(crawl, visited)
  BY <1>1 DEF FrontierInv
<1>3. \/ k.url \in visited
      \/ crawl' = d /\ task' = task
      \/ crawl' = rest /\ task' = k
  BY DEF Dequeue
<1>4. /\ CrawlFields(rest) /\ rest.queue = Tail(crawl.queue)
      /\ rest.outcomes = crawl.outcomes /\ rest.edges = crawl.edges
      /\ rest.raised = crawl.raised
  <2>1. CrawlFields(crawl)
    BY <1>2 DEF Done, Sound
  <2>2. PICK q : q = Tail(crawl.queue)
    OBVIOUS
  <2>3. rest = [crawl EXCEPT !.queue = q]
    BY <2>2
  <2> QED BY <2>1, <2>2, <2>3, QueueFacts
<1> HIDE DEF rest
<1>5. /\ k \in Task /\ HostInScope(k.url.host, Hosts)
      /\ k.url \in QueuedIn(crawl)
      /\ AtHandIn(rest, k.url) /\ rest.outcomes[k.url].state = "pending"
      /\ QueuedIn(rest) \subseteq QueuedIn(crawl)
      /\ CapturedIn(rest) = CapturedIn(crawl)
  <2>1. Sound(crawl) /\ PendingIn(crawl) = QueuedIn(crawl)
    BY <1>2 DEF Done
  <2> QED BY <1>1, <1>4, <2>1, QueueShrinks
<1> HIDE DEF k
<1>6. k.url \notin visited /\ QueuedIn(crawl) \cap visited = {}
  BY <1>2, <1>5 DEF Done
<1>7. visited' \subseteq DOMAIN rest.outcomes /\ QueuedIn(rest) \cap visited' = {}
  <2>1. visited \subseteq DOMAIN rest.outcomes
    BY <1>2, <1>4 DEF Done
  <2>2. k.url \in DOMAIN rest.outcomes /\ k.url \notin QueuedIn(rest)
    BY <1>5 DEF AtHandIn
  <2> QED BY <1>1, <1>5, <1>6, <2>1, <2>2
<1>8. CASE crawl' = d /\ task' = task
  <2>1. DOMAIN fields = {"state", "reason"} /\ fields.state = "excluded" /\ "excluded" \in ResourceStates
    BY DEF ResourceStates
  <2> HIDE DEF fields
  <2>2. /\ AtHandIn(d, k.url)
        /\ d.queue = rest.queue /\ DOMAIN d.outcomes = DOMAIN rest.outcomes
        /\ d.raised = rest.raised
        /\ \A v \in DOMAIN rest.outcomes : v # k.url => d.outcomes[v] = rest.outcomes[v]
        /\ d.outcomes[k.url].state = "excluded"
    BY <1>5, <2>1, UpdateFacts
  <2> HIDE DEF d
  <2>3. QueuedIn(d) = QueuedIn(rest)
    BY <2>2 DEF QueuedIn
  <2>4. ~d.raised
    BY <1>2, <1>4, <2>2 DEF Done
  <2>5. Done(d, visited')
    BY <1>7, <2>2, <2>3, <2>4, AnsweredIsDone
  <2>6. CapturedIn(d) = CapturedIn(rest)
    <3>1. \A v \in DOMAIN rest.outcomes :
             d.outcomes[v].state = "captured" <=> rest.outcomes[v].state = "captured"
      BY <1>5, <2>2
    <3> QED BY <2>2, <3>1 DEF CapturedIn
  <2> QED BY <1>1, <1>5, <1>8, <2>5, <2>6 DEF FrontierInv
<1>9. CASE crawl' = rest /\ task' = k
  <2>1. ~rest.raised /\ k # Nothing
    BY <1>2, <1>4, <1>5, Profile DEF Done
  <2>2. Requesting'
    BY <1>5, <1>7, <1>9, <2>1 DEF Requesting
  <2> QED BY <1>5, <1>9, <2>1, <2>2 DEF FrontierInv
<1> QED BY <1>3, <1>6, <1>8, <1>9

LEMMA RefusedByRobotsStep ==
    ASSUME Requesting, RefusedByRobots
    PROVE  Done(crawl', visited') /\ CapturedIn(crawl') = CapturedIn(crawl)
<1> DEFINE fields == [state |-> "excluded", reason |-> "robots_policy"]
           d == Update(crawl, task.url, fields)
<1>1. crawl' = d /\ visited' = visited
  BY DEF RefusedByRobots
<1>2. /\ DOMAIN fields = {"state", "reason"} /\ fields.state = "excluded"
      /\ "excluded" \in ResourceStates
  BY DEF ResourceStates
<1> HIDE DEF fields
<1>3. /\ AtHandIn(d, task.url) /\ d.outcomes[task.url].state = "excluded"
      /\ ~d.raised
      /\ DOMAIN d.outcomes = DOMAIN crawl.outcomes
      /\ QueuedIn(d) \cap visited = {}
      /\ CapturedIn(d) = CapturedIn(crawl)
  BY <1>2, AnswerFacts DEF Requesting
<1> HIDE DEF d
<1>4. Done(d, visited)
  BY <1>3, AnsweredIsDone DEF Requesting
<1> QED BY <1>1, <1>3, <1>4

-----------------------------------------------------------------------------
(* The inductive invariant *)

\* What was requested, and the rules that the archive keeps to.
RequestsInv ==
    /\ rules \in Configs
    /\ robots \in [HostNames -> {"unread", "rules", "all", "none"}]
    /\ sent \subseteq Urls
    /\ RobotsAreRespected

BodiesAreGranted == \A i \in DOMAIN archive : IsGranted(archive[i])

ArchiveInv ==
    /\ \E S : archive \in Seq(S)
    /\ \A i \in DOMAIN archive :
          archive[i].url \in Urls /\ HostInScope(archive[i].url.host, Hosts)
    /\ BodiesAreGranted

\* The crawl does not go on after its end.
EndInv ==
    /\ receipt # Nothing => task = Nothing /\ receipt = ReceiptOf(crawl)
    /\ running \in BOOLEAN

HeadlessInv == FrontierInv /\ RequestsInv /\ ArchiveInv /\ EndInv

LEMMA RulesOfArchive ==
    BodiesAreGranted <=>
        \A i \in DOMAIN archive : EvaluateRules(rules, Known5(archive[i]), TRUE).download
BY DEF BodiesAreGranted, IsGranted, Known5

\* The seeds are queued without an error.
LEMMA FirstFrontier ==
    ASSUME Init PROVE Done(crawl, visited) /\ CapturedIn(crawl) = {}
<1> DEFINE none == [queue |-> <<>>, outcomes |-> <<>>, limits |-> {},
                    edges |-> {}, sitemaps |-> {}, raised |-> FALSE]
<1>1. crawl = EnqueueAll(none, Nothing, Seeds, 0) /\ visited = {}
  BY DEF Init
<1>2. /\ CrawlFields(none) /\ none.queue = <<>> /\ none.outcomes = <<>>
      /\ none.edges = {} /\ none.raised = FALSE
  BY DEF CrawlFields
<1> HIDE DEF none
<1>3. /\ <<>> \in Seq(Task) /\ DOMAIN none.queue = {} /\ DOMAIN none.outcomes = {}
  BY <1>2
<1>4. Sound(none)
  BY <1>2, <1>3 DEF Sound, QueueIsSound
<1>5. Grown(none, none)
  BY <1>4, GrownFromItself
<1>6. Nothing \in Urls \union {Nothing} /\ 0 \in Nat
  OBVIOUS
<1>7. Seeds \in Seq(Reference) /\ \A i \in DOMAIN Seeds : Seeds[i].url \notin TooLong
  BY Profile
<1>8. Grown(none, crawl) /\ ~crawl.raised
  BY <1>1, <1>2, <1>5, <1>6, <1>7, EnqueueAllGrows
<1>9. QueuedIn(none) = {} /\ NewIn(none, crawl) = DOMAIN crawl.outcomes
  BY <1>3 DEF QueuedIn, NewIn
<1>10. PendingIn(crawl) = QueuedIn(crawl) /\ CapturedIn(crawl) = {}
  BY <1>8, <1>9 DEF Grown, PendingIn, CapturedIn
<1> QED BY <1>1, <1>8, <1>10 DEF Done, Grown

LEMMA FirstInvariant == ASSUME Init PROVE HeadlessInv
<1>1. FrontierInv
  BY FirstFrontier DEF Init, FrontierInv
<1>2. RequestsInv
  BY DEF Init, RequestsInv, RobotsAreRespected
<1>3. ArchiveInv
  <2>1. archive = <<>>
    BY DEF Init
  <2>2. archive \in Seq({}) /\ DOMAIN archive = {}
    BY <2>1
  <2> QED BY <2>2 DEF ArchiveInv, BodiesAreGranted, IsGranted
<1>4. EndInv
  BY DEF Init, EndInv
<1> QED BY <1>1, <1>2, <1>3, <1>4 DEF HeadlessInv

\* A request is sent only for what robots.txt allows.
LEMMA SendsStep ==
    ASSUME RequestsInv, Requesting, Sends PROVE RequestsInv'
<1>1. task.url \in Urls
  BY DEF Requesting, Task
<1>2. /\ sent' = sent \union {task.url}
      /\ UNCHANGED <<rules, robots>>
      /\ Respect => robots[task.url.host] # "unread"
      /\ CanFetch(task.url)
  BY DEF Sends, MaySend, Unread
<1>3. Respect => /\ robots[task.url.host] \in {"rules", "none"}
                 /\ robots[task.url.host] = "rules" => task.url \notin Disallowed
  BY <1>2 DEF CanFetch
<1>4. RobotsAreRespected'
  BY <1>2, <1>3 DEF RequestsInv, Requesting, RobotsAreRespected
<1> QED BY <1>1, <1>2, <1>4 DEF RequestsInv

\* An answer archived.
LEMMA ArchiveGrows ==
    ASSUME ArchiveInv, NEW r, r.url \in Urls, HostInScope(r.url.host, Hosts),
           rules' = rules,
           EvaluateRules(rules, Known5(r), TRUE).download,
           archive' = Append(archive, r)
    PROVE  /\ ArchiveInv'
           /\ DOMAIN archive' = DOMAIN archive \union {Len(archive) + 1}
           /\ Len(archive) + 1 \notin DOMAIN archive
           /\ archive'[Len(archive) + 1] = r
           /\ \A i \in DOMAIN archive : archive'[i] = archive[i]
<1>1. PICK S : archive \in Seq(S)
  BY DEF ArchiveInv
<1> DEFINE T == S \union {r}
<1>2. archive \in Seq(T) /\ r \in T
  BY <1>1
<1> HIDE DEF T
<1>3. /\ archive' \in Seq(T)
      /\ DOMAIN archive' = DOMAIN archive \union {Len(archive) + 1}
      /\ Len(archive) + 1 \notin DOMAIN archive
      /\ \A i \in DOMAIN archive : archive'[i] = archive[i]
      /\ archive'[Len(archive) + 1] = r
  BY <1>2, AppendPlaces
<1>4. \A i \in DOMAIN archive' :
         archive'[i].url \in Urls /\ HostInScope(archive'[i].url.host, Hosts)
  BY <1>3 DEF ArchiveInv
<1>5. \A i \in DOMAIN archive' : EvaluateRules(rules', Known5(archive'[i]), TRUE).download
  <2>1. \A i \in DOMAIN archive : EvaluateRules(rules, Known5(archive[i]), TRUE).download
    BY RulesOfArchive DEF ArchiveInv
  <2> QED BY <1>3, <2>1
<1>6. BodiesAreGranted'
  BY <1>5 DEF BodiesAreGranted, IsGranted, Known5
<1> QED BY <1>3, <1>4, <1>6 DEF ArchiveInv

\* No URL is captured that is not archived, and none archived twice, as long
\* as no URL is too long: an error while the references of an archived page
\* are queued makes the page a failed one and has it requested again.
WholeInv ==
    TooLong = {} =>
        /\ {archive[i].url : i \in DOMAIN archive} = CapturedIn(crawl)
        /\ \A i, j \in DOMAIN archive : archive[i].url = archive[j].url => i = j

LEMMA AtHandIsRequesting ==
    ASSUME HeadlessInv, task # Nothing PROVE Requesting /\ receipt = Nothing
BY DEF HeadlessInv, FrontierInv, EndInv

\* After a request nothing is at hand, and the crawl goes on.
LEMMA AfterRequest ==
    ASSUME HeadlessInv, task # Nothing, task' = Nothing, receipt' = receipt,
           running' = running, Done(crawl', visited')
    PROVE  FrontierInv' /\ EndInv'
BY AtHandIsRequesting DEF HeadlessInv, FrontierInv, EndInv

\* What the rules refuse or the network fails to answer.
LEMMA UnansweredKeeps ==
    ASSUME HeadlessInv, Sends, NothingArchived
    PROVE  HeadlessInv' /\ (WholeInv => WholeInv')
<1>1. /\ task # Nothing /\ task' = Nothing /\ receipt' = receipt /\ rules' = rules
      /\ running' = running
  BY DEF Sends, MaySend
<1>2. Requesting /\ Done(crawl', visited') /\ CapturedIn(crawl') = CapturedIn(crawl)
      /\ archive' = archive
  BY <1>1, AtHandIsRequesting DEF NothingArchived
<1>3. FrontierInv' /\ EndInv'
  BY <1>1, <1>2, AfterRequest
<1>4. RequestsInv'
  BY <1>2, SendsStep DEF HeadlessInv
<1>5. ArchiveInv'
  BY <1>1, <1>2 DEF HeadlessInv, ArchiveInv, BodiesAreGranted, IsGranted
<1>6. WholeInv => WholeInv'
  BY <1>2 DEF WholeInv
<1> QED BY <1>3, <1>4, <1>5, <1>6 DEF HeadlessInv

LEMMA AnsweredKeeps ==
    ASSUME HeadlessInv, Sends, OneArchived
    PROVE  HeadlessInv' /\ (WholeInv => WholeInv')
<1>1. /\ task # Nothing /\ task' = Nothing /\ receipt' = receipt /\ rules' = rules
      /\ running' = running
  BY DEF Sends, MaySend
<1>2. Requesting
  BY <1>1, AtHandIsRequesting
<1>3. PICK r : /\ r.url = task.url
               /\ EvaluateRules(rules, Known5(r), TRUE).download
               /\ archive' = Append(archive, r)
               /\ Done(crawl', visited')
               /\ TooLong = {} => CapturedIn(crawl') = CapturedIn(crawl) \union {task.url}
  BY DEF OneArchived
<1>4. FrontierInv' /\ EndInv'
  BY <1>1, <1>3, AfterRequest
<1>5. RequestsInv'
  BY <1>2, SendsStep DEF HeadlessInv
<1>6. r.url \in Urls /\ HostInScope(r.url.host, Hosts)
  BY <1>2, <1>3 DEF Requesting, Task
<1>7. /\ ArchiveInv'
      /\ DOMAIN archive' = DOMAIN archive \union {Len(archive) + 1}
      /\ Len(archive) + 1 \notin DOMAIN archive
      /\ archive'[Len(archive) + 1] = r
      /\ \A i \in DOMAIN archive : archive'[i] = archive[i]
  BY <1>1, <1>3, <1>6, ArchiveGrows DEF HeadlessInv
<1>8. ASSUME WholeInv, TooLong = {}
      PROVE  /\ {archive'[i].url : i \in DOMAIN archive'} = CapturedIn(crawl')
             /\ \A i, j \in DOMAIN archive' : archive'[i].url = archive'[j].url => i = j
  <2>1. task.url \notin CapturedIn(crawl)
    BY <1>2 DEF Requesting, CapturedIn
  <2>2. \A i \in DOMAIN archive : archive[i].url # task.url
    BY <1>8, <2>1 DEF WholeInv
  <2>3. {archive'[i].url : i \in DOMAIN archive'}
           = {archive[i].url : i \in DOMAIN archive} \union {task.url}
    BY <1>3, <1>7
  <2>4. CapturedIn(crawl') = CapturedIn(crawl) \union {task.url}
    BY <1>3, <1>8
  <2>5. \A i, j \in DOMAIN archive' : archive'[i].url = archive'[j].url => i = j
    BY <1>3, <1>7, <1>8, <2>2 DEF WholeInv
  <2> QED BY <1>8, <2>3, <2>4, <2>5 DEF WholeInv
<1> QED BY <1>4, <1>5, <1>7, <1>8 DEF HeadlessInv, WholeInv

LEMMA HeadlessStep ==
    ASSUME HeadlessInv, [Next]_vars
    PROVE  HeadlessInv' /\ (WholeInv => WholeInv')
<1>1. CASE Dequeue
  <2>1. FrontierInv' /\ CapturedIn(crawl') = CapturedIn(crawl)
    BY <1>1, DequeueStep DEF HeadlessInv
  <2>2. UNCHANGED <<rules, robots, archive, sent, receipt, running>> /\ receipt = Nothing
    BY <1>1 DEF Dequeue
  <2>3. RequestsInv' /\ ArchiveInv' /\ EndInv'
    BY <2>2 DEF HeadlessInv, RequestsInv, RobotsAreRespected, ArchiveInv,
                BodiesAreGranted, IsGranted, EndInv
  <2>4. WholeInv => WholeInv'
    BY <2>1, <2>2 DEF WholeInv
  <2> QED BY <2>1, <2>3, <2>4 DEF HeadlessInv
<1>2. CASE ReadRobots
  <2>1. /\ UNCHANGED <<rules, crawl, visited, task, archive, sent, receipt, running>>
        /\ task # Nothing /\ robots[task.url.host] = "unread"
    BY <1>2 DEF ReadRobots, Unread
  <2>2. PICK answer \in RobotsAnswers : robots' = [robots EXCEPT ![task.url.host] = answer]
    BY <1>2 DEF ReadRobots
  <2>3. \A u \in sent : Respect => u.host # task.url.host
    BY <2>1 DEF HeadlessInv, RequestsInv, RobotsAreRespected
  <2>4. robots' \in [HostNames -> {"unread", "rules", "all", "none"}]
    BY <2>2 DEF HeadlessInv, RequestsInv, RobotsAnswers
  <2>5. \A u \in sent : Respect => robots'[u.host] = robots[u.host]
    <3>1. \A u \in sent : u.host \in HostNames
      BY DEF HeadlessInv, RequestsInv, HostNames
    <3> QED BY <2>2, <2>3, <3>1 DEF HeadlessInv, RequestsInv
  <2>6. RobotsAreRespected'
    BY <2>1, <2>5 DEF HeadlessInv, RequestsInv, RobotsAreRespected
  <2>7. RequestsInv'
    BY <2>1, <2>4, <2>6 DEF HeadlessInv, RequestsInv
  <2>8. FrontierInv'
    BY <2>1 DEF HeadlessInv, FrontierInv, Requesting
  <2>9. ArchiveInv'
    BY <2>1 DEF HeadlessInv, ArchiveInv, BodiesAreGranted, IsGranted
  <2>10. EndInv' /\ (WholeInv => WholeInv')
    BY <2>1 DEF HeadlessInv, EndInv, WholeInv
  <2> QED BY <2>7, <2>8, <2>9, <2>10 DEF HeadlessInv
<1>3. CASE RefusedByRobots
  <2>1. /\ task # Nothing /\ task' = Nothing
        /\ UNCHANGED <<rules, visited, robots, archive, sent, receipt, running>>
    BY <1>3 DEF RefusedByRobots
  <2>2. Done(crawl', visited') /\ CapturedIn(crawl') = CapturedIn(crawl)
    BY <1>3, <2>1, AtHandIsRequesting, RefusedByRobotsStep
  <2>3. FrontierInv' /\ EndInv'
    BY <2>1, <2>2, AfterRequest
  <2>4. RequestsInv' /\ ArchiveInv'
    BY <2>1 DEF HeadlessInv, RequestsInv, RobotsAreRespected, ArchiveInv, BodiesAreGranted, IsGranted
  <2>5. WholeInv => WholeInv'
    BY <2>1, <2>2 DEF WholeInv
  <2> QED BY <2>3, <2>4, <2>5 DEF HeadlessInv
<1>4. CASE TransferFails \/ HttpFails \/ Refused \/ TooLarge
  <2>1. Sends
    BY <1>4 DEF TransferFails, HttpFails, Refused, TooLarge
  <2>2. Requesting
    BY <2>1, AtHandIsRequesting DEF Sends, MaySend
  <2>3. NothingArchived
    BY <1>4, <2>2, TransferFailsStep, HttpFailsStep, RefusedStep, TooLargeStep
  <2> QED BY <2>1, <2>3, UnansweredKeeps
<1>5. CASE Capture \/ Redirect
  <2>1. Sends
    BY <1>5 DEF Capture, Redirect
  <2>2. Requesting
    BY <2>1, AtHandIsRequesting DEF Sends, MaySend
  <2>3. OneArchived
    BY <1>5, <2>2, CaptureStep, RedirectStep DEF HeadlessInv, RequestsInv
  <2> QED BY <2>1, <2>3, AnsweredKeeps
<1>6. CASE Finish
  <2>1. /\ task = Nothing /\ receipt' = ReceiptOf(crawl)
        /\ UNCHANGED <<rules, crawl, visited, task, robots, archive, sent, running>>
    BY <1>6 DEF Finish
  <2>2. FrontierInv' /\ EndInv'
    <3>1. FrontierInv'
      BY <2>1 DEF HeadlessInv, FrontierInv
    <3>2. ReceiptOf(crawl)' = ReceiptOf(crawl)
      BY <2>1 DEF ReceiptOf, IsComplete
    <3>3. EndInv'
      BY <2>1, <3>2 DEF HeadlessInv, EndInv
    <3> QED BY <3>1, <3>3
  <2>3. RequestsInv'
    BY <2>1 DEF HeadlessInv, RequestsInv, RobotsAreRespected
  <2>4. ArchiveInv'
    BY <2>1 DEF HeadlessInv, ArchiveInv, BodiesAreGranted, IsGranted
  <2>5. WholeInv => WholeInv'
    BY <2>1 DEF WholeInv
  <2> QED BY <2>2, <2>3, <2>4, <2>5 DEF HeadlessInv
<1>7. CASE UNCHANGED vars
  <2>1. UNCHANGED <<rules, crawl, visited, task, robots, archive, sent, receipt, running>>
    BY <1>7 DEF vars
  <2>2. FrontierInv'
    BY <2>1 DEF HeadlessInv, FrontierInv, Requesting
  <2>3. RequestsInv'
    BY <2>1 DEF HeadlessInv, RequestsInv, RobotsAreRespected
  <2>4. ArchiveInv'
    BY <2>1 DEF HeadlessInv, ArchiveInv, BodiesAreGranted, IsGranted
  <2>5. EndInv' /\ (WholeInv => WholeInv')
    BY <2>1 DEF HeadlessInv, EndInv, WholeInv
  <2> QED BY <2>2, <2>3, <2>4, <2>5 DEF HeadlessInv
<1>8. CASE Dies
  <2>1. /\ UNCHANGED <<rules, crawl, visited, task, robots, archive, receipt>>
        /\ running' = FALSE
    BY <1>8 DEF Dies
  <2>2. /\ task # Nothing
        /\ sent' = sent \/ (MaySend /\ sent' = sent \union {task.url})
    BY <1>8 DEF Dies, MaySend
  <2>3. Requesting /\ FrontierInv'
    BY <2>1, <2>2, AtHandIsRequesting DEF HeadlessInv, FrontierInv, Requesting
  <2>4. ASSUME sent' = sent PROVE RequestsInv'
    BY <2>1, <2>4 DEF HeadlessInv, RequestsInv, RobotsAreRespected
  <2>5. ASSUME MaySend, sent' = sent \union {task.url} PROVE RequestsInv'
    <3>1. task.url \in Urls /\ HostInScope(task.url.host, Hosts)
      BY <2>3 DEF Requesting, Task
    <3>2. Respect => /\ robots[task.url.host] \in {"rules", "none"}
                     /\ robots[task.url.host] = "rules" => task.url \notin Disallowed
      <4>1. CanFetch(task.url)
        BY <2>5 DEF MaySend
      <4> QED BY <4>1 DEF CanFetch
    <3>3. RobotsAreRespected'
      BY <2>1, <2>5, <3>1, <3>2 DEF HeadlessInv, RequestsInv, RobotsAreRespected
    <3>4. UNCHANGED <<rules, robots>> /\ sent' = sent \union {task.url}
      BY <2>1, <2>5
    <3> QED BY <3>1, <3>3, <3>4 DEF HeadlessInv, RequestsInv
  <2>6. RequestsInv'
    BY <2>2, <2>4, <2>5
  <2>7. ArchiveInv'
    BY <2>1 DEF HeadlessInv, ArchiveInv, BodiesAreGranted, IsGranted
  <2>8. EndInv' /\ (WholeInv => WholeInv')
    <3>1. ReceiptOf(crawl)' = ReceiptOf(crawl)
      BY <2>1 DEF ReceiptOf, IsComplete
    <3> QED BY <2>1, <3>1 DEF HeadlessInv, EndInv, WholeInv
  <2> QED BY <2>3, <2>6, <2>7, <2>8 DEF HeadlessInv
<1> QED BY <1>1, <1>2, <1>3, <1>4, <1>5, <1>6, <1>7, <1>8 DEF Next

THEOREM HeadlessInvariant == Spec => [](HeadlessInv /\ WholeInv)
<1>1. Init => HeadlessInv /\ WholeInv
  <2> SUFFICES ASSUME Init PROVE HeadlessInv /\ WholeInv
    OBVIOUS
  <2>1. CapturedIn(crawl) = {}
    BY FirstFrontier
  <2>2. DOMAIN archive = {}
    <3>1. archive = <<>>
      BY DEF Init
    <3> QED BY <3>1
  <2>3. WholeInv
    BY <2>1, <2>2 DEF WholeInv
  <2> QED BY <2>3, FirstInvariant
<1>2. HeadlessInv /\ WholeInv /\ [Next]_vars => HeadlessInv' /\ WholeInv'
  BY HeadlessStep
<1> QED BY <1>1, <1>2, PTL DEF Spec

-----------------------------------------------------------------------------
(* The theorems *)

LEMMA TypesFollow == ASSUME HeadlessInv PROVE TypeOK
<1>1. CASE task = Nothing
  <2>1. Sound(crawl) /\ visited \subseteq DOMAIN crawl.outcomes
    BY <1>1 DEF HeadlessInv, FrontierInv, Done
  <2>2. visited \subseteq Urls
    BY <2>1 DEF Sound
  <2> QED BY <1>1, <2>1, <2>2
          DEF HeadlessInv, RequestsInv, ArchiveInv, EndInv, Sound, QueueIsSound, IsOutcome, TypeOK
<1>2. CASE task # Nothing
  <2>1. Sound(crawl) /\ visited \subseteq DOMAIN crawl.outcomes /\ task \in Task
    BY <1>2, AtHandIsRequesting DEF Requesting, AtHandIn
  <2>2. visited \subseteq Urls
    BY <2>1 DEF Sound
  <2> QED BY <2>1, <2>2
          DEF HeadlessInv, RequestsInv, ArchiveInv, EndInv, Sound, QueueIsSound, IsOutcome, TypeOK
<1> QED BY <1>1, <1>2

\* The types of all variables.
THEOREM HeadlessTypesAreKept == Spec => []TypeOK
<1>1. HeadlessInv => TypeOK
  BY TypesFollow
<1> QED BY <1>1, HeadlessInvariant, PTL

\* Places of the queue and the URLs there are equally many.
LEMMA QueueIsCounted ==
    ASSUME NEW c, QueueIsSound(c)
    PROVE  /\ IsFiniteSet(QueuedIn(c))
           /\ Cardinality(QueuedIn(c)) = Len(c.queue)
<1> DEFINE s == c.queue
           f == [i \in 1..Len(s) |-> s[i].url]
<1>1. s \in Seq(Task) /\ Len(s) \in Nat /\ DOMAIN s = 1..Len(s)
  BY DEF QueueIsSound
<1>2. \A i, j \in DOMAIN s : s[i].url = s[j].url => i = j
  BY DEF QueueIsSound
<1>3. QueuedIn(c) = {s[i].url : i \in DOMAIN s}
  BY DEF QueuedIn
<1> HIDE DEF s
<1>4. f \in Bijection(1..Len(s), QueuedIn(c))
  BY <1>1, <1>2, <1>3 DEF Bijection, Injection, Surjection, IsInjective
<1> HIDE DEF f
<1>5. ExistsBijection(1..Len(s), QueuedIn(c))
  BY <1>4 DEF ExistsBijection
<1>6. IsFiniteSet(QueuedIn(c)) /\ Cardinality(QueuedIn(c)) = Len(s)
  BY <1>1, <1>5, FS_CountingElements, FS_NatBijection
<1> QED BY <1>6 DEF s

\* A URL waits exactly as long as its outcome is pending, and once (main of
\* cli/aegis_cli.py: retries, redirects, refusals and errors neither lose a
\* URL nor leave one behind), whatever the site, the rules and the answers.
THEOREM FrontierIsAlwaysWhole == Spec => []FrontierIsWhole
<1>1. HeadlessInv => FrontierIsWhole
  <2> SUFFICES ASSUME HeadlessInv PROVE FrontierIsWhole
    OBVIOUS
  <2>1. Queued = QueuedIn(crawl)
    BY DEF Queued, QueuedIn
  <2>2. InState([resources |-> crawl.outcomes], {"pending"}) = PendingIn(crawl)
    BY DEF InState, PendingIn
  <2>3. CASE task = Nothing
    <3>1. QueueIsSound(crawl) /\ PendingIn(crawl) = QueuedIn(crawl) /\ AtHand = {}
      BY <2>3 DEF HeadlessInv, FrontierInv, Done, Sound, AtHand
    <3>2. /\ Cardinality(QueuedIn(crawl)) = Len(crawl.queue)
          /\ Len(crawl.queue) \in Nat /\ Cardinality(AtHand) = 0
      BY <3>1, QueueIsCounted, FS_EmptySet DEF QueueIsSound
    <3> QED BY <2>1, <2>2, <3>1, <3>2 DEF FrontierIsWhole
  <2>4. CASE task # Nothing
    <3>1. AtHandIn(crawl, task.url) /\ crawl.outcomes[task.url].state = "pending"
      BY <2>4, AtHandIsRequesting DEF Requesting
    <3>2. AtHand = {task.url}
      BY <2>4 DEF AtHand
    <3>3. QueueIsSound(crawl) /\ task.url \notin QueuedIn(crawl)
      BY <3>1 DEF AtHandIn, Sound
    <3>4. QueuedIn(crawl) \union AtHand = PendingIn(crawl)
      BY <3>1, <3>2 DEF AtHandIn, PendingIn
    <3>5. IsFiniteSet(QueuedIn(crawl)) /\ Cardinality(QueuedIn(crawl)) = Len(crawl.queue)
      BY <3>3, QueueIsCounted
    <3>6. Cardinality(QueuedIn(crawl) \union AtHand) = Len(crawl.queue) + 1
      BY <3>2, <3>3, <3>5, FS_AddElement
    <3>7. Cardinality(AtHand) = 1
      BY <3>2, FS_Singleton
    <3> QED BY <2>1, <2>2, <3>4, <3>6, <3>7 DEF FrontierIsWhole
  <2> QED BY <2>3, <2>4
<1> QED BY <1>1, HeadlessInvariant, PTL

\* A body is archived only if the rules grant it with its actual type and
\* size, whatever the headers said of them, and only if the preview of its URL
\* and kind does not deny it (permit_body, preview_rules).
THEOREM RulesAreAlwaysRespected == Spec => []RulesAreRespected
<1>1. ASSUME HeadlessInv, NEW i \in DOMAIN archive
      PROVE  IsAllowedByPreview(archive[i])
  <2> DEFINE r == [url |-> archive[i].url, kind |-> archive[i].kind]
             full == Known5(archive[i])
  <2>1. Preview(rules, <<r>>, Hosts)[1] = EvaluateRules(rules, r, TRUE)
    <3>1. HostInScope(r.url.host, Hosts) = TRUE
      BY <1>1 DEF HeadlessInv, ArchiveInv, HostInScope
    <3>2. Preview(rules, <<r>>, Hosts)[1]
             = EvaluateRules(rules, r, HostInScope(r.url.host, Hosts))
      BY DEF Preview
    <3> QED BY <3>1, <3>2
  <2>2. EvaluateRules(rules, full, TRUE).download
    BY <1>1, RulesOfArchive DEF HeadlessInv, ArchiveInv
  <2>3. Refines(full, r)
    BY DEF Refines, Known5
  <2>4. RuleList(rules)
    BY <1>1, ConfigsAreLists DEF HeadlessInv, RequestsInv
  <2>5. IsAllowedByPreview(archive[i]) <=>
           \/ Preview(rules, <<r>>, Hosts)[1].state = "needs_metadata"
           \/ Preview(rules, <<r>>, Hosts)[1].download
    BY DEF IsAllowedByPreview
  <2> HIDE DEF r, full
  <2>6. EvaluateRules(rules, r, TRUE).state = "needs_metadata"
           \/ EvaluateRules(rules, full, TRUE) = EvaluateRules(rules, r, TRUE)
    BY <2>3, <2>4, DecisionsAreFinal
  <2> QED BY <2>1, <2>2, <2>5, <2>6
<1>2. HeadlessInv => RulesAreRespected
  BY <1>1 DEF HeadlessInv, ArchiveInv, BodiesAreGranted, RulesAreRespected
<1> QED BY <1>2, HeadlessInvariant, PTL

\* No request goes to what robots.txt, as read, disallows, or out of scope
\* (can_fetch and host_in_scope in cli/aegis_cli.py).
THEOREM RobotsAreAlwaysRespected == Spec => []RobotsAreRespected
<1>1. HeadlessInv => RobotsAreRespected
  BY DEF HeadlessInv, RequestsInv
<1> QED BY <1>1, HeadlessInvariant, PTL

NoneTooLong == TooLong = {}

\* The receipt enumerates the archive, each URL once, when no URL is too long.
\* With one that is, the model checker finds a page archived twice.
THEOREM ArchiveIsAlwaysEnumerated == NoneTooLong => (Spec => []ArchiveIsEnumerated)
<1>1. NoneTooLong /\ HeadlessInv /\ WholeInv => ArchiveIsEnumerated
  <2> SUFFICES ASSUME TooLong = {}, HeadlessInv, WholeInv, receipt # Nothing
               PROVE  /\ {archive[i].url : i \in DOMAIN archive} = InState(receipt, {"captured"})
                      /\ \A i, j \in DOMAIN archive : archive[i].url = archive[j].url => i = j
    BY DEF ArchiveIsEnumerated, NoneTooLong
  <2>1. receipt = ReceiptOf(crawl)
    BY DEF HeadlessInv, EndInv
  <2>2. receipt.resources = crawl.outcomes
    BY <2>1 DEF ReceiptOf
  <2>3. InState(receipt, {"captured"}) = CapturedIn(crawl)
    BY <2>2 DEF InState, CapturedIn
  <2> QED BY <2>3 DEF WholeInv
<1>2. NoneTooLong => NoneTooLong'
  BY DEF NoneTooLong
<1> QED BY <1>1, <1>2, HeadlessInvariant, PTL

=============================================================================
