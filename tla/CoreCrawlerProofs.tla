-------------------------- MODULE CoreCrawlerProofs --------------------------
(* Theorems about CoreCrawler, for all values of its constants.  IInv is   *)
(* the inductive invariant.                                                *)
EXTENDS CoreCrawler, TLAPS

-----------------------------------------------------------------------------
(* The inductive invariant *)

\* The task in processUrl was taken from the queue; no other place has one.
TaskInv ==
    /\ task # Nobody => /\ task \in Tasks
                        /\ task.url \in front.visited
                        /\ front.outcome[task.url] # "none"
                        /\ task.url \in InScope
                        /\ task.depth <= MaxDepth
                        /\ task.retries <= MaxRetries
    /\ pc \notin Working \union {"dead"} => task = Nobody

\* robots.txt is asked for when it is not known, and a request is made when it
\* has been read and allows it.
PermissionInv ==
    /\ pc = "robots_txt" => Unknown
    /\ pc \in {"gate", "transport", "archive"} => Allowed

\* What a frontier and an archive owe to robots.txt.
KeepsRobots(f, written) ==
    Respect => \A u \in Urls :
        /\ u \in written => u \notin Disallowed /\ f.robots[Origin[u]] = "rules"
        /\ f.outcome[u] = "robots" =>
              \/ f.robots[Origin[u]] = "closed"
              \/ f.robots[Origin[u]] = "rules" /\ u \in Disallowed

IInv ==
    /\ TypeOK
    /\ TaskInv
    /\ PermissionInv
    /\ NothingLost
    /\ CheckpointIsSound
    /\ KeepsRobots(front, archived)
    /\ KeepsRobots(saved.front, saved.archived)
    /\ Accepted(front)
    /\ CheckpointIsAccepted

-----------------------------------------------------------------------------
(* The fields of a frontier after a call *)

\* A frontier with other fields.
LEMMA OtherFields ==
    ASSUME NEW f \in Fronts, NEW q, NEW v, NEW o
    PROVE  /\ [f EXCEPT !.visited = v, !.queue = q] =
              [queue |-> q, visited |-> v, outcome |-> f.outcome,
               robots |-> f.robots, limited |-> f.limited]
           /\ [f EXCEPT !.queue = q, !.outcome = o] =
              [queue |-> q, visited |-> f.visited, outcome |-> o,
               robots |-> f.robots, limited |-> f.limited]
<1>1. DOMAIN f = {"queue", "visited", "outcome", "robots", "limited"}
      /\ f = [x \in DOMAIN f |-> f[x]]
  BY DEF Fronts
<1>2. [f EXCEPT !.visited = v, !.queue = q] =
      [x \in {"queue", "visited", "outcome", "robots", "limited"} |->
          CASE x = "visited" -> v [] x = "queue" -> q [] OTHER -> f[x]]
  BY <1>1
<1>3. [f EXCEPT !.queue = q, !.outcome = o] =
      [x \in {"queue", "visited", "outcome", "robots", "limited"} |->
          CASE x = "queue" -> q [] x = "outcome" -> o [] OTHER -> f[x]]
  BY <1>1
<1> QED
  BY <1>2, <1>3

\* SetOutcome changes one outcome.
LEMMA SetOutcomeFields ==
    ASSUME NEW f \in Fronts, NEW u \in Urls, NEW o \in Outcomes
    PROVE  /\ SetOutcome(f, u, o) \in Fronts
           /\ SetOutcome(f, u, o).queue = f.queue
           /\ SetOutcome(f, u, o).visited = f.visited
           /\ SetOutcome(f, u, o).robots = f.robots
           /\ SetOutcome(f, u, o).outcome[u] = o
           /\ \A v \in Urls \ {u} : SetOutcome(f, u, o).outcome[v] = f.outcome[v]
<1> DEFINE g == [queue |-> f.queue, visited |-> f.visited,
                 outcome |-> [f.outcome EXCEPT ![u] = o],
                 robots |-> f.robots, limited |-> f.limited]
<1>1. SetOutcome(f, u, o) = g
  BY DEF SetOutcome, Fronts
<1>2. /\ f.outcome \in [Urls -> Outcomes] /\ f.queue \in SUBSET Tasks
      /\ f.visited \in SUBSET Urls /\ f.limited \in BOOLEAN
      /\ f.robots \in [Origins -> {"unknown", "rules", "closed"}]
  BY DEF Fronts
<1>3. /\ [f.outcome EXCEPT ![u] = o] \in [Urls -> Outcomes]
      /\ [f.outcome EXCEPT ![u] = o][u] = o
      /\ \A v \in Urls \ {u} : [f.outcome EXCEPT ![u] = o][v] = f.outcome[v]
  BY <1>2
<1>4. g \in Fronts
  BY <1>2, <1>3 DEF Fronts
<1> QED
  BY <1>1, <1>3, <1>4

\* PutBack moves a URL from visited to the queue.
LEMMA PutBackFields ==
    ASSUME NEW f \in Fronts, NEW k \in Tasks
    PROVE  /\ PutBack(f, k) \in Fronts
           /\ PutBack(f, k).queue = f.queue \union {k}
           /\ PutBack(f, k).visited = f.visited \ {k.url}
           /\ PutBack(f, k).robots = f.robots
           /\ PutBack(f, k).outcome = f.outcome
<1> DEFINE g == [queue |-> f.queue \union {k}, visited |-> f.visited \ {k.url},
                 outcome |-> f.outcome, robots |-> f.robots, limited |-> f.limited]
<1>1. PutBack(f, k) = g
  <2>1. PutBack(f, k) = [f EXCEPT !.visited = f.visited \ {k.url},
                                  !.queue = f.queue \union {k}]
    BY DEF PutBack, Fronts
  <2> QED
    BY <2>1, OtherFields
<1>2. g \in Fronts
  BY DEF Fronts
<1> QED
  BY <1>1, <1>2

\* A task with one more retry.
LEMMA RetriedTask ==
    ASSUME NEW k \in Tasks
    PROVE  /\ [k EXCEPT !.retries = @ + 1] \in Tasks
           /\ [k EXCEPT !.retries = @ + 1].url = k.url
           /\ [k EXCEPT !.retries = @ + 1].depth = k.depth
           /\ [k EXCEPT !.retries = @ + 1].retries = k.retries + 1
<1> DEFINE n == [url |-> k.url, tier |-> k.tier, depth |-> k.depth,
                 retries |-> k.retries + 1]
<1>1. [k EXCEPT !.retries = @ + 1] = n
  BY DEF Tasks
<1>2. n \in Tasks
  BY DEF Tasks
<1> QED
  BY <1>1, <1>2

\* Enqueue adds what is new, and says what became of each reference.
LEMMA EnqueueFields ==
    ASSUME NEW f \in Fronts, NEW refs \in SUBSET Tasks
    PROVE  LET found == {k \in refs : k.url \in InScope /\ k.depth <= MaxDepth}
               fresh == {k \in found : /\ k.url \notin f.visited
                                       /\ \A q \in f.queue : q.url # k.url}
               g == Enqueue(f, refs)
           IN  /\ g \in Fronts
               /\ g.queue = f.queue \union fresh
               /\ g.visited = f.visited
               /\ g.robots = f.robots
               /\ \A u \in Urls : g.outcome[u] =
                      IF f.outcome[u] # "none" \/ \A k \in refs : k.url # u
                      THEN f.outcome[u]
                      ELSE IF \E k \in found : k.url = u THEN "pending" ELSE "excluded"
<1> DEFINE found == {k \in refs : k.url \in InScope /\ k.depth <= MaxDepth}
           fresh == {k \in found : /\ k.url \notin f.visited
                                   /\ \A q \in f.queue : q.url # k.url}
           outcome == [u \in Urls |->
                          IF f.outcome[u] # "none" \/ \A k \in refs : k.url # u
                          THEN f.outcome[u]
                          ELSE IF \E k \in found : k.url = u THEN "pending"
                          ELSE "excluded"]
           g == [queue |-> f.queue \union fresh, visited |-> f.visited,
                 outcome |-> outcome, robots |-> f.robots, limited |-> f.limited]
<1>1. Enqueue(f, refs) = g
  <2>1. Enqueue(f, refs) = [f EXCEPT !.queue = f.queue \union fresh, !.outcome = outcome]
    BY DEF Enqueue, Fronts
  <2> HIDE DEF fresh, outcome
  <2> QED
    BY <2>1, OtherFields
<1>2. outcome \in [Urls -> Outcomes]
  BY DEF Fronts, Outcomes
<1>3. f.queue \union fresh \in SUBSET Tasks
  BY DEF Fronts
<1>4. g \in Fronts
  <2> HIDE DEF outcome, fresh
  <2> QED
    BY <1>2, <1>3 DEF Fronts
<1>5. /\ g.queue = f.queue \union fresh /\ g.visited = f.visited
      /\ g.robots = f.robots /\ g.outcome = outcome
  BY DEF g
<1>6. \A u \in Urls : outcome[u] =
          IF f.outcome[u] # "none" \/ \A k \in refs : k.url # u
          THEN f.outcome[u]
          ELSE IF \E k \in found : k.url = u THEN "pending" ELSE "excluded"
  OBVIOUS
<1> HIDE DEF g, outcome
<1> QED
  BY <1>1, <1>4, <1>5, <1>6

\* A limitation is no matter of the queue.
LEMMA LimitedFields ==
    ASSUME NEW f \in Fronts, NEW b \in BOOLEAN
    PROVE  /\ [f EXCEPT !.limited = b] \in Fronts
           /\ [f EXCEPT !.limited = b].queue = f.queue
           /\ [f EXCEPT !.limited = b].visited = f.visited
           /\ [f EXCEPT !.limited = b].robots = f.robots
           /\ [f EXCEPT !.limited = b].outcome = f.outcome
  BY DEF Fronts

-----------------------------------------------------------------------------
(* Sound frontiers *)

\* What makes a frontier sound are its queue, visited and outcomes.
LEMMA SoundSame ==
    ASSUME NEW f, NEW g, NEW busy, NEW written, Sound(f, busy, written),
           g.queue = f.queue, g.visited = f.visited, g.outcome = f.outcome
    PROVE  Sound(g, busy, written)
  BY DEF Sound, Queued

\* A URL that is being processed gets an outcome and stays visited.
LEMMA SoundSettled ==
    ASSUME NEW f \in Fronts, NEW u \in Urls, NEW o \in Outcomes \ {"none", "pending"},
           NEW written, NEW more, Sound(f, {u}, written), u \in f.visited,
           written \subseteq more, o = "captured" => u \in more
    PROVE  Sound(SetOutcome(f, u, o), {}, more)
<1> DEFINE g == SetOutcome(f, u, o)
<1>1. /\ g.queue = f.queue /\ g.visited = f.visited /\ g.outcome[u] = o
      /\ \A v \in Urls \ {u} : g.outcome[v] = f.outcome[v]
  BY SetOutcomeFields
<1> HIDE DEF g
<1>2. Sound(g, {}, more)
  BY <1>1 DEF Sound, Queued
<1> QED
  BY <1>2 DEF g

\* A URL that is being processed goes back to the queue.
LEMMA SoundPutBack ==
    ASSUME NEW f \in Fronts, NEW k \in Tasks, NEW j \in Tasks, j.url = k.url,
           NEW written, Sound(f, {k.url}, written),
           k.url \in f.visited, f.outcome[k.url] # "none"
    PROVE  Sound(PutBack(f, j), {}, written)
<1> DEFINE g == PutBack(f, j)
<1>1. /\ g.queue = f.queue \union {j} /\ g.visited = f.visited \ {k.url}
      /\ g.outcome = f.outcome
  BY PutBackFields
<1>2. k.url \in Urls
  BY DEF Tasks
<1>3. \A q \in f.queue : q.url # k.url
  BY <1>2 DEF Sound, Queued
<1> HIDE DEF g
<1>4. \A q, l \in g.queue : q.url = l.url => q = l
  BY <1>1, <1>3 DEF Sound
<1>5. \A u \in Urls : Queued(g, u) <=> Queued(f, u) \/ u = k.url
  BY <1>1 DEF Queued
<1>6. Sound(g, {}, written)
  BY <1>1, <1>4, <1>5 DEF Sound
<1> QED
  BY <1>6 DEF g

\* A queued URL may be pending.
LEMMA SoundPending ==
    ASSUME NEW f \in Fronts, NEW u \in Urls, NEW written,
           Sound(f, {}, written), Queued(f, u)
    PROVE  Sound(SetOutcome(f, u, "pending"), {}, written)
<1> DEFINE g == SetOutcome(f, u, "pending")
<1>1. /\ g.queue = f.queue /\ g.visited = f.visited /\ g.outcome[u] = "pending"
      /\ \A v \in Urls \ {u} : g.outcome[v] = f.outcome[v]
  BY SetOutcomeFields DEF Outcomes
<1> HIDE DEF g
<1>2. \A v \in Urls : Queued(g, v) <=> Queued(f, v)
  BY <1>1 DEF Queued
<1>3. Sound(g, {}, written)
  BY <1>1, <1>2 DEF Sound
<1> QED
  BY <1>3 DEF g

\* A URL is retried, or fails.
LEMMA SoundRequeue ==
    ASSUME NEW f \in Fronts, NEW k \in Tasks, NEW written,
           Sound(f, {k.url}, written), k.url \in f.visited, f.outcome[k.url] # "none"
    PROVE  Sound(Requeue(f, k), {}, written)
<1>0. k.url \in Urls
  BY DEF Tasks
<1>1. CASE k.retries + 1 > MaxRetries
  BY <1>0, <1>1, SoundSettled DEF Requeue, Outcomes
<1>2. CASE ~(k.retries + 1 > MaxRetries)
  <2> DEFINE j == [k EXCEPT !.retries = @ + 1]
             g == PutBack(f, j)
  <2>1. j \in Tasks /\ j.url = k.url
    BY RetriedTask
  <2> HIDE DEF j
  <2>2. Sound(g, {}, written) /\ g \in Fronts /\ g.queue = f.queue \union {j}
    BY <2>1, SoundPutBack, PutBackFields
  <2> HIDE DEF g
  <2>3. Queued(g, k.url)
    BY <2>1, <2>2 DEF Queued
  <2>4. Sound(SetOutcome(g, k.url, "pending"), {}, written)
    BY <1>0, <2>2, <2>3, SoundPending
  <2>5. Requeue(f, k) = SetOutcome(g, k.url, "pending")
    BY <1>2 DEF Requeue, g, j
  <2> QED
    BY <2>4, <2>5
<1> QED
  BY <1>1, <1>2

\* References are queued, once each.
LEMMA SoundEnqueue ==
    ASSUME NEW f \in Fronts, NEW refs \in SUBSET Tasks, NEW written,
           Sound(f, {}, written), \A k, l \in refs : k.url = l.url => k = l
    PROVE  Sound(Enqueue(f, refs), {}, written)
<1> DEFINE found == {k \in refs : k.url \in InScope /\ k.depth <= MaxDepth}
           fresh == {k \in found : /\ k.url \notin f.visited
                                   /\ \A q \in f.queue : q.url # k.url}
           g == Enqueue(f, refs)
<1>1. /\ g.queue = f.queue \union fresh
      /\ g.visited = f.visited
      /\ \A u \in Urls : g.outcome[u] =
             IF f.outcome[u] # "none" \/ \A k \in refs : k.url # u
             THEN f.outcome[u]
             ELSE IF \E k \in found : k.url = u THEN "pending" ELSE "excluded"
  BY EnqueueFields
<1> HIDE DEF g
<1>2. ASSUME NEW k \in g.queue, NEW l \in g.queue, k.url = l.url PROVE k = l
  BY <1>1, <1>2 DEF Sound
<1>3. ASSUME NEW u \in Urls, g.outcome[u] = "pending" PROVE Queued(g, u)
  <2>1. CASE f.outcome[u] = "pending"
    BY <1>1, <2>1 DEF Sound, Queued
  <2>2. CASE f.outcome[u] # "pending"
    <3>1. f.outcome[u] = "none" /\ \E k \in found : k.url = u
      BY <1>1, <1>3, <2>2
    <3>2. PICK k \in found : k.url = u
      BY <3>1
    <3>3. u \notin f.visited
      BY <3>1 DEF Sound
    <3>4. CASE \E q \in f.queue : q.url = k.url
      BY <1>1, <3>2, <3>4 DEF Queued
    <3>5. CASE \A q \in f.queue : q.url # k.url
      <4>1. k \in fresh
        BY <3>2, <3>3, <3>5
      <4> QED
        BY <1>1, <3>2, <4>1 DEF Queued
    <3> QED
      BY <3>4, <3>5
  <2> QED
    BY <2>1, <2>2
<1>4. ASSUME NEW u \in Urls, Queued(g, u) PROVE u \notin g.visited /\ g.outcome[u] # "none"
  <2>1. CASE Queued(f, u)
    BY <1>1, <2>1 DEF Sound
  <2>2. CASE ~Queued(f, u)
    <3>1. PICK k \in fresh : k.url = u
      BY <1>1, <1>4, <2>2 DEF Queued
    <3> QED
      BY <1>1, <3>1
  <2> QED
    BY <2>1, <2>2
<1>5. ASSUME NEW u \in Urls
      PROVE  /\ u \in g.visited => g.outcome[u] \notin {"none", "pending"}
             /\ g.outcome[u] = "captured" => u \in written
  <2>1. u \in f.visited => f.outcome[u] \notin {"none", "pending"}
    BY DEF Sound
  <2>2. f.outcome[u] = "captured" => u \in written
    BY DEF Sound
  <2> HIDE DEF found
  <2> QED
    BY <1>1, <2>1, <2>2
<1>6. Sound(g, {}, written)
  BY <1>2, <1>3, <1>4, <1>5 DEF Sound
<1> QED
  BY <1>6 DEF g

-----------------------------------------------------------------------------
(* Frontiers that keep robots.txt, and that can be resumed *)

\* A call that says of no further URL that robots.txt disallows it.
LEMMA KeepsSame ==
    ASSUME NEW f, NEW g, NEW written, KeepsRobots(f, written), g.robots = f.robots,
           \A u \in Urls : g.outcome[u] = "robots" => f.outcome[u] = "robots"
    PROVE  KeepsRobots(g, written)
  BY DEF KeepsRobots

\* What a call does to a frontier besides: the queued tasks can be resumed,
\* and robots.txt is kept.
Fits(f, written) == f \in Fronts /\ KeepsRobots(f, written) /\ Accepted(f)

LEMMA FitsOutcome ==
    ASSUME NEW f, NEW written, Fits(f, written), NEW u \in Urls,
           NEW o \in Outcomes \ {"robots"}
    PROVE  Fits(SetOutcome(f, u, o), written)
<1> USE DEF Fits
<1> DEFINE g == SetOutcome(f, u, o)
<1>1. /\ g \in Fronts /\ g.queue = f.queue /\ g.visited = f.visited
      /\ g.robots = f.robots /\ g.outcome[u] = o
      /\ \A v \in Urls \ {u} : g.outcome[v] = f.outcome[v]
  BY SetOutcomeFields
<1> HIDE DEF g
<1>2. KeepsRobots(g, written)
  BY <1>1, KeepsSame
<1>3. Accepted(g)
  BY <1>1 DEF Accepted
<1> QED
  BY <1>1, <1>2, <1>3 DEF g

LEMMA FitsPutBack ==
    ASSUME NEW f, NEW written, Fits(f, written), NEW k \in Tasks,
           k.url \in InScope, k.depth <= MaxDepth, k.retries <= MaxRetries
    PROVE  Fits(PutBack(f, k), written)
<1> USE DEF Fits
<1> DEFINE g == PutBack(f, k)
<1>1. /\ g \in Fronts /\ g.queue = f.queue \union {k}
      /\ g.visited = f.visited \ {k.url}
      /\ g.robots = f.robots /\ g.outcome = f.outcome
  BY PutBackFields
<1> HIDE DEF g
<1>2. KeepsRobots(g, written)
  BY <1>1, KeepsSame
<1>3. Accepted(g)
  BY <1>1 DEF Accepted
<1> QED
  BY <1>1, <1>2, <1>3 DEF g

LEMMA FitsRequeue ==
    ASSUME NEW f, NEW written, Fits(f, written), NEW k \in Tasks,
           k.url \in InScope, k.depth <= MaxDepth
    PROVE  Fits(Requeue(f, k), written)
<1>0. k.url \in Urls /\ k.retries \in Nat
  BY DEF Tasks
<1>1. CASE k.retries + 1 > MaxRetries
  BY <1>0, <1>1, FitsOutcome DEF Requeue, Outcomes
<1>2. CASE ~(k.retries + 1 > MaxRetries)
  <2> DEFINE j == [k EXCEPT !.retries = @ + 1]
  <2>1. j \in Tasks /\ j.url = k.url /\ j.depth = k.depth /\ j.retries = k.retries + 1
    BY RetriedTask
  <2> HIDE DEF j
  <2>2. j.retries <= MaxRetries
    BY <1>0, <1>2, <2>1, CrawlAssumption
  <2>3. Fits(PutBack(f, j), written)
    BY <2>1, <2>2, FitsPutBack
  <2>4. Fits(SetOutcome(PutBack(f, j), k.url, "pending"), written)
    BY <1>0, <2>3, FitsOutcome DEF Outcomes
  <2> QED
    BY <1>2, <2>4 DEF Requeue, j
<1> QED
  BY <1>1, <1>2

LEMMA FitsEnqueue ==
    ASSUME NEW f, NEW written, Fits(f, written), NEW refs \in SUBSET Tasks,
           \A k \in refs : k.retries = 0
    PROVE  Fits(Enqueue(f, refs), written)
<1> USE DEF Fits
<1> DEFINE found == {k \in refs : k.url \in InScope /\ k.depth <= MaxDepth}
           fresh == {k \in found : /\ k.url \notin f.visited
                                   /\ \A q \in f.queue : q.url # k.url}
           g == Enqueue(f, refs)
<1>1. /\ g \in Fronts
      /\ g.queue = f.queue \union fresh
      /\ g.visited = f.visited
      /\ g.robots = f.robots
      /\ \A u \in Urls : g.outcome[u] =
             IF f.outcome[u] # "none" \/ \A k \in refs : k.url # u
             THEN f.outcome[u]
             ELSE IF \E k \in found : k.url = u THEN "pending" ELSE "excluded"
  BY EnqueueFields
<1> HIDE DEF g
<1>2. KeepsRobots(g, written)
  BY <1>1, KeepsSame
<1>3. Accepted(g)
  BY <1>1, CrawlAssumption DEF Accepted
<1> QED
  BY <1>1, <1>2, <1>3 DEF g

LEMMA FitsLimited ==
    ASSUME NEW f, NEW written, Fits(f, written), NEW b \in BOOLEAN
    PROVE  Fits([f EXCEPT !.limited = b], written)
<1> USE DEF Fits
<1> DEFINE g == [f EXCEPT !.limited = b]
<1>1. /\ g \in Fronts /\ g.queue = f.queue /\ g.visited = f.visited
      /\ g.robots = f.robots /\ g.outcome = f.outcome
  BY LimitedFields
<1> HIDE DEF g
<1>2. KeepsRobots(g, written) /\ Accepted(g)
  BY <1>1, KeepsSame DEF Accepted
<1> QED
  BY <1>1, <1>2 DEF g

\* The seeds and the references of a resource are tasks, one for each URL.
LEMMA SeedTasks ==
    /\ FirstSeeds \in SUBSET Tasks
    /\ \A k \in FirstSeeds : k.retries = 0
    /\ \A k, l \in FirstSeeds : k.url = l.url => k = l
<1>1. FirstSeeds \in SUBSET Tasks /\ \A k \in FirstSeeds : k.retries = 0 /\ k.depth = 0
  BY CrawlAssumption DEF FirstSeeds
<1>2. ASSUME NEW k \in FirstSeeds, NEW l \in FirstSeeds, k.url = l.url PROVE k = l
  <2>1. k.tier <= l.tier /\ l.tier <= k.tier
    BY <1>2 DEF FirstSeeds
  <2>2. k \in Tasks /\ l \in Tasks /\ k.tier \in 1..3 /\ l.tier \in 1..3
    BY <1>1 DEF Tasks
  <2>3. k.tier = l.tier /\ k.depth = l.depth /\ k.retries = l.retries
    BY <1>1, <2>1, <2>2
  <2> QED
    BY <1>2, <2>2, <2>3 DEF Tasks
<1> QED
  BY <1>1, <1>2

LEMMA ReferenceTasks ==
    ASSUME NEW k \in Tasks
    PROVE  /\ References(k) \in SUBSET Tasks
           /\ \A l \in References(k) : l.retries = 0
           /\ \A l, m \in References(k) : l.url = m.url => l = m
<1> DEFINE depth == IF k.url \in Redirects THEN k.depth ELSE k.depth + 1
           Ref(u) == [url |-> u, tier |-> k.tier, depth |-> depth, retries |-> 0]
<1>1. depth \in Nat /\ k.tier \in 1..3
  BY DEF Tasks
<1>2. ASSUME NEW l \in References(k)
      PROVE  l = Ref(l.url) /\ l.url \in Urls
  <2>1. PICK p \in {p \in Links : p[1] = k.url} : l = Ref(p[2])
    BY DEF References
  <2>2. p[2] \in Urls
    BY <2>1, CrawlAssumption
  <2>3. l.url = p[2]
    BY <2>1
  <2> QED
    BY <2>1, <2>2, <2>3
<1>3. \A u \in Urls : Ref(u) \in Tasks /\ Ref(u).retries = 0
  <2> HIDE DEF depth
  <2> QED
    BY <1>1 DEF Tasks
<1> HIDE DEF Ref
<1> QED
  BY <1>2, <1>3

-----------------------------------------------------------------------------
(* The steps *)

\* The URLs in processUrl: none, or that of the task.
LEMMA Busy ==
    /\ task = Nobody => {u \in Urls : Current(u)} = {}
    /\ task \in Tasks => {u \in Urls : Current(u)} = {task.url} /\ task # Nobody
  BY CrawlAssumption DEF Current, Tasks

\* The invariant of a state in which nothing is being processed.
LEMMA Rests ==
    ASSUME IInv, TypeOK', task' = Nobody, UNCHANGED saved,
           pc' \notin {"robots_txt", "gate", "transport", "archive"},
           Sound(front', {}, archived'), Fits(front', archived')
    PROVE  IInv'
<1>1. {u \in Urls : Current(u)'} = {}
  BY DEF Current
<1>2. NothingLost'
  BY <1>1 DEF NothingLost
<1>3. TaskInv' /\ PermissionInv'
  BY DEF TaskInv, PermissionInv
<1>4. CheckpointIsSound' /\ CheckpointIsAccepted' /\ KeepsRobots(saved'.front, saved'.archived)
  BY DEF IInv, CheckpointIsSound, CheckpointIsAccepted
<1> QED
  BY <1>2, <1>3, <1>4 DEF IInv, Fits

\* The invariant after a step that changes no frontier, task or archive.
LEMMA Moves ==
    ASSUME IInv, TypeOK', UNCHANGED <<front, task, archived, saved>>,
           TaskInv', PermissionInv'
    PROVE  IInv'
<1>1. NothingLost'
  BY DEF IInv, NothingLost, Current
<1>2. CheckpointIsSound' /\ CheckpointIsAccepted'
  BY DEF IInv, CheckpointIsSound, CheckpointIsAccepted
<1> QED
  BY <1>1, <1>2 DEF IInv

\* The end of processUrl without a record.
LEMMA SettleStep ==
    ASSUME IInv, NEW f, Settle(f), Sound(f, {}, archived), Fits(f, archived)
    PROVE  IInv'
<1>1. /\ front' = f /\ task' = Nobody /\ pc' = "checkpoint"
      /\ UNCHANGED <<paused, stop, archived, saved, receipt, reloads>>
  BY DEF Settle
<1>2. TypeOK'
  BY <1>1 DEF IInv, TypeOK, Fits, Running, Working
<1>3. Sound(front', {}, archived') /\ Fits(front', archived')
  BY <1>1
<1> QED
  BY <1>1, <1>2, <1>3, Rests

\* What is known of the task in processUrl.
LEMMA AtWork ==
    ASSUME IInv, pc \in Working
    PROVE  /\ task \in Tasks /\ task # Nobody /\ task.url \in Urls
           /\ task.url \in front.visited /\ front.outcome[task.url] # "none"
           /\ task.url \in InScope /\ task.depth <= MaxDepth /\ task.retries <= MaxRetries
           /\ Sound(front, {task.url}, archived) /\ Fits(front, archived)
<1>1. task \in Tasks /\ task # Nobody
  BY DEF IInv, TypeOK
<1>2. Sound(front, {task.url}, archived)
  BY <1>1, Busy DEF IInv, NothingLost
<1>3. task.url \in Urls
  BY <1>1 DEF Tasks
<1> QED
  BY <1>1, <1>2, <1>3 DEF IInv, TaskInv, Fits, TypeOK

\* The page and its operator.
LEMMA StepPage ==
    ASSUME IInv, Start \/ Pause \/ Resume \/ Stop \/ Reload \/ StorageFails
    PROVE  IInv'
<1> USE DEF IInv
<1>1. CASE Start
  <2>1. task = Nobody /\ task' = Nobody /\ archived' = archived /\ saved' = saved /\ pc' = "loop"
    BY <1>1 DEF Start, TaskInv, Working
  <2>2. Sound(front, {}, archived) /\ Fits(front, archived)
    BY <2>1, Busy DEF NothingLost, Fits, TypeOK
  <2>3. Sound(front', {}, archived) /\ Fits(front', archived)
    <3>1. front' = front \/ front' = Enqueue(front, FirstSeeds)
      BY <1>1 DEF Start
    <3>2. CASE front' = Enqueue(front, FirstSeeds)
      BY <2>2, <3>2, SeedTasks, SoundEnqueue, FitsEnqueue DEF Fits
    <3> QED
      BY <2>2, <3>1, <3>2
  <2>4. TypeOK'
    BY <1>1, <2>1, <2>3 DEF Start, TypeOK, Fits, Running, Working
  <2> QED
    BY <2>1, <2>3, <2>4, Rests
<1>2. CASE Pause \/ Resume \/ Stop
  <2>1. pc' = pc /\ UNCHANGED <<front, task, archived, saved, receipt, reloads>>
        /\ paused' \in BOOLEAN /\ stop' \in BOOLEAN
    BY <1>2 DEF Pause, Resume, Stop, TypeOK
  <2>2. TypeOK' /\ TaskInv' /\ PermissionInv'
    BY <2>1 DEF TypeOK, TaskInv, PermissionInv, Unknown, Allowed, Rules
  <2> QED
    BY <2>1, <2>2, Moves
<1>3. CASE Reload
  <2>1. /\ pc' = "idle" /\ front' = saved.front /\ archived' = saved.archived
        /\ task' = Nobody /\ saved' = saved
        /\ UNCHANGED <<paused, stop, receipt>>
        /\ reloads < MaxReloads /\ reloads' = reloads + 1
    BY <1>3 DEF Reload
  <2>2. saved.front \in Fronts /\ saved.archived \in SUBSET Urls
    BY DEF TypeOK
  <2>3. Sound(front', {}, archived') /\ Fits(front', archived')
    BY <2>1, <2>2 DEF CheckpointIsSound, CheckpointIsAccepted, Fits
  <2>4. reloads' \in 0..MaxReloads
    BY <2>1, CrawlAssumption DEF TypeOK
  <2>5. TypeOK'
    BY <2>1, <2>2, <2>4 DEF TypeOK, Running, Working
  <2> QED
    BY <2>1, <2>3, <2>5, Rests
<1>4. CASE StorageFails
  <2>1. pc' = "dead" /\ stop' = TRUE
        /\ UNCHANGED <<front, task, paused, archived, saved, receipt, reloads>>
    BY <1>4 DEF StorageFails
  <2>2. TypeOK' /\ TaskInv' /\ PermissionInv'
    BY <2>1 DEF TypeOK, TaskInv, PermissionInv, Working
  <2> QED
    BY <2>1, <2>2, Moves
<1> HIDE DEF IInv
<1> QED
  BY <1>1, <1>2, <1>3, <1>4

\* A step of the loop that only goes on.
LEMMA GotoStep ==
    ASSUME IInv, pc \in Running, NEW place \in Running, Goto(place),
           place \in Working <=> pc \in Working,
           place = "robots_txt" => Unknown,
           place \in {"gate", "transport", "archive"} => Allowed
    PROVE  IInv'
<1>1. pc' = place /\ UNCHANGED <<front, task, paused, stop, archived, saved, receipt, reloads>>
  BY DEF Goto
<1>2. TypeOK'
  BY <1>1 DEF IInv, TypeOK
<1>3. TaskInv'
  <2>1. pc' \notin Working \union {"dead"} => pc \notin Working \union {"dead"}
    BY <1>1 DEF Running, Working
  <2> QED
    BY <1>1, <2>1 DEF IInv, TaskInv
<1>4. PermissionInv'
  BY <1>1 DEF PermissionInv, Unknown, Allowed, Rules
<1> QED
  BY <1>1, <1>2, <1>3, <1>4, Moves

\* A task is taken: what was queued is now visited.
LEMMA TakenFields ==
    ASSUME NEW f \in Fronts, NEW k \in f.queue
    PROVE  LET g == [f EXCEPT !.queue = @ \ {k}, !.visited = @ \union {k.url}]
           IN  /\ g \in Fronts
               /\ g.queue = f.queue \ {k}
               /\ g.visited = f.visited \union {k.url}
               /\ g.robots = f.robots
               /\ g.outcome = f.outcome
<1> DEFINE g == [queue |-> f.queue \ {k}, visited |-> f.visited \union {k.url},
                 outcome |-> f.outcome, robots |-> f.robots, limited |-> f.limited]
<1>1. [f EXCEPT !.queue = @ \ {k}, !.visited = @ \union {k.url}] = g
  <2>1. /\ DOMAIN f = {"queue", "visited", "outcome", "robots", "limited"}
        /\ f = [x \in DOMAIN f |-> f[x]]
    BY DEF Fronts
  <2>2. [f EXCEPT !.queue = @ \ {k}, !.visited = @ \union {k.url}] =
        [x \in {"queue", "visited", "outcome", "robots", "limited"} |->
            CASE x = "visited" -> f.visited \union {k.url}
              [] x = "queue" -> f.queue \ {k} [] OTHER -> f[x]]
    BY <2>1
  <2> QED
    BY <2>2
<1>2. g \in Fronts
  BY DEF Fronts, Tasks
<1> QED
  BY <1>1, <1>2

\* The frontier is sound with the taken URL being processed.
LEMMA SoundTaken ==
    ASSUME NEW f \in Fronts, NEW k \in f.queue, NEW written, Sound(f, {}, written),
           NEW g, g.queue = f.queue \ {k}, g.visited = f.visited \union {k.url},
           g.outcome = f.outcome
    PROVE  /\ Sound(g, {k.url}, written)
           /\ k.url \notin f.visited
           /\ f.outcome[k.url] # "none"
<1>1. k \in Tasks /\ k.url \in Urls
  BY DEF Fronts, Tasks
<1>2. Queued(f, k.url)
  BY DEF Queued
<1>3. k.url \notin f.visited /\ f.outcome[k.url] # "none"
  BY <1>1, <1>2 DEF Sound
<1>4. \A u \in Urls : Queued(g, u) <=> Queued(f, u) /\ u # k.url
  BY DEF Queued, Sound
<1>5. Sound(g, {k.url}, written)
  BY <1>4 DEF Sound
<1> QED
  BY <1>3, <1>5

LEMMA StepTake ==
    ASSUME IInv, Take
    PROVE  IInv'
<1> DEFINE Taken(k) ==
        [front EXCEPT !.queue = @ \ {k}, !.visited = @ \union {k.url}]
<1>1. PICK k \in front.queue :
        /\ IF k.url \in front.visited
           THEN /\ front' = Taken(k)
                /\ UNCHANGED <<pc, task>>
           ELSE IF k.url \in Declined
           THEN /\ front' = Decline(Taken(k), k)
                /\ pc' = "checkpoint"
                /\ UNCHANGED task
           ELSE /\ front' = Taken(k)
                /\ task' = k
                /\ pc' = "robots"
  BY DEF Take
<1>2. pc = "loop" /\ task = Nobody /\ UNCHANGED <<paused, stop, archived, saved, receipt, reloads>>
  BY DEF Take, IInv, TaskInv, Working
<1> DEFINE g == Taken(k)
<1>3. front \in Fronts /\ Sound(front, {}, archived) /\ Accepted(front)
      /\ KeepsRobots(front, archived) /\ k \in Tasks /\ k.url \in Urls
  <2>1. front \in Fronts /\ Accepted(front) /\ KeepsRobots(front, archived)
    BY DEF IInv, TypeOK
  <2>2. Sound(front, {}, archived)
    BY <1>2, Busy DEF IInv, NothingLost
  <2>3. k \in Tasks
    BY <2>1 DEF Fronts
  <2> QED
    BY <2>1, <2>2, <2>3 DEF Tasks
<1>4. /\ g \in Fronts /\ g.queue = front.queue \ {k}
      /\ g.visited = front.visited \union {k.url}
      /\ g.robots = front.robots /\ g.outcome = front.outcome
  BY <1>3, TakenFields
<1> HIDE DEF Taken, g
<1>5. /\ Sound(g, {k.url}, archived)
      /\ k.url \notin front.visited
      /\ front.outcome[k.url] # "none"
  BY <1>3, <1>4, SoundTaken
<1>6. Fits(g, archived)
  <2>1. KeepsRobots(g, archived)
    BY <1>3, <1>4, KeepsSame
  <2>2. Accepted(g)
    BY <1>3, <1>4 DEF Accepted
  <2> QED
    BY <1>4, <2>1, <2>2 DEF Fits
<1>7. k.url \in InScope /\ k.depth <= MaxDepth /\ k.retries <= MaxRetries
  BY <1>3 DEF Accepted
<1>8. CASE k.url \in Declined
  <2>1. front' = SetOutcome(g, k.url, "excluded") /\ pc' = "checkpoint" /\ task' = Nobody
    BY <1>1, <1>2, <1>5, <1>8 DEF Decline, g
  <2>2. k.url \in g.visited
    BY <1>4
  <2>3. Sound(front', {}, archived') /\ Fits(front', archived')
    BY <1>2, <1>3, <1>4, <1>5, <1>6, <2>1, <2>2, SoundSettled, FitsOutcome DEF Outcomes
  <2>4. TypeOK'
    BY <1>2, <2>1, <2>3 DEF IInv, TypeOK, Fits, Running, Working
  <2> QED
    BY <1>2, <2>1, <2>3, <2>4, Rests
<1>9. CASE k.url \notin Declined
  <2>1. front' = g /\ task' = k /\ pc' = "robots"
    BY <1>1, <1>5, <1>9 DEF g
  <2>2. TypeOK'
    BY <1>2, <1>3, <1>4, <2>1, CrawlAssumption DEF IInv, TypeOK, Running, Working
  <2>3. TaskInv'
    BY <1>3, <1>4, <1>5, <1>7, <2>1 DEF TaskInv, Working
  <2>4. PermissionInv'
    BY <2>1 DEF PermissionInv
  <2>5. NothingLost'
    <3>1. {u \in Urls : Current(u)'} = {k.url}
      BY <1>3, <2>1, CrawlAssumption DEF Current
    <3> QED
      BY <1>2, <1>5, <2>1, <3>1 DEF NothingLost
  <2>6. CheckpointIsSound' /\ CheckpointIsAccepted'
        /\ KeepsRobots(saved'.front, saved'.archived)
    BY <1>2 DEF IInv, CheckpointIsSound, CheckpointIsAccepted
  <2>7. KeepsRobots(front', archived') /\ Accepted(front')
    BY <1>2, <1>6, <2>1 DEF Fits
  <2> QED
    BY <2>2, <2>3, <2>4, <2>5, <2>6, <2>7 DEF IInv
<1> QED
  BY <1>8, <1>9

\* The end of the loop, its checkpoints and the receipt.
LEMMA StepLoop ==
    ASSUME IInv, LoopEnds \/ SaveCheckpoint \/ Finalize
    PROVE  IInv'
<1>1. CASE LoopEnds
  <2>1. pc = "loop" /\ Goto("final")
    BY <1>1 DEF LoopEnds
  <2> QED
    BY <2>1, GotoStep DEF Running, Working
<1>2. CASE SaveCheckpoint
  <2>1. /\ pc = "checkpoint" /\ pc' = "loop"
        /\ saved' = [front |-> front, archived |-> archived]
        /\ UNCHANGED <<front, task, paused, stop, archived, receipt, reloads>>
    BY <1>2 DEF SaveCheckpoint
  <2>2. task = Nobody
    BY <2>1 DEF IInv, TaskInv, Working
  <2>3. saved'.front = front /\ saved'.archived = archived
    BY <2>1
  <2>4. TypeOK'
    BY <2>1 DEF IInv, TypeOK, Running, Working
  <2>5. TaskInv' /\ PermissionInv'
    BY <2>1, <2>2 DEF TaskInv, PermissionInv
  <2>6. NothingLost' /\ CheckpointIsSound'
    <3>1. Sound(front, {}, archived)
      BY <2>2, Busy DEF IInv, NothingLost
    <3>2. {u \in Urls : Current(u)'} = {}
      BY <2>1, <2>2 DEF Current
    <3> QED
      BY <2>1, <2>3, <3>1, <3>2 DEF NothingLost, CheckpointIsSound
  <2>7. /\ KeepsRobots(front', archived') /\ Accepted(front')
        /\ KeepsRobots(saved'.front, saved'.archived) /\ CheckpointIsAccepted'
    BY <2>1, <2>3 DEF IInv, CheckpointIsAccepted
  <2> QED
    BY <2>4, <2>5, <2>6, <2>7 DEF IInv
<1>3. CASE Finalize
  <2>1. /\ pc = "final" /\ pc' = "stopped" /\ receipt' \in {"complete", "partial"}
        /\ UNCHANGED <<front, task, paused, stop, archived, saved, reloads>>
    BY <1>3 DEF Finalize
  <2>2. TypeOK'
    BY <2>1 DEF IInv, TypeOK, Working, Running
  <2>3. TaskInv' /\ PermissionInv'
    BY <2>1 DEF IInv, TaskInv, PermissionInv, Working
  <2> QED
    BY <2>1, <2>2, <2>3, Moves
<1> QED
  BY <1>1, <1>2, <1>3

\* Permission, from robots.txt and the politeness engine.
LEMMA StepPermission ==
    ASSUME IInv, RobotsDecided \/ RobotsAsked \/ RobotsAnswered \/ Permitted
    PROVE  IInv'
<1>0. pc \in Working
  BY DEF RobotsDecided, RobotsAsked, RobotsAnswered, Permitted, Working
<1>1. /\ task \in Tasks /\ task # Nobody /\ task.url \in Urls
      /\ task.url \in front.visited /\ front.outcome[task.url] # "none"
      /\ task.url \in InScope /\ task.depth <= MaxDepth /\ task.retries <= MaxRetries
      /\ Sound(front, {task.url}, archived) /\ Fits(front, archived)
  BY <1>0, AtWork
<1>2. front \in Fronts
  BY <1>1 DEF Fits
<1>3. Sound(PutBack(front, task), {}, archived) /\ Fits(PutBack(front, task), archived)
  BY <1>1, <1>2, SoundPutBack, FitsPutBack
<1>4. CASE RobotsDecided
  <2>1. pc = "robots" /\ (Unknown => stop)
    BY <1>4 DEF RobotsDecided
  <2>2. CASE Allowed
    <3>1. Goto("gate")
      BY <1>4, <2>2 DEF RobotsDecided
    <3> QED
      BY <2>1, <2>2, <3>1, GotoStep DEF Running, Working
  <2>3. CASE ~Allowed /\ stop
    <3>1. Settle(PutBack(front, task))
      BY <1>4, <2>3 DEF RobotsDecided
    <3> QED
      BY <1>3, <3>1, SettleStep
  <2>4. CASE ~Allowed /\ ~stop
    <3> DEFINE g == SetOutcome(front, task.url, "robots")
    <3>1. Settle(g)
      BY <1>4, <2>4 DEF RobotsDecided
    <3>2. Sound(g, {}, archived)
      BY <1>1, <1>2, SoundSettled DEF Outcomes
    <3>3. /\ g \in Fronts /\ g.queue = front.queue /\ g.visited = front.visited
          /\ g.robots = front.robots
          /\ \A v \in Urls \ {task.url} : g.outcome[v] = front.outcome[v]
      BY <1>1, <1>2, SetOutcomeFields DEF Outcomes
    <3> HIDE DEF g
    <3>4. \/ front.robots[Origin[task.url]] = "closed"
          \/ front.robots[Origin[task.url]] = "rules" /\ task.url \in Disallowed
      <4>1. front.robots[Origin[task.url]] \in {"unknown", "rules", "closed"}
        BY <1>1, <1>2, CrawlAssumption DEF Fronts
      <4> QED
        BY <2>1, <2>4, <4>1 DEF Allowed, Unknown, Rules
    <3>5. KeepsRobots(g, archived)
      BY <1>1, <3>3, <3>4 DEF Fits, KeepsRobots
    <3>6. Accepted(g)
      BY <1>1, <3>3 DEF Fits, Accepted
    <3> QED
      BY <3>1, <3>2, <3>3, <3>5, <3>6, SettleStep DEF Fits
  <2> QED
    BY <2>2, <2>3, <2>4
<1>5. CASE RobotsAsked
  <2>1. pc = "robots" /\ Unknown /\ Goto("robots_txt")
    BY <1>5 DEF RobotsAsked
  <2> QED
    BY <2>1, GotoStep DEF Running, Working
<1>6. CASE RobotsAnswered
  <2> DEFINE o == Origin[task.url]
  <2>1. PICK rules \in {"rules", "closed"} :
           front' = [front EXCEPT !.robots[o] = rules]
    BY <1>6 DEF RobotsAnswered
  <2>2. /\ pc = "robots_txt" /\ pc' = "robots"
        /\ UNCHANGED <<task, paused, stop, archived, saved, receipt, reloads>>
    BY <1>6 DEF RobotsAnswered
  <2>3. front.robots[o] = "unknown" /\ Respect
    BY <2>2 DEF IInv, PermissionInv, Unknown, Rules
  <2>4. /\ front' \in Fronts /\ front'.queue = front.queue
        /\ front'.visited = front.visited /\ front'.outcome = front.outcome
        /\ \A p \in Origins \ {o} : front'.robots[p] = front.robots[p]
    BY <1>2, <2>1 DEF Fronts
  <2>5. KeepsRobots(front', archived)
    <3>1. \A u \in Urls : Origin[u] \in Origins
      BY CrawlAssumption
    <3>2. \A u \in Urls : u \in archived => Origin[u] # o
      BY <1>1, <2>3 DEF Fits, KeepsRobots
    <3>3. \A u \in Urls : front.outcome[u] = "robots" => Origin[u] # o
      BY <1>1, <2>3 DEF Fits, KeepsRobots
    <3> QED
      BY <1>1, <2>4, <3>1, <3>2, <3>3 DEF Fits, KeepsRobots
  <2>6. Accepted(front')
    BY <1>1, <2>4 DEF Fits, Accepted
  <2>7. TypeOK'
    BY <2>2, <2>4 DEF IInv, TypeOK, Running, Working
  <2>8. TaskInv' /\ PermissionInv'
    BY <1>1, <2>2, <2>4 DEF TaskInv, PermissionInv, Working
  <2>9. NothingLost'
    <3>1. {u \in Urls : Current(u)'} = {u \in Urls : Current(u)}
      BY <2>2 DEF Current
    <3> QED
      BY <2>2, <2>4, <3>1, SoundSame DEF IInv, NothingLost
  <2>10. /\ CheckpointIsSound' /\ CheckpointIsAccepted'
         /\ KeepsRobots(saved'.front, saved'.archived)
    BY <2>2 DEF IInv, CheckpointIsSound, CheckpointIsAccepted
  <2> QED
    BY <2>2, <2>5, <2>6, <2>7, <2>8, <2>9, <2>10 DEF IInv
<1>7. CASE Permitted
  <2>1. pc = "gate" /\ Allowed
    BY <1>7 DEF Permitted, IInv, PermissionInv
  <2>2. CASE stop
    <3>1. Settle(PutBack(front, task))
      BY <1>7, <2>2 DEF Permitted
    <3> QED
      BY <1>3, <3>1, SettleStep
  <2>3. CASE ~stop
    <3>1. Goto("transport")
      BY <1>7, <2>3 DEF Permitted
    <3> QED
      BY <2>1, <3>1, GotoStep DEF Running, Working
  <2> QED
    BY <2>2, <2>3
<1> QED
  BY <1>4, <1>5, <1>6, <1>7

\* The request and the archive.
LEMMA StepTransport ==
    ASSUME IInv, Rejected \/ Fails \/ Arrives \/ Archive
    PROVE  IInv'
<1>0. pc \in Working /\ Allowed
  BY DEF Rejected, Fails, Arrives, Archive, Working, IInv, PermissionInv
<1>1. /\ task \in Tasks /\ task # Nobody /\ task.url \in Urls
      /\ task.url \in front.visited /\ front.outcome[task.url] # "none"
      /\ task.url \in InScope /\ task.depth <= MaxDepth /\ task.retries <= MaxRetries
      /\ Sound(front, {task.url}, archived) /\ Fits(front, archived)
  BY <1>0, AtWork
<1>2. front \in Fronts
  BY <1>1 DEF Fits
<1>3. CASE Rejected
  <2>1. PICK o \in {"excluded", "unsupported", "failed"} :
           Settle([SetOutcome(front, task.url, o)
                   EXCEPT !.limited = @ \/ o = "unsupported"])
    BY <1>3 DEF Rejected
  <2> DEFINE g == SetOutcome(front, task.url, o)
             b == g.limited \/ o = "unsupported"
             h == [g EXCEPT !.limited = b]
  <2>2. Sound(g, {}, archived) /\ Fits(g, archived)
    BY <1>1, <1>2, SoundSettled, FitsOutcome DEF Outcomes
  <2>3. Settle(h)
    BY <2>1
  <2>4. b \in BOOLEAN
    BY <2>2 DEF Fits, Fronts
  <2> HIDE DEF g, b
  <2>5. Sound(h, {}, archived) /\ Fits(h, archived)
    BY <2>2, <2>4, LimitedFields, SoundSame, FitsLimited DEF Fits
  <2> QED
    BY <2>3, <2>5, SettleStep
<1>4. CASE Fails
  <2>1. Sound(Requeue(front, task), {}, archived) /\ Fits(Requeue(front, task), archived)
    BY <1>1, <1>2, SoundRequeue, FitsRequeue
  <2> QED
    BY <1>4, <2>1, SettleStep DEF Fails
<1>5. CASE Arrives
  <2>1. pc = "transport" /\ Goto("archive")
    BY <1>5 DEF Arrives
  <2> QED
    BY <1>0, <2>1, GotoStep DEF Running, Working
<1>6. CASE Archive
  <2> DEFINE g == SetOutcome(front, task.url, "captured")
             more == archived \union {task.url}
  <2>1. /\ \/ front' = Enqueue(g, References(task))
           \/ \E found \in SUBSET References(task) : front' = Enqueue(Limited(g), found)
           \/ front' = Requeue(g, task)
        /\ archived' = more /\ task' = Nobody /\ pc' = "checkpoint"
        /\ UNCHANGED <<paused, stop, saved, receipt, reloads>>
    BY <1>6 DEF Archive
  <2>2. Sound(g, {}, more)
    BY <1>1, <1>2, SoundSettled DEF Outcomes
  <2>3. Fits(g, more)
    <3>1. Fits(g, archived)
      BY <1>1, FitsOutcome DEF Outcomes
    <3>2. g.robots = front.robots
      BY <1>1, <1>2, SetOutcomeFields DEF Outcomes
    <3> HIDE DEF g
    <3>3. Respect => task.url \notin Disallowed /\ g.robots[Origin[task.url]] = "rules"
      BY <1>0, <3>2 DEF Allowed, Rules
    <3> QED
      BY <3>1, <3>3 DEF Fits, KeepsRobots
  <2>4. /\ g \in Fronts /\ task.url \in g.visited
        /\ g.outcome[task.url] = "captured"
    <3>1. "captured" \in Outcomes
      BY DEF Outcomes
    <3>2. /\ SetOutcome(front, task.url, "captured") \in Fronts
          /\ SetOutcome(front, task.url, "captured").visited = front.visited
          /\ SetOutcome(front, task.url, "captured").outcome[task.url] = "captured"
      BY <1>1, <1>2, <3>1, SetOutcomeFields
    <3> QED
      BY <1>1, <3>2
  <2>5. archived' \in SUBSET Urls
    BY <1>1, <2>1 DEF IInv, TypeOK
  <2> HIDE DEF g, more
  <2>6. Sound(front', {}, more) /\ Fits(front', more)
    <3>1. CASE front' = Enqueue(g, References(task))
      BY <1>1, <2>2, <2>3, <2>4, <3>1, ReferenceTasks, SoundEnqueue, FitsEnqueue
    <3>2. ASSUME NEW found \in SUBSET References(task), front' = Enqueue(Limited(g), found)
          PROVE  Sound(front', {}, more) /\ Fits(front', more)
      <4>1. Sound(Limited(g), {}, more) /\ Fits(Limited(g), more) /\ Limited(g) \in Fronts
        BY <2>2, <2>3, <2>4, LimitedFields, SoundSame, FitsLimited DEF Limited
      <4>2. /\ found \in SUBSET Tasks
            /\ \A l \in found : l.retries = 0
            /\ \A l, m \in found : l.url = m.url => l = m
        BY <1>1, ReferenceTasks
      <4> QED
        BY <3>2, <4>1, <4>2, SoundEnqueue, FitsEnqueue
    <3>3. CASE front' = Requeue(g, task)
      <4>1. Sound(g, {task.url}, more)
        BY <2>2 DEF Sound
      <4> QED
        BY <1>1, <2>3, <2>4, <3>3, <4>1, SoundRequeue, FitsRequeue
    <3> QED
      BY <2>1, <3>1, <3>2, <3>3
  <2>7. TypeOK'
    BY <2>1, <2>5, <2>6 DEF IInv, TypeOK, Fits, Running, Working
  <2> QED
    BY <2>1, <2>6, <2>7, Rests
<1> QED
  BY <1>3, <1>4, <1>5, <1>6

LEMMA InitIInv == Init => IInv
<1> SUFFICES ASSUME Init PROVE IInv
  OBVIOUS
<1>1. /\ EmptyFront \in Fronts /\ EmptyFront.queue = {} /\ EmptyFront.visited = {}
      /\ \A u \in Urls : EmptyFront.outcome[u] = "none"
  BY DEF EmptyFront, Fronts, Outcomes
<1>2. /\ pc = "idle" /\ front = EmptyFront /\ task = Nobody /\ paused = FALSE
      /\ stop = FALSE /\ archived = {} /\ receipt = "none" /\ reloads = 0
      /\ saved = [front |-> EmptyFront, archived |-> {}]
  BY DEF Init
<1>3. saved.front = EmptyFront /\ saved.archived = {}
  BY <1>2
<1>4. /\ Sound(EmptyFront, {}, {}) /\ KeepsRobots(EmptyFront, {})
      /\ Accepted(EmptyFront)
  BY <1>1 DEF Sound, Queued, KeepsRobots, Accepted
<1>5. TypeOK
  <2>1. saved \in [front : Fronts, archived : SUBSET Urls]
    BY <1>1, <1>2
  <2>2. reloads \in 0..MaxReloads
    BY <1>2, CrawlAssumption
  <2>3. pc \in {"idle"} /\ pc \notin Working
    BY <1>2 DEF Working
  <2> QED
    BY <1>1, <1>2, <2>1, <2>2, <2>3 DEF TypeOK
<1>6. TaskInv /\ PermissionInv
  BY <1>2 DEF TaskInv, PermissionInv
<1>7. NothingLost /\ CheckpointIsSound
  BY <1>2, <1>3, <1>4, Busy DEF NothingLost, CheckpointIsSound
<1> QED
  BY <1>2, <1>3, <1>4, <1>5, <1>6, <1>7 DEF IInv, CheckpointIsAccepted

LEMMA StepIInv == IInv /\ [Next]_vars => IInv'
<1> SUFFICES ASSUME IInv, [Next]_vars PROVE IInv'
  OBVIOUS
<1>1. CASE Start \/ Pause \/ Resume \/ Stop \/ Reload \/ StorageFails
  BY <1>1, StepPage
<1>2. CASE Take
  BY <1>2, StepTake
<1>3. CASE LoopEnds \/ SaveCheckpoint \/ Finalize
  BY <1>3, StepLoop
<1>4. CASE RobotsDecided \/ RobotsAsked \/ RobotsAnswered \/ Permitted
  BY <1>4, StepPermission
<1>5. CASE Rejected \/ Fails \/ Arrives \/ Archive
  BY <1>5, StepTransport
<1>6. CASE UNCHANGED vars
  <2>1. UNCHANGED <<pc, front, task, paused, stop, archived, saved, receipt, reloads>>
    BY <1>6 DEF vars
  <2>2. TypeOK' /\ TaskInv' /\ PermissionInv'
    BY <2>1 DEF IInv, TypeOK, TaskInv, PermissionInv, Unknown, Allowed, Rules
  <2> QED
    BY <2>1, <2>2, Moves
<1> QED
  BY <1>1, <1>2, <1>3, <1>4, <1>5, <1>6 DEF Next, Step, Process

-----------------------------------------------------------------------------
(* Theorems *)

\* The inductive invariant holds in every state of a crawl, whatever is
\* paused, stopped, retried, lost or resumed.
THEOREM Invariant == Spec => []IInv
  BY InitIInv, StepIInv, PTL DEF Spec

\* Every variable keeps its type.
THEOREM TypesAreKept == Spec => []TypeOK
<1>1. IInv => TypeOK
  BY DEF IInv
<1> QED
  BY <1>1, Invariant, PTL

\* No URL is lost or doubled between queue, visited and outcomes
\* (enqueueReference, requeueForRetry, processUrl).
THEOREM NothingIsEverLost == Spec => []NothingLost
<1>1. IInv => NothingLost
  BY DEF IInv
<1> QED
  BY <1>1, Invariant, PTL

\* Each recovery checkpoint is whole, and of the archive it is stored with
\* (saveRecoveryCheckpoint).
THEOREM CheckpointAlwaysSound == Spec => []CheckpointIsSound
<1>1. IInv => CheckpointIsSound
  BY DEF IInv
<1> QED
  BY <1>1, Invariant, PTL

\* importCheckpoint accepts each checkpoint the crawler exports.
THEOREM CheckpointAlwaysAccepted == Spec => []CheckpointIsAccepted
<1>1. IInv => CheckpointIsAccepted
  BY DEF IInv
<1> QED
  BY <1>1, Invariant, PTL

\* Nothing is archived that robots.txt disallows, and nothing left out in its
\* name that it allows (robotsAllowed, processUrl).
THEOREM RobotsAlwaysRespected == Spec => []RobotsAreRespected
<1>1. IInv => RobotsAreRespected
  BY DEF IInv, KeepsRobots, RobotsAreRespected
<1> QED
  BY <1>1, Invariant, PTL

=============================================================================
