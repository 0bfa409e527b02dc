----------------------------- MODULE CoreCrawler -----------------------------
(***************************************************************************)
(* The browser's crawl loop (web/lib/core_crawler.js): a URL goes from the *)
(* queue through robots.txt, pacing, the request and the archive; the loop *)
(* saves a recovery checkpoint after each, and can be paused, stopped and  *)
(* resumed in a new page.                                                  *)
(*                                                                         *)
(* The code is one thread: a step ends where the code awaits.  pc is the   *)
(* await it is at.  front is what exportRecoveryState exports.  A link is  *)
(* a pair of URLs; a redirect is a link at the depth of its source.        *)
(***************************************************************************)
EXTENDS Naturals, FiniteSets

CONSTANTS
    Urls,
    Origins,
    Origin,         \* of a URL
    Seeds,          \* seed tasks: tier_1_core, ..., sitemap_seeds
    Links,          \* body and Location, as far as the rules traverse them
    Redirects,      \* the URLs that answer with a redirect
    InScope,        \* isUrlInScope, and the rules say discover
    Declined,       \* the rules say not to download
    Disallowed,     \* by the rules of the robots.txt of its origin
    Respect,        \* robots_policy is 'respect'
    MaxDepth,
    MaxPages,
    MaxRetries,
    Nobody,         \* no task
    MaxReloads      \* bound: pages opened to resume, after the first

Tasks == [url : Urls, tier : 1..3, depth : Nat, retries : Nat]

ASSUME CrawlAssumption ==
    /\ Origin \in [Urls -> Origins]
    /\ \A k \in Seeds : k \in Tasks /\ k.depth = 0 /\ k.retries = 0
    /\ Links \subseteq Urls \X Urls
    /\ Redirects \subseteq Urls
    /\ InScope \subseteq Urls
    /\ Declined \subseteq Urls
    /\ Disallowed \subseteq Urls
    /\ Respect \in BOOLEAN
    /\ MaxDepth \in Nat
    /\ MaxPages \in Nat
    /\ MaxRetries \in Nat
    /\ Nobody \notin Tasks
    /\ MaxReloads \in Nat

VARIABLES
    pc,
    front,      \* queue, visited, resourceOutcomes, robotsRules, limitations
    task,       \* the task in processUrl
    paused,     \* isPaused
    stop,       \* shouldStop
    archived,   \* URLs with a record in the archive
    saved,      \* the last recovery checkpoint: front and the archive's bytes
    receipt,    \* what complete says in the receipt of the finalized archive
    reloads

vars == <<pc, front, task, paused, stop, archived, saved, receipt, reloads>>

-----------------------------------------------------------------------------
Outcomes == {"none", "pending", "captured", "excluded", "robots", "failed",
             "unsupported"}

Fronts == [queue : SUBSET Tasks, visited : SUBSET Urls,
           outcome : [Urls -> Outcomes],
           robots : [Origins -> {"unknown", "rules", "closed"}],
           limited : BOOLEAN]

Working == {"robots", "robots_txt", "gate", "transport", "archive"}
Running == Working \union {"loop", "checkpoint", "final"}

TypeOK ==
    /\ pc \in {"idle", "stopped", "dead"} \union Running
    /\ front \in Fronts
    /\ task \in Tasks \union {Nobody}
    /\ pc \in Working => task # Nobody
    /\ paused \in BOOLEAN
    /\ stop \in BOOLEAN
    /\ archived \in SUBSET Urls
    /\ saved \in [front : Fronts, archived : SUBSET Urls]
    /\ receipt \in {"none", "complete", "partial"}
    /\ reloads \in 0..MaxReloads

-----------------------------------------------------------------------------
(* The frontier.  Each operator gives the frontier after a call. *)

EmptyFront ==
    [queue |-> {}, visited |-> {}, outcome |-> [u \in Urls |-> "none"],
     robots |-> [o \in Origins |-> "unknown"], limited |-> FALSE]

Init ==
    /\ pc = "idle"
    /\ front = EmptyFront
    /\ task = Nobody
    /\ paused = FALSE
    /\ stop = FALSE
    /\ archived = {}
    /\ saved = [front |-> EmptyFront, archived |-> {}]
    /\ receipt = "none"
    /\ reloads = 0

SetOutcome(f, u, o) == [f EXCEPT !.outcome[u] = o]

\* Mutant: a URL that was visited is queued again.
EnqueueVisited(f, refs) ==
    LET fresh == {k \in refs : /\ k.url \in InScope /\ k.depth <= MaxDepth
                               /\ \A q \in f.queue : q.url # k.url}
        Seen(u) == \E k \in refs : k.url = u
    IN [f EXCEPT !.queue = @ \union fresh,
                 !.outcome = [u \in Urls |->
                    IF @[u] # "none" \/ ~Seen(u) THEN @[u]
                    ELSE IF \E k \in fresh : k.url = u THEN "pending"
                    ELSE "excluded"]]

\* enqueueReference for each reference of refs, one task per URL.
Enqueue(f, refs) ==
    LET found == {k \in refs : k.url \in InScope /\ k.depth <= MaxDepth}
        fresh == {k \in found : /\ k.url \notin f.visited
                                /\ \A q \in f.queue : q.url # k.url}
    IN [f EXCEPT !.queue = @ \union fresh,
                 !.outcome = [u \in Urls |->
                    IF @[u] # "none" \/ \A k \in refs : k.url # u THEN @[u]
                    ELSE IF \E k \in found : k.url = u THEN "pending"
                    ELSE "excluded"]]

\* The seeds are enqueued in order: the first task of a URL is kept.
FirstSeeds ==
    {k \in Seeds : \A l \in Seeds : l.url = k.url => k.tier <= l.tier}

\* The references of a captured resource.
References(k) ==
    LET depth == IF k.url \in Redirects THEN k.depth ELSE k.depth + 1
    IN {[url |-> l[2], tier |-> k.tier, depth |-> depth, retries |-> 0] :
           l \in {l \in Links : l[1] = k.url}}

\* A task goes back as it was.
PutBack(f, k) ==
    [f EXCEPT !.visited = @ \ {k.url}, !.queue = @ \union {k}]

\* Mutant: > instead of >= was meant.
RequeueOnceMore(f, k) ==
    IF k.retries > MaxRetries
    THEN SetOutcome(f, k.url, "failed")
    ELSE SetOutcome(PutBack(f, [k EXCEPT !.retries = @ + 1]), k.url, "pending")

\* Mutant: the retry is not counted.
RequeueForever(f, k) == SetOutcome(PutBack(f, k), k.url, "pending")

\* requeueForRetry, after the outcome was set to failed.
Requeue(f, k) ==
    IF k.retries + 1 > MaxRetries
    THEN SetOutcome(f, k.url, "failed")
    ELSE SetOutcome(PutBack(f, [k EXCEPT !.retries = @ + 1]), k.url, "pending")

Complete(f) ==
    /\ \E u \in Urls : f.outcome[u] # "none"
    /\ \A u \in Urls : f.outcome[u] \in {"none", "captured"}
    /\ ~f.limited

-----------------------------------------------------------------------------
(* Operators and the page *)

Start ==
    /\ pc = "idle"
    /\ pc' = "loop"
    /\ paused' = FALSE
    /\ stop' = FALSE
    /\ front' = IF front.queue = {} /\ front.visited = {}
                THEN Enqueue(front, FirstSeeds) ELSE front
    /\ UNCHANGED <<task, archived, saved, receipt, reloads>>

Pause ==
    /\ pc \in Running
    /\ paused' = TRUE
    /\ UNCHANGED <<pc, front, task, stop, archived, saved, receipt, reloads>>

Resume ==
    /\ pc \in Running
    /\ paused
    /\ paused' = FALSE
    /\ UNCHANGED <<pc, front, task, stop, archived, saved, receipt, reloads>>

Stop ==
    /\ pc \in Running
    /\ stop' = TRUE
    /\ paused' = FALSE
    /\ UNCHANGED <<pc, front, task, archived, saved, receipt, reloads>>

\* importCheckpoint: what a frontier must be like to be resumed.
Accepted(f) ==
    /\ \A k \in f.queue :
          k.url \in InScope /\ k.depth <= MaxDepth /\ k.retries <= MaxRetries
    /\ f.visited \subseteq InScope

\* The page is gone.  Another reopens the archive, which USB storage cuts back
\* to the checkpoint, and imports it; without one it begins a new archive.
Reload ==
    /\ receipt = "none"
    /\ pc # "idle"
    /\ reloads < MaxReloads
    /\ Accepted(saved.front)
    /\ reloads' = reloads + 1
    /\ pc' = "idle"
    /\ front' = saved.front
    /\ archived' = saved.archived
    /\ task' = Nobody
    /\ UNCHANGED <<paused, stop, saved, receipt>>

-----------------------------------------------------------------------------
(* The loop *)

\* No task is done; the loop goes on to its checkpoint.
Settle(f) ==
    /\ front' = f
    /\ task' = Nobody
    /\ pc' = "checkpoint"
    /\ UNCHANGED <<paused, stop, archived, saved, receipt, reloads>>

Goto(place) ==
    /\ pc' = place
    /\ UNCHANGED <<front, task, paused, stop, archived, saved, receipt, reloads>>

\* processUrl: the rules decline the URL before it is requested.
Decline(f, k) == SetOutcome(f, k.url, "excluded")

Best(k) == \A l \in front.queue : \/ k.tier < l.tier
                                  \/ k.tier = l.tier /\ k.depth <= l.depth

Take ==
    /\ pc = "loop"
    /\ ~stop
    /\ ~paused
    /\ Cardinality(front.visited) < MaxPages
    /\ \E k \in front.queue :
          LET f == [front EXCEPT !.queue = @ \ {k}, !.visited = @ \union {k.url}]
          IN /\ Best(k)
             /\ IF k.url \in front.visited
                THEN /\ front' = f
                     /\ UNCHANGED <<pc, task>>
                ELSE IF k.url \in Declined
                THEN /\ front' = Decline(f, k)
                     /\ pc' = "checkpoint"
                     /\ UNCHANGED task
                ELSE /\ front' = f
                     /\ task' = k
                     /\ pc' = "robots"
    /\ UNCHANGED <<paused, stop, archived, saved, receipt, reloads>>

LoopEnds ==
    /\ pc = "loop"
    /\ \/ stop
       \/ front.queue = {}
       \/ ~paused /\ Cardinality(front.visited) >= MaxPages
    /\ Goto("final")

\* Mutant: a checkpoint may be made while a URL is being processed.
SaveCheckpointAnytime ==
    /\ pc \in {"checkpoint", "transport"}
    /\ saved' = [front |-> front, archived |-> archived]
    /\ pc' = IF pc = "checkpoint" THEN "loop" ELSE pc
    /\ UNCHANGED <<front, task, paused, stop, archived, receipt, reloads>>

\* onRecoveryCheckpoint: the front and the archive as they are together.
SaveCheckpoint ==
    /\ pc = "checkpoint"
    /\ saved' = [front |-> front, archived |-> archived]
    /\ pc' = "loop"
    /\ UNCHANGED <<front, task, paused, stop, archived, receipt, reloads>>

\* The storage of the archive fails, while it starts, in a write, in a
\* checkpoint or in finalize: start() rejects, and the page gives up.
StorageFails ==
    /\ pc \in {"loop", "archive", "checkpoint", "final"}
    /\ pc' = "dead"
    /\ stop' = TRUE
    /\ UNCHANGED <<front, task, paused, archived, saved, receipt, reloads>>

Finalize ==
    /\ pc = "final"
    /\ pc' = "stopped"
    /\ receipt' = IF Complete(front) THEN "complete" ELSE "partial"
    /\ UNCHANGED <<front, task, paused, stop, archived, saved, reloads>>

-----------------------------------------------------------------------------
(* processUrl: permission *)

Rules == front.robots[Origin[task.url]]
Allowed == ~Respect \/ (Rules = "rules" /\ task.url \notin Disallowed)
Unknown == Respect /\ Rules = "unknown"

\* Mutant: the answer does not say why robots.txt is not known.
RobotsDecidedAnyway ==
    /\ pc = "robots"
    /\ Unknown => stop
    /\ IF Allowed THEN Goto("gate")
       ELSE Settle(SetOutcome(front, task.url, "robots"))

\* The rules are known, or a stop ended the wait for them.
RobotsDecided ==
    /\ pc = "robots"
    /\ Unknown => stop
    /\ IF Allowed THEN Goto("gate")
       ELSE IF stop THEN Settle(PutBack(front, task))
       ELSE Settle(SetOutcome(front, task.url, "robots"))

RobotsAsked == pc = "robots" /\ Unknown /\ ~stop /\ Goto("robots_txt")

\* Rules; or robots.txt is unavailable, and all is disallowed.
RobotsAnswered ==
    /\ pc = "robots_txt"
    /\ pc' = "robots"
    /\ \E rules \in {"rules", "closed"} :
          front' = [front EXCEPT !.robots[Origin[task.url]] = rules]
    /\ UNCHANGED <<task, paused, stop, archived, saved, receipt, reloads>>

\* acquirePermission has waited, or was aborted.
Permitted ==
    /\ pc = "gate"
    /\ IF stop THEN Settle(PutBack(front, task)) ELSE Goto("transport")

-----------------------------------------------------------------------------
(* processUrl: request and archive *)

\* The response is not archived: a rule excludes it once its type or size is
\* known, it is opaque, or its status is an error that is not counted.
Rejected ==
    /\ pc = "transport"
    /\ \E o \in {"excluded", "unsupported", "failed"} :
          Settle([SetOutcome(front, task.url, o)
                  EXCEPT !.limited = @ \/ o = "unsupported"])

\* A counted status, or an exception.
Fails ==
    /\ pc \in {"transport", "archive"}
    /\ Settle(Requeue(front, task))

Arrives == pc = "transport" /\ Goto("archive")

\* A limitation of the page: it cannot be decoded, a reference of it is of an
\* unsupported kind or makes evaluateRules throw, or no Location is given.
Limited(f) == [f EXCEPT !.limited = TRUE]

Archive ==
    /\ pc = "archive"
    /\ archived' = archived \union {task.url}
    \* The references are all found; or some or all of them, and a limitation;
    \* or a Location makes evaluateRules throw (more than 8192 characters).
    /\ LET f == SetOutcome(front, task.url, "captured")
       IN \/ front' = Enqueue(f, References(task))
          \/ \E found \in SUBSET References(task) :
                /\ task.url \in Redirects => found = {}
                /\ front' = Enqueue(Limited(f), found)
          \/ task.url \in Redirects /\ front' = Requeue(f, task)
    /\ task' = Nobody
    /\ pc' = "checkpoint"
    /\ UNCHANGED <<paused, stop, saved, receipt, reloads>>

-----------------------------------------------------------------------------
Process ==
    \/ RobotsDecided \/ RobotsAsked \/ RobotsAnswered \/ Permitted
    \/ Rejected \/ Fails \/ Arrives \/ Archive

Step == Take \/ LoopEnds \/ SaveCheckpoint \/ Finalize \/ Process

Next == Start \/ Pause \/ Resume \/ Stop \/ Reload \/ StorageFails \/ Step

Spec == Init /\ [][Next]_vars

\* Waits, requests and writes end: each has a timeout or fails.
FairSpec == Spec /\ WF_vars(Step)

-----------------------------------------------------------------------------
(* Properties *)

Queued(f, u) == \E k \in f.queue : k.url = u
Current(u) == task # Nobody /\ task.url = u

\* What a frontier must be like, busy being the URLs in processUrl.  A pending
\* URL is queued or being processed; a queued one is queued once and was not
\* visited; a visited one has an outcome; a captured one is in the archive.
Sound(f, busy, written) ==
    /\ \A k, l \in f.queue : k.url = l.url => k = l
    /\ \A u \in Urls :
          /\ f.outcome[u] = "pending" => Queued(f, u) \/ u \in busy
          /\ Queued(f, u) => u \notin f.visited /\ f.outcome[u] # "none"
          /\ u \in f.visited /\ u \notin busy =>
                f.outcome[u] \notin {"none", "pending"}
          /\ f.outcome[u] = "captured" => u \in written

\* No URL is lost or doubled between queue, visited and outcomes, whatever is
\* retried, refused or stopped (enqueueReference, requeueForRetry, processUrl).
NothingLost == Sound(front, {u \in Urls : Current(u)}, archived)

\* The same of each recovery checkpoint, with the archive's bytes it is of: no
\* resumed crawl believes a record written that the archive lost.
CheckpointIsSound == Sound(saved.front, {}, saved.archived)

\* Each checkpoint the crawler exports is one that importCheckpoint accepts.
CheckpointIsAccepted == Accepted(saved.front)

\* A receipt says complete only when everything the links lead to, from the
\* seeds on, is in the archive: a set that holds the seeds and, for each of
\* its URLs, what it links to, if no more than the archive holds.
CompleteIsWhole ==
    receipt = "complete" =>
        /\ {k.url : k \in Seeds} \subseteq archived
        /\ \A l \in Links : l[1] \in archived => l[2] \in archived

\* Under 'respect' nothing is archived that robots.txt disallows, or before
\* robots.txt has been read; and no URL is left out in the name of a
\* robots.txt that was not asked for.
RobotsAreRespected ==
    Respect => \A u \in Urls :
        /\ u \in archived =>
              u \notin Disallowed /\ front.robots[Origin[u]] = "rules"
        /\ front.outcome[u] = "robots" =>
              \/ front.robots[Origin[u]] = "closed"
              \/ front.robots[Origin[u]] = "rules" /\ u \in Disallowed

\* A crawl that is not paused for good ends, retries and all; stop ends it.
CrawlEnds == pc \in Running ~> pc \in {"stopped", "dead", "idle"} \/ paused

=============================================================================
