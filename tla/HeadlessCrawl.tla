---------------------------- MODULE HeadlessCrawl ----------------------------
(***************************************************************************)
(* The crawl of the command line (main of cli/aegis_cli.py): one thread    *)
(* that takes URLs from a queue, asks the rules and robots.txt, sends a    *)
(* request, archives the answer and queues what it refers to, and writes a *)
(* coverage receipt at the end.                                            *)
(*                                                                         *)
(* A step ends where the next one depends on what the network answers.     *)
(* The pacing before a request only waits (module Politeness).             *)
(***************************************************************************)
EXTENDS CrawlRules, CaptureReport, SequencesExt

CONSTANTS
    Urls,           \* [host, path]
    Seeds,          \* references, in the order of the profile
    Allowed,        \* allowed_domains
    Aliases,        \* domain_aliases
    Configs,        \* crawl rules that a profile may have
    Body,           \* of each URL: [mime, size, digest], and
                    \*   refs, the references that discover finds in a page,
                    \*   root and locations of a sitemap
    Location,       \* of each URL that redirects: a URL, or Nothing
    Malformed,      \* pages in an unsupported charset
    Oversized,      \* sitemaps over 262144 bytes
    Lengths,        \* what Content-Length may say of a body
    Disallowed,     \* by the rules of their robots.txt
    ErrorStatuses,
    Filtered,       \* by path_blacklist_regex or path_whitelist_regex
    TooLong,        \* URLs over 8192 characters
    Respect,        \* robots_policy is 'respect'
    MaxDepth,
    MaxPages

MaxRetries == 3
Task == [url : Urls, depth : Nat, retries : 0..MaxRetries]
Reference == [url : Urls \union {Nothing}, kind : Kinds, strict : BOOLEAN]

IsSequence(s) == s \in Seq(Range(s))

\* A seed that is too long ends the program before the crawl begins.
ASSUME HeadlessAssumption ==
    /\ \A u \in Urls : LET body == Body[u] IN
          /\ body.size \in Nat
          /\ body.refs \in Seq(Reference)
          /\ IsSequence(body.locations)
          /\ \A i \in DOMAIN body.locations : SitemapIdentity(body.locations[i]) \in Urls
    /\ \A u \in DOMAIN Location : Location[u] \in Urls \union {Nothing}
    /\ DOMAIN Location \subseteq Urls
    /\ Seeds \in Seq(Reference)
    /\ \A i \in DOMAIN Seeds : Seeds[i].url \notin TooLong
    /\ Nothing \notin Urls \union Task
    /\ \A config \in Configs : IsSequence(config) /\ ValidRules(config)
    /\ ValidScope(Allowed, Aliases, 32)
    /\ {MaxDepth, MaxPages} \subseteq Nat
    /\ {Malformed, Oversized, Disallowed, Filtered, TooLong} \subseteq SUBSET Urls
    /\ Respect \in BOOLEAN

VARIABLES
    rules,
    crawl,      \* [queue, outcomes, limits, edges, sitemaps, raised]
    visited,
    task,       \* what is at hand: [url, depth, retries], or Nothing
    robots,     \* of each host: what can_fetch answers
    archive,    \* the WARC's responses
    sent,       \* history: the URLs requested
    receipt,    \* Nothing until the end
    running     \* the program has not died

vars == <<rules, crawl, visited, task, robots, archive, sent, receipt, running>>

-----------------------------------------------------------------------------
Hosts == ScopeHosts(Allowed, Aliases)
HostNames == {u.host : u \in Urls}

TypeOK ==
    /\ rules \in Configs
    /\ crawl.queue \in Seq(Task)
    /\ DOMAIN crawl.outcomes \subseteq Urls
    /\ \A u \in DOMAIN crawl.outcomes :
          /\ crawl.outcomes[u].state \in ResourceStates
          /\ crawl.outcomes[u].kind \in Kinds
    /\ crawl.edges \subseteq Urls \X Urls
    /\ visited \subseteq Urls
    /\ task = Nothing \/ task \in Task
    /\ robots \in [HostNames -> {"unread", "rules", "all", "none"}]
    /\ \A i \in DOMAIN archive : archive[i].url \in Urls
    /\ sent \subseteq Urls
    /\ running \in BOOLEAN

Put(outcomes, u, value) ==
    [v \in DOMAIN outcomes \union {u} |-> IF v = u THEN value ELSE outcomes[v]]

\* A record with these fields set.
With(r, fields) ==
    [f \in DOMAIN r \union DOMAIN fields |-> IF f \in DOMAIN fields THEN fields[f] ELSE r[f]]

Update(c, u, fields) == [c EXCEPT !.outcomes[u] = With(@, fields)]

Limit(c, source, reason) == [c EXCEPT !.limits = @ \union {<<source, reason>>}]

RuleDenies(decision) ==
    ~decision.discover \/ (decision.state = "decided" /\ ~decision.download)

\* A sitemap, and what it lists, must be at an allowed host itself.
InScope(ref) ==
    /\ HostInScope(ref.url.host, Hosts)
    /\ (ref.kind = "sitemap" \/ ref.strict) => ref.url.host \in Hosts

Known(ref, depth) == [url |-> ref.url, kind |-> ref.kind, depth |-> depth]

\* Why a reference is excluded.
Reason(ref, depth) ==
    CASE ~InScope(ref)        -> "scope"
      [] depth > MaxDepth     -> "depth_limit"
      [] ref.url \in Filtered -> "path"
      [] RuleDenies(EvaluateRules(rules, Known(ref, depth), TRUE)) -> "rule"
      [] OTHER                -> "none"

Outcome(ref, reason) ==
    [state |-> IF reason = "none" THEN "pending" ELSE "excluded",
     reason |-> reason, kind |-> ref.kind, status |-> 0, bytes |-> Nothing,
     digest |-> Nothing, declared |-> Nothing, redirect |-> Nothing]

\* The rules raise an error for a URL that is too long; what follows in the
\* same document is not looked at any more.
Raises(ref, depth) ==
    /\ ref.url \in TooLong
    /\ InScope(ref) /\ depth <= MaxDepth /\ ref.url \notin Filtered

\* Mutant: a URL that waits no more is new again.
IsNewUnlessQueued(c, u) == \A j \in DOMAIN c.queue : c.queue[j].url # u

IsNew(c, u) == u \notin DOMAIN c.outcomes

Enqueue(c, base, ref, depth) ==
    LET linked == IF base = Nothing THEN c
                  ELSE [c EXCEPT !.edges = @ \union {<<base, ref.url>>}]
        reason == Reason(ref, depth)
        found == [linked EXCEPT !.outcomes = Put(@, ref.url, Outcome(ref, reason))]
    IN  IF c.raised THEN c
        ELSE IF ref.url = Nothing THEN Limit(c, base, "unsupported reference")
        ELSE IF ~IsNew(c, ref.url) THEN linked
        ELSE IF Raises(ref, depth) THEN [linked EXCEPT !.raised = TRUE]
        ELSE IF reason # "none" THEN found
        ELSE [found EXCEPT !.queue =
                 Append(@, [url |-> ref.url, depth |-> depth, retries |-> 0])]

EnqueueAll(c, base, refs, depth) ==
    LET after[i \in 0..Len(refs)] ==
            IF i = 0 THEN c ELSE Enqueue(after[i - 1], base, refs[i], depth)
    IN  after[Len(refs)]

Init ==
    /\ rules \in Configs
    /\ crawl = EnqueueAll([queue |-> <<>>, outcomes |-> <<>>, limits |-> {},
                           edges |-> {}, sitemaps |-> {}, raised |-> FALSE],
                          Nothing, Seeds, 0)
    /\ visited = {}
    /\ task = Nothing
    /\ robots = [h \in HostNames |-> "unread"]
    /\ archive = <<>>
    /\ sent = {}
    /\ receipt = Nothing
    /\ running = TRUE

-----------------------------------------------------------------------------
(* The queue, the rules and robots.txt *)

More == crawl.queue # <<>> /\ Cardinality(visited) < MaxPages

Dequeue ==
    LET k == Head(crawl.queue)
        known == Known([url |-> k.url, kind |-> crawl.outcomes[k.url].kind], k.depth)
        rest == [crawl EXCEPT !.queue = Tail(@)]
        decision == EvaluateRules(rules, known, TRUE)
    IN  /\ task = Nothing /\ receipt = Nothing
        /\ More
        /\ visited' = visited \union {k.url}
        /\ IF k.url \in visited
           THEN crawl' = rest /\ UNCHANGED task
           ELSE IF decision.state = "decided" /\ ~decision.download
           THEN /\ crawl' = Update(rest, k.url, [state |-> "excluded", reason |-> "rule"])
                /\ UNCHANGED task
           ELSE crawl' = rest /\ task' = k
        /\ UNCHANGED <<rules, robots, archive, sent, receipt, running>>

\* The rules of a robots.txt that was read; everything is disallowed when it
\* could not be; nothing when there is none.
RobotsAnswers == {"rules", "all", "none"}

Unread == Respect /\ robots[task.url.host] = "unread"

ReadRobots ==
    /\ task # Nothing /\ running
    /\ Unread
    /\ \E answer \in RobotsAnswers : robots' = [robots EXCEPT ![task.url.host] = answer]
    /\ UNCHANGED <<rules, crawl, visited, task, archive, sent, receipt, running>>

\* Mutant: a robots.txt that could not be read allows everything.
CanFetchUnlessListed(u) == robots[u.host] = "rules" => u \notin Disallowed

CanFetch(u) ==
    \/ ~Respect
    \/ robots[u.host] = "none"
    \/ robots[u.host] = "rules" /\ u \notin Disallowed

RefusedByRobots ==
    /\ task # Nothing /\ running
    /\ ~Unread
    /\ ~CanFetch(task.url)
    /\ crawl' = Update(crawl, task.url, [state |-> "excluded", reason |-> "robots_policy"])
    /\ task' = Nothing
    /\ UNCHANGED <<rules, visited, robots, archive, sent, receipt, running>>

-----------------------------------------------------------------------------
(* The request *)

MaySend ==
    /\ task # Nothing /\ running
    /\ ~Unread
    /\ CanFetch(task.url)

Sends ==
    /\ MaySend
    /\ sent' = sent \union {task.url}
    /\ task' = Nothing
    /\ UNCHANGED <<rules, robots, receipt, running>>

\* InvalidURL, BadStatusLine and LineTooLong of http.client are caught neither
\* here nor for robots.txt: the program dies and leaves no receipt.
Dies ==
    /\ \/ task # Nothing /\ running /\ Unread /\ UNCHANGED sent
       \/ MaySend /\ sent' = sent \union {task.url}
    /\ running' = FALSE
    /\ UNCHANGED <<rules, crawl, visited, task, robots, archive, receipt>>

\* Mutants: one retry more; retries are not counted.
RequeueOnceMore(c) ==
    IF task.retries > MaxRetries THEN c
    ELSE [Update(c, task.url, [state |-> "pending", reason |-> "retry"])
          EXCEPT !.queue = Append(@, [task EXCEPT !.retries = @ + 1])]
RequeueForever(c) ==
    [Update(c, task.url, [state |-> "pending", reason |-> "retry"])
     EXCEPT !.queue = Append(@, task)]

\* A failed URL is queued again and may be visited again.
Requeue(c) ==
    IF task.retries >= MaxRetries THEN c
    ELSE [Update(c, task.url, [state |-> "pending", reason |-> "retry"])
          EXCEPT !.queue = Append(@, [task EXCEPT !.retries = @ + 1])]

\* Mutant: it was visited.
UnvisitNever == visited

Unvisit == IF task.retries >= MaxRetries THEN visited ELSE visited \ {task.url}

TransferFailed(c) ==
    Requeue(Update([c EXCEPT !.raised = FALSE], task.url,
                   [state |-> "failed", reason |-> "network_or_decode_error"]))

\* OSError, ValueError, EOFError, zlib.error or IncompleteRead.
TransferFails ==
    /\ Sends
    /\ crawl' = TransferFailed(crawl)
    /\ visited' = Unvisit
    /\ UNCHANGED archive

\* record_failure counts 429 and 5xx.
Countable(status) == status = 429 \/ (status >= 500 /\ status <= 599)

HttpFails ==
    /\ Sends
    /\ \E status \in ErrorStatuses :
          LET failed == Update(crawl, task.url, [state |-> "failed",
                               reason |-> "http_error", status |-> status])
          IN  /\ crawl' = IF Countable(status) THEN Requeue(failed) ELSE failed
              /\ visited' = IF Countable(status) THEN Unvisit ELSE visited
    /\ UNCHANGED archive

\* What the headers say of the body: its type, if it is not ambiguous, and a
\* length, if it is not encoded.
HeaderSets(u) ==
    {[mime |-> Body[u].mime]} \union {<<>>}
        \union {[bytes |-> n] : n \in Lengths}
        \union {[mime |-> Body[u].mime, bytes |-> n] : n \in Lengths}

KindOf(u) == crawl.outcomes[u].kind

DecisionAt(metadata) ==
    EvaluateRules(rules, With(Known([url |-> task.url, kind |-> KindOf(task.url)],
                                    task.depth), metadata), TRUE)

\* Mutant: what the headers said is not checked against the body.
PermittedEarly(headers) == DecisionAt(headers)

\* permit_body is asked again with the size of the body.
Permitted(headers) == DecisionAt(With(headers, [bytes |-> Body[task.url].size]))

Declared(c, headers) ==
    Update(c, task.url, [declared |-> IF "bytes" \in DOMAIN headers
                                      THEN headers.bytes ELSE Nothing])

IsOversized == KindOf(task.url) = "sitemap" /\ task.url \in Oversized

\* The rules refuse the body before or after it is read.
Refused ==
    /\ Sends
    /\ \E headers \in HeaderSets(task.url) :
          /\ \/ ~DecisionAt(headers).download
             \/ ~IsOversized /\ ~Permitted(headers).download
          /\ crawl' = Update(Declared(crawl, headers), task.url,
                             [state |-> "excluded", reason |-> "rule"])
    /\ UNCHANGED <<visited, archive>>

TooLarge ==
    /\ Sends
    /\ IsOversized
    /\ \E headers \in HeaderSets(task.url) :
          /\ DecisionAt(headers).download
          /\ crawl' = Limit(Update(Declared(crawl, headers), task.url,
                                   [state |-> "unsupported", reason |-> "sitemap_byte_limit"]),
                            task.url, "sitemap_byte_limit")
    /\ UNCHANGED <<visited, archive>>

FirstOf(digest) ==
    {i \in DOMAIN archive : archive[i].digest = digest /\ archive[i].refers = 0}

\* write_response: a payload that is there already (and over 512 bytes) is a
\* revisit record that refers to the last response with it.
WriteResponse ==
    LET body == Body[task.url]
        last == FirstOf(body.digest)
    IN  archive' = Append(archive,
            [url |-> task.url, digest |-> body.digest, depth |-> task.depth,
             kind |-> KindOf(task.url),
             refers |-> IF last = {} THEN 0
                        ELSE CHOOSE i \in last : \A j \in last : j <= i])

Captured(c, headers, status, location) ==
    Update(Declared(c, headers), task.url,
           [state |-> "captured", reason |-> "none", status |-> status,
            bytes |-> Body[task.url].size, digest |-> Body[task.url].digest,
            redirect |-> location])

\* An error while the references are queued counts as a failed transfer.
Settle(c) == IF c.raised THEN TransferFailed(c) ELSE c

Plain(locations, kind) ==
    [i \in DOMAIN locations |-> [url |-> locations[i], kind |-> kind, strict |-> TRUE]]

\* What a document adds to the queue.
Traversed(c) ==
    LET u == task.url
        body == Body[u]
        found == DiscoverSitemap(body, u, Hosts, c.sitemaps)
        marked == [c EXCEPT !.sitemaps = @ \union {u}]
        listed == Plain(found.sitemaps, "sitemap")
                      \o Plain(found.pages \o found.excluded, "page")
        usable == IF KindOf(u) = "sitemap" THEN SitemapIsValid(body, u, Hosts)
                  ELSE u \notin Malformed
    IN  IF ~usable THEN Limit(c, u, "unsupported")
        ELSE IF KindOf(u) = "sitemap" THEN EnqueueAll(marked, u, listed, task.depth + 1)
        ELSE EnqueueAll(c, u, body.refs, task.depth + 1)

Answered(headers) ==
    /\ ~IsOversized
    /\ DecisionAt(headers).download
    /\ Permitted(headers).download
    /\ WriteResponse

Capture ==
    /\ Sends
    /\ task.url \notin DOMAIN Location
    /\ \E headers \in HeaderSets(task.url) :
          LET saved == Captured(crawl, headers, 200, Nothing)
              after == IF Permitted(headers).traverse THEN Traversed(saved) ELSE saved
          IN  /\ Answered(headers)
              /\ crawl' = Settle(after)
              /\ visited' = IF after.raised THEN Unvisit ELSE visited

\* A redirect is archived, and its target queued at the same depth.
Redirect ==
    /\ Sends
    /\ task.url \in DOMAIN Location
    /\ \E headers \in HeaderSets(task.url) :
          LET to == Location[task.url]
              saved == Captured(crawl, headers, 302, to)
              ref == [url |-> to, kind |-> KindOf(task.url), strict |-> FALSE]
              after == IF to = Nothing THEN Limit(saved, task.url, "no location")
                       ELSE IF Permitted(headers).traverse
                       THEN Enqueue(saved, task.url, ref, task.depth)
                       ELSE saved
          IN  /\ Answered(headers)
              /\ crawl' = Settle(after)
              /\ visited' = IF after.raised THEN Unvisit ELSE visited

-----------------------------------------------------------------------------
(* The end *)

IsComplete(c) ==
    /\ DOMAIN c.outcomes # {}
    /\ \A u \in DOMAIN c.outcomes : c.outcomes[u].state = "captured"
    /\ c.limits = {}

ReceiptOf(c) ==
    [complete |-> IsComplete(c),
     counts |-> CountsOf(c.outcomes), discovered |-> Cardinality(DOMAIN c.outcomes),
     resources |-> c.outcomes, edges |-> c.edges, limitations |-> c.limits]

Finish ==
    /\ task = Nothing /\ receipt = Nothing
    /\ ~More
    /\ receipt' = ReceiptOf(crawl)
    /\ UNCHANGED <<rules, crawl, visited, task, robots, archive, sent, running>>

Next ==
    \/ Dequeue \/ ReadRobots \/ RefusedByRobots
    \/ TransferFails \/ HttpFails \/ Refused \/ TooLarge \/ Capture \/ Redirect
    \/ Dies \/ Finish

Spec == Init /\ [][Next]_vars

\* The program takes the steps that depend on nobody else.  Nothing says that a
\* request ends: its timeout of 15 s is one of each socket operation, and the
\* body is read without a deadline.
FairSpec == Spec /\ WF_vars(Dequeue \/ RefusedByRobots \/ Finish)

-----------------------------------------------------------------------------
(* Properties *)

\* Of a response: the rules permit the download of just this body.
IsGranted(r) ==
    LET full == [url |-> r.url, kind |-> r.kind, depth |-> r.depth,
                 mime |-> Body[r.url].mime, bytes |-> Body[r.url].size]
    IN  EvaluateRules(rules, full, TRUE).download

\* Of a response: its preview said that it is permitted, or depends on metadata.
IsAllowedByPreview(r) ==
    LET decision == Preview(rules, <<[url |-> r.url, kind |-> r.kind]>>, Hosts)[1]
    IN  decision.state = "needs_metadata" \/ decision.download

Queued == {crawl.queue[i].url : i \in DOMAIN crawl.queue}
AtHand == IF task = Nothing THEN {} ELSE {task.url}

\* A URL waits exactly as long as its outcome is pending, and once: retries,
\* redirects and refusals neither lose one nor leave one behind.
FrontierIsWhole ==
    /\ Queued \union AtHand = InState([resources |-> crawl.outcomes], {"pending"})
    /\ Cardinality(Queued \union AtHand) = Len(crawl.queue) + Cardinality(AtHand)

\* "a capture coverage receipt enumerating expected, captured, excluded,
\* failed and unsupported resources" (conductor/archive/
\* mirror_capture_20260906/spec.md:15): what is in the archive is captured in
\* the receipt and the other way round, and is there once.
ArchiveIsEnumerated ==
    receipt # Nothing =>
        /\ {archive[i].url : i \in DOMAIN archive} = InState(receipt, {"captured"})
        /\ \A i, j \in DOMAIN archive : archive[i].url = archive[j].url => i = j

\* A body is archived only if the rules grant it with its actual type and
\* size, whatever the headers said of them, and its preview, with nothing known
\* but its URL and kind, did not deny it.
RulesAreRespected ==
    \A i \in DOMAIN archive : IsGranted(archive[i]) /\ IsAllowedByPreview(archive[i])

\* A URL that the rules exclude before a request is one that they exclude
\* with all metadata: what was decided early was decided for good.
RefusalsAreFinal ==
    \A u \in DOMAIN crawl.outcomes :
        (crawl.outcomes[u].reason = "rule" /\ u \notin sent) =>
            \E d \in 0..(MaxDepth + 1) :
                LET full == [url |-> u, kind |-> KindOf(u), depth |-> d,
                             mime |-> Body[u].mime, bytes |-> Body[u].size]
                IN  ~EvaluateRules(rules, full, TRUE).download

\* No request is sent for what robots.txt, as read, disallows, or when it
\* could not be read, or out of scope.
RobotsAreRespected ==
    \A u \in sent :
        /\ HostInScope(u.host, Hosts)
        /\ Respect => /\ robots[u.host] \in {"rules", "none"}
                      /\ robots[u.host] = "rules" => u \notin Disallowed

\* What a sitemap lists at a host that is not allowed itself is not fetched,
\* not even below an allowed host, unless a page refers to it, too.
OnlyListed(u) ==
    /\ \A v \in Urls : <<v, u>> \in crawl.edges => KindOf(v) = "sitemap"
    /\ \E v \in Urls : <<v, u>> \in crawl.edges
SitemapsStayHome ==
    \A u \in DOMAIN crawl.outcomes :
        OnlyListed(u) /\ u \in sent /\ (\A i \in DOMAIN Seeds : Seeds[i].url # u)
            => u.host \in Hosts

\* Each revisit record refers to an earlier response with the same payload.
RevisitsResolve ==
    \A i \in DOMAIN archive : archive[i].refers # 0 =>
        LET first == archive[archive[i].refers]
        IN  archive[i].refers < i /\ first.digest = archive[i].digest /\ first.refers = 0

\* "Report totals reconcile with capture receipts" (conductor/tracks/
\* crawl_controls_reports_20260906/spec.md:20): a report can be built from
\* every receipt, and its sections reconcile.
ReceiptIsAccepted ==
    receipt # Nothing =>
        LET report == Report(receipt)
        IN  /\ PageAccepts(receipt)
            /\ report.failures \subseteq report.missing
            /\ receipt.complete => report.missing = {}
            /\ UNION report.duplicates \subseteq InState(receipt, {"captured"})
            /\ \A s, t \in report.duplicates : s = t \/ s \cap t = {}

\* Complete: all that was queued is archived, and so is each reference of a
\* page that the rules let be traversed.
CompleteIsWhole ==
    (receipt # Nothing /\ receipt.complete) =>
        \A i \in DOMAIN archive :
            LET u == archive[i].url
                traversed == EvaluateRules(rules, [url |-> u, kind |-> archive[i].kind,
                    depth |-> archive[i].depth, mime |-> Body[u].mime,
                    bytes |-> Body[u].size], TRUE).traverse
                refs == IF u \in DOMAIN Location THEN {Location[u]}
                        ELSE IF archive[i].kind = "sitemap" THEN {}
                        ELSE {Body[u].refs[j].url : j \in DOMAIN Body[u].refs}
            IN  traversed => refs \subseteq {archive[j].url : j \in DOMAIN archive}

\* The crawl ends, retries, redirect cycles and sitemap cycles included: with
\* its receipt, or because the program dies, or else it waits for the answer to
\* one request for ever.
CrawlEnds ==
    \/ <>(receipt # Nothing \/ ~running)
    \/ <>[](task # Nothing)

=============================================================================
