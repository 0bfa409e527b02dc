----------------------------- MODULE CrawlRules ------------------------------
(***************************************************************************)
(* Crawl rules as functions (cli/crawl_rules.py and, the same in           *)
(* JavaScript, web/lib/crawl_rules.js).                                    *)
(*                                                                         *)
(* A host is a sequence of labels, the most general one last, and a path a *)
(* sequence of letters.  A resource has the fields that are known of it; a *)
(* matcher and a decision have the fields that the rule states.            *)
(***************************************************************************)
EXTENDS Naturals, Sequences, FiniteSets, Functions

Actions == {"discover", "download", "traverse"}
Kinds == {"page", "asset", "sitemap"}

\* The field of a resource that a matcher looks at.
FieldOf == [url_prefix |-> "url", path_prefix |-> "url", host |-> "url",
            kind |-> "kind", mime |-> "mime",
            min_depth |-> "depth", max_depth |-> "depth",
            min_bytes |-> "bytes", max_bytes |-> "bytes"]

StartsWith(s, p) == Len(p) <= Len(s) /\ SubSeq(s, 1, Len(p)) = p

EndsWith(s, p) == Len(p) <= Len(s) /\ SubSeq(s, Len(s) - Len(p) + 1, Len(s)) = p

-----------------------------------------------------------------------------
(* Rules *)

Interval(match, least, most) ==
    {least, most} \subseteq DOMAIN match => match[least] <= match[most]

\* The rules are a sequence of [id, match, decision].
ValidRules(rules) ==
    /\ \A i, j \in DOMAIN rules : rules[i].id = rules[j].id => i = j
    /\ \A i \in DOMAIN rules :
          LET rule == rules[i]
          IN  /\ DOMAIN rule.match \subseteq DOMAIN FieldOf
              /\ "kind" \in DOMAIN rule.match => rule.match.kind \in Kinds
              /\ Interval(rule.match, "min_depth", "max_depth")
              /\ Interval(rule.match, "min_bytes", "max_bytes")
              /\ DOMAIN rule.decision \subseteq Actions
              /\ DOMAIN rule.decision # {}

Meets(key, expected, r) ==
    CASE key = "url_prefix"  -> StartsWith(r.url.host \o r.url.path, expected)
      [] key = "path_prefix" -> StartsWith(r.url.path, expected)
      [] key = "host"        -> r.url.host = expected
      [] key = "kind"        -> r.kind = expected
      [] key = "mime"        -> r.mime = expected
      [] key = "min_depth"   -> r.depth >= expected
      [] key = "max_depth"   -> r.depth <= expected
      [] key = "min_bytes"   -> r.bytes >= expected
      [] key = "max_bytes"   -> r.bytes <= expected

Missing(rule, r) == {FieldOf[key] : key \in DOMAIN rule.match} \ DOMAIN r

\* Mutant: a rule whose metadata are missing does not hold the decision.
MatchesOnlyKnown(rule, r) ==
    \A key \in DOMAIN rule.match :
        FieldOf[key] \in DOMAIN r /\ Meets(key, rule.match[key], r)

\* Nothing that is known rules it out.
Matches(rule, r) ==
    \A key \in DOMAIN rule.match :
        FieldOf[key] \in DOMAIN r => Meets(key, rule.match[key], r)

Says(rule, action) == action \in DOMAIN rule.decision => rule.decision[action]

Decided(id, discover, download, traverse) ==
    [discover |-> discover, download |-> discover /\ download,
     traverse |-> discover /\ download /\ traverse,
     rule |-> id, state |-> "decided", missing |-> {}]

DecisionOf(rule, r) ==
    IF Missing(rule, r) = {}
    THEN Decided(rule.id, Says(rule, "discover"), Says(rule, "download"),
                 Says(rule, "traverse"))
    ELSE [discover |-> TRUE, download |-> FALSE, traverse |-> FALSE,
          rule |-> rule.id, state |-> "needs_metadata",
          missing |-> Missing(rule, r)]

NoRule == "none"

OutOfScope == [discover |-> FALSE, download |-> FALSE, traverse |-> FALSE,
               rule |-> NoRule, state |-> "out_of_scope", missing |-> {}]

Matching(rules, r) == {i \in DOMAIN rules : Matches(rules[i], r)}

First(S) == CHOOSE i \in S : \A j \in S : i <= j

EvaluateRules(rules, r, inScope) ==
    IF ~inScope THEN OutOfScope
    ELSE IF Matching(rules, r) = {} THEN Decided(NoRule, TRUE, TRUE, TRUE)
    ELSE DecisionOf(rules[First(Matching(rules, r))], r)

-----------------------------------------------------------------------------
(* Scope *)

\* Aliases is a function from allowed hosts to sets of hosts.
ValidScope(allowed, aliases, maxHosts) ==
    /\ DOMAIN aliases \subseteq allowed
    /\ Cardinality(allowed \union UNION {aliases[h] : h \in DOMAIN aliases}) <= maxHosts

ScopeHosts(allowed, aliases) == allowed \union UNION {aliases[h] : h \in DOMAIN aliases}

HostInScope(host, hosts) == \E allowed \in hosts : EndsWith(host, allowed)

\* preview_rules
Preview(rules, resources, hosts) ==
    [i \in DOMAIN resources |->
        EvaluateRules(rules, resources[i], HostInScope(resources[i].url.host, hosts))]

-----------------------------------------------------------------------------
(* Sitemaps: documents [root, locations] *)

SitemapIdentity(location) == [host |-> location.host, path |-> location.path]

\* What was not seen, at its first mention, in order.
Unseen(identities, seen) ==
    LET found[i \in 0..Len(identities)] ==
            IF i = 0 THEN <<>>
            ELSE IF identities[i] \in seen \union Range(found[i - 1]) THEN found[i - 1]
            ELSE Append(found[i - 1], identities[i])
    IN  found[Len(identities)]

\* A document that is no sitemap is an error.
SitemapIsValid(doc, source, hosts) ==
    /\ doc.root \in {"urlset", "sitemapindex"}
    /\ source.host \in hosts

DiscoverSitemap(doc, source, hosts, visited) ==
    LET all == [i \in DOMAIN doc.locations |-> SitemapIdentity(doc.locations[i])]
        inside == {l \in Range(all) : l.host \in hosts}
        found == Unseen(all, visited \union {source} \union (Range(all) \ inside))
    IN  IF source \in visited
        THEN [pages |-> <<>>, sitemaps |-> <<>>, excluded |-> <<>>]
        ELSE [pages    |-> IF doc.root = "urlset" THEN found ELSE <<>>,
              sitemaps |-> IF doc.root = "sitemapindex" THEN found ELSE <<>>,
              excluded |-> Unseen(all, inside)]

=============================================================================
