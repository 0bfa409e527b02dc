--------------------------- MODULE MCHeadlessCrawl ---------------------------
(***************************************************************************)
(* Small instances of HeadlessCrawl.  The page a refers to the document d, *)
(* to the page b (which redirects to a), and to s, which refers to nothing *)
(* that is supported; b and s have the payload of d.  The sitemap index i  *)
(* lists itself, o, which is too large, and m, which lists a twice, and    *)
(* the page n of a host below the allowed one.                             *)
(***************************************************************************)
EXTENDS HeadlessCrawl

CONSTANT Site

Home == <<"w", "x">>
Below == <<"n", "w", "x">>
Url(host, path) == [host |-> host, path |-> <<path>>]
a == Url(Home, "a")
b == Url(Home, "b")
d == Url(Home, "d")
s == Url(Home, "s")
i == Url(Home, "i")
m == Url(Home, "m")
o == Url(Home, "o")
n == Url(Below, "n")
far == IF Site = "long" THEN Url(Home, "f") ELSE Url(<<"y">>, "f")

Ref(u, kind) == [url |-> u, kind |-> kind, strict |-> FALSE]
MCUrls == CASE Site = "whole" -> {i, o, n, a, b, d, s}
            [] Site = "pages" -> {a, b, d, s}
            [] Site = "sitemap" -> {i, m, o, n, a, far}
            [] Site = "long" -> {a, d, far}
MCSeeds == CASE Site = "whole" -> <<Ref(i, "sitemap"), Ref(a, "page")>>
             [] Site = "sitemap" -> <<Ref(i, "sitemap")>>
             [] OTHER -> <<Ref(a, "page")>>
MCAllowed == {Home}
MCAliases == [h \in {Home} |-> {}]
MCMalformed == {a}

Rule(id, match, decision) == [id |-> id, match |-> match, decision |-> decision]
MCConfigs ==
    {<<>>,
     <<Rule("leaf", [url_prefix |-> Home \o <<"s">>], [traverse |-> FALSE])>>,
     <<Rule("big", [min_bytes |-> 3], [download |-> FALSE])>>,
     <<Rule("pdf", [mime |-> "pdf", max_bytes |-> 2], [traverse |-> FALSE]),
       Rule("deep", [min_depth |-> 1, path_prefix |-> <<"d">>], [discover |-> FALSE])>>,
     <<Rule("inner", [min_depth |-> 1], [download |-> TRUE]),
       Rule("outer", [kind |-> "asset"], [download |-> FALSE])>>,
     <<Rule("pages", [kind |-> "page"], [download |-> TRUE]),
       Rule("rest", [host |-> Home], [traverse |-> FALSE])>>}

Loc(u, frag) == [host |-> u.host, path |-> u.path, frag |-> frag]
MCRefs(u) ==
    CASE u = a /\ Site = "long" -> <<Ref(d, "page"), Ref(far, "page"), Ref(d, "page")>>
      [] u = a /\ Site \in {"pages", "whole"} -> <<Ref(d, "asset"), Ref(b, "page"), Ref(s, "page")>>
      [] u = s -> <<Ref(Nothing, "asset")>>
      [] OTHER -> <<>>
MCLocations(u) ==
    CASE u = i /\ Site = "whole" -> <<Loc(i, ""), Loc(o, "")>>
      [] u = i -> <<Loc(i, ""), Loc(o, ""), Loc(m, "")>>
      [] u = m -> <<Loc(a, "1"), Loc(n, ""), Loc(a, "2"), Loc(far, "")>>
      [] OTHER -> <<>>
MCBody == [u \in MCUrls |->
    [mime |-> IF u = d THEN "pdf" ELSE "html",
     size |-> IF u = s THEN 3 ELSE 2,
     digest |-> IF u \in {b, s} THEN d ELSE u,
     refs |-> MCRefs(u),
     root |-> IF u = i THEN "sitemapindex" ELSE "urlset",
     locations |-> MCLocations(u)]]
MCLocation == [u \in {b} \cap MCUrls |-> a]
MCFewConfigs == {<<>>}
MCSomeConfigs ==
    {<<>>, <<Rule("big", [min_bytes |-> 3], [download |-> FALSE])>>,
     <<Rule("inner", [min_depth |-> 1], [download |-> TRUE]),
       Rule("outer", [kind |-> "asset"], [download |-> FALSE])>>}
MCUnasked == {s}
MCNone == {}
MCOversized == {o}
MCDisallowed == {a}
MCTooLong == {far}
MCIsUrl(u) == u \notin TooLong
=============================================================================
