---------------------------- MODULE MCCoreCrawler ----------------------------
(***************************************************************************)
(* A small instance of CoreCrawler.  The seed a links to itself, to c and  *)
(* to e; c links to d, which is too deep there; but the seed b redirects   *)
(* to d.  d is declined by the rules, e of another origin and disallowed.  *)
(***************************************************************************)
EXTENDS CoreCrawler

CONSTANTS a, b, c, d, e, x, y

MCOrigin == [u \in Urls |-> IF u = e THEN y ELSE x]
MCSeeds == {[url |-> a, tier |-> 1, depth |-> 0, retries |-> 0],
            [url |-> b, tier |-> 2, depth |-> 0, retries |-> 0]}
MCLinks == {<<a, a>>, <<a, c>>, <<a, e>>, <<c, a>>, <<c, d>>, <<b, d>>}
=============================================================================
