---------------------------- MODULE CaptureReport ----------------------------
(***************************************************************************)
(* What build_report (cli/crawl_rules.py) makes of a coverage receipt, and *)
(* which receipts it refuses.                                              *)
(*                                                                         *)
(* receipt.resources is a function from URLs to [state, status, bytes,     *)
(* digest, declared, redirect]; where the code has None, status is 0 and   *)
(* the others are Nothing.  A URL that is too long is not IsUrl.           *)
(***************************************************************************)
EXTENDS Naturals, FiniteSets, FiniteSetsExt

CONSTANTS
    IsUrl(_),           \* _http_identity accepts it
    Nothing,
    MaxCandidates       \* MAX_CANDIDATES

ResourceStates == {"captured", "excluded", "failed", "pending", "unsupported"}

InState(receipt, states) ==
    {u \in DOMAIN receipt.resources : receipt.resources[u].state \in states}

CountsOf(resources) ==
    [s \in ResourceStates |->
        Cardinality({u \in DOMAIN resources : resources[u].state = s})]

-----------------------------------------------------------------------------
(* What is accepted *)

ResourcesAreValid(receipt) ==
    \A u \in DOMAIN receipt.resources :
        LET r == receipt.resources[u]
        IN  /\ IsUrl(u)
            /\ r.status <= 599
            /\ r.redirect # Nothing => IsUrl(r.redirect)
            /\ r.state = "captured" =>
                  /\ r.status >= 200 /\ r.status < 400
                  /\ r.bytes # Nothing
                  /\ r.digest # Nothing

CompletenessIsValid(receipt) ==
    receipt.complete =>
        /\ DOMAIN receipt.resources # {}
        /\ receipt.counts["captured"] = Cardinality(DOMAIN receipt.resources)
        /\ receipt.limitations = {}

EdgesAreValid(receipt) ==
    /\ Cardinality(receipt.edges) <= MaxCandidates
    /\ \A e \in receipt.edges : IsUrl(e[1]) /\ IsUrl(e[2])

Accepts(receipt) ==
    /\ Cardinality(DOMAIN receipt.resources) <= MaxCandidates
    /\ receipt.discovered = Cardinality(DOMAIN receipt.resources)
    /\ receipt.counts = CountsOf(receipt.resources)
    /\ ResourcesAreValid(receipt)
    /\ CompletenessIsValid(receipt)
    /\ EdgesAreValid(receipt)

\* buildReport of web/reports.html wants the ends of an edge among the
\* resources, too.
PageAccepts(receipt) ==
    /\ Accepts(receipt)
    /\ receipt.edges \subseteq (DOMAIN receipt.resources) \X (DOMAIN receipt.resources)

-----------------------------------------------------------------------------
(* The report *)

BytesOf(receipt, urls, field) ==
    MapThenSumSet(LAMBDA u : receipt.resources[u][field], urls)

Report(receipt) ==
    LET captured == InState(receipt, {"captured"})
        digests == {receipt.resources[u].digest : u \in captured}
        group(d) == {u \in captured : receipt.resources[u].digest = d}
        told == {u \in DOMAIN receipt.resources :
                    receipt.resources[u].declared # Nothing}
    IN  [counts     |-> receipt.counts,
         failures   |-> InState(receipt, {"failed"}),
         missing    |-> InState(receipt, {"failed", "pending", "unsupported"}),
         redirects  |-> {u \in captured : receipt.resources[u].status >= 300},
         duplicates |-> {group(d) : d \in {e \in digests : Cardinality(group(e)) > 1}},
         payload    |-> BytesOf(receipt, captured, "bytes"),
         declared   |-> BytesOf(receipt, told, "declared"),
         unknown    |-> Cardinality(DOMAIN receipt.resources \ told)]

=============================================================================
