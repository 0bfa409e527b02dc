--------------------------- MODULE MCNativeBundle ----------------------------
EXTENDS NativeBundle, TLC

CONSTANTS f1, m1, m2, w1, d1, python, none

MCBlocks == m1 :> 2 @@ m2 :> 1 @@ w1 :> 1 @@ d1 :> 1
MCNeeds == python :> {d1}
MCSelections == {{m1}, {m1, m2}}

Nowhere == [n \in Names |-> none]
MCFound ==
    {[e \in Entries |-> IF e = m1 THEN [Nowhere EXCEPT !["dest"] = found[1], !["part"] = found[2]]
                       ELSE Nowhere] :
        found \in {<<none, none>>, <<<<FALSE, TRUE>>, <<FALSE>>>>, <<none, <<TRUE, TRUE, TRUE>>>>}}

Budget(runs, faults, crashes, audits, builds, smokes, wear) ==
    [runs |-> runs, faults |-> faults, crashes |-> crashes, audits |-> audits,
     builds |-> builds, smokes |-> smokes, wear |-> wear]

MCBudgets ==
    {Budget(2, 1, 1, 0, 0, 0, 0), Budget(1, 2, 0, 0, 0, 0, 0), Budget(1, 1, 0, 1, 0, 0, 0),
     Budget(0, 1, 1, 0, 2, 0, 0), Budget(1, 0, 1, 0, 1, 1, 0), Budget(1, 1, 0, 0, 1, 3, 1)}
=============================================================================
