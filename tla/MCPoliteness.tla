---------------------------- MODULE MCPoliteness -----------------------------
(* Small instances of Politeness. *)
EXTENDS Politeness, TLC

CallerSymmetry == Permutations(Callers)
=============================================================================
