---------------------------- MODULE MCDurableJob -----------------------------
(* Small instances of DurableJob. *)
EXTENDS DurableJob, TLC

WorkerSymmetry == Permutations(Workers)

\* Nothing is claimed of what follows an exposure, which is never undone.
UntilExposed == ~exposed
=============================================================================
