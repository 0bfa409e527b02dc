------------------------ MODULE MCDocumentCatalogue ------------------------
(* Instances of DocumentCatalogue for TLC. *)
EXTENDS DocumentCatalogue, TLC

ContentSymmetry == Permutations(Contents)
AcquiredSymmetry == Permutations(Contents) \cup Permutations(Urls)
=============================================================================
