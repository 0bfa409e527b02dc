--------------------------- MODULE MCDebugJournal ----------------------------
(* Small instances of DebugJournal: the .cfg gives each constant its value. *)
EXTENDS DebugJournal
=============================================================================
