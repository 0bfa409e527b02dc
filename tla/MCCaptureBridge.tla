--------------------------- MODULE MCCaptureBridge ---------------------------
(* Small instances of CaptureBridge. *)
EXTENDS CaptureBridge, TLC

CONSTANTS Storages, Crashes, Powers

MCFaults == [storage |-> Storages, crash |-> Crashes, power |-> Powers]
=============================================================================
