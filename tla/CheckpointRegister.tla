-------------------------- MODULE CheckpointRegister --------------------------
(***************************************************************************)
(* What the archive store promises of its checkpoints, without files, locks *)
(* or faults: a register on the medium and the value last acknowledged to a *)
(* client.  A step may only replace the stored checkpoint by one that is    *)
(* newer than the acknowledged one and covers all the bytes of the stored   *)
(* one, and only a stored checkpoint is acknowledged.                       *)
(***************************************************************************)
EXTENDS Naturals, SequencesExt

CONSTANTS Kinds, NoCheckpoint

VARIABLES
    stored,     \* the checkpoint a restart would find
    promised    \* the checkpoint last acknowledged

vars == <<stored, promised>>

Covers(new, old) == \A k \in Kinds : IsPrefix(old.prefix[k], new.prefix[k])

Init == stored = NoCheckpoint /\ promised = NoCheckpoint

Supersede ==
    /\ stored'.generation > promised.generation
    /\ Covers(stored', stored)
    /\ promised' \in {promised, stored'}

Spec == Init /\ [][Supersede]_vars
=============================================================================
