------------------------ MODULE MCCheckpointedLedger ------------------------
(* Instances of CheckpointedLedger small enough for TLC.                   *)
EXTENDS CheckpointedLedger, TLC

CONSTANTS w1, w2

\* Writers are interchangeable.
MCSymmetry == Permutations(Writer)
=============================================================================
