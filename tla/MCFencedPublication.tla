------------------------- MODULE MCFencedPublication -------------------------
(* Instances of FencedPublication small enough for TLC.                    *)
EXTENDS FencedPublication

CONSTANTS a1, a2, w1, w2, d1, d2

\* Attempts, workers and digests are interchangeable.
MCSymmetry == Permutations(Attempt) \cup Permutations(Worker) \cup Permutations(Digest)
=============================================================================
