---------------------------- MODULE MCClientUpdate ----------------------------
(* Instances of ClientUpdate small enough for TLC.                         *)
EXTENDS ClientUpdate, TLC

CONSTANTS p1, p2, n1, n2, d1, d2

\* Processes, nonces and views are interchangeable.
MCSymmetry == Permutations(Process) \cup Permutations(Nonce) \cup Permutations(Digest)
=============================================================================
