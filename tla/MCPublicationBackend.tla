------------------------ MODULE MCPublicationBackend ------------------------
(* Instances of PublicationBackend small enough for TLC.                   *)
EXTENDS PublicationBackend, TLC

CONSTANTS a1, a2, a3, d1, d2, t1, t2, t3

\* d1 is the first stable view and every other view is composed on top of it.
MCParent == [d \in Digest |-> IF d = d1 THEN None ELSE d1]

\* Attempts and approval tokens are interchangeable.
MCSymmetry == Permutations(Attempt) \cup Permutations(Token)
=============================================================================
