---------------------------- MODULE MCPsopGateway ----------------------------
(* Instances of PsopGateway small enough for TLC.                          *)
EXTENDS PsopGateway

CONSTANTS a1, a2, a3, w1, w2, p1

\* A new realm, and one that adopted a base.
MCImported == {<<>>, <<p1>>}

\* Attempts and processes are interchangeable.
MCSymmetry == Permutations(Attempt) \cup Permutations(Worker)
=============================================================================
