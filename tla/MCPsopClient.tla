---------------------------- MODULE MCPsopClient ----------------------------
(* An instance of PsopClient small enough for TLC.                         *)
EXTENDS PsopClient, TLC

CONSTANTS n1, n2

\* The second view has one package less, the third one brings it back, older
\* in the other than the second.
MCView == {n1 :> 1 @@ n2 :> 1, n1 :> 2 @@ n2 :> 0, n1 :> 2 @@ n2 :> 1}
=============================================================================
