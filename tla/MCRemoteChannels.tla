-------------------------- MODULE MCRemoteChannels --------------------------
(* Instances of RemoteChannels small enough for TLC.                       *)
EXTENDS RemoteChannels, TLC

CONSTANTS c1, c2, q1

\* Beta serves the first snapshot; a newer one of component c1 is stored, and a
\* release of c2 is on offer.
MCInitial == <<(c1 :> 1 @@ c2 :> 1), (c1 :> 2 @@ c2 :> 1)>>
MCRelease == {[component |-> c2, version |-> 2]}
=============================================================================
