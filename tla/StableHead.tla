----------------------------- MODULE StableHead -----------------------------
(***************************************************************************)
(* What the publication ledger promises to everyone who reads the stable   *)
(* head: a history of advertisements that only grows, in which only the    *)
(* newest advertisement can still be confirmed by remote verification, and *)
(* which is extended only from a digest confirmed last or back to a digest *)
(* confirmed at some time.  PublicationBackend implements this module.     *)
(***************************************************************************)
EXTENDS Integers

CONSTANTS Digest,   \* immutable stable view identities
          None      \* no view

VARIABLES history,    \* the digest advertised at each generation
          confirmed   \* the generations whose bytes were verified remotely

vars == <<history, confirmed>>

Generations == DOMAIN history

\* The newest generation; 0 before the first advertisement.
Tip == IF Generations = {} THEN 0
       ELSE CHOOSE g \in Generations : \A h \in Generations : h <= g

\* The digest confirmed most recently.
LastConfirmed ==
  IF confirmed = {} THEN None
  ELSE history[CHOOSE g \in confirmed : \A h \in confirmed : h <= g]

Current == IF Tip = 0 THEN None ELSE history[Tip]

Init == /\ history = [g \in {} |-> None]
        /\ confirmed = {}

\* A promotion needs a current view that is the one confirmed last.
Promote(d) == /\ Current = LastConfirmed
              /\ history' = [g \in 1 .. Tip + 1 |-> IF g = Tip + 1 THEN d ELSE history[g]]
              /\ UNCHANGED confirmed

\* A recovery returns to a view confirmed earlier, whatever the tip is.
Recover(d) == /\ \E g \in confirmed : history[g] = d
              /\ history' = [g \in 1 .. Tip + 1 |-> IF g = Tip + 1 THEN d ELSE history[g]]
              /\ UNCHANGED confirmed

\* Only the newest advertisement can be confirmed.
Confirm == /\ Tip > 0
           /\ confirmed' = confirmed \cup {Tip}
           /\ UNCHANGED history

Next == \/ \E d \in Digest : Promote(d) \/ Recover(d)
        \/ Confirm

Spec == Init /\ [][Next]_vars
=============================================================================
