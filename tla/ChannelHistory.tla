--------------------------- MODULE ChannelHistory ---------------------------
(***************************************************************************)
(* What a mutable channel promises its readers: it serves a publication of *)
(* its own history, the history only grows and keeps what it holds, and    *)
(* the channel goes back to an old publication only on the record.         *)
(* RemoteChannels implements this module for stable.                       *)
(***************************************************************************)
CONSTANTS Publication, Run, None

VARIABLES current,    \* what the channel serves
          published,  \* the publication of each run
          returns     \* the record of going back

vars == <<current, published, returns>>

\* Nothing is published, or one publication.
Init == /\ current \in Publication \cup {None}
        /\ published = [r \in Run |-> IF current = None THEN None
                                     ELSE IF r = current.run THEN current ELSE None]
        /\ returns = {}

\* A run publishes once.
Publish(r) == /\ published[r] = None
              /\ current' \in Publication /\ current'.run = r
              /\ published' = [published EXCEPT ![r] = current']
              /\ UNCHANGED returns

\* Run r takes the channel back from one publication to another.
Return(r, from, to) ==
  /\ published[from] = current /\ published[to] # None /\ from # to
  /\ \A e \in returns : e.run # r
  /\ current' = published[to]
  /\ returns' = returns \cup {[run |-> r, from |-> from, to |-> to]}
  /\ UNCHANGED published

Next == \/ \E r \in Run : Publish(r)
        \/ \E r, from, to \in Run : Return(r, from, to)

Spec == Init /\ [][Next]_vars
=============================================================================
