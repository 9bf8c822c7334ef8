------------------------------ MODULE AuditLog ------------------------------
(***************************************************************************)
(* What the checkpointed ledger promises: one audit history that is only   *)
(* ever appended to, at most one event ahead of what the independent       *)
(* authority has acknowledged.  CheckpointedLedger implements this module  *)
(* in spite of crashes, lost and late calls, and restored databases.       *)
(***************************************************************************)
EXTENDS Sequences

CONSTANT Event

VARIABLES log,          \* every event committed so far
          acknowledged  \* the part the independent authority vouches for

vars == <<log, acknowledged>>

Init == log = <<>> /\ acknowledged = <<>>

Commit(e) == /\ acknowledged = log
             /\ log' = Append(log, e)
             /\ UNCHANGED acknowledged

Acknowledge == /\ acknowledged' = log
               /\ UNCHANGED log

Next == Acknowledge \/ \E e \in Event : Commit(e)

Spec == Init /\ [][Next]_vars
=============================================================================
