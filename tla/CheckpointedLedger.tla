------------------------- MODULE CheckpointedLedger -------------------------
(***************************************************************************)
(* The audit ledger under an independent checkpoint authority              *)
(* (src/tools/v3_independent_authority.py on src/tools/v3_backend_ledger.  *)
(* py).                                                                    *)
(*                                                                         *)
(* Writers share one database, serialized by its write lock, and one       *)
(* authority that survives whatever happens to the database.  A writer     *)
(* reserves its next audit event at the authority before it commits, and   *)
(* acknowledges it after.  Every call to the authority is an action of its *)
(* own: it may be refused, its answer may be lost, it may arrive after the *)
(* writer has given up, and a writer may stop between any two actions.     *)
(*                                                                         *)
(* A checkpoint is a signed event hash that commits to all events before   *)
(* it, so it is represented by that history itself.                        *)
(***************************************************************************)
EXTENDS Integers, Sequences, FiniteSets

CONSTANTS
  Writer,       \* processes that use the ledger
  None,         \* no value
  MaxEvents,    \* bound on the executions started
  MaxReads,     \* bound on the inspections started
  MaxFaults,    \* bound on crashes, lost answers and late calls
  MaxRestores   \* bound on database restores

ASSUME NoneAssumption == None \notin Writer
ASSUME BoundAssumption == {MaxEvents, MaxReads, MaxFaults, MaxRestores} \subseteq Nat

VARIABLES
  events,       \* the events table of the database now
  histories,    \* every events table ever committed: what a backup may hold
  lock,         \* the writer inside a database transaction
  checkpoint,   \* the authority's checkpoint record
  reservation,  \* the authority's reservation record
  late,         \* requests whose sender has given up, still under way
  pc, job,      \* where each writer is, in which call
  settled,      \* whether its event was committed and is being reconciled
  tip,          \* the checkpoint each writer read last
  seen,         \* the reservation each writer read last
  draft,        \* the history each writer is about to commit
  acked,        \* histories returned to a caller as executed
  floor,        \* what had been acknowledged to callers when a read began
  drafted, reads, faults, restores    \* counters for the bounds

database  == <<events, histories>>
authority == <<checkpoint, reservation>>
locals    == <<job, settled, tip, seen, draft>>
ghosts    == <<acked, floor>>
counters  == <<drafted, reads, faults, restores>>
vars == <<database, lock, authority, late, pc, locals, ghosts, counters>>

IsPrefix(s, t) == Len(s) <= Len(t) /\ s = SubSeq(t, 1, Len(s))

Longest(S) == IF S = {} THEN <<>> ELSE CHOOSE h \in S : \A g \in S : Len(g) <= Len(h)

History == Seq(1 .. MaxEvents)

Reservation == [base : History, target : History,
                status : {"PREPARED", "COMMITTED", "ABORTED"}]

ASSUME ReservationAssumption == None \notin Reservation

Request == [name : {"checkpoint"}, previous : History, value : History]
             \cup [name : {"reservation"}, previous : Reservation \cup {None}, value : Reservation]

Steps == {"idle", "reconcile", "sample", "compare", "acknowledge", "finalize",
          "reconciled", "external", "transact", "prepare", "examine", "reserve", "commit"}

\* The steps that run inside a database transaction.
Transactional == {"sample", "compare", "acknowledge", "finalize", "reconciled",
                  "prepare", "examine", "reserve", "commit"}

\* Types, and the database lock is held exactly through the transactions.
TypeOK ==
  /\ events \in History
  /\ \A h \in histories : h \in History
  /\ lock \in Writer \cup {None}
  /\ checkpoint \in History
  /\ reservation = None \/ reservation \in Reservation
  /\ \A request \in late : request \in Request
  /\ pc \in [Writer -> Steps]
  /\ job \in [Writer -> {"execute", "inspect", "reconcile"}]
  /\ settled \in [Writer -> BOOLEAN]
  /\ \A w \in Writer : /\ tip[w] \in History
                       /\ seen[w] = None \/ seen[w] \in Reservation
                       /\ draft[w] \in History
                       /\ floor[w] \in History
  /\ \A h \in acked : h \in History
  /\ {drafted, reads, faults, restores} \subseteq Nat
  /\ \A w \in Writer : lock = w <=> pc[w] \in Transactional

\* The ledger has been initialized and its first tip seeded at the authority.
Init ==
  /\ events = <<>> /\ histories = {<<>>}
  /\ lock = None
  /\ checkpoint = <<>> /\ reservation = None
  /\ late = {}
  /\ pc = [w \in Writer |-> "idle"]
  /\ job = [w \in Writer |-> "reconcile"]
  /\ settled = [w \in Writer |-> FALSE]
  /\ tip = [w \in Writer |-> <<>>]
  /\ seen = [w \in Writer |-> None]
  /\ draft = [w \in Writer |-> <<>>]
  /\ acked = {}
  /\ floor = [w \in Writer |-> <<>>]
  /\ drafted = 0 /\ reads = 0 /\ faults = 0 /\ restores = 0

-----------------------------------------------------------------------------
(* The independent authority (LocalAuthority.exchange).                    *)

Prepared == reservation # None /\ reservation.status = "PREPARED"

\* Mutant: the record is overwritten without comparing its previous value.
CheckpointMayMoveBlindly(request) == Prepared => request.value = reservation.target

\* checkpoint/*: never backwards, never sideways, and only to the reserved target.
CheckpointMayMove(request) ==
  /\ request.previous = checkpoint
  /\ Len(request.value) >= Len(checkpoint)
  /\ Len(request.value) = Len(checkpoint) => request.value = checkpoint
  /\ Prepared => request.value = reservation.target

\* reservation/*: one open reservation, of the next event after the checkpoint.
ReservationMayMove(request) ==
  /\ request.previous = reservation
  /\ Len(request.value.target) = Len(request.value.base) + 1
  /\ \/ /\ request.value.status = "PREPARED"
        /\ checkpoint = request.value.base
        /\ ~Prepared
     \/ /\ request.value.status \in {"COMMITTED", "ABORTED"}
        /\ Prepared
        /\ request.value.base = reservation.base
        /\ request.value.target = reservation.target
        /\ checkpoint = IF request.value.status = "COMMITTED" THEN reservation.target
                                                              ELSE reservation.base

Accepts(request) == IF request.name = "checkpoint" THEN CheckpointMayMove(request)
                                                   ELSE ReservationMayMove(request)

Store(request) ==
  /\ Accepts(request)
  /\ IF request.name = "checkpoint"
       THEN checkpoint' = request.value /\ UNCHANGED reservation
       ELSE reservation' = request.value /\ UNCHANGED checkpoint

-----------------------------------------------------------------------------
(* Writers.                                                                *)

Go(w, step) == pc' = [pc EXCEPT ![w] = step]

\* An exception leaves the call: an open transaction rolls back.
Raise(w) == /\ Go(w, "idle")
            /\ lock' = IF lock = w THEN None ELSE lock

Fault == /\ faults < MaxFaults
         /\ faults' = faults + 1
         /\ UNCHANGED <<drafted, reads, restores>>

\* AuthorityClient.advance: delivered and answered, delivered and the answer
\* lost, refused, or still under way when the writer stops waiting.
Call(w, request, step) ==
  \/ /\ Store(request)
     /\ Go(w, step)
     /\ UNCHANGED <<lock, late, counters>>
  \/ /\ Store(request)
     /\ Raise(w)
     /\ Fault
     /\ UNCHANGED late
  \/ /\ ~Accepts(request)
     /\ Raise(w)
     /\ UNCHANGED <<authority, late, counters>>
  \/ /\ late' = late \cup {request}
     /\ Raise(w)
     /\ Fault
     /\ UNCHANGED authority

\* execute and inspect start by reconciling; anyone may also just reconcile.
\* An execution brings one new event, an inspection notes what it must return.
Begin(w, call) ==
  /\ pc[w] = "idle"
  /\ Go(w, "reconcile")
  /\ job' = [job EXCEPT ![w] = call]
  /\ settled' = [settled EXCEPT ![w] = FALSE]
  /\ CASE call = "execute" -> /\ drafted < MaxEvents
                              /\ drafted' = drafted + 1
                              /\ draft' = [draft EXCEPT ![w] = <<drafted + 1>>]
                              /\ UNCHANGED <<floor, reads>>
       [] call = "inspect" -> /\ reads < MaxReads
                              /\ reads' = reads + 1
                              /\ floor' = [floor EXCEPT ![w] = Longest(acked)]
                              /\ UNCHANGED <<draft, drafted>>
       [] OTHER            -> UNCHANGED <<draft, floor, drafted, reads>>
  /\ UNCHANGED <<database, lock, authority, late, tip, seen, acked, faults, restores>>

\* reconcile takes the database lock and keeps it until it ends.
StartReconcile(w) ==
  /\ pc[w] = "reconcile" /\ lock = None
  /\ lock' = w
  /\ Go(w, "sample")
  /\ UNCHANGED <<database, authority, late, locals, ghosts, counters>>

\* The audit chain in the database must extend the checkpoint just read.
SampleTip(w) ==
  /\ pc[w] = "sample"
  /\ tip' = [tip EXCEPT ![w] = checkpoint]
  /\ IF IsPrefix(checkpoint, events) THEN Go(w, "compare") /\ UNCHANGED lock ELSE Raise(w)
  /\ UNCHANGED <<database, authority, late, job, settled, seen, draft, ghosts, counters>>

\* Mutant: a target the checkpoint already reached is not recognized.
CompareUnacknowledged(w) ==
  IF Prepared
    THEN IF events = reservation.target /\ tip[w] # events THEN "acknowledge" ELSE "refused"
    ELSE IF events = tip[w] THEN "reconciled" ELSE "refused"

\* Where reconcile goes: a reservation must be of the database's own tip, and
\* without one the database must be exactly at the checkpoint.
Compare(w) ==
  IF Prepared
    THEN IF events = reservation.target THEN "acknowledge" ELSE "refused"
    ELSE IF events = tip[w] THEN "reconciled" ELSE "refused"

CompareReservation(w) ==
  /\ pc[w] = "compare"
  /\ seen' = [seen EXCEPT ![w] = reservation]
  /\ IF Compare(w) = "refused" THEN Raise(w) ELSE Go(w, Compare(w)) /\ UNCHANGED lock
  /\ UNCHANGED <<database, authority, late, job, settled, tip, draft, ghosts, counters>>

AcknowledgeTip(w) ==
  /\ pc[w] = "acknowledge"
  /\ Call(w, [name |-> "checkpoint", previous |-> tip[w], value |-> events], "finalize")
  /\ UNCHANGED <<database, locals, ghosts>>

FinalizeReservation(w) ==
  /\ pc[w] = "finalize"
  /\ Call(w, [name |-> "reservation", previous |-> seen[w],
              value |-> [seen[w] EXCEPT !.status = "COMMITTED"]], "reconciled")
  /\ UNCHANGED <<database, locals, ghosts>>

\* The end of reconcile: before the operation, or after it and then execute returns.
EndReconcile(w) ==
  /\ pc[w] = "reconciled"
  /\ lock' = None
  /\ acked' = IF settled[w] THEN acked \cup {draft[w]} ELSE acked
  /\ Go(w, IF settled[w] \/ job[w] = "reconcile" THEN "idle" ELSE "external")
  /\ UNCHANGED <<database, authority, late, locals, floor, counters>>

ReadExternal(w) ==
  /\ pc[w] = "external"
  /\ tip' = [tip EXCEPT ![w] = checkpoint]
  /\ Go(w, "transact")
  /\ UNCHANGED <<database, lock, authority, late, job, settled, seen, draft, ghosts, counters>>

\* Mutant: the database is not compared with the checkpoint read before.
ExtendsNothing(w) == TRUE

Extends(w) == IsPrefix(tip[w], events)

\* Ledger.inspect: one transaction that checks the chain and returns the state.
Inspect(w) ==
  /\ pc[w] = "transact" /\ job[w] = "inspect" /\ lock = None
  /\ Extends(w)
  /\ draft' = [draft EXCEPT ![w] = events]
  /\ Go(w, "idle")
  /\ UNCHANGED <<database, lock, authority, late, job, settled, tip, seen, ghosts, counters>>

\* Mutant: before_commit is not passed on.
BeforeCommitSkipped == "commit"

BeforeCommit == "prepare"

\* Ledger.execute: lock, check the chain, change the state and append its event.
Change(w) ==
  /\ pc[w] = "transact" /\ job[w] = "execute" /\ lock = None
  /\ Extends(w)
  /\ lock' = w
  /\ draft' = [draft EXCEPT ![w] = events \o @]
  /\ Go(w, BeforeCommit)
  /\ UNCHANGED <<database, authority, late, job, settled, tip, seen, ghosts, counters>>

\* The database is behind the checkpoint: the transaction raises.
RefuseRollback(w) ==
  /\ pc[w] = "transact" /\ lock = None
  /\ ~Extends(w)
  /\ Raise(w)
  /\ UNCHANGED <<database, authority, late, locals, ghosts, counters>>

\* before_commit reads the checkpoint and the reservation again.
PrepareTip(w) ==
  /\ pc[w] = "prepare"
  /\ tip' = [tip EXCEPT ![w] = checkpoint]
  /\ Go(w, "examine")
  /\ UNCHANGED <<database, lock, authority, late, job, settled, seen, draft, ghosts, counters>>

PrepareReservation(w) ==
  /\ pc[w] = "examine"
  /\ seen' = [seen EXCEPT ![w] = reservation]
  /\ IF Prepared THEN Raise(w) ELSE Go(w, "reserve") /\ UNCHANGED lock
  /\ UNCHANGED <<database, authority, late, job, settled, tip, draft, ghosts, counters>>

Reserve(w) ==
  /\ pc[w] = "reserve"
  /\ Call(w, [name |-> "reservation", previous |-> seen[w],
              value |-> [base |-> tip[w], target |-> draft[w], status |-> "PREPARED"]], "commit")
  /\ UNCHANGED <<database, locals, ghosts>>

\* Mutant: execute returns after the commit, before the acknowledgement.
AfterCommitReturn(w) == Go(w, "idle") /\ acked' = acked \cup {draft[w]}

\* After the commit execute reconciles before it returns.
AfterCommit(w) == Go(w, "reconcile") /\ UNCHANGED acked

Commit(w) ==
  /\ pc[w] = "commit"
  /\ events' = draft[w]
  /\ histories' = histories \cup {draft[w]}
  /\ lock' = None
  /\ settled' = [settled EXCEPT ![w] = TRUE]
  /\ AfterCommit(w)
  /\ UNCHANGED <<authority, late, job, tip, seen, draft, floor, counters>>

-----------------------------------------------------------------------------
(* Faults, and the people who repair them.                                 *)

\* A writer stops, or a guard fails after the reservation was made.
Crash(w) == /\ pc[w] # "idle"
            /\ Raise(w)
            /\ Fault
            /\ UNCHANGED <<database, authority, late, locals, ghosts>>

Deliver(request) ==
  /\ late' = late \ {request}
  /\ Store(request)
  /\ UNCHANGED <<database, lock, pc, locals, ghosts, counters>>

\* A late request is refused, or expires under way.
Drop(request) ==
  /\ late' = late \ {request}
  /\ UNCHANGED <<database, lock, authority, pc, locals, ghosts, counters>>

\* The database comes back from a backup of any moment.
Restore(h) ==
  /\ lock = None
  /\ restores < MaxRestores
  /\ restores' = restores + 1
  /\ events' = h
  /\ UNCHANGED <<histories, lock, authority, late, pc, locals, ghosts, drafted, reads, faults>>

\* What the independent observer signs: the reserved transaction is not in any
\* database this ledger ever had, and its writer cannot commit it any more.
NotCommitted(target) == target \notin histories

\* reconcile_abort under the database lock, with a signed observation.
Abort ==
  /\ lock = None
  /\ Prepared
  /\ IsPrefix(checkpoint, events)
  /\ events = reservation.base
  /\ NotCommitted(reservation.target)
  /\ Store([name |-> "reservation", previous |-> reservation,
            value |-> [reservation EXCEPT !.status = "ABORTED"]])
  /\ UNCHANGED <<database, lock, late, pc, locals, ghosts, counters>>

Step(w) == \/ \E call \in {"execute", "inspect", "reconcile"} : Begin(w, call)
           \/ StartReconcile(w) \/ SampleTip(w) \/ CompareReservation(w)
           \/ AcknowledgeTip(w) \/ FinalizeReservation(w) \/ EndReconcile(w)
           \/ ReadExternal(w) \/ Inspect(w) \/ Change(w) \/ RefuseRollback(w)
           \/ PrepareTip(w) \/ PrepareReservation(w) \/ Reserve(w) \/ Commit(w)

Next == \/ \E w \in Writer : Step(w) \/ Crash(w)
        \/ \E request \in late : Deliver(request) \/ Drop(request)
        \/ \E h \in histories : Restore(h)
        \/ Abort

Spec == Init /\ [][Next]_vars

-----------------------------------------------------------------------------
(* The audit log the ledger implements: the longest history ever committed *)
(* and the checkpoint.                                                     *)

Audit == INSTANCE AuditLog WITH Event <- 1 .. MaxEvents, log <- Longest(histories),
                                acknowledged <- checkpoint

\* However writers crash, calls get lost or late and databases come back from
\* old backups, the committed histories form one append-only log and at most one
\* event of it is not yet acknowledged.
ImplementsAuditLog == Audit!Spec

\* "Do not return an externally accepted receipt before independent
\* acknowledgement" (docs/V3-CLOSURE-PROVISIONING.md:17): what execute returned
\* is part of the checkpoint, so no restored database can silently lack it.
AckedIsCheckpointed == \A h \in acked : IsPrefix(h, checkpoint)

\* An inspection returns everything that was acknowledged to any caller before
\* the inspection began, even from a restored database.
InspectSeesAcked ==
  [][\A w \in Writer : Inspect(w) => IsPrefix(floor[w], draft'[w])]_vars

\* Between operations the database and the authority differ only by a reserved
\* event: committed and not acknowledged, or reserved and not committed.
\* (Without restores; after one the database may also be behind.)
DifferenceIsReserved ==
  events # checkpoint =>
     \/ Prepared /\ events = reservation.target /\ checkpoint = reservation.base
     \/ restores > 0 /\ Len(events) < Len(Longest(histories))

\* A reservation is never left to block writers for ever: the next callers to
\* reconcile finish it, or the observer aborts it.
ReservationsEnd == Prepared ~> ~Prepared

\* Callers keep coming (any operation reconciles), a call they make ends, the
\* database lock is granted fairly, and an observer examines every blocked
\* reservation ("An absent reserved target blocks writes and requires a fresh
\* separately signed restore-observation").
FairSpec ==
  /\ Spec
  /\ \A w \in Writer :
       /\ WF_vars(Begin(w, "reconcile"))
       /\ SF_vars(StartReconcile(w))
       /\ WF_vars(SampleTip(w) \/ CompareReservation(w) \/ EndReconcile(w))
       /\ WF_vars(AcknowledgeTip(w) \/ FinalizeReservation(w))
       /\ WF_vars(ReadExternal(w))
       /\ SF_vars(Inspect(w) \/ Change(w) \/ RefuseRollback(w))
       /\ WF_vars(PrepareTip(w) \/ PrepareReservation(w) \/ Reserve(w) \/ Commit(w))
  /\ SF_vars(Abort)
=============================================================================
