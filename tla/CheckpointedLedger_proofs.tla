---------------------- MODULE CheckpointedLedger_proofs ----------------------
(***************************************************************************)
(* Proofs about the checkpointed audit ledger, for any number of writers,  *)
(* events, reads, faults and restores: the committed histories form one    *)
(* append-only log, at most its last event is unacknowledged, nothing is   *)
(* acknowledged to a caller before the authority vouches for it, and the   *)
(* ledger implements AuditLog.                                             *)
(***************************************************************************)
EXTENDS CheckpointedLedger, SequenceTheorems, TLAPS

-----------------------------------------------------------------------------
(* The inductive invariant.                                                *)

\* The longest history ever committed.
Log == Longest(histories)

\* TypeOK, and the tables of locals have an entry for each writer.
Typed ==
  /\ TypeOK
  /\ tip \in [Writer -> History]
  /\ seen \in [Writer -> Reservation \cup {None}]
  /\ draft \in [Writer -> History]
  /\ floor \in [Writer -> History]

\* Whatever was committed, whatever a backup may hold and whatever the authority
\* vouches for is a part of one log; only a restore takes the database back.
OneLog ==
  /\ Log \in histories
  /\ \A h \in histories : IsPrefix(h, Log)
  /\ events \in histories
  /\ checkpoint \in histories
  /\ restores = 0 => events = Log

\* The log is ahead of the checkpoint by the reserved event at most.
OneAhead ==
  /\ Prepared => /\ Len(reservation.target) = Len(reservation.base) + 1
                 /\ checkpoint \in {reservation.base, reservation.target}
  /\ \/ Log = checkpoint
     \/ Prepared /\ checkpoint = reservation.base /\ Log = reservation.target

\* A request still under way acknowledges something committed, or reserves, or
\* finalizes; it never aborts.
Harmless(request) ==
  IF request.name = "checkpoint" THEN request.value \in histories
                                 ELSE request.value.status \in {"PREPARED", "COMMITTED"}

ReconcileSteps == {"reconcile", "sample", "compare", "acknowledge", "finalize", "reconciled"}

\* Where an execution is, and what it holds by then.
WriterBound(w) ==
  /\ pc[w] \in {"acknowledge", "finalize"} => seen[w] \in Reservation
  /\ pc[w] = "reconciled" => Log = checkpoint
  /\ pc[w] \in {"external", "transact"} => ~settled[w]
  /\ (pc[w] \in ReconcileSteps \cup {"external", "transact"} /\ ~settled[w] /\ job[w] = "execute")
       => \E e \in 1 .. MaxEvents : draft[w] = <<e>>
  /\ pc[w] \in {"prepare", "examine", "reserve", "commit"} =>
       \E e \in 1 .. MaxEvents : draft[w] = Append(events, e)
  /\ pc[w] = "commit" =>
       /\ reservation = [base |-> tip[w], target |-> draft[w], status |-> "PREPARED"]
       /\ checkpoint = tip[w] /\ checkpoint = Log
  /\ (settled[w] /\ pc[w] # "idle") => pc[w] \in ReconcileSteps /\ draft[w] \in histories
  /\ IsPrefix(floor[w], checkpoint)
  /\ (pc[w] = "transact" /\ job[w] = "inspect") => IsPrefix(floor[w], tip[w])

\* What callers were told is a part of the checkpoint.
AckedBound ==
  /\ \A h \in acked : IsPrefix(h, checkpoint)
  /\ acked # {} => \E h \in acked : \A g \in acked : Len(g) <= Len(h)

LedgerInv ==
  /\ Typed
  /\ OneLog
  /\ OneAhead
  /\ \A request \in late : Harmless(request)
  /\ \A w \in Writer : WriterBound(w)
  /\ AckedBound

-----------------------------------------------------------------------------
(* Prefixes of sequences.                                                  *)

\* A prefix, element by element.
LEMMA PrefixElements ==
  ASSUME NEW S, NEW s \in Seq(S), NEW t \in Seq(S)
  PROVE  IsPrefix(s, t) <=> Len(s) <= Len(t) /\ \A i \in 1 .. Len(s) : s[i] = t[i]
<1> SUFFICES ASSUME Len(s) <= Len(t)
             PROVE  s = SubSeq(t, 1, Len(s)) <=> \A i \in 1 .. Len(s) : s[i] = t[i]
  BY DEF IsPrefix
<1> DEFINE u == SubSeq(t, 1, Len(s))
<1>1. Len(s) \in Nat /\ Len(t) \in Nat
  BY LenProperties
<1>2. \A i \in 1 .. Len(s) : t[i] \in S
  BY <1>1, ElementOfSeq
<1>3. u \in Seq(S) /\ Len(u) = Len(s) /\ \A i \in 1 .. Len(s) : u[i] = t[i]
  <2>1. /\ u \in Seq(S) /\ Len(u) = IF 1 <= Len(s) THEN Len(s) - 1 + 1 ELSE 0
        /\ \A i \in 1 .. Len(s) - 1 + 1 : u[i] = t[1 + i - 1]
    <3> HIDE DEF u
    <3>1. 1 \in Int /\ Len(s) \in Int
      BY <1>1
    <3> QED BY <1>2, <3>1, SubSeqProperties DEF u
  <2> HIDE DEF u
  <2> QED BY <1>1, <2>1
<1>4. (\A i \in 1 .. Len(s) : s[i] = t[i]) => s = u
  <2> HIDE DEF u
  <2> SUFFICES ASSUME \A i \in 1 .. Len(s) : s[i] = t[i] PROVE s = u
    OBVIOUS
  <2>1. Len(s) = Len(u) /\ \A i \in 1 .. Len(s) : s[i] = u[i]
    BY <1>3
  <2> QED BY <1>3, <2>1, SeqEqual
<1> HIDE DEF u
<1> QED BY <1>3, <1>4 DEF u

LEMMA PrefixReflexive ==
  ASSUME NEW S, NEW s \in Seq(S)
  PROVE  IsPrefix(s, s)
<1>1. Len(s) \in Nat
  BY LenProperties
<1> QED BY <1>1, PrefixElements

LEMMA PrefixTransitive ==
  ASSUME NEW S, NEW s \in Seq(S), NEW t \in Seq(S), NEW u \in Seq(S),
         IsPrefix(s, t), IsPrefix(t, u)
  PROVE  IsPrefix(s, u)
<1>1. Len(s) \in Nat /\ Len(t) \in Nat /\ Len(u) \in Nat
  BY LenProperties
<1>2. Len(s) <= Len(t) /\ \A i \in 1 .. Len(s) : s[i] = t[i]
  BY PrefixElements
<1>3. Len(t) <= Len(u) /\ \A i \in 1 .. Len(t) : t[i] = u[i]
  BY PrefixElements
<1>4. Len(s) <= Len(u) /\ \A i \in 1 .. Len(s) : s[i] = u[i]
  BY <1>1, <1>2, <1>3
<1> QED BY <1>4, PrefixElements

\* Of two prefixes of one sequence the shorter is a prefix of the longer.
LEMMA PrefixesNest ==
  ASSUME NEW S, NEW s \in Seq(S), NEW t \in Seq(S), NEW u \in Seq(S),
         IsPrefix(s, u), IsPrefix(t, u), Len(s) <= Len(t)
  PROVE  IsPrefix(s, t)
<1>1. Len(s) \in Nat /\ Len(t) \in Nat /\ Len(u) \in Nat
  BY LenProperties
<1>2. \A i \in 1 .. Len(s) : s[i] = u[i]
  BY PrefixElements
<1>3. \A i \in 1 .. Len(t) : t[i] = u[i]
  BY PrefixElements
<1>4. \A i \in 1 .. Len(s) : s[i] = t[i]
  BY <1>1, <1>2, <1>3
<1> QED BY <1>4, PrefixElements

LEMMA PrefixSameLength ==
  ASSUME NEW S, NEW s \in Seq(S), NEW t \in Seq(S), IsPrefix(s, t), Len(s) = Len(t)
  PROVE  s = t
BY PrefixElements, SeqEqual

LEMMA PrefixOfAppend ==
  ASSUME NEW S, NEW s \in Seq(S), NEW e \in S
  PROVE  IsPrefix(s, Append(s, e)) /\ Append(s, e) \in Seq(S) /\ Len(Append(s, e)) = Len(s) + 1
<1>1. /\ Append(s, e) \in Seq(S) /\ Len(Append(s, e)) = Len(s) + 1
      /\ \A i \in 1 .. Len(s) : Append(s, e)[i] = s[i]
  BY AppendProperties
<1>2. Len(s) \in Nat
  BY LenProperties
<1>3. Len(s) <= Len(Append(s, e))
  BY <1>1, <1>2
<1> QED BY <1>1, <1>3, PrefixElements

\* If all of S are prefixes of one of them, that one is the longest.
LEMMA LongestIs ==
  ASSUME NEW E, NEW S \in SUBSET Seq(E), NEW h \in S, \A g \in S : IsPrefix(g, h)
  PROVE  Longest(S) = h
<1> DEFINE x == CHOOSE y \in S : \A g \in S : Len(g) <= Len(y)
<1>1. \A g \in S : Len(g) <= Len(h)
  BY DEF IsPrefix
<1>2. x \in S /\ \A g \in S : Len(g) <= Len(x)
  BY <1>1
<1> HIDE DEF x
<1>3. Len(x) \in Nat /\ Len(h) \in Nat
  BY <1>2, LenProperties
<1>4. x = h
  <2>1. Len(x) = Len(h)
    BY <1>1, <1>2, <1>3
  <2>2. x \in Seq(E) /\ h \in Seq(E) /\ IsPrefix(x, h)
    BY <1>2
  <2> QED BY <2>1, <2>2, PrefixSameLength
<1> QED BY <1>4 DEF Longest, x

-----------------------------------------------------------------------------
(* Types.                                                                  *)

\* One event after a history.
LEMMA OneMore ==
  ASSUME NEW h \in History, NEW e \in 1 .. MaxEvents
  PROVE  /\ h \o <<e>> = Append(h, e) /\ Append(h, e) \in History
         /\ Len(Append(h, e)) = Len(h) + 1 /\ IsPrefix(h, Append(h, e))
BY PrefixOfAppend, AppendIsConcat DEF History

\* What a call to the authority does to the types.
LEMMA CallTyped ==
  ASSUME Typed, NEW w \in Writer, NEW request \in Request, NEW step \in Steps \ {"idle"},
         lock = w, step \in Transactional,
         Call(w, request, step), UNCHANGED <<database, locals, ghosts>>
  PROVE  Typed'
<1>1. /\ request.name = "checkpoint" => request.value \in History
      /\ request.name # "checkpoint" => request.value \in Reservation
  BY DEF Request
<1>2. checkpoint' \in History /\ (reservation' = None \/ reservation' \in Reservation)
  BY <1>1 DEF Typed, TypeOK, Call, Store, authority
<1>3. {drafted', reads', faults', restores'} \subseteq Nat
  BY DEF Call, Fault, counters, Typed, TypeOK
<1>4. \A r \in late' : r \in Request
  BY DEF Call, Typed, TypeOK
<1>5. /\ pc' \in [Writer -> Steps] /\ lock' \in Writer \cup {None}
      /\ \A v \in Writer : lock' = v <=> pc'[v] \in Transactional
  BY NoneAssumption DEF Call, Typed, TypeOK, Go, Raise, Steps, Transactional
<1> QED
  BY <1>2, <1>3, <1>4, <1>5 DEF Typed, TypeOK, database, locals, ghosts

\* The actions of a writer that make no call and commit nothing.
LocalStep(w) ==
  \/ \E call \in {"execute", "inspect", "reconcile"} : Begin(w, call)
  \/ StartReconcile(w) \/ SampleTip(w) \/ CompareReservation(w) \/ EndReconcile(w)
  \/ ReadExternal(w) \/ Inspect(w) \/ Change(w) \/ RefuseRollback(w)
  \/ PrepareTip(w) \/ PrepareReservation(w)
  \/ Crash(w)

LEMMA LocalTyped ==
  ASSUME LedgerInv, NEW w \in Writer, LocalStep(w)
  PROVE  Typed'
<1> USE DEF Typed, TypeOK, Go, Steps, Transactional, database, authority, locals, ghosts, counters
<1>0. Typed /\ WriterBound(w)
  BY DEF LedgerInv
<1>1. ASSUME NEW call \in {"execute", "inspect", "reconcile"}, Begin(w, call) PROVE Typed'
  <2>1. Longest(acked) \in History
    <3>1. CASE acked = {}
      BY <3>1, EmptySeq DEF Longest, History
    <3>2. CASE acked # {}
      BY <1>0, <3>2 DEF LedgerInv, AckedBound, Longest
    <3> QED BY <3>1, <3>2
  <2>2. drafted < MaxEvents => <<drafted + 1>> \in History
    BY <1>0, BoundAssumption, SMTT(30) DEF History
  <2>3. call = "execute" \/ call = "inspect" \/ call = "reconcile"
    BY <1>1
  <2>4. CASE call = "execute"
    BY <1>0, <1>1, <2>2, <2>4 DEF Begin
  <2>5. CASE call = "inspect"
    BY <1>0, <1>1, <2>1, <2>5 DEF Begin
  <2>6. CASE call = "reconcile"
    BY <1>0, <1>1, <2>6 DEF Begin
  <2> QED BY <2>3, <2>4, <2>5, <2>6
<1>2. ASSUME StartReconcile(w) PROVE Typed'
  BY <1>0, <1>2, NoneAssumption DEF StartReconcile
<1>3. ASSUME SampleTip(w) PROVE Typed'
  BY <1>0, <1>3, NoneAssumption DEF SampleTip, Raise
<1>4. ASSUME CompareReservation(w) PROVE Typed'
  BY <1>0, <1>4, NoneAssumption DEF CompareReservation, Compare, Raise
<1>5. ASSUME EndReconcile(w) PROVE Typed'
  BY <1>0, <1>5, NoneAssumption DEF EndReconcile
<1>6. ASSUME ReadExternal(w) PROVE Typed'
  BY <1>0, <1>6, NoneAssumption DEF ReadExternal
<1>7. ASSUME Inspect(w) PROVE Typed'
  BY <1>0, <1>7, NoneAssumption DEF Inspect
<1>8. ASSUME Change(w) PROVE Typed'
  <2>1. PICK e \in 1 .. MaxEvents : draft[w] = <<e>>
    BY <1>0, <1>8 DEF Change, WriterBound, ReconcileSteps
  <2>2. events \o draft[w] \in History
    BY <1>0, <2>1, OneMore
  <2> QED BY <1>0, <1>8, <2>2, NoneAssumption DEF Change, BeforeCommit
<1>9. ASSUME RefuseRollback(w) PROVE Typed'
  BY <1>0, <1>9, NoneAssumption DEF RefuseRollback, Raise
<1>10. ASSUME PrepareTip(w) PROVE Typed'
  BY <1>0, <1>10, NoneAssumption DEF PrepareTip
<1>11. ASSUME PrepareReservation(w) PROVE Typed'
  BY <1>0, <1>11, NoneAssumption DEF PrepareReservation, Raise
<1>12. ASSUME Crash(w) PROVE Typed'
  BY <1>0, <1>12, NoneAssumption DEF Crash, Raise, Fault
<1> QED
  BY <1>1, <1>2, <1>3, <1>4, <1>5, <1>6, <1>7, <1>8, <1>9, <1>10, <1>11, <1>12 DEF LocalStep

\* A commit, and what happens outside any writer.
LEMMA GlobalTyped ==
  ASSUME LedgerInv,
         \/ \E w \in Writer : Commit(w)
         \/ \E request \in late : Deliver(request) \/ Drop(request)
         \/ \E h \in histories : Restore(h)
         \/ Abort
  PROVE  Typed'
<1> USE DEF Typed, TypeOK, Go, Steps, Transactional, database, authority, locals, ghosts, counters
<1>0. Typed
  BY DEF LedgerInv
<1>1. ASSUME NEW w \in Writer, Commit(w) PROVE Typed'
  BY <1>0, <1>1, NoneAssumption DEF Commit, AfterCommit
<1>2. ASSUME NEW request \in late, Deliver(request) PROVE Typed'
  <2>1. request \in Request
    BY <1>0
  <2>2. /\ request.name = "checkpoint" => request.value \in History
        /\ request.name # "checkpoint" => request.value \in Reservation
    BY <2>1 DEF Request
  <2> QED BY <1>0, <1>2, <2>2 DEF Deliver, Store
<1>3. ASSUME NEW request \in late, Drop(request) PROVE Typed'
  BY <1>0, <1>3 DEF Drop
<1>4. ASSUME NEW h \in histories, Restore(h) PROVE Typed'
  BY <1>0, <1>4 DEF Restore
<1>5. ASSUME Abort PROVE Typed'
  <2>1. reservation \in Reservation
    BY <1>0, <1>5 DEF Abort, Prepared
  <2>2. [reservation EXCEPT !.status = "ABORTED"] \in Reservation
    BY <2>1 DEF Reservation
  <2> QED BY <1>0, <1>5, <2>2 DEF Abort, Store
<1> QED
  BY <1>1, <1>2, <1>3, <1>4, <1>5

-----------------------------------------------------------------------------
(* What a request stored at the authority may do.                          *)

\* The lengths the steps below compare.
LEMMA LogTypes ==
  ASSUME LedgerInv
  PROVE  /\ histories \subseteq History /\ Log \in History /\ events \in History
         /\ checkpoint \in History
         /\ Len(Log) \in Nat /\ Len(checkpoint) \in Nat
         /\ \A h \in histories : Len(h) \in Nat /\ Len(h) <= Len(Log)
         /\ Prepared => /\ reservation.base \in History /\ reservation.target \in History
                        /\ Len(reservation.base) \in Nat /\ Len(reservation.target) \in Nat
<1>1. /\ histories \subseteq History /\ Log \in History /\ events \in History
      /\ checkpoint \in History
      /\ Prepared => reservation.base \in History /\ reservation.target \in History
  BY DEF LedgerInv, Typed, TypeOK, OneLog, Prepared, Reservation
<1>2. \A h \in History : Len(h) \in Nat
  BY LenProperties DEF History
<1>3. \A h \in histories : Len(h) <= Len(Log)
  BY DEF LedgerInv, OneLog, IsPrefix
<1> QED BY <1>1, <1>2, <1>3

\* A committed history no shorter than the log is the log.
LEMMA WholeLog ==
  ASSUME LedgerInv, NEW h \in histories, Len(h) >= Len(Log)
  PROVE  h = Log
<1>1. IsPrefix(h, Log) /\ h \in Seq(1 .. MaxEvents) /\ Log \in Seq(1 .. MaxEvents)
  BY LogTypes DEF LedgerInv, OneLog, History
<1>2. Len(h) = Len(Log)
  BY LogTypes
<1> QED BY <1>1, <1>2, PrefixSameLength

\* A harmless request moves the checkpoint only to the end of the log, and leaves
\* an open reservation alone until the checkpoint has reached its target.
LEMMA HarmlessStore ==
  ASSUME LedgerInv, NEW request, request.name \in {"checkpoint", "reservation"},
         Harmless(request), Store(request)
  PROVE  /\ checkpoint' \in {checkpoint, Log}
         /\ Len(checkpoint) <= Len(checkpoint')
         /\ \/ Log = checkpoint'
            \/ Prepared' /\ checkpoint' = reservation'.base /\ Log = reservation'.target
         /\ Prepared' => /\ Len(reservation'.target) = Len(reservation'.base) + 1
                         /\ checkpoint' \in {reservation'.base, reservation'.target}
         /\ (Prepared /\ checkpoint = Log /\ checkpoint = reservation.base)
              => reservation' = reservation
<1>1. OneAhead /\ checkpoint \in histories
  BY DEF LedgerInv, OneLog
<1>2. CASE request.name = "checkpoint"
  <2>1. /\ checkpoint' = request.value /\ reservation' = reservation
        /\ request.value \in histories /\ Len(request.value) >= Len(checkpoint)
        /\ Len(request.value) = Len(checkpoint) => request.value = checkpoint
        /\ Prepared => request.value = reservation.target
    BY <1>2 DEF Store, Accepts, CheckpointMayMove, Harmless
  <2>2. Prepared' <=> Prepared
    BY <2>1 DEF Prepared
  <2>3. CASE Log = checkpoint
    <3>1. checkpoint' = Log
      BY <2>1, <2>3, WholeLog
    <3> QED BY <1>1, <2>1, <2>2, <2>3, <3>1, LogTypes DEF OneAhead
  <2>4. CASE Log # checkpoint
    BY <1>1, <2>1, <2>2, <2>4, LogTypes DEF OneAhead
  <2> QED BY <2>3, <2>4
<1>3. CASE request.name = "reservation"
  <2>1. /\ checkpoint' = checkpoint /\ reservation' = request.value
        /\ request.value.status \in {"PREPARED", "COMMITTED"}
        /\ ReservationMayMove(request)
    BY <1>3 DEF Store, Accepts, Harmless
  <2>2. CASE request.value.status = "PREPARED"
    <3>1. ~Prepared /\ checkpoint = request.value.base
          /\ Len(request.value.target) = Len(request.value.base) + 1
      BY <2>1, <2>2 DEF ReservationMayMove
    <3>2. Log = checkpoint
      BY <1>1, <3>1 DEF OneAhead
    <3> QED BY <2>1, <3>1, <3>2, LogTypes
  <2>3. CASE request.value.status = "COMMITTED"
    <3>1. Prepared /\ checkpoint = reservation.target
      BY <2>1, <2>3 DEF ReservationMayMove
    <3>2. ~Prepared'
      BY <2>1, <2>3 DEF Prepared
    <3>3. Log = checkpoint /\ checkpoint # reservation.base
      BY <1>1, <3>1, LogTypes DEF OneAhead
    <3> QED BY <2>1, <3>1, <3>2, <3>3, LogTypes
  <2> QED BY <2>1, <2>2, <2>3
<1> QED BY <1>2, <1>3

\* The checkpoint only grows.
LEMMA CheckpointGrows ==
  ASSUME LedgerInv, checkpoint' \in {checkpoint, Log}
  PROVE  IsPrefix(checkpoint, checkpoint') /\ checkpoint' \in histories
<1>1. IsPrefix(checkpoint, checkpoint) /\ IsPrefix(checkpoint, Log)
  BY LogTypes, PrefixReflexive DEF LedgerInv, OneLog, History
<1> QED BY <1>1 DEF LedgerInv, OneLog

-----------------------------------------------------------------------------
(* What a step leaves of the parts of the invariant it does not touch.     *)

\* A writer that does not take the step.
LEMMA Bystander ==
  ASSUME LedgerInv, Typed', NEW v \in Writer,
         pc'[v] = pc[v], job'[v] = job[v], settled'[v] = settled[v], tip'[v] = tip[v],
         seen'[v] = seen[v], draft'[v] = draft[v], floor'[v] = floor[v],
         histories \subseteq histories', IsPrefix(checkpoint, checkpoint'),
         lock = v => /\ UNCHANGED database
                     /\ Log = checkpoint => checkpoint' = checkpoint
                     /\ pc[v] = "commit" => reservation' = reservation
  PROVE  WriterBound(v)'
<1>1. WriterBound(v) /\ (lock = v <=> pc[v] \in Transactional)
  BY DEF LedgerInv, Typed, TypeOK
<1>2. IsPrefix(floor'[v], checkpoint')
  <2>1. floor[v] \in Seq(1 .. MaxEvents) /\ IsPrefix(floor[v], checkpoint)
    BY <1>1 DEF LedgerInv, Typed, WriterBound, History
  <2>2. checkpoint' \in Seq(1 .. MaxEvents) /\ checkpoint \in Seq(1 .. MaxEvents)
    BY LogTypes DEF Typed, TypeOK, History
  <2> QED BY <2>1, <2>2, PrefixTransitive
<1>3. pc[v] = "reconciled" => Log' = checkpoint'
  BY <1>1 DEF WriterBound, Transactional, Log, database
<1>4. pc[v] \in {"prepare", "examine", "reserve", "commit"} => events' = events
  BY <1>1 DEF Transactional, database
<1>5. pc[v] = "commit" => /\ reservation' = reservation
                          /\ checkpoint' = checkpoint /\ Log' = Log
  BY <1>1 DEF WriterBound, Transactional, Log, database
<1> QED BY <1>1, <1>2, <1>3, <1>4, <1>5 DEF WriterBound

\* A writer outside any call.
LEMMA Idler ==
  ASSUME NEW w \in Writer, pc'[w] = "idle", IsPrefix(floor'[w], checkpoint')
  PROVE  WriterBound(w)'
BY DEF WriterBound, ReconcileSteps

\* What callers were told stays in a checkpoint that grows.
LEMMA AckedKept ==
  ASSUME LedgerInv, acked' = acked, IsPrefix(checkpoint, checkpoint'), checkpoint' \in History
  PROVE  AckedBound'
<1>1. \A h \in acked : h \in Seq(1 .. MaxEvents)
  BY DEF LedgerInv, Typed, TypeOK, History
<1>2. checkpoint' \in Seq(1 .. MaxEvents) /\ checkpoint \in Seq(1 .. MaxEvents)
  BY LogTypes DEF History
<1>3. \A h \in acked : IsPrefix(h, checkpoint')
  BY <1>1, <1>2, PrefixTransitive DEF LedgerInv, AckedBound
<1> QED BY <1>3 DEF LedgerInv, AckedBound

\* The writers that do not take a step of w.
Others(w) ==
  \A v \in Writer \ {w} :
    /\ pc'[v] = pc[v] /\ job'[v] = job[v] /\ settled'[v] = settled[v]
    /\ tip'[v] = tip[v] /\ seen'[v] = seen[v] /\ draft'[v] = draft[v]
    /\ floor'[v] = floor[v]

\* What callers were told last is in the checkpoint.
LEMMA AckedLongest ==
  ASSUME LedgerInv
  PROVE  IsPrefix(Longest(acked), checkpoint)
<1>1. CASE acked = {}
  <2>1. Longest(acked) = <<>> /\ <<>> \in Seq(1 .. MaxEvents) /\ Len(<<>>) = 0
    BY <1>1, EmptySeq DEF Longest
  <2>2. checkpoint \in Seq(1 .. MaxEvents) /\ Len(checkpoint) \in Nat
    BY LogTypes DEF History
  <2>3. IsPrefix(<<>>, checkpoint)
    <3>1. Len(<<>>) <= Len(checkpoint) /\ \A i \in 1 .. Len(<<>>) : <<>>[i] = checkpoint[i]
      BY <2>1, <2>2
    <3> QED BY <2>1, <2>2, <3>1, PrefixElements
  <2> QED BY <2>1, <2>3
<1>2. CASE acked # {}
  <2>1. Longest(acked) \in acked
    BY <1>2 DEF LedgerInv, AckedBound, Longest
  <2> QED BY <2>1 DEF LedgerInv, AckedBound
<1> QED BY <1>1, <1>2

\* Before the first commit the log is empty.
LEMMA EmptyLog ==
  <<>> \in History /\ IsPrefix(<<>>, <<>>) /\ Longest({<<>>}) = <<>>
<1>1. <<>> \in Seq(1 .. MaxEvents)
  BY EmptySeq
<1>2. IsPrefix(<<>>, <<>>)
  BY <1>1, PrefixReflexive
<1> DEFINE none == <<>>
           S == {none}
<1>3. S \in SUBSET Seq(1 .. MaxEvents) /\ none \in S /\ \A g \in S : IsPrefix(g, none)
  BY <1>1, <1>2
<1>4. Longest(S) = none
  <2> HIDE DEF S, none
  <2> QED BY <1>3, LongestIs
<1> QED BY <1>1, <1>2, <1>4 DEF History

-----------------------------------------------------------------------------
(* The steps of a writer between its calls.                                *)

LEMMA LocalFrame ==
  ASSUME LedgerInv, NEW w \in Writer, Typed', Others(w),
         UNCHANGED <<database, authority, late>>, restores' = restores,
         WriterBound(w)', AckedBound'
  PROVE  LedgerInv'
<1>1. Log' = Log /\ (Prepared' <=> Prepared)
  BY DEF Log, database, authority, Prepared
<1>2. OneLog' /\ OneAhead' /\ \A request \in late' : Harmless(request)'
  BY <1>1 DEF LedgerInv, OneLog, OneAhead, Harmless, database, authority
<1>3. IsPrefix(checkpoint, checkpoint') /\ checkpoint' = checkpoint
  BY LogTypes, PrefixReflexive DEF authority, History
<1>4. \A v \in Writer : v # w => WriterBound(v)'
  BY <1>3, Bystander DEF Others, database, authority
<1> QED BY <1>2, <1>4 DEF LedgerInv

\* What a local step leaves alone.
LEMMA LocalUnchanged ==
  ASSUME LedgerInv, NEW w \in Writer, LocalStep(w)
  PROVE  /\ UNCHANGED <<database, authority, late>> /\ restores' = restores
         /\ Others(w)
<1> USE DEF Others, Go, Raise, locals, ghosts, counters
<1>0. /\ pc \in [Writer -> Steps] /\ job \in [Writer -> {"execute", "inspect", "reconcile"}]
      /\ settled \in [Writer -> BOOLEAN] /\ tip \in [Writer -> History]
      /\ seen \in [Writer -> Reservation \cup {None}] /\ draft \in [Writer -> History]
      /\ floor \in [Writer -> History]
  BY DEF LedgerInv, Typed, TypeOK
<1> DEFINE Quiet == UNCHANGED <<database, authority, late>> /\ restores' = restores /\ Others(w)
<1>1. ASSUME NEW call \in {"execute", "inspect", "reconcile"}, Begin(w, call) PROVE Quiet
  <2>1. call = "execute" \/ call = "inspect" \/ call = "reconcile"
    BY <1>1
  <2> QED BY <1>0, <1>1, <2>1 DEF Begin
<1>2. ASSUME StartReconcile(w) PROVE Quiet
  BY <1>0, <1>2 DEF StartReconcile
<1>3. ASSUME SampleTip(w) PROVE Quiet
  BY <1>0, <1>3 DEF SampleTip
<1>4. ASSUME CompareReservation(w) PROVE Quiet
  BY <1>0, <1>4 DEF CompareReservation
<1>5. ASSUME EndReconcile(w) PROVE Quiet
  BY <1>0, <1>5 DEF EndReconcile
<1>6. ASSUME ReadExternal(w) PROVE Quiet
  BY <1>0, <1>6 DEF ReadExternal
<1>7. ASSUME Inspect(w) PROVE Quiet
  BY <1>0, <1>7 DEF Inspect
<1>8. ASSUME Change(w) PROVE Quiet
  BY <1>0, <1>8 DEF Change
<1>9. ASSUME RefuseRollback(w) PROVE Quiet
  BY <1>0, <1>9 DEF RefuseRollback
<1>10. ASSUME PrepareTip(w) PROVE Quiet
  BY <1>0, <1>10 DEF PrepareTip
<1>11. ASSUME PrepareReservation(w) PROVE Quiet
  BY <1>0, <1>11 DEF PrepareReservation
<1>12. ASSUME Crash(w) PROVE Quiet
  BY <1>0, <1>12 DEF Crash, Fault
<1> QED
  BY <1>1, <1>2, <1>3, <1>4, <1>5, <1>6, <1>7, <1>8, <1>9, <1>10, <1>11, <1>12 DEF LocalStep

LEMMA LocalKept ==
  ASSUME LedgerInv, NEW w \in Writer, LocalStep(w)
  PROVE  LedgerInv'
<1>1. Typed' /\ Others(w) /\ UNCHANGED <<database, authority, late>> /\ restores' = restores
  BY LocalTyped, LocalUnchanged
<1>2. /\ Log' = Log /\ checkpoint' = checkpoint /\ events' = events /\ histories' = histories
      /\ reservation' = reservation
  BY <1>1 DEF Log, database, authority
<1>3. /\ pc \in [Writer -> Steps] /\ job \in [Writer -> {"execute", "inspect", "reconcile"}]
      /\ settled \in [Writer -> BOOLEAN] /\ tip \in [Writer -> History]
      /\ seen \in [Writer -> Reservation \cup {None}] /\ draft \in [Writer -> History]
      /\ floor \in [Writer -> History] /\ drafted \in Nat
      /\ (reservation = None \/ reservation \in Reservation)
      /\ WriterBound(w) /\ AckedBound /\ OneAhead
  BY DEF LedgerInv, Typed, TypeOK
<1>4. SUFFICES WriterBound(w)' /\ AckedBound'
  BY <1>1, LocalFrame
<1>5. ASSUME acked' = acked PROVE AckedBound'
  BY <1>2, <1>3, <1>5 DEF AckedBound
\* An exception or the end of a call.
<1>6. ASSUME pc'[w] = "idle", floor' = floor PROVE WriterBound(w)'
  BY <1>2, <1>3, <1>6, Idler DEF WriterBound
\* A step to another point of the call that keeps all but the tip it read.
<1>7. ASSUME NEW step \in Steps, pc'[w] = step, floor' = floor, draft' = draft,
             settled' = settled, job' = job, seen'[w] = seen[w],
             \/ pc[w] \in ReconcileSteps /\ step \in {"sample", "compare"}
             \/ pc[w] \in {"prepare", "examine"} /\ step \in {"examine", "reserve"}
      PROVE  WriterBound(w)'
  <2>1. CASE pc[w] \in ReconcileSteps /\ step \in {"sample", "compare"}
    BY <1>2, <1>3, <1>7, <2>1 DEF WriterBound, ReconcileSteps
  <2>2. CASE pc[w] \in {"prepare", "examine"} /\ step \in {"examine", "reserve"}
    BY <1>2, <1>3, <1>7, <2>2 DEF WriterBound, ReconcileSteps
  <2> QED BY <1>7, <2>1, <2>2
<1>8. ASSUME NEW call \in {"execute", "inspect", "reconcile"}, Begin(w, call)
      PROVE  WriterBound(w)' /\ AckedBound'
  <2>1. /\ pc'[w] = "reconcile" /\ job'[w] = call /\ ~settled'[w] /\ acked' = acked
    BY <1>3, <1>8 DEF Begin, Go
  <2>2. IsPrefix(floor'[w], checkpoint')
    <3>1. CASE call = "inspect"
      BY <1>2, <1>3, <1>8, <3>1, AckedLongest DEF Begin
    <3>2. CASE call # "inspect"
      <4>1. floor' = floor
        BY <1>8, <3>2 DEF Begin
      <4> QED BY <1>2, <1>3, <4>1 DEF WriterBound
    <3> QED BY <3>1, <3>2
  <2>3. call = "execute" => \E e \in 1 .. MaxEvents : draft'[w] = <<e>>
    <3> SUFFICES ASSUME call = "execute" PROVE \E e \in 1 .. MaxEvents : draft'[w] = <<e>>
      OBVIOUS
    <3>1. draft'[w] = <<drafted + 1>> /\ drafted < MaxEvents
      BY <1>3, <1>8 DEF Begin
    <3>2. drafted + 1 \in 1 .. MaxEvents
      BY <1>3, <3>1, BoundAssumption
    <3> QED BY <3>1, <3>2
  <2> QED BY <1>5, <2>1, <2>2, <2>3 DEF WriterBound, ReconcileSteps
<1>9. ASSUME StartReconcile(w) PROVE WriterBound(w)' /\ AckedBound'
  <2>1. pc[w] = "reconcile" /\ pc'[w] = "sample" /\ UNCHANGED <<locals, ghosts>>
    BY <1>3, <1>9 DEF StartReconcile, Go
  <2> QED BY <1>5, <1>7, <2>1 DEF locals, ghosts, ReconcileSteps, Steps
<1>10. ASSUME SampleTip(w) PROVE WriterBound(w)' /\ AckedBound'
  <2>1. /\ pc[w] = "sample" /\ pc'[w] \in {"compare", "idle"}
        /\ UNCHANGED <<job, settled, seen, draft, ghosts>>
    BY <1>3, <1>10 DEF SampleTip, Go, Raise
  <2> QED BY <1>5, <1>6, <1>7, <2>1 DEF ghosts, ReconcileSteps, Steps
<1>11. ASSUME CompareReservation(w) PROVE WriterBound(w)' /\ AckedBound'
  <2>1. /\ pc[w] = "compare" /\ UNCHANGED <<job, settled, tip, draft, ghosts>>
        /\ seen'[w] = reservation
        /\ IF Compare(w) = "refused" THEN pc'[w] = "idle" ELSE pc'[w] = Compare(w)
    BY <1>3, <1>11 DEF CompareReservation, Go, Raise
  <2>2. CASE pc'[w] = "idle"
    BY <1>5, <1>6, <2>1, <2>2 DEF ghosts
  <2>3. CASE pc'[w] = "acknowledge" /\ Prepared
    <3>1. seen'[w] \in Reservation
      BY <1>3, <2>1, <2>3 DEF Prepared
    <3> QED BY <1>2, <1>3, <1>5, <2>1, <2>3, <3>1 DEF ghosts, WriterBound, ReconcileSteps
  <2>4. CASE pc'[w] = "reconciled" /\ ~Prepared
    <3>1. Log = checkpoint
      BY <1>3, <2>4 DEF OneAhead
    <3> QED BY <1>2, <1>3, <1>5, <2>1, <2>4, <3>1 DEF ghosts, WriterBound, ReconcileSteps
  <2> QED BY <2>1, <2>2, <2>3, <2>4 DEF Compare
<1>12. ASSUME EndReconcile(w) PROVE WriterBound(w)' /\ AckedBound'
  <2>1. /\ pc[w] = "reconciled" /\ UNCHANGED <<locals, floor>>
        /\ acked' = IF settled[w] THEN acked \cup {draft[w]} ELSE acked
        /\ pc'[w] = IF settled[w] \/ job[w] = "reconcile" THEN "idle" ELSE "external"
    BY <1>3, <1>12 DEF EndReconcile, Go
  <2>2. WriterBound(w)'
    <3>1. CASE settled[w] \/ job[w] = "reconcile"
      BY <1>6, <2>1, <3>1
    <3>2. CASE ~(settled[w] \/ job[w] = "reconcile")
      BY <1>2, <1>3, <2>1, <3>2 DEF locals, WriterBound, ReconcileSteps
    <3> QED BY <3>1, <3>2
  <2>3. CASE settled[w]
    <3>1. draft[w] \in histories /\ Log = checkpoint
      BY <1>3, <2>1, <2>3 DEF WriterBound
    <3>2. IsPrefix(draft[w], checkpoint)
      BY <3>1 DEF LedgerInv, OneLog
    <3>3. \A h \in acked' : IsPrefix(h, checkpoint) /\ Len(h) \in Nat
      <4>1. \A h \in acked' : h \in Seq(1 .. MaxEvents)
        BY <1>1 DEF Typed, TypeOK, History
      <4> QED BY <1>3, <2>1, <2>3, <3>2, <4>1, LenProperties DEF AckedBound
    <3>4. \E h \in acked' : \A g \in acked' : Len(g) <= Len(h)
      <4>1. CASE acked = {}
        BY <2>1, <2>3, <3>3, <4>1
      <4>2. CASE acked # {}
        <5>1. PICK h \in acked : \A g \in acked : Len(g) <= Len(h)
          BY <1>3, <4>2 DEF AckedBound
        <5>2. CASE Len(draft[w]) <= Len(h)
          BY <2>1, <2>3, <5>1, <5>2
        <5>3. CASE ~(Len(draft[w]) <= Len(h))
          BY <2>1, <2>3, <3>3, <5>1, <5>3
        <5> QED BY <5>2, <5>3
      <4> QED BY <4>1, <4>2
    <3> QED BY <1>2, <2>2, <3>3, <3>4 DEF AckedBound
  <2> QED BY <1>5, <2>1, <2>2, <2>3
<1>13. ASSUME ReadExternal(w) PROVE WriterBound(w)' /\ AckedBound'
  <2>1. /\ pc[w] = "external" /\ pc'[w] = "transact" /\ tip'[w] = checkpoint
        /\ UNCHANGED <<job, settled, seen, draft, ghosts>>
    BY <1>3, <1>13 DEF ReadExternal, Go
  <2> QED BY <1>2, <1>3, <1>5, <2>1 DEF ghosts, WriterBound, ReconcileSteps
<1>14. ASSUME Inspect(w) \/ RefuseRollback(w) \/ Crash(w) PROVE WriterBound(w)' /\ AckedBound'
  <2>1. pc'[w] = "idle" /\ UNCHANGED ghosts
    BY <1>3, <1>14 DEF Inspect, RefuseRollback, Crash, Go, Raise
  <2> QED BY <1>5, <1>6, <2>1 DEF ghosts
<1>15. ASSUME Change(w) PROVE WriterBound(w)' /\ AckedBound'
  <2>1. /\ pc[w] = "transact" /\ job[w] = "execute" /\ pc'[w] = "prepare"
        /\ draft'[w] = events \o draft[w] /\ UNCHANGED <<job, settled, tip, seen, ghosts>>
    BY <1>3, <1>15 DEF Change, BeforeCommit, Go
  <2>2. ~settled[w] /\ \E e \in 1 .. MaxEvents : draft[w] = <<e>>
    BY <1>3, <2>1 DEF WriterBound, ReconcileSteps
  <2>3. \E e \in 1 .. MaxEvents : draft'[w] = Append(events, e)
    BY <2>1, <2>2, LogTypes, OneMore
  <2> QED BY <1>2, <1>3, <1>5, <2>1, <2>2, <2>3 DEF ghosts, WriterBound, ReconcileSteps
<1>16. ASSUME PrepareTip(w) PROVE WriterBound(w)' /\ AckedBound'
  <2>1. /\ pc[w] = "prepare" /\ pc'[w] = "examine"
        /\ UNCHANGED <<job, settled, seen, draft, ghosts>>
    BY <1>3, <1>16 DEF PrepareTip, Go
  <2> QED BY <1>5, <1>7, <2>1 DEF ghosts, Steps
<1>17. ASSUME PrepareReservation(w) PROVE WriterBound(w)' /\ AckedBound'
  <2>1. /\ pc[w] = "examine" /\ pc'[w] \in {"idle", "reserve"}
        /\ UNCHANGED <<job, settled, tip, draft, ghosts>>
    BY <1>3, <1>17 DEF PrepareReservation, Go, Raise
  <2>2. CASE pc'[w] = "reserve"
    BY <1>2, <1>3, <1>5, <2>1, <2>2 DEF ghosts, WriterBound, ReconcileSteps
  <2> QED BY <1>5, <1>6, <2>1, <2>2 DEF ghosts
<1> QED
  BY <1>8, <1>9, <1>10, <1>11, <1>12, <1>13, <1>14, <1>15, <1>16, <1>17 DEF LocalStep

-----------------------------------------------------------------------------
(* Calls, commits and what happens outside the writers.                    *)

\* A step that may move the authority as a harmless request does, or not at all.
LEMMA AuthorityKept ==
  ASSUME LedgerInv, Typed', UNCHANGED database, restores' = restores, acked' = acked,
         \A request \in late' : request \in late \/ Harmless(request),
         \/ UNCHANGED authority
         \/ \E request : /\ request.name \in {"checkpoint", "reservation"}
                         /\ Harmless(request) /\ Store(request)
  PROVE  /\ OneLog' /\ OneAhead' /\ (\A request \in late' : Harmless(request)') /\ AckedBound'
         /\ IsPrefix(checkpoint, checkpoint') /\ Log' = Log
         /\ Log = checkpoint => checkpoint' = checkpoint
         /\ (Prepared /\ checkpoint = Log /\ checkpoint = reservation.base)
              => reservation' = reservation
<1>1. Log' = Log /\ events' = events /\ histories' = histories
  BY DEF Log, database
<1>2. \A request \in late' : Harmless(request)'
  BY <1>1 DEF LedgerInv, Harmless
<1>3. /\ checkpoint' \in {checkpoint, Log}
      /\ OneAhead'
      /\ (Prepared /\ checkpoint = Log /\ checkpoint = reservation.base)
           => reservation' = reservation
  <2>1. CASE UNCHANGED authority
    BY <1>1, <2>1 DEF authority, Prepared, LedgerInv, OneAhead
  <2>2. CASE \E request : /\ request.name \in {"checkpoint", "reservation"}
                          /\ Harmless(request) /\ Store(request)
    BY <1>1, <2>2, HarmlessStore DEF OneAhead
  <2> QED BY <2>1, <2>2
<1>4. IsPrefix(checkpoint, checkpoint') /\ checkpoint' \in histories
  BY <1>3, CheckpointGrows
<1>5. OneLog'
  BY <1>1, <1>4 DEF LedgerInv, OneLog
<1>6. AckedBound'
  BY <1>4, LogTypes, AckedKept
<1> QED BY <1>1, <1>2, <1>3, <1>4, <1>5, <1>6

\* A call to the authority leaves the other writers and the log as they were.
LEMMA CallKept ==
  ASSUME LedgerInv, NEW w \in Writer, NEW request \in Request, NEW step \in Steps \ {"idle"},
         lock = w, step \in Transactional, Harmless(request),
         Call(w, request, step), UNCHANGED <<database, locals, ghosts>>,
         (Store(request) /\ pc'[w] = step) => WriterBound(w)'
  PROVE  LedgerInv'
<1>1. Typed'
  BY CallTyped DEF LedgerInv
<1>2. request.name \in {"checkpoint", "reservation"}
  BY DEF Request
<1>3. /\ restores' = restores /\ acked' = acked /\ floor' = floor
      /\ \A r \in late' : r \in late \/ Harmless(r)
      /\ UNCHANGED authority \/ Store(request)
  BY DEF Call, Fault, counters, ghosts
<1>4. /\ OneLog' /\ OneAhead' /\ (\A r \in late' : Harmless(r)') /\ AckedBound'
      /\ IsPrefix(checkpoint, checkpoint')
  BY <1>1, <1>2, <1>3, AuthorityKept
<1>5. pc \in [Writer -> Steps]
  BY DEF LedgerInv, Typed, TypeOK
<1>6. (pc'[w] = step /\ Store(request)) \/ pc'[w] = "idle"
  BY <1>5 DEF Call, Go, Raise
<1>7. WriterBound(w)'
  <2>1. IsPrefix(floor'[w], checkpoint')
    <3>1. floor[w] \in Seq(1 .. MaxEvents) /\ IsPrefix(floor[w], checkpoint)
      BY DEF LedgerInv, Typed, WriterBound, History
    <3>2. checkpoint' \in Seq(1 .. MaxEvents) /\ checkpoint \in Seq(1 .. MaxEvents)
      BY <1>1, LogTypes DEF Typed, TypeOK, History
    <3> QED BY <1>3, <1>4, <3>1, <3>2, PrefixTransitive
  <2> QED BY <1>6, <2>1, Idler
<1>8. ASSUME NEW v \in Writer, v # w PROVE WriterBound(v)'
  <2>1. pc'[v] = pc[v]
    BY <1>5, <1>8 DEF Call, Go, Raise
  <2> QED BY <1>1, <1>4, <1>8, <2>1, Bystander DEF locals, ghosts, database
<1> QED BY <1>1, <1>4, <1>7, <1>8 DEF LedgerInv

\* A reconciliation acknowledges what the database holds.
LEMMA AcknowledgeKept ==
  ASSUME LedgerInv, NEW w \in Writer, AcknowledgeTip(w)
  PROVE  LedgerInv'
<1> DEFINE request == [name |-> "checkpoint", previous |-> tip[w], value |-> events]
<1>1. /\ lock = w /\ pc[w] = "acknowledge" /\ tip[w] \in History /\ events \in histories
      /\ events \in History /\ pc \in [Writer -> Steps] /\ WriterBound(w)
  BY DEF AcknowledgeTip, LedgerInv, Typed, TypeOK, Transactional, OneLog
<1>2. request \in Request /\ Harmless(request)
  BY <1>1 DEF Request, Harmless
<1>3. Call(w, request, "finalize") /\ UNCHANGED <<database, locals, ghosts>>
  BY DEF AcknowledgeTip
<1>4. ASSUME Store(request), pc'[w] = "finalize" PROVE WriterBound(w)'
  <2>1. request.name \in {"checkpoint", "reservation"}
    BY DEF request
  <2> HIDE DEF request
  <2>2. checkpoint' \in {checkpoint, Log}
    BY <1>2, <1>4, <2>1, HarmlessStore
  <2>3. IsPrefix(checkpoint, checkpoint') /\ checkpoint' \in histories
    BY <2>2, CheckpointGrows
  <2>4. IsPrefix(floor[w], checkpoint')
    <3>1. floor[w] \in Seq(1 .. MaxEvents) /\ IsPrefix(floor[w], checkpoint)
      BY DEF LedgerInv, Typed, WriterBound, History
    <3>2. checkpoint' \in Seq(1 .. MaxEvents) /\ checkpoint \in Seq(1 .. MaxEvents)
      BY <2>3, LogTypes DEF History
    <3> QED BY <2>3, <3>1, <3>2, PrefixTransitive
  <2> QED BY <1>1, <1>3, <1>4, <2>4 DEF WriterBound, ReconcileSteps, locals, ghosts, database
<1> HIDE DEF request
<1>5. "finalize" \in Steps \ {"idle"} /\ "finalize" \in Transactional
  BY DEF Steps, Transactional
<1> QED BY <1>1, <1>2, <1>3, <1>4, <1>5, CallKept

\* It then closes the reservation, whose target the checkpoint has reached.
LEMMA FinalizeKept ==
  ASSUME LedgerInv, NEW w \in Writer, FinalizeReservation(w)
  PROVE  LedgerInv'
<1> DEFINE request == [name |-> "reservation", previous |-> seen[w],
                       value |-> [seen[w] EXCEPT !.status = "COMMITTED"]]
<1>1. /\ lock = w /\ pc[w] = "finalize" /\ pc \in [Writer -> Steps] /\ WriterBound(w)
      /\ OneAhead
  BY DEF FinalizeReservation, LedgerInv, Typed, TypeOK, Transactional
<1>2. seen[w] \in Reservation
  BY <1>1 DEF WriterBound
<1>3. /\ [seen[w] EXCEPT !.status = "COMMITTED"] \in Reservation
      /\ [seen[w] EXCEPT !.status = "COMMITTED"].status = "COMMITTED"
  BY <1>2 DEF Reservation
<1>4. /\ request \in Request /\ Harmless(request)
      /\ request.name = "reservation" /\ request.value.status = "COMMITTED"
  BY <1>2, <1>3 DEF Request, Harmless
<1>5. Call(w, request, "reconciled") /\ UNCHANGED <<database, locals, ghosts>>
  BY DEF FinalizeReservation
<1> HIDE DEF request
<1>6. ASSUME Store(request), pc'[w] = "reconciled" PROVE WriterBound(w)'
  <2>1. checkpoint' = checkpoint /\ Prepared /\ checkpoint = reservation.target
    BY <1>4, <1>6 DEF Store, Accepts, ReservationMayMove
  <2>2. Log = checkpoint
    BY <1>1, <2>1, LogTypes DEF OneAhead
  <2>3. Log' = checkpoint'
    BY <1>5, <2>1, <2>2 DEF Log, database
  <2> QED BY <1>1, <1>5, <1>6, <2>1, <2>3 DEF WriterBound, ReconcileSteps, locals, ghosts, database
<1>7. "reconciled" \in Steps \ {"idle"} /\ "reconciled" \in Transactional
  BY DEF Steps, Transactional
<1> QED BY <1>1, <1>4, <1>5, <1>6, <1>7, CallKept

\* An execution reserves the event it is about to commit.
LEMMA ReserveKept ==
  ASSUME LedgerInv, NEW w \in Writer, Reserve(w)
  PROVE  LedgerInv'
<1> DEFINE value == [base |-> tip[w], target |-> draft[w], status |-> "PREPARED"]
           request == [name |-> "reservation", previous |-> seen[w], value |-> value]
<1>1. /\ lock = w /\ pc[w] = "reserve" /\ pc \in [Writer -> Steps] /\ WriterBound(w)
      /\ OneAhead /\ tip[w] \in History /\ draft[w] \in History
      /\ seen[w] \in Reservation \cup {None}
  BY DEF Reserve, LedgerInv, Typed, TypeOK, Transactional
<1>2. value \in Reservation
  BY <1>1 DEF Reservation
<1>3. /\ request \in Request /\ Harmless(request)
      /\ request.name = "reservation" /\ request.value = value
  BY <1>1, <1>2 DEF Request, Harmless
<1>4. Call(w, request, "commit") /\ UNCHANGED <<database, locals, ghosts>>
  BY DEF Reserve
<1>5. value.base = tip[w] /\ value.target = draft[w] /\ value.status = "PREPARED"
  OBVIOUS
<1> HIDE DEF request
<1>6. ASSUME Store(request), pc'[w] = "commit" PROVE WriterBound(w)'
  <2>1. /\ checkpoint' = checkpoint /\ reservation' = value
        /\ checkpoint = tip[w] /\ ~Prepared
    BY <1>3, <1>5, <1>6 DEF Store, Accepts, ReservationMayMove
  <2>2. Log = checkpoint
    BY <1>1, <2>1 DEF OneAhead
  <2>3. Log' = checkpoint'
    BY <1>4, <2>1, <2>2 DEF Log, database
  <2>4. ~settled[w]
    BY <1>1 DEF WriterBound, ReconcileSteps
  <2> QED BY <1>1, <1>4, <1>6, <2>1, <2>2, <2>3, <2>4
          DEF WriterBound, ReconcileSteps, locals, ghosts, database
<1>7. "commit" \in Steps \ {"idle"} /\ "commit" \in Transactional
  BY DEF Steps, Transactional
<1> QED BY <1>1, <1>3, <1>4, <1>6, <1>7, CallKept

\* A commit appends the reserved event to an acknowledged log.
LEMMA CommitAppends ==
  ASSUME LedgerInv, NEW w \in Writer, Commit(w)
  PROVE  /\ checkpoint = Log /\ UNCHANGED authority
         /\ Prepared /\ reservation.base = Log /\ reservation.target = draft[w]
         /\ \E e \in 1 .. MaxEvents : Log' = Append(Log, e)
         /\ Log' = draft[w] /\ IsPrefix(Log, Log')
         /\ \A h \in histories' : IsPrefix(h, Log')
<1>1. /\ pc[w] = "commit" /\ histories' = histories \cup {draft[w]} /\ UNCHANGED authority
      /\ WriterBound(w) /\ OneAhead /\ draft[w] \in History
  BY DEF Commit, LedgerInv, Typed
<1>2. /\ reservation = [base |-> tip[w], target |-> draft[w], status |-> "PREPARED"]
      /\ checkpoint = tip[w] /\ checkpoint = Log
  BY <1>1 DEF WriterBound
<1>3. Prepared /\ reservation.base = Log /\ reservation.target = draft[w]
  <2>1. tip[w] \in History
    BY DEF LedgerInv, Typed
  <2>2. reservation \in Reservation
    BY <1>1, <1>2, <2>1 DEF Reservation
  <2> QED BY <1>2, <2>2, ReservationAssumption DEF Prepared
<1>4. Len(draft[w]) = Len(Log) + 1
  BY <1>1, <1>3 DEF OneAhead
<1>5. PICK e \in 1 .. MaxEvents : draft[w] = Append(events, e)
  BY <1>1 DEF WriterBound
<1>6. events = Log
  <2>1. Len(Append(events, e)) = Len(events) + 1
    BY LogTypes, OneMore
  <2>2. Len(events) = Len(Log) /\ events \in histories
    BY <1>4, <1>5, <2>1, LogTypes DEF LedgerInv, OneLog
  <2> QED BY <2>2, LogTypes, WholeLog
<1>7. IsPrefix(Log, draft[w]) /\ IsPrefix(draft[w], draft[w])
  BY <1>1, <1>5, <1>6, LogTypes, OneMore, PrefixReflexive DEF History
<1>8. \A h \in histories' : IsPrefix(h, draft[w])
  <2> SUFFICES ASSUME NEW h \in histories PROVE IsPrefix(h, draft[w])
    BY <1>1, <1>7
  <2>1. h \in Seq(1 .. MaxEvents) /\ Log \in Seq(1 .. MaxEvents) /\ draft[w] \in Seq(1 .. MaxEvents)
    BY <1>1, LogTypes DEF History
  <2>2. IsPrefix(h, Log)
    BY DEF LedgerInv, OneLog
  <2> QED BY <1>7, <2>1, <2>2, PrefixTransitive
<1>9. Log' = draft[w]
  <2>1. histories' \in SUBSET Seq(1 .. MaxEvents) /\ draft[w] \in histories'
    BY <1>1, LogTypes DEF History
  <2> QED BY <1>8, <2>1, LongestIs DEF Log
<1> QED BY <1>1, <1>2, <1>3, <1>5, <1>6, <1>7, <1>8, <1>9

LEMMA CommitKept ==
  ASSUME LedgerInv, NEW w \in Writer, Commit(w)
  PROVE  LedgerInv'
<1>1. Typed'
  BY GlobalTyped
<1>2. /\ lock = w /\ pc[w] = "commit"
      /\ events' = draft[w] /\ histories' = histories \cup {draft[w]}
      /\ pc' = [pc EXCEPT ![w] = "reconcile"] /\ settled' = [settled EXCEPT ![w] = TRUE]
      /\ UNCHANGED <<late, job, tip, seen, draft, floor, acked, restores>>
      /\ pc \in [Writer -> Steps] /\ settled \in [Writer -> BOOLEAN] /\ WriterBound(w)
  BY DEF Commit, AfterCommit, Go, counters, LedgerInv, Typed, TypeOK, Transactional
<1>3. /\ checkpoint = Log /\ checkpoint' = checkpoint /\ reservation' = reservation
      /\ Prepared /\ reservation.base = Log /\ reservation.target = draft[w]
      /\ Log' = draft[w] /\ \A h \in histories' : IsPrefix(h, Log')
  BY CommitAppends DEF authority
<1>4. OneLog'
  BY <1>2, <1>3 DEF LedgerInv, OneLog
<1>5. OneAhead'
  BY <1>3 DEF LedgerInv, OneAhead, Prepared
<1>6. \A request \in late' : Harmless(request)'
  BY <1>2 DEF LedgerInv, Harmless
<1>7. IsPrefix(checkpoint, checkpoint')
  BY <1>3, LogTypes, PrefixReflexive DEF History
<1>8. AckedBound'
  BY <1>2, <1>3 DEF LedgerInv, AckedBound
<1>9. WriterBound(w)'
  BY <1>2, <1>3 DEF WriterBound, ReconcileSteps
<1>10. ASSUME NEW v \in Writer, v # w PROVE WriterBound(v)'
  BY <1>1, <1>2, <1>7, <1>10, Bystander
<1> QED BY <1>1, <1>4, <1>5, <1>6, <1>8, <1>9, <1>10 DEF LedgerInv

\* A request that arrives after its sender has given up, or never.
LEMMA LateKept ==
  ASSUME LedgerInv, NEW request \in late, Deliver(request) \/ Drop(request)
  PROVE  LedgerInv'
<1>1. Typed'
  BY GlobalTyped
<1>2. /\ UNCHANGED <<database, lock, pc, locals, ghosts, counters>>
      /\ late' \subseteq late
      /\ UNCHANGED authority \/ Store(request)
  BY DEF Deliver, Drop
<1>3. request.name \in {"checkpoint", "reservation"} /\ Harmless(request)
  BY DEF LedgerInv, Typed, TypeOK, Request
<1>4. /\ OneLog' /\ OneAhead' /\ (\A r \in late' : Harmless(r)') /\ AckedBound'
      /\ IsPrefix(checkpoint, checkpoint')
      /\ Log = checkpoint => checkpoint' = checkpoint
      /\ (Prepared /\ checkpoint = Log /\ checkpoint = reservation.base)
           => reservation' = reservation
  BY <1>1, <1>2, <1>3, AuthorityKept DEF ghosts, counters
<1>5. ASSUME NEW v \in Writer PROVE WriterBound(v)'
  <2>1. pc[v] = "commit" => reservation' = reservation
    <3> SUFFICES ASSUME pc[v] = "commit"
                 PROVE  Prepared /\ checkpoint = Log /\ checkpoint = reservation.base
      BY <1>4
    <3>1. /\ reservation = [base |-> tip[v], target |-> draft[v], status |-> "PREPARED"]
          /\ checkpoint = tip[v] /\ checkpoint = Log
          /\ tip[v] \in History /\ draft[v] \in History
      BY DEF LedgerInv, WriterBound, Typed
    <3>2. reservation \in Reservation
      BY <3>1 DEF Reservation
    <3> QED BY <3>1, <3>2, ReservationAssumption DEF Prepared
  <2> QED BY <1>1, <1>2, <1>4, <2>1, Bystander DEF locals, ghosts, database
<1> QED BY <1>1, <1>4, <1>5 DEF LedgerInv

\* A database restored from any backup holds a part of the log.
LEMMA RestoreKept ==
  ASSUME LedgerInv, NEW h \in histories, Restore(h)
  PROVE  LedgerInv'
<1>1. Typed'
  BY GlobalTyped
<1>2. /\ lock = None /\ events' = h /\ restores' = restores + 1
      /\ UNCHANGED <<histories, authority, late, pc, locals, ghosts>>
      /\ restores \in Nat
  BY DEF Restore, LedgerInv, Typed, TypeOK
<1>3. Log' = Log /\ checkpoint' = checkpoint /\ reservation' = reservation
  BY <1>2 DEF Log, authority
<1>4. OneLog' /\ OneAhead' /\ AckedBound' /\ \A request \in late' : Harmless(request)'
  BY <1>2, <1>3 DEF LedgerInv, OneLog, OneAhead, Prepared, AckedBound, Harmless, ghosts
<1>5. IsPrefix(checkpoint, checkpoint')
  BY <1>3, LogTypes, PrefixReflexive DEF History
<1>6. \A v \in Writer : lock # v
  BY <1>2, NoneAssumption
<1>7. ASSUME NEW v \in Writer PROVE WriterBound(v)'
  BY <1>1, <1>2, <1>5, <1>6, Bystander DEF locals, ghosts
<1> QED BY <1>1, <1>4, <1>7 DEF LedgerInv

\* The observer aborts only what no database ever held.
LEMMA AbortKept ==
  ASSUME LedgerInv, Abort
  PROVE  LedgerInv'
<1>1. Typed'
  BY GlobalTyped
<1> DEFINE value == [reservation EXCEPT !.status = "ABORTED"]
           request == [name |-> "reservation", previous |-> reservation, value |-> value]
<1>2. /\ lock = None /\ Prepared /\ reservation.target \notin histories
      /\ UNCHANGED <<database, late, pc, locals, ghosts, counters>>
      /\ Store(request)
  BY DEF Abort, NotCommitted
<1>3. value.status = "ABORTED" /\ request.value = value /\ request.name = "reservation"
  BY <1>2 DEF LedgerInv, Typed, TypeOK, Prepared, Reservation
<1>4. checkpoint' = checkpoint /\ reservation' = value /\ checkpoint = reservation.base
  BY <1>2, <1>3 DEF Store, Accepts, ReservationMayMove
<1>5. ~Prepared' /\ Log' = Log
  BY <1>2, <1>3, <1>4 DEF Prepared, Log, database
<1>6. Log = checkpoint
  BY <1>2 DEF LedgerInv, OneAhead, OneLog
<1>7. /\ OneLog' /\ OneAhead' /\ AckedBound' /\ \A r \in late' : Harmless(r)'
  BY <1>2, <1>4, <1>5, <1>6 DEF LedgerInv, OneLog, OneAhead, AckedBound, Harmless,
                                 ghosts, counters, database
<1>8. IsPrefix(checkpoint, checkpoint')
  BY <1>4, LogTypes, PrefixReflexive DEF History
<1>9. \A v \in Writer : lock # v
  BY <1>2, NoneAssumption
<1>10. ASSUME NEW v \in Writer PROVE WriterBound(v)'
  BY <1>1, <1>2, <1>8, <1>9, Bystander DEF locals, ghosts, database
<1> QED BY <1>1, <1>7, <1>10 DEF LedgerInv

\* The kinds of steps the ledger takes.
LEMMA StepKinds ==
  ASSUME LedgerInv, Next
  PROVE  \/ \E w \in Writer : LocalStep(w)
         \/ \E w \in Writer : AcknowledgeTip(w) \/ FinalizeReservation(w) \/ Reserve(w)
         \/ \E w \in Writer : Commit(w)
         \/ \E request \in late : Deliver(request) \/ Drop(request)
         \/ \E h \in histories : Restore(h)
         \/ Abort
BY DEF Next, Step, LocalStep

-----------------------------------------------------------------------------
(* The theorems.                                                           *)

\* The invariant holds in every reachable state: whatever writers, late requests,
\* restores and the observer do keeps it.
THEOREM LedgerInvariant == Spec => []LedgerInv
<1>1. Init => LedgerInv
  <2> SUFFICES ASSUME Init PROVE LedgerInv
    OBVIOUS
  <2>1. <<>> \in History
    BY EmptyLog
  <2>2. IsPrefix(<<>>, <<>>)
    BY EmptyLog
  <2>3. Typed
    BY <2>1, NoneAssumption DEF Init, Typed, TypeOK, Steps, Transactional
  <2>4. Log = <<>>
    BY EmptyLog DEF Log, Init
  <2>5. OneLog /\ OneAhead /\ \A request \in late : Harmless(request)
    BY <2>2, <2>4 DEF Init, OneLog, OneAhead, Prepared
  <2>6. AckedBound
    BY DEF Init, AckedBound
  <2>7. \A w \in Writer : WriterBound(w)
    BY <2>2 DEF Init, WriterBound, ReconcileSteps
  <2> QED BY <2>3, <2>5, <2>6, <2>7 DEF LedgerInv
<1>2. LedgerInv /\ [Next]_vars => LedgerInv'
  <2> SUFFICES ASSUME LedgerInv, [Next]_vars PROVE LedgerInv'
    OBVIOUS
  <2>1. CASE UNCHANGED vars
    <3> USE <2>1 DEF vars, database, authority, locals, ghosts, counters
    <3>1. Typed' /\ Log' = Log
      BY DEF LedgerInv, Typed, TypeOK, Log
    <3>2. OneLog' /\ OneAhead' /\ AckedBound' /\ \A request \in late' : Harmless(request)'
      BY <3>1 DEF LedgerInv, OneLog, OneAhead, Prepared, AckedBound, Harmless
    <3>3. \A w \in Writer : WriterBound(w)'
      BY <3>1 DEF LedgerInv, WriterBound
    <3> QED BY <3>1, <3>2, <3>3 DEF LedgerInv
  <2>2. CASE Next
    BY <2>2, StepKinds, LocalKept, AcknowledgeKept, FinalizeKept, ReserveKept, CommitKept,
       LateKept, RestoreKept, AbortKept
  <2> QED BY <2>1, <2>2
<1> QED BY <1>1, <1>2, PTL DEF Spec

\* Every reachable state is well typed, and the database lock is held exactly
\* through the transactions.
THEOREM LedgerTypeCorrect == Spec => []TypeOK
<1>1. LedgerInv => TypeOK
  BY DEF LedgerInv, Typed
<1> QED BY <1>1, LedgerInvariant, PTL

\* No execution returns before the authority vouches for its event.
THEOREM AckedCheckpointed == Spec => []AckedIsCheckpointed
<1>1. LedgerInv => AckedIsCheckpointed
  BY DEF LedgerInv, AckedBound, AckedIsCheckpointed
<1> QED BY <1>1, LedgerInvariant, PTL

\* Between operations only a reserved event, or a restore, sets the database apart
\* from the checkpoint.
THEOREM DifferenceReserved == Spec => []DifferenceIsReserved
<1>1. LedgerInv => DifferenceIsReserved
  <2> SUFFICES ASSUME LedgerInv, events # checkpoint
               PROVE  \/ Prepared /\ events = reservation.target /\ checkpoint = reservation.base
                      \/ restores > 0 /\ Len(events) < Len(Log)
    BY DEF DifferenceIsReserved, Log
  <2>1. events \in histories /\ restores \in Nat /\ (restores = 0 => events = Log)
    BY DEF LedgerInv, OneLog, Typed, TypeOK
  <2>2. CASE events = Log
    BY <2>2 DEF LedgerInv, OneAhead
  <2>3. CASE events # Log
    BY <2>1, <2>3, LogTypes, WholeLog
  <2> QED BY <2>2, <2>3
<1> QED BY <1>1, LedgerInvariant, PTL

\* No inspection, even of a restored database, hides what was acknowledged
\* before it began.
THEOREM InspectionsComplete == Spec => InspectSeesAcked
<1>1. LedgerInv /\ [Next]_vars =>
        [\A w \in Writer : Inspect(w) => IsPrefix(floor[w], draft'[w])]_vars
  <2> SUFFICES ASSUME LedgerInv, NEW w \in Writer, Inspect(w)
               PROVE  IsPrefix(floor[w], draft'[w])
    OBVIOUS
  <2>1. /\ pc[w] = "transact" /\ job[w] = "inspect" /\ IsPrefix(tip[w], events)
        /\ draft'[w] = events
    BY DEF Inspect, Extends, LedgerInv, Typed
  <2>2. IsPrefix(floor[w], tip[w])
    BY <2>1 DEF LedgerInv, WriterBound
  <2>3. /\ floor[w] \in Seq(1 .. MaxEvents) /\ tip[w] \in Seq(1 .. MaxEvents)
        /\ events \in Seq(1 .. MaxEvents)
    BY DEF LedgerInv, Typed, TypeOK, History
  <2> QED BY <2>1, <2>2, <2>3, PrefixTransitive
<1> QED BY <1>1, LedgerInvariant, PTL DEF Spec, InspectSeesAcked

-----------------------------------------------------------------------------
(* The ledger implements the audit log.                                    *)

\* A request stored at the authority acknowledges the whole log or nothing new.
LEMMA StoreRefines ==
  ASSUME LedgerInv, checkpoint' \in {checkpoint, Log}, UNCHANGED database
  PROVE  Audit!Acknowledge \/ UNCHANGED <<Log, checkpoint>>
BY DEF Audit!Acknowledge, Log, database

\* Every step appends one event to an acknowledged log, acknowledges the log, or
\* changes neither: crashes, lost and late requests and restores are invisible.
THEOREM RefinesAuditLog == Spec => ImplementsAuditLog
<1>1. Init => Audit!Init
  <2> SUFFICES ASSUME Init PROVE Log = <<>> /\ checkpoint = <<>>
    BY DEF Audit!Init, Log
  <2> QED BY EmptyLog DEF Log, Init
<1>2. LedgerInv /\ LedgerInv' /\ [Next]_vars => [Audit!Next]_(Audit!vars)
  <2> SUFFICES ASSUME LedgerInv, LedgerInv', [Next]_vars
               PROVE  Audit!Next \/ UNCHANGED <<Log, checkpoint>>
    BY DEF Audit!vars, Log
  <2>1. ASSUME UNCHANGED <<histories, checkpoint>> PROVE UNCHANGED <<Log, checkpoint>>
    BY <2>1 DEF Log
  <2>2. CASE UNCHANGED vars
    BY <2>1, <2>2 DEF vars, database, authority
  <2>3. ASSUME NEW w \in Writer, LocalStep(w) PROVE UNCHANGED <<Log, checkpoint>>
    BY <2>1, <2>3, LocalUnchanged DEF database, authority
  <2>4. ASSUME NEW request, request.name \in {"checkpoint", "reservation"}, Harmless(request),
               UNCHANGED authority \/ Store(request), UNCHANGED database
        PROVE  Audit!Next \/ UNCHANGED <<Log, checkpoint>>
    BY <2>1, <2>4, HarmlessStore, StoreRefines DEF Audit!Next, database, authority
  <2>5. ASSUME NEW w \in Writer, AcknowledgeTip(w) \/ FinalizeReservation(w) \/ Reserve(w)
        PROVE  Audit!Next \/ UNCHANGED <<Log, checkpoint>>
    <3>1. ASSUME AcknowledgeTip(w) PROVE Audit!Next \/ UNCHANGED <<Log, checkpoint>>
      <4> DEFINE request == [name |-> "checkpoint", previous |-> tip[w], value |-> events]
      <4>1. request.name \in {"checkpoint", "reservation"} /\ Harmless(request)
        BY DEF LedgerInv, OneLog, Harmless
      <4>2. (UNCHANGED authority \/ Store(request)) /\ UNCHANGED database
        BY <3>1 DEF AcknowledgeTip, Call
      <4> QED BY <2>4, <4>1, <4>2
    <3>2. ASSUME NEW request, NEW step, Call(w, request, step), request.name = "reservation",
                 UNCHANGED database
          PROVE  UNCHANGED <<Log, checkpoint>>
      BY <2>1, <3>2 DEF Call, Store, database, authority
    <3>3. ASSUME FinalizeReservation(w) PROVE UNCHANGED <<Log, checkpoint>>
      <4> DEFINE request == [name |-> "reservation", previous |-> seen[w],
                             value |-> [seen[w] EXCEPT !.status = "COMMITTED"]]
      <4>1. Call(w, request, "reconciled") /\ UNCHANGED database /\ request.name = "reservation"
        BY <3>3 DEF FinalizeReservation
      <4> QED BY <3>2, <4>1
    <3>4. ASSUME Reserve(w) PROVE UNCHANGED <<Log, checkpoint>>
      <4> DEFINE request == [name |-> "reservation", previous |-> seen[w],
                 value |-> [base |-> tip[w], target |-> draft[w], status |-> "PREPARED"]]
      <4>1. Call(w, request, "commit") /\ UNCHANGED database /\ request.name = "reservation"
        BY <3>4 DEF Reserve
      <4> QED BY <3>2, <4>1
    <3> QED BY <2>5, <3>1, <3>3, <3>4
  <2>6. ASSUME NEW w \in Writer, Commit(w) PROVE Audit!Next
    <3>1. /\ checkpoint = Log /\ checkpoint' = checkpoint
          /\ \E e \in 1 .. MaxEvents : Log' = Append(Log, e)
      BY <2>6, CommitAppends DEF authority
    <3> QED BY <3>1 DEF Audit!Next, Audit!Commit, Log
  <2>7. ASSUME NEW request \in late, Deliver(request) \/ Drop(request)
        PROVE  Audit!Next \/ UNCHANGED <<Log, checkpoint>>
    <3>1. request.name \in {"checkpoint", "reservation"} /\ Harmless(request)
      BY DEF LedgerInv, Typed, TypeOK, Request
    <3>2. (UNCHANGED authority \/ Store(request)) /\ UNCHANGED database
      BY <2>7 DEF Deliver, Drop
    <3> QED BY <2>4, <3>1, <3>2
  <2>8. ASSUME NEW h \in histories, Restore(h) PROVE UNCHANGED <<Log, checkpoint>>
    BY <2>1, <2>8 DEF Restore, authority
  <2>9. CASE Abort
    <3>1. checkpoint' = checkpoint /\ histories' = histories
      BY <2>9 DEF Abort, Store, database
    <3> QED BY <2>1, <3>1
  <2> QED
    BY <2>2, <2>3, <2>5, <2>6, <2>7, <2>8, <2>9, StepKinds
<1> QED
  BY <1>1, <1>2, LedgerInvariant, PTL DEF Spec, ImplementsAuditLog, Audit!Spec
=============================================================================
