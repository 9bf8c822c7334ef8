----------------------------- MODULE Psop_proofs -----------------------------
(***************************************************************************)
(* Proofs about the PSOP gateway and its client.                           *)
(*                                                                         *)
(* PsopGateway, for every set of attempts, processes and plans, every      *)
(* adopted base and every bound: its types, that what the ledger says of a *)
(* request stays true of the branch, and that only the pending job of the  *)
(* realm moves the branch, under its open intent.                          *)
(*                                                                         *)
(* PsopClient, for every set of names and views, any number of             *)
(* publications, descriptors and orphaned DNF processes, and any length of *)
(* approvals and descriptors.                                              *)
(***************************************************************************)
EXTENDS PsopGateway, PsopClient, SequenceTheorems, TLAPS

-----------------------------------------------------------------------------
(* Records and the branch.                                                 *)

\* Writing one record leaves the others alone.
LEMMA SetOne ==
  ASSUME Types, NEW a \in Attempt, NEW r \in AttemptRecord, SetAttempt(a, r)
  PROVE  /\ attempts' \in [Attempt -> AttemptRecord]
         /\ attempts'[a] = r
         /\ \A b \in Attempt \ {a} : attempts'[b] = attempts[b]
BY DEF Types, SetAttempt

\* The branch is appended to: it grows, and holds what it held and one more.
LEMMA BranchGrows ==
  ASSUME branch \in Seq(Attempt), NEW a \in Attempt, branch' = Append(branch, a)
  PROVE  /\ branch' \in Seq(Attempt)
         /\ Len(branch') = Len(branch) + 1
         /\ \A b : OnBranch(b)' <=> OnBranch(b) \/ b = a
<1>1. /\ branch' \in Seq(Attempt) /\ Len(branch') = Len(branch) + 1
      /\ DOMAIN branch = 1 .. Len(branch) /\ DOMAIN branch' = 1 .. Len(branch) + 1
      /\ \A i \in 1 .. Len(branch) : branch'[i] = branch[i]
      /\ branch'[Len(branch) + 1] = a
      /\ Len(branch) \in Nat
  OBVIOUS
<1>2. \A b : OnBranch(b)' <=> OnBranch(b) \/ b = a
  BY <1>1 DEF OnBranch
<1>3. QED
  BY <1>1, <1>2

\* A branch at the target holds the attempt and is longer than its base.
LEMMA TargetHolds ==
  ASSUME NEW e \in Seq(Attempt), NEW a \in Attempt, branch = Append(e, a)
  PROVE  OnBranch(a) /\ Len(e) < Len(branch)
<1>1. /\ Len(e) \in Nat /\ Len(branch) = Len(e) + 1 /\ branch[Len(e) + 1] = a
      /\ DOMAIN branch = 1 .. Len(e) + 1
  OBVIOUS
<1>2. QED
  BY <1>1 DEF OnBranch

\* What a worker carries is an attempt record of its own.
LEMMA MineTyped ==
  ASSUME GatewayInv, NEW w \in Worker, worker[w].step # "idle"
  PROVE  /\ worker[w].attempt \in Attempt
         /\ Mine(w) = attempts[worker[w].attempt]
         /\ Mine(w) \in AttemptRecord
BY DEF GatewayInv, TypeOK, Types, WorkerInv, Mine

\* The fields of a record have the types of its definition.
LEMMA RecordFields ==
  ASSUME NEW r \in AttemptRecord
  PROVE  /\ r.state \in {"ABSENT", "PREPARED", "STAGED", "UNKNOWN", "ABORTED"} \cup Final
         /\ r.stable \in BOOLEAN /\ r.live \in BOOLEAN /\ r.checked \in BOOLEAN
         /\ r.leased \in BOOLEAN
         /\ r.previous \in View /\ r.result \in View
         /\ r.expected \in Seq(Attempt) /\ Len(r.expected) \in Nat
         /\ r.epoch \in Nat /\ r.fence \in Nat
         /\ r.status \in {None, "PENDING", "COMPLETE", "FAILED"}
         /\ r.intent \in IntentStatus \cup {None}
BY DEF AttemptRecord

-----------------------------------------------------------------------------
(* The invariant, record by record and worker by worker.                   *)

\* What a worker at step k needs of the records f.
Carries(k, f) ==
  k.step # "idle" =>
    /\ k.attempt \in Attempt /\ f[k.attempt].state \notin {"ABSENT", "PREPARED"}
    /\ k.step \in {"request", "apply"} => f[k.attempt].intent # None
    /\ k.step = "confirm" => OnBranch(k.attempt) /\ Len(f[k.attempt].expected) < Len(branch)
    /\ k.step = "complete" => f[k.attempt].intent = "CONFIRMED"

\* What a record of attempt a must say.
Says(a, r) ==
  /\ r.status = "COMPLETE" => r.intent = "CONFIRMED"
  /\ r.intent = "ABORTED" <=> (r.status = "FAILED" /\ r.intent # "CONFIRMED")
  /\ r.state \in {"ABSENT", "PREPARED"} => r.intent = None /\ r.status = None /\ ~OnBranch(a)
  /\ \A i \in DOMAIN r.expected : r.expected[i] # a
  /\ r.intent = "IN_FLIGHT" => r.status = "PENDING"
  /\ r.intent = "CONFIRMED" => OnBranch(a) /\ Len(r.expected) < Len(branch)
  /\ r.intent = "ABORTED" => ~OnBranch(a) /\ r.epoch < epoch
  /\ r.state \in Final => OnBranch(a)

\* A record keeps what workers rely on.
Keeps(old, new) ==
  old.state \notin {"ABSENT", "PREPARED"} =>
    /\ new.state \notin {"ABSENT", "PREPARED"}
    /\ new.expected = old.expected
    /\ old.intent # None => new.intent # None
    /\ old.intent = "CONFIRMED" => new.intent = "CONFIRMED"

\* The invariant in these terms.
LEMMA Invariant ==
  GatewayInv <=> /\ Types
                 /\ PendingAlone
                 /\ \A a \in Attempt : Says(a, attempts[a])
                 /\ \A w \in Worker : Carries(worker[w], attempts)
BY DEF GatewayInv, TypeOK, IntentInv, WorkerInv, Says, Carries, Mine

-----------------------------------------------------------------------------
(* Steps that change no record and not the branch.                         *)

\* A worker moves on, and carries what its new step asks for.
LEMMA WorkerMoves ==
  ASSUME GatewayInv, NEW w \in Worker, NEW k \in WorkerRecord,
         UNCHANGED <<head, imported, attempts, branch, epoch>>,
         proof' \in [attempt : Attempt, epoch : Nat] \cup {None},
         worker' = [worker EXCEPT ![w] = k],
         Carries(k, attempts)
  PROVE  GatewayInv'
<1>1. worker' \in [Worker -> WorkerRecord] /\ worker'[w] = k
      /\ \A v \in Worker \ {w} : worker'[v] = worker[v]
  BY DEF GatewayInv, TypeOK, Types
<1>2. TypeOK'
  BY <1>1 DEF GatewayInv, TypeOK, Types
<1>3. PendingAlone' /\ IntentInv'
  BY DEF GatewayInv, PendingAlone, IntentInv, OnBranch
<1>4. WorkerInv'
  BY <1>1 DEF GatewayInv, WorkerInv, Mine, OnBranch, Carries
<1>5. QED
  BY <1>2, <1>3, <1>4 DEF GatewayInv

-----------------------------------------------------------------------------
(* Steps that write one record and leave the branch.                       *)

\* A step that writes one record keeps the invariant when the record says what
\* it must and keeps what workers rely on.
LEMMA RecordChanges ==
  ASSUME GatewayInv, NEW a \in Attempt, NEW r \in AttemptRecord, SetAttempt(a, r),
         UNCHANGED <<imported, branch, epoch>>,
         head' \in [digest : View, generation : Nat],
         proof' \in [attempt : Attempt, epoch : Nat] \cup {None},
         worker' \in [Worker -> WorkerRecord],
         \A w \in Worker : worker'[w] = worker[w] \/ Carries(worker'[w], attempts'),
         Says(a, r),
         r.status = "PENDING" => \A b \in Attempt \ {a} : attempts[b].status # "PENDING",
         Keeps(attempts[a], r)
  PROVE  GatewayInv'
<1>0. Types /\ PendingAlone /\ (\A b \in Attempt : Says(b, attempts[b]))
      /\ (\A w \in Worker : Carries(worker[w], attempts))
  BY Invariant
<1>1. /\ attempts' \in [Attempt -> AttemptRecord] /\ attempts'[a] = r
      /\ \A b \in Attempt \ {a} : attempts'[b] = attempts[b]
  BY <1>0, SetOne
<1>2. Types'
  BY <1>0, <1>1 DEF Types
<1>3. PendingAlone'
  BY <1>0, <1>1 DEF PendingAlone
<1>4. ASSUME NEW b \in Attempt
      PROVE  Says(b, attempts[b])'
  <2>1. Says(b, attempts'[b])
    BY <1>0, <1>1
  <2>2. QED
    BY <2>1 DEF Says, OnBranch
<1>5. ASSUME NEW w \in Worker
      PROVE  Carries(worker[w], attempts)'
  <2>1. Carries(worker'[w], attempts')
    <3>1. CASE worker'[w] = worker[w]
      <4>1. Carries(worker[w], attempts)
        BY <1>0
      <4>2. QED
        BY <3>1, <4>1, <1>1 DEF Carries, Keeps
    <3>2. QED
      BY <3>1
  <2>2. QED
    BY <2>1 DEF Carries, OnBranch
<1>6. QED
  <2>1. (Types /\ PendingAlone /\ (\A b \in Attempt : Says(b, attempts[b]))
         /\ (\A w \in Worker : Carries(worker[w], attempts)))'
    BY <1>2, <1>3, <1>4, <1>5
  <2>2. QED
    BY <2>1 DEF GatewayInv, TypeOK, IntentInv, WorkerInv, Says, Carries, Mine

-----------------------------------------------------------------------------
(* The actions of Next.                                                    *)

\* Preparation starts a record that nobody works on yet.
LEMMA PrepareStep ==
  ASSUME GatewayInv, NEW a \in Attempt, NEW plan \in Plan, NEW stable \in BOOLEAN,
         Prepare(a, plan, stable)
  PROVE  GatewayInv'
<1>1. Types /\ Says(a, attempts[a]) /\ attempts[a].state = "ABSENT"
  BY Invariant DEF Prepare
<1>. DEFINE r == [state |-> "PREPARED", stable |-> stable, previous |-> head.digest,
                  result |-> Append(head.digest, plan), expected |-> branch, epoch |-> epoch,
                  live |-> TRUE, checked |-> FALSE, status |-> None, intent |-> None,
                  fence |-> 0, leased |-> FALSE]
<1>2. r \in AttemptRecord /\ SetAttempt(a, r)
  <2>1. head.digest \in View /\ branch \in Seq(Attempt) /\ epoch \in Nat
    BY <1>1 DEF Types
  <2>2. Append(head.digest, plan) \in View
    BY <2>1 DEF View
  <2>3. r \in AttemptRecord
    BY <2>1, <2>2 DEF AttemptRecord
  <2>4. QED
    BY <2>3 DEF Prepare
<1>3. /\ r.state = "PREPARED" /\ r.status = None /\ r.intent = None
      /\ r.expected = branch
  OBVIOUS
<1>4. ~OnBranch(a)
  BY <1>1 DEF Says
<1>5. Says(a, r)
  BY <1>3, <1>4, NoneAssumption DEF Says, OnBranch, Final
<1>6. Keeps(attempts[a], r)
  BY <1>1 DEF Keeps
<1>. HIDE DEF r
<1>7. QED
  BY <1>1, <1>2, <1>3, <1>5, <1>6, NoneAssumption, RecordChanges DEF Prepare, Types

\* Everything that leaves the state, the intent and the status of a record.
LEMMA QuietRecord ==
  ASSUME GatewayInv, NEW a \in Attempt, NEW r \in AttemptRecord, SetAttempt(a, r),
         r.state = attempts[a].state \/ (r.state = "UNKNOWN"
                                         /\ attempts[a].state \notin {"ABSENT", "PREPARED"}),
         r.status = attempts[a].status, r.intent = attempts[a].intent,
         r.expected = attempts[a].expected, r.epoch = attempts[a].epoch,
         UNCHANGED <<head, imported, branch, epoch>>,
         proof' \in [attempt : Attempt, epoch : Nat] \cup {None},
         worker' \in [Worker -> WorkerRecord],
         \A w \in Worker : worker'[w] = worker[w] \/ Carries(worker'[w], attempts')
  PROVE  GatewayInv'
<1>1. Types /\ PendingAlone /\ Says(a, attempts[a])
  BY Invariant
<1>2. Says(a, r)
  BY <1>1 DEF Says, Final
<1>3. Keeps(attempts[a], r)
  BY DEF Keeps
<1>4. r.status = "PENDING" => \A b \in Attempt \ {a} : attempts[b].status # "PENDING"
  BY <1>1 DEF PendingAlone
<1>5. QED
  BY <1>1, <1>2, <1>3, <1>4, RecordChanges DEF Types

\* The environment's steps on one record.
LEMMA EnvironmentStep ==
  ASSUME GatewayInv, NEW a \in Attempt, CheckBase(a) \/ Expire(a) \/ LeaseEnds(a)
  PROVE  GatewayInv'
<1>1. Types /\ attempts[a] \in AttemptRecord
  BY Invariant DEF Types
<1>2. CASE CheckBase(a)
  <2>. DEFINE r == [attempts[a] EXCEPT !.checked = TRUE]
  <2>1. /\ r \in AttemptRecord /\ r.state = attempts[a].state /\ r.status = attempts[a].status
        /\ r.intent = attempts[a].intent /\ r.expected = attempts[a].expected
        /\ r.epoch = attempts[a].epoch
    BY <1>1 DEF AttemptRecord
  <2>2. SetAttempt(a, r) /\ UNCHANGED <<head, imported, branch, epoch, proof, worker>>
    BY <1>2 DEF CheckBase
  <2>. HIDE DEF r
  <2>3. QED
    BY <1>1, <2>1, <2>2, QuietRecord DEF Types
<1>3. CASE Expire(a)
  <2>. DEFINE r == [attempts[a] EXCEPT !.live = FALSE]
  <2>1. /\ r \in AttemptRecord /\ r.state = attempts[a].state /\ r.status = attempts[a].status
        /\ r.intent = attempts[a].intent /\ r.expected = attempts[a].expected
        /\ r.epoch = attempts[a].epoch
    BY <1>1 DEF AttemptRecord
  <2>2. SetAttempt(a, r) /\ UNCHANGED <<head, imported, branch, epoch, proof, worker>>
    BY <1>3 DEF Expire
  <2>. HIDE DEF r
  <2>3. QED
    BY <1>1, <2>1, <2>2, QuietRecord DEF Types
<1>4. CASE LeaseEnds(a)
  <2>. DEFINE r == [attempts[a] EXCEPT !.leased = FALSE]
  <2>1. /\ r \in AttemptRecord /\ r.state = attempts[a].state /\ r.status = attempts[a].status
        /\ r.intent = attempts[a].intent /\ r.expected = attempts[a].expected
        /\ r.epoch = attempts[a].epoch
    BY <1>1 DEF AttemptRecord
  <2>2. SetAttempt(a, r) /\ UNCHANGED <<head, imported, branch, epoch, proof, worker>>
    BY <1>4 DEF LeaseEnds
  <2>. HIDE DEF r
  <2>3. QED
    BY <1>1, <2>1, <2>2, QuietRecord DEF Types
<1>5. QED
  BY <1>2, <1>3, <1>4

\* The job becomes pending, alone.
LEMMA EnqueueStep ==
  ASSUME GatewayInv, NEW a \in Attempt, Enqueue(a)
  PROVE  GatewayInv'
<1>1. Types /\ Says(a, attempts[a]) /\ attempts[a] \in AttemptRecord /\ attempts[a].state = "PREPARED"
  BY Invariant DEF Types, Enqueue
<1>. DEFINE r == [attempts[a] EXCEPT !.state = "STAGED", !.status = "PENDING"]
<1>2. /\ r \in AttemptRecord /\ r.state = "STAGED" /\ r.status = "PENDING"
      /\ r.intent = attempts[a].intent /\ r.expected = attempts[a].expected
      /\ r.epoch = attempts[a].epoch
  BY <1>1 DEF AttemptRecord
<1>3. SetAttempt(a, r) /\ UNCHANGED <<head, imported, branch, epoch, worker>> /\ proof' = None
      /\ \A b \in Attempt : attempts[b].status # "PENDING"
  BY DEF Enqueue, Transaction, RealmFree
<1>. HIDE DEF r
<1>4. Says(a, r)
  BY <1>1, <1>2, NoneAssumption DEF Says, Final
<1>5. Keeps(attempts[a], r)
  BY <1>1 DEF Keeps
<1>6. QED
  BY <1>1, <1>2, <1>3, <1>4, <1>5, RecordChanges DEF Types

\* A worker's record with another step is a worker's record.
LEMMA StepTo ==
  ASSUME Types, NEW w \in Worker,
         NEW step \in {"claim", "admit", "request", "apply", "unknown", "inspect", "observe",
                       "confirm", "complete"},
         Goto(w, step)
  PROVE  LET k == [worker[w] EXCEPT !.step = step]
         IN /\ k \in WorkerRecord /\ k.step = step /\ k.attempt = worker[w].attempt
            /\ worker' = [worker EXCEPT ![w] = k]
            /\ worker' \in [Worker -> WorkerRecord]
            /\ worker'[w] = k
            /\ \A v \in Worker \ {w} : worker'[v] = worker[v]
<1>. DEFINE k == [worker[w] EXCEPT !.step = step]
<1>1. worker[w] \in WorkerRecord
  BY DEF Types
<1>2. k \in WorkerRecord /\ k.step = step /\ k.attempt = worker[w].attempt
  BY <1>1 DEF WorkerRecord
<1>3. worker' = [worker EXCEPT ![w] = k]
  BY DEF Goto
<1>. HIDE DEF k
<1>4. QED
  BY <1>2, <1>3 DEF Types, k

\* An idle worker is a worker's record that needs nothing.
LEMMA IdleFits ==
  ASSUME NEW f
  PROVE  Idle \in WorkerRecord /\ Idle.step = "idle" /\ Carries(Idle, f)
BY DEF Idle, WorkerRecord, Carries

\* Leaving makes a worker idle.
LEMMA Leaves ==
  ASSUME Types, NEW w \in Worker, Leave(w)
  PROVE  /\ worker' = [worker EXCEPT ![w] = Idle]
         /\ worker' \in [Worker -> WorkerRecord]
         /\ \A v \in Worker : worker'[v] = worker[v] \/ Carries(worker'[v], attempts')
BY IdleFits DEF Leave, Types

\* The steps of a worker that write nothing but its place.
LEMMA WorkerStep ==
  ASSUME GatewayInv, NEW w \in Worker,
         \/ \E a \in Attempt : BeginApply(w, a) \/ BeginReconcile(w, a)
         \/ Request(w) \/ Inspect(w) \/ Observe(w) \/ Stop(w)
  PROVE  GatewayInv'
<1>1. Types /\ Carries(worker[w], attempts) /\ worker[w] \in WorkerRecord
  BY Invariant DEF Types
<1>2. ASSUME NEW a \in Attempt, BeginApply(w, a)
      PROVE  GatewayInv'
  <2>. DEFINE k == [Idle EXCEPT !.step = "claim", !.attempt = a]
  <2>1. k \in WorkerRecord /\ k.step = "claim" /\ k.attempt = a
    BY DEF Idle, WorkerRecord
  <2>2. /\ worker' = [worker EXCEPT ![w] = k]
        /\ UNCHANGED <<head, imported, attempts, branch, epoch, proof>>
        /\ attempts[a].state \notin {"ABSENT", "PREPARED"}
    BY <1>2 DEF BeginApply
  <2>. HIDE DEF k
  <2>3. Carries(k, attempts)
    BY <2>1, <2>2 DEF Carries
  <2>4. QED
    BY <1>1, <2>1, <2>2, <2>3, WorkerMoves DEF Types
<1>3. ASSUME NEW a \in Attempt, BeginReconcile(w, a)
      PROVE  GatewayInv'
  <2>. DEFINE k == [Idle EXCEPT !.step = "inspect", !.attempt = a]
  <2>1. k \in WorkerRecord /\ k.step = "inspect" /\ k.attempt = a
    BY DEF Idle, WorkerRecord
  <2>2. /\ worker' = [worker EXCEPT ![w] = k]
        /\ UNCHANGED <<head, imported, attempts, branch, epoch, proof>>
        /\ attempts[a].state \notin {"ABSENT", "PREPARED"}
    BY <1>3 DEF BeginReconcile
  <2>. HIDE DEF k
  <2>3. Carries(k, attempts)
    BY <2>1, <2>2 DEF Carries
  <2>4. QED
    BY <1>1, <2>1, <2>2, <2>3, WorkerMoves DEF Types
<1>4. CASE Request(w)
  <2>. DEFINE k == [worker[w] EXCEPT !.step = "apply"]
  <2>1. /\ k \in WorkerRecord /\ k.step = "apply" /\ k.attempt = worker[w].attempt
        /\ worker' = [worker EXCEPT ![w] = k]
    BY <1>1, <1>4, StepTo DEF Request
  <2>2. UNCHANGED <<head, imported, attempts, branch, epoch>> /\ proof' = None
        /\ worker[w].step = "request"
    BY <1>4 DEF Request, Transaction, At
  <2>. HIDE DEF k
  <2>3. Carries(k, attempts)
    BY <1>1, <2>1, <2>2 DEF Carries
  <2>4. QED
    BY <1>1, <2>1, <2>2, <2>3, WorkerMoves
<1>5. CASE Inspect(w)
  <2>1. UNCHANGED <<head, imported, attempts, branch, epoch, proof>>
        /\ worker[w].step = "inspect" /\ (Leave(w) \/ Goto(w, "observe"))
    BY <1>5 DEF Inspect, At
  <2>2. CASE Leave(w)
    BY <1>1, <2>1, <2>2, IdleFits, WorkerMoves DEF Leave, Types
  <2>3. CASE Goto(w, "observe")
    <3>. DEFINE k == [worker[w] EXCEPT !.step = "observe"]
    <3>1. /\ k \in WorkerRecord /\ k.step = "observe" /\ k.attempt = worker[w].attempt
          /\ worker' = [worker EXCEPT ![w] = k]
      BY <1>1, <2>3, StepTo
    <3>. HIDE DEF k
    <3>2. Carries(k, attempts)
      BY <1>1, <2>1, <3>1 DEF Carries
    <3>3. QED
      BY <1>1, <2>1, <3>1, <3>2, WorkerMoves DEF Types
  <2>4. QED
    BY <2>1, <2>2, <2>3
<1>6. CASE Observe(w)
  <2>. DEFINE k == [worker[w] EXCEPT !.step = "confirm", !.seen = Mine(w).intent]
  <2>1. /\ worker[w].step = "observe" /\ branch = Target(worker[w].attempt)
        /\ worker' = [worker EXCEPT ![w] = k]
        /\ UNCHANGED <<head, imported, attempts, branch, epoch, proof>>
    BY <1>6 DEF Observe, At, Shows, AfterShown
  <2>2. worker[w].attempt \in Attempt /\ Mine(w) \in AttemptRecord
        /\ Mine(w) = attempts[worker[w].attempt]
    BY <2>1, MineTyped
  <2>3. k \in WorkerRecord /\ k.step = "confirm" /\ k.attempt = worker[w].attempt
    BY <1>1, <2>2, RecordFields DEF WorkerRecord
  <2>4. Mine(w).expected \in Seq(Attempt) /\ branch = Append(Mine(w).expected, worker[w].attempt)
    BY <2>1, <2>2, RecordFields DEF Target
  <2>5. OnBranch(worker[w].attempt) /\ Len(Mine(w).expected) < Len(branch)
    BY <2>2, <2>4, TargetHolds
  <2>. HIDE DEF k
  <2>6. Carries(k, attempts)
    BY <1>1, <2>1, <2>2, <2>3, <2>5 DEF Carries
  <2>7. QED
    BY <1>1, <2>1, <2>3, <2>6, WorkerMoves DEF Types
<1>7. CASE Stop(w)
  BY <1>1, <1>7, IdleFits, WorkerMoves DEF Stop, Leave, Types
<1>8. QED
  BY <1>2, <1>3, <1>4, <1>5, <1>6, <1>7

\* A new lease of a job changes nothing else of its record.
LEMMA NewLease ==
  ASSUME NEW q \in AttemptRecord
  PROVE  LET r == [q EXCEPT !.fence = @ + 1, !.leased = TRUE]
         IN /\ r \in AttemptRecord /\ r.state = q.state /\ r.status = q.status
            /\ r.intent = q.intent /\ r.expected = q.expected /\ r.epoch = q.epoch
<1>1. q.fence + 1 \in Nat
  BY DEF AttemptRecord
<1>2. QED
  BY <1>1 DEF AttemptRecord

\* A worker that was granted a lease is a worker's record.
LEMMA Granted ==
  ASSUME NEW q \in WorkerRecord, NEW f \in Nat
  PROVE  LET k == [q EXCEPT !.step = "admit", !.fence = f]
         IN k \in WorkerRecord /\ k.step = "admit" /\ k.attempt = q.attempt
BY DEF WorkerRecord

\* The steps of a worker that leave state, status and intent of its record, or
\* mark it unknown.
LEMMA QuietWorkerStep ==
  ASSUME GatewayInv, NEW w \in Worker, Claim(w) \/ MarkUnknown(w)
  PROVE  GatewayInv'
<1>. DEFINE a == worker[w].attempt
<1>1. Types /\ Carries(worker[w], attempts) /\ worker[w] \in WorkerRecord
  BY Invariant DEF Types
<1>2. /\ a \in Attempt /\ Mine(w) \in AttemptRecord /\ Mine(w) = attempts[a]
      /\ attempts[a].state \notin {"ABSENT", "PREPARED"}
  BY <1>1, MineTyped DEF Claim, MarkUnknown, At, Carries
<1>3. CASE Claim(w)
  <2>. DEFINE r == [Mine(w) EXCEPT !.fence = @ + 1, !.leased = TRUE]
  <2>. DEFINE k == [worker[w] EXCEPT !.step = "admit", !.fence = Mine(w).fence + 1]
  <2>1. /\ r \in AttemptRecord /\ r.state = attempts[a].state /\ r.status = attempts[a].status
        /\ r.intent = attempts[a].intent /\ r.expected = attempts[a].expected
        /\ r.epoch = attempts[a].epoch
    BY <1>2, NewLease
  <2>2. SetAttempt(a, r) /\ UNCHANGED <<head, imported, branch, epoch>> /\ proof' = None
    BY <1>3 DEF Claim, Transaction
  <2>3. k \in WorkerRecord /\ k.step = "admit" /\ k.attempt = a
    <3>1. Mine(w).fence + 1 \in Nat
      BY <1>2, RecordFields
    <3>2. QED
      BY <1>1, <3>1, Granted
  <2>4. worker' = [worker EXCEPT ![w] = k]
    BY <1>3 DEF Claim
  <2>. HIDE DEF r, k
  <2>5. attempts'[a] = r
    BY <1>1, <1>2, <2>1, <2>2, SetOne
  <2>6. Carries(k, attempts')
    BY <1>2, <2>1, <2>3, <2>5 DEF Carries
  <2>7. /\ worker' \in [Worker -> WorkerRecord]
        /\ \A v \in Worker : worker'[v] = worker[v] \/ Carries(worker'[v], attempts')
    BY <1>1, <2>3, <2>4, <2>6 DEF Types
  <2>8. QED
    BY <1>2, <2>1, <2>2, <2>7, QuietRecord
<1>4. CASE MarkUnknown(w)
  <2>. DEFINE r == [Mine(w) EXCEPT !.state = "UNKNOWN"]
  <2>1. /\ r \in AttemptRecord /\ r.state = "UNKNOWN" /\ r.status = attempts[a].status
        /\ r.intent = attempts[a].intent /\ r.expected = attempts[a].expected
        /\ r.epoch = attempts[a].epoch
    BY <1>2 DEF AttemptRecord
  <2>2. SetAttempt(a, r) /\ UNCHANGED <<head, imported, branch, epoch>> /\ proof' = None
    BY <1>4 DEF MarkUnknown, Transaction
  <2>. HIDE DEF r
  <2>3. /\ worker' \in [Worker -> WorkerRecord]
        /\ \A v \in Worker : worker'[v] = worker[v] \/ Carries(worker'[v], attempts')
    BY <1>1, <1>4, Leaves DEF MarkUnknown
  <2>4. QED
    BY <1>2, <2>1, <2>2, <2>3, QuietRecord
<1>5. QED
  BY <1>3, <1>4

\* The steps of a worker that write an intent or finish a job.
LEMMA IntentStep ==
  ASSUME GatewayInv, NEW w \in Worker,
         Admit(w) \/ Confirm(w) \/ CompleteExpired(w) \/ Complete(w)
  PROVE  GatewayInv'
<1>. DEFINE a == worker[w].attempt
<1>1. Types /\ PendingAlone /\ Carries(worker[w], attempts) /\ worker[w] \in WorkerRecord
  BY Invariant DEF Types
<1>2. /\ a \in Attempt /\ Mine(w) \in AttemptRecord /\ Mine(w) = attempts[a]
      /\ attempts[a].state \notin {"ABSENT", "PREPARED"}
  BY <1>1, MineTyped DEF Admit, Confirm, CompleteExpired, Complete, At, Carries
<1>3. Says(a, attempts[a])
  BY <1>2, Invariant
<1>4. attempts[a].status = "PENDING" => \A b \in Attempt \ {a} : attempts[b].status # "PENDING"
  BY <1>1, <1>2 DEF PendingAlone
<1>5. CASE Admit(w)
  <2>. DEFINE r == [Mine(w) EXCEPT !.intent = "IN_FLIGHT"]
  <2>. DEFINE k == [worker[w] EXCEPT !.step = "request"]
  <2>1. /\ r \in AttemptRecord /\ r.state = attempts[a].state /\ r.status = attempts[a].status
        /\ r.intent = "IN_FLIGHT" /\ r.expected = attempts[a].expected
        /\ r.epoch = attempts[a].epoch
    BY <1>2 DEF AttemptRecord, IntentStatus
  <2>2. SetAttempt(a, r) /\ UNCHANGED <<head, imported, branch, epoch>> /\ proof' = None
        /\ attempts[a].status = "PENDING" /\ attempts[a].intent = None
    BY <1>2, <1>5 DEF Admit, Transaction, Guard
  <2>3. /\ k.step = "request" /\ k.attempt = a
        /\ worker' \in [Worker -> WorkerRecord] /\ worker'[w] = k
        /\ \A v \in Worker \ {w} : worker'[v] = worker[v]
    BY <1>1, <1>5, StepTo DEF Admit
  <2>. HIDE DEF r, k
  <2>4. attempts'[a] = r
    BY <1>1, <1>2, <2>1, <2>2, SetOne
  <2>5. Carries(k, attempts')
    BY <1>2, <2>1, <2>3, <2>4, NoneAssumption DEF Carries
  <2>6. Says(a, r)
    BY <1>2, <1>3, <2>1, <2>2, NoneAssumption DEF Says
  <2>7. Keeps(attempts[a], r)
    BY <1>2, <2>1, <2>2, NoneAssumption DEF Keeps
  <2>8. QED
    BY <1>1, <1>2, <1>4, <2>1, <2>2, <2>3, <2>5, <2>6, <2>7, RecordChanges DEF Types
<1>6. CASE Confirm(w)
  <2>. DEFINE r == [Mine(w) EXCEPT !.intent = "CONFIRMED"]
  <2>. DEFINE k == [worker[w] EXCEPT !.step = "complete"]
  <2>1. /\ r \in AttemptRecord /\ r.state = attempts[a].state /\ r.status = attempts[a].status
        /\ r.intent = "CONFIRMED" /\ r.expected = attempts[a].expected
        /\ r.epoch = attempts[a].epoch
    BY <1>2 DEF AttemptRecord, IntentStatus
  <2>2. SetAttempt(a, r) /\ UNCHANGED <<head, imported, branch, epoch>> /\ proof' = None
        /\ OnBranch(a) /\ Len(attempts[a].expected) < Len(branch)
    BY <1>1, <1>6 DEF Confirm, Transaction, At, Carries
  <2>3. /\ k.step = "complete" /\ k.attempt = a
        /\ worker' \in [Worker -> WorkerRecord] /\ worker'[w] = k
        /\ \A v \in Worker \ {w} : worker'[v] = worker[v]
    BY <1>1, <1>6, StepTo DEF Confirm
  <2>. HIDE DEF r, k
  <2>4. attempts'[a] = r
    BY <1>1, <1>2, <2>1, <2>2, SetOne
  <2>5. Carries(k, attempts')
    BY <1>2, <2>1, <2>3, <2>4, NoneAssumption DEF Carries
  <2>6. Says(a, r)
    BY <1>2, <1>3, <2>1, <2>2, NoneAssumption DEF Says
  <2>7. Keeps(attempts[a], r)
    BY <1>2, <2>1, <2>2, NoneAssumption DEF Keeps
  <2>8. QED
    BY <1>1, <1>2, <1>4, <2>1, <2>2, <2>3, <2>5, <2>6, <2>7, RecordChanges DEF Types
<1>7. CASE CompleteExpired(w)
  <2>. DEFINE r == [Mine(w) EXCEPT !.state = "COMMITTED_EXPIRED", !.status = "FAILED"]
  <2>1. /\ r \in AttemptRecord /\ r.state = "COMMITTED_EXPIRED" /\ r.status = "FAILED"
        /\ r.intent = attempts[a].intent /\ r.expected = attempts[a].expected
        /\ r.epoch = attempts[a].epoch
    BY <1>2 DEF AttemptRecord, Final
  <2>2. SetAttempt(a, r) /\ UNCHANGED <<head, imported, branch, epoch>> /\ proof' = None
        /\ attempts[a].intent = "CONFIRMED"
    BY <1>1, <1>7 DEF CompleteExpired, Transaction, At, Carries
  <2>3. /\ worker' \in [Worker -> WorkerRecord]
        /\ \A v \in Worker : worker'[v] = worker[v] \/ Carries(worker'[v], attempts')
    BY <1>1, <1>7, Leaves DEF CompleteExpired
  <2>. HIDE DEF r
  <2>4. Says(a, r)
    BY <1>2, <1>3, <2>1, <2>2, NoneAssumption DEF Says
  <2>5. Keeps(attempts[a], r)
    BY <1>2, <2>1, <2>2 DEF Keeps
  <2>6. QED
    BY <1>1, <1>2, <2>1, <2>2, <2>3, <2>4, <2>5, NoneAssumption, RecordChanges DEF Types
<1>8. CASE Complete(w)
  <2>. DEFINE r == [Mine(w) EXCEPT !.state = "COMPLETE", !.status = "COMPLETE"]
  <2>1. /\ r \in AttemptRecord /\ r.state = "COMPLETE" /\ r.status = "COMPLETE"
        /\ r.intent = attempts[a].intent /\ r.expected = attempts[a].expected
        /\ r.epoch = attempts[a].epoch
    BY <1>2 DEF AttemptRecord, Final
  <2>2. SetAttempt(a, r) /\ UNCHANGED <<imported, branch, epoch>> /\ proof' = None
        /\ attempts[a].intent = "CONFIRMED"
    BY <1>1, <1>8 DEF Complete, Transaction, At, Carries
  <2>3. /\ worker' \in [Worker -> WorkerRecord]
        /\ \A v \in Worker : worker'[v] = worker[v] \/ Carries(worker'[v], attempts')
    BY <1>1, <1>8, Leaves DEF Complete
  <2>4. head' \in [digest : View, generation : Nat]
    <3>1. head \in [digest : View, generation : Nat] /\ Mine(w).result \in View
      BY <1>1, <1>2, RecordFields DEF Types
    <3>2. QED
      BY <1>8, <3>1 DEF Complete
  <2>. HIDE DEF r
  <2>5. Says(a, r)
    BY <1>2, <1>3, <2>1, <2>2, NoneAssumption DEF Says
  <2>6. Keeps(attempts[a], r)
    BY <1>2, <2>1, <2>2 DEF Keeps
  <2>7. QED
    BY <1>1, <1>2, <2>1, <2>2, <2>3, <2>4, <2>5, <2>6, NoneAssumption, RecordChanges
<1>9. QED
  BY <1>5, <1>6, <1>7, <1>8

\* The move of the branch: its attempt is pending under an open intent, because
\* a confirmed one would have lengthened the branch and an aborted one raised
\* the epoch.
LEMMA Moved ==
  ASSUME GatewayInv, NEW w \in Worker, Apply(w), branch' # branch
  PROVE  /\ worker[w].attempt \in Attempt
         /\ Mine(w) = attempts[worker[w].attempt] /\ Mine(w) \in AttemptRecord
         /\ branch' = Append(branch, worker[w].attempt)
         /\ branch' = Target(worker[w].attempt)
         /\ Mine(w).status = "PENDING" /\ Mine(w).intent = "IN_FLIGHT"
         /\ Mine(w).state \notin {"ABSENT", "PREPARED"}
         /\ UNCHANGED <<head, imported, attempts, epoch, proof>>
         /\ Goto(w, "inspect") \/ Goto(w, "unknown")
<1>. DEFINE a == worker[w].attempt
<1>1. /\ worker[w].step = "apply" /\ epoch = Mine(w).epoch /\ branch = Mine(w).expected
      /\ branch' = Target(a) /\ UNCHANGED <<head, imported, attempts, epoch, proof>>
      /\ Goto(w, "inspect") \/ Goto(w, "unknown")
  BY DEF Apply, At, NotFenced
<1>2. a \in Attempt /\ Mine(w) = attempts[a] /\ Mine(w) \in AttemptRecord
  BY <1>1, MineTyped
<1>3. Carries(worker[w], attempts) /\ Says(a, attempts[a]) /\ branch \in Seq(Attempt) /\ epoch \in Nat
  BY <1>2, Invariant DEF Types
<1>4. Mine(w).intent # None /\ Mine(w).state \notin {"ABSENT", "PREPARED"}
  BY <1>1, <1>2, <1>3 DEF Carries
<1>5. Len(branch) \in Nat /\ ~(Len(branch) < Len(branch)) /\ ~(epoch < epoch)
  BY <1>3
<1>6. Mine(w).intent # "CONFIRMED" /\ Mine(w).intent # "ABORTED"
  BY <1>1, <1>2, <1>3, <1>5 DEF Says
<1>7. Mine(w).intent = "IN_FLIGHT"
  BY <1>2, <1>4, <1>6, RecordFields DEF IntentStatus
<1>8. Mine(w).status = "PENDING"
  BY <1>2, <1>3, <1>7 DEF Says
<1>9. branch' = Append(branch, a)
  BY <1>1, <1>2 DEF Target
<1>10. QED
  BY <1>1, <1>2, <1>4, <1>7, <1>8, <1>9

\* The transport's update keeps the invariant.
LEMMA ApplyStep ==
  ASSUME GatewayInv, NEW w \in Worker, Apply(w)
  PROVE  GatewayInv'
<1>. DEFINE a == worker[w].attempt
<1>1. /\ Types /\ PendingAlone /\ worker[w].step = "apply"
      /\ \A b \in Attempt : Says(b, attempts[b])
      /\ \A v \in Worker : Carries(worker[v], attempts)
      /\ UNCHANGED <<head, imported, attempts, epoch, proof>>
      /\ Goto(w, "inspect") \/ Goto(w, "unknown")
  BY Invariant DEF Apply, At
<1>2. PICK step \in {"inspect", "unknown"} : Goto(w, step)
  BY <1>1
<1>. DEFINE k == [worker[w] EXCEPT !.step = step]
<1>3. /\ k \in WorkerRecord /\ k.step = step /\ k.attempt = a
      /\ worker' = [worker EXCEPT ![w] = k]
      /\ worker' \in [Worker -> WorkerRecord] /\ worker'[w] = k
      /\ \A v \in Worker \ {w} : worker'[v] = worker[v]
  <2>1. k \in WorkerRecord /\ k.step = step /\ k.attempt = a
    BY <1>1 DEF Types, WorkerRecord
  <2>2. worker' = [worker EXCEPT ![w] = k]
    BY <1>2 DEF Goto
  <2>. HIDE DEF k
  <2>3. QED
    BY <1>1, <2>1, <2>2 DEF Types
<1>. HIDE DEF k
<1>4. Carries(k, attempts)
  BY <1>1, <1>2, <1>3 DEF Carries
<1>5. CASE branch' = branch
  BY <1>1, <1>3, <1>4, <1>5, WorkerMoves DEF Types
<1>6. CASE branch' # branch
  <2>1. /\ a \in Attempt /\ attempts[a].status = "PENDING" /\ attempts[a].intent = "IN_FLIGHT"
        /\ attempts[a].state \notin {"ABSENT", "PREPARED"}
        /\ branch' = Append(branch, a) /\ branch \in Seq(Attempt)
    BY <1>1, <1>6, Moved DEF Types
  <2>2. /\ branch' \in Seq(Attempt) /\ Len(branch') = Len(branch) + 1 /\ Len(branch) \in Nat
        /\ \A b : OnBranch(b)' <=> OnBranch(b) \/ b = a
    BY <2>1, BranchGrows
  <2>3. Types'
    BY <1>1, <1>3, <2>2 DEF Types
  <2>4. PendingAlone'
    BY <1>1 DEF PendingAlone
  <2>5. ASSUME NEW b \in Attempt
        PROVE  Says(b, attempts[b])'
    <3>1. /\ Says(b, attempts[b]) /\ attempts' = attempts /\ epoch' = epoch
          /\ Len(attempts[b].expected) \in Nat
      BY <1>1, RecordFields DEF Types
    <3>2. OnBranch(b)' <=> OnBranch(b) \/ b = a
      BY <2>2
    <3>3. CASE b = a
      BY <2>1, <2>2, <3>1, <3>2, <3>3, NoneAssumption DEF Says
    <3>4. CASE b # a
      BY <2>2, <3>1, <3>2, <3>4 DEF Says
    <3>5. QED
      BY <3>3, <3>4
  <2>6. ASSUME NEW v \in Worker
        PROVE  Carries(worker[v], attempts)'
    <3>1. Carries(worker'[v], attempts)
      BY <1>1, <1>3, <1>4
    <3>2. worker'[v].step = "confirm" => Len(attempts[worker'[v].attempt].expected) \in Nat
      BY <1>1, <3>1, RecordFields DEF Carries, Types
    <3>3. QED
      BY <1>1, <2>2, <3>1, <3>2 DEF Carries
  <2>7. QED
    <3>1. (Types /\ PendingAlone /\ (\A b \in Attempt : Says(b, attempts[b]))
           /\ (\A v \in Worker : Carries(worker[v], attempts)))'
      BY <2>3, <2>4, <2>5, <2>6
    <3>2. QED
      BY <3>1 DEF GatewayInv, TypeOK, IntentInv, WorkerInv, Says, Carries, Mine
<1>7. QED
  BY <1>5, <1>6

\* A drain only raises the epoch.
LEMMA DrainStep ==
  ASSUME GatewayInv, NEW a \in Attempt, Drain(a)
  PROVE  GatewayInv'
<1>1. /\ UNCHANGED <<head, imported, attempts, branch, worker>>
      /\ epoch \in Nat /\ epoch' = epoch + 1 /\ epoch' \in Nat
      /\ proof' \in [attempt : Attempt, epoch : Nat] \cup {None}
  BY DEF Drain, GatewayInv, TypeOK, Types
<1>2. TypeOK'
  BY <1>1 DEF GatewayInv, TypeOK, Types
<1>3. PendingAlone' /\ WorkerInv'
  BY <1>1 DEF GatewayInv, PendingAlone, WorkerInv, OnBranch, Mine
<1>4. IntentInv'
  <2>1. \A b \in Attempt : attempts[b].epoch \in Nat
    BY RecordFields DEF GatewayInv, TypeOK, Types
  <2>2. \A b \in Attempt : attempts[b].epoch < epoch => attempts[b].epoch < epoch'
    BY <1>1, <2>1
  <2>3. QED
    BY <1>1, <2>2 DEF GatewayInv, IntentInv, OnBranch
<1>5. QED
  BY <1>2, <1>3, <1>4 DEF GatewayInv

\* An abort finds the branch at the base, which does not hold the attempt.
LEMMA AbortStep ==
  ASSUME GatewayInv, NEW a \in Attempt, Abort(a)
  PROVE  GatewayInv'
<1>1. Types /\ Says(a, attempts[a]) /\ attempts[a] \in AttemptRecord
  BY Invariant DEF Types
<1>. DEFINE r == [attempts[a] EXCEPT !.state = "ABORTED", !.status = "FAILED", !.intent = "ABORTED"]
<1>2. /\ r \in AttemptRecord /\ r.state = "ABORTED" /\ r.status = "FAILED" /\ r.intent = "ABORTED"
      /\ r.expected = attempts[a].expected /\ r.epoch = attempts[a].epoch
  BY <1>1 DEF AttemptRecord, IntentStatus
<1>3. /\ SetAttempt(a, r) /\ UNCHANGED <<head, imported, branch, epoch, worker>> /\ proof' = None
      /\ attempts[a].intent = "IN_FLIGHT" /\ attempts[a].epoch < epoch
      /\ branch = attempts[a].expected
  BY DEF Abort, Transaction
<1>. HIDE DEF r
<1>4. ~OnBranch(a)
  BY <1>1, <1>3 DEF Says, OnBranch
<1>5. Says(a, r)
  BY <1>1, <1>2, <1>3, <1>4 DEF Says, Final
<1>6. Keeps(attempts[a], r)
  BY <1>2, <1>3, NoneAssumption DEF Keeps
<1>7. QED
  BY <1>1, <1>2, <1>3, <1>5, <1>6, RecordChanges DEF Types

-----------------------------------------------------------------------------
(* The theorems.                                                           *)

\* Every realm begins in the invariant.
LEMMA InitHolds ==
  ASSUME Init
  PROVE  GatewayInv
<1>1. /\ attempts = [a \in Attempt |-> Absent] /\ worker = [w \in Worker |-> Idle]
      /\ branch = <<>> /\ epoch = 0 /\ proof = None
  BY DEF Init
<1>2. Absent \in AttemptRecord
  BY NoneAssumption DEF Absent, AttemptRecord, View
<1>3. Types
  <2>1. imported \in View
    BY ImportedAssumption DEF Init, View
  <2>2. Len(imported) \in Nat /\ head \in [digest : View, generation : Nat]
    BY <2>1 DEF Init, View
  <2>3. branch \in Seq(Attempt)
    BY <1>1
  <2>4. QED
    BY <1>1, <1>2, <2>1, <2>2, <2>3, IdleFits DEF Types
<1>4. PendingAlone
  BY <1>1, NoneAssumption DEF PendingAlone, Absent
<1>5. \A a \in Attempt : Says(a, attempts[a])
  BY <1>1, NoneAssumption DEF Says, Absent, Final, OnBranch
<1>6. \A w \in Worker : Carries(worker[w], attempts)
  BY <1>1 DEF Carries, Idle
<1>7. QED
  BY <1>3, <1>4, <1>5, <1>6, Invariant

\* Every step keeps the invariant.
LEMMA StepHolds ==
  ASSUME GatewayInv, [Next]_vars
  PROVE  GatewayInv'
<1>1. ASSUME NEW a \in Attempt, NEW plan \in Plan, NEW stable \in BOOLEAN,
             Prepare(a, plan, stable)
      PROVE  GatewayInv'
  BY <1>1, PrepareStep
<1>2. ASSUME NEW a \in Attempt,
             CheckBase(a) \/ Enqueue(a) \/ Expire(a) \/ LeaseEnds(a) \/ Drain(a) \/ Abort(a)
      PROVE  GatewayInv'
  BY <1>2, EnvironmentStep, EnqueueStep, DrainStep, AbortStep
<1>3. ASSUME NEW w \in Worker, Run(w)
      PROVE  GatewayInv'
  BY <1>3, WorkerStep, QuietWorkerStep, IntentStep, ApplyStep DEF Run
<1>4. CASE UNCHANGED vars
  BY <1>4 DEF vars, GatewayInv, TypeOK, Types, PendingAlone, IntentInv, WorkerInv, OnBranch, Mine
<1>5. QED
  BY <1>1, <1>2, <1>3, <1>4 DEF Next

\* One job is pending at a time, its intent stands in for the branch, and every
\* process carries what it has seen (Ledger.enqueue, Gateway._admit, apply,
\* reconcile, abort_noncommit).
THEOREM GatewayInvariant == Spec => []GatewayInv
<1>1. Init => GatewayInv
  BY InitHolds
<1>2. GatewayInv /\ [Next]_vars => GatewayInv'
  BY StepHolds
<1>3. QED
  BY <1>1, <1>2, PTL DEF Spec

\* The variables keep their types, and a resolved job a resolved intent.
THEOREM GatewayTypeCorrect == Spec => []TypeOK
<1>1. GatewayInv => TypeOK
  BY DEF GatewayInv
<1>2. QED
  BY <1>1, GatewayInvariant, PTL

\* What the ledger says of a request stays true of the branch: a confirmed or
\* finished one is in its history, an aborted one never gets there.
THEOREM OutcomesAreTrue == Spec => []OutcomeTruth
<1>1. GatewayInv => OutcomeTruth
  BY DEF GatewayInv, IntentInv, OutcomeTruth
<1>2. QED
  BY <1>1, GatewayInvariant, PTL

\* Only the transport's update moves the branch.
LEMMA OnlyApplyMoves ==
  ASSUME Next, branch' # branch
  PROVE  \E w \in Worker : Apply(w)
BY DEF Next, Run, Prepare, CheckBase, Enqueue, Expire, LeaseEnds, Drain, Abort, BeginApply,
       BeginReconcile, Claim, Admit, Request, MarkUnknown, Inspect, Observe, Confirm,
       CompleteExpired, Complete, Stop

\* The branch is moved only for the one pending job of the realm, under its open
\* intent, although the transport asks for no lease.
THEOREM OnlyAdmittedMoves == Spec => MovesAreAdmitted
<1>. DEFINE Admitted == branch' # branch =>
                          \E a \in Attempt :
                            /\ branch' = Target(a)
                            /\ attempts[a].status = "PENDING" /\ attempts[a].intent = "IN_FLIGHT"
                            /\ \A b \in Attempt \ {a} : attempts[b].status # "PENDING"
<1>1. GatewayInv /\ [Next]_vars => [Admitted]_vars
  <2>1. SUFFICES ASSUME GatewayInv, Next, branch' # branch
                 PROVE  Admitted
    BY DEF vars
  <2>2. PICK w \in Worker : Apply(w)
    BY <2>1, OnlyApplyMoves
  <2>3. PendingAlone
    BY <2>1 DEF GatewayInv
  <2>4. QED
    BY <2>1, <2>2, <2>3, Moved DEF PendingAlone
<1>2. QED
  BY <1>1, GatewayInvariant, PTL DEF Spec, MovesAreAdmitted

-----------------------------------------------------------------------------
(* The stable head.                                                        *)

\* A result was composed on a head, which is still a part of the chain.
ResultsFollow ==
  \A a \in Attempt :
    attempts[a].state # "ABSENT" =>
      /\ Len(attempts[a].previous) <= head.generation
      /\ \E plan \in Plan : attempts[a].result = Append(attempts[a].previous, plan)

\* The attempt at place i of the branch published generation g.
PublishedAt(i, g) ==
  /\ attempts[branch[i]].stable /\ attempts[branch[i]].intent = "CONFIRMED"
  /\ attempts[branch[i]].result = SubSeq(head.digest, 1, g)
  /\ \A j \in 1 .. i : Len(attempts[branch[j]].previous) < g

HeadInv == HeadIsPublished /\ ResultsFollow

\* What only a preparation changes in the record of an attempt.
Lasting(old, new) ==
  /\ new.state = "ABSENT" <=> old.state = "ABSENT"
  /\ new.stable = old.stable /\ new.previous = old.previous /\ new.result = old.result
  /\ old.intent = "CONFIRMED" => new.intent = "CONFIRMED"

\* A chain with one more plan: it is one longer, and goes on from the chain.
LEMMA OneMorePlan ==
  ASSUME NEW s \in View, NEW plan \in Plan
  PROVE  /\ Append(s, plan) \in View
         /\ Len(s) \in Nat /\ Len(Append(s, plan)) = Len(s) + 1
         /\ SubSeq(Append(s, plan), 1, Len(s) + 1) = Append(s, plan)
         /\ \A g \in 0 .. Len(s) : SubSeq(Append(s, plan), 1, g) = SubSeq(s, 1, g)
<1>. DEFINE t == Append(s, plan)
<1>1. /\ t \in Seq(Plan) /\ Len(s) \in Nat /\ Len(t) = Len(s) + 1
      /\ \A i \in 1 .. Len(s) : t[i] = s[i]
  BY AppendProperties, LenProperties DEF View
<1>2. SubSeq(t, 1, Len(s) + 1) = t
  BY <1>1, SubSeqFull
<1>3. ASSUME NEW g \in 0 .. Len(s) PROVE SubSeq(t, 1, g) = SubSeq(s, 1, g)
  <2>1. \A i \in 1 .. g : s[i] \in Plan /\ t[i] = s[i]
    BY <1>1, ElementOfSeq DEF View
  <2>. HIDE DEF t
  <2>2. 1 \in Int /\ g \in Int
    BY <1>1
  <2>3. /\ SubSeq(s, 1, g) \in Seq(Plan)
        /\ Len(SubSeq(s, 1, g)) = IF 1 <= g THEN g - 1 + 1 ELSE 0
        /\ \A i \in 1 .. g - 1 + 1 : SubSeq(s, 1, g)[i] = s[1 + i - 1]
    BY <2>1, <2>2, SubSeqProperties
  <2>4. /\ SubSeq(t, 1, g) \in Seq(Plan)
        /\ Len(SubSeq(t, 1, g)) = IF 1 <= g THEN g - 1 + 1 ELSE 0
        /\ \A i \in 1 .. g - 1 + 1 : SubSeq(t, 1, g)[i] = t[1 + i - 1]
    BY <2>1, <2>2, SubSeqProperties
  <2>5. /\ Len(SubSeq(t, 1, g)) = Len(SubSeq(s, 1, g))
        /\ \A i \in 1 .. Len(SubSeq(t, 1, g)) : SubSeq(t, 1, g)[i] = SubSeq(s, 1, g)[i]
    BY <1>1, <2>1, <2>3, <2>4
  <2>6. QED
    BY <2>3, <2>4, <2>5, SeqEqual
<1>4. QED
  BY <1>1, <1>2, <1>3 DEF View

\* A step that writes one record lastingly leaves every record lasting.
LEMMA WrittenLasts ==
  ASSUME Types, NEW a \in Attempt, NEW r, SetAttempt(a, r), Lasting(attempts[a], r),
         NEW b \in Attempt
  PROVE  Lasting(attempts[b], attempts'[b])
<1>1. attempts'[b] = IF b = a THEN r ELSE attempts[b]
  BY DEF Types, SetAttempt
<1>2. QED
  BY <1>1 DEF Lasting

\* No step but its preparation changes what lasts in a record.
LEMMA RecordsLast ==
  ASSUME GatewayInv, Next, NEW b \in Attempt
  PROVE  \/ Lasting(attempts[b], attempts'[b])
         \/ \E plan \in Plan, stable \in BOOLEAN : Prepare(b, plan, stable)
<1>1. Types /\ attempts \in [Attempt -> AttemptRecord]
      /\ \A a \in Attempt : Says(a, attempts[a])
  BY Invariant DEF Types
<1>2. ASSUME NEW a \in Attempt, NEW plan \in Plan, NEW stable \in BOOLEAN, Prepare(a, plan, stable),
             a # b
      PROVE  Lasting(attempts[b], attempts'[b])
  BY <1>1, <1>2 DEF Prepare, SetAttempt, Lasting
<1>3. CASE UNCHANGED attempts
  BY <1>3 DEF Lasting
<1>4. ASSUME NEW a \in Attempt, CheckBase(a) \/ Enqueue(a) \/ Expire(a) \/ LeaseEnds(a) \/ Abort(a)
      PROVE  Lasting(attempts[b], attempts'[b])
  <2>0. attempts[a] \in AttemptRecord /\ Says(a, attempts[a])
    BY <1>1
  <2>1. CASE CheckBase(a)
    <3>1. Lasting(attempts[a], [attempts[a] EXCEPT !.checked = TRUE])
      BY <2>0 DEF Lasting, AttemptRecord
    <3>2. QED
      BY <1>1, <2>1, <3>1, WrittenLasts DEF CheckBase
  <2>2. CASE Enqueue(a)
    <3>1. Lasting(attempts[a], [attempts[a] EXCEPT !.state = "STAGED", !.status = "PENDING"])
      BY <2>0, <2>2 DEF Enqueue, Lasting, AttemptRecord
    <3>2. QED
      BY <1>1, <2>2, <3>1, WrittenLasts DEF Enqueue
  <2>3. CASE Expire(a)
    <3>1. Lasting(attempts[a], [attempts[a] EXCEPT !.live = FALSE])
      BY <2>0 DEF Lasting, AttemptRecord
    <3>2. QED
      BY <1>1, <2>3, <3>1, WrittenLasts DEF Expire
  <2>4. CASE LeaseEnds(a)
    <3>1. Lasting(attempts[a], [attempts[a] EXCEPT !.leased = FALSE])
      BY <2>0 DEF Lasting, AttemptRecord
    <3>2. QED
      BY <1>1, <2>4, <3>1, WrittenLasts DEF LeaseEnds
  <2>5. CASE Abort(a)
    <3>1. attempts[a].intent = "IN_FLIGHT" /\ attempts[a].state # "ABSENT"
      BY <2>0, <2>5, NoneAssumption DEF Abort, Says
    <3>2. Lasting(attempts[a], [attempts[a] EXCEPT !.state = "ABORTED", !.status = "FAILED",
                                                   !.intent = "ABORTED"])
      BY <2>0, <3>1 DEF Lasting, AttemptRecord
    <3>3. QED
      BY <1>1, <2>5, <3>2, WrittenLasts DEF Abort
  <2>6. QED
    BY <1>4, <2>1, <2>2, <2>3, <2>4, <2>5
<1>5. ASSUME NEW w \in Worker,
             \/ Claim(w) \/ Admit(w) \/ MarkUnknown(w)
             \/ Confirm(w) \/ CompleteExpired(w) \/ Complete(w)
      PROVE  Lasting(attempts[b], attempts'[b])
  <2>. DEFINE a == worker[w].attempt
  <2>0. /\ a \in Attempt /\ Mine(w) = attempts[a]
        /\ Mine(w) \in AttemptRecord /\ Mine(w).state # "ABSENT"
    <3>1. worker[w].step # "idle" /\ Carries(worker[w], attempts)
      BY <1>5, Invariant DEF Claim, Admit, MarkUnknown, Confirm, CompleteExpired, Complete, At
    <3>2. QED
      BY <3>1, MineTyped DEF Carries
  <2>1. CASE Claim(w)
    <3>1. Lasting(Mine(w), [Mine(w) EXCEPT !.fence = @ + 1, !.leased = TRUE])
      BY <2>0 DEF Lasting, AttemptRecord
    <3>2. QED
      BY <1>1, <2>0, <2>1, <3>1, WrittenLasts DEF Claim
  <2>2. CASE Admit(w)
    <3>1. Lasting(Mine(w), [Mine(w) EXCEPT !.intent = "IN_FLIGHT"])
      BY <2>0, <2>2, NoneAssumption DEF Admit, Lasting, AttemptRecord
    <3>2. QED
      BY <1>1, <2>0, <2>2, <3>1, WrittenLasts DEF Admit
  <2>3. CASE MarkUnknown(w)
    <3>1. Lasting(Mine(w), [Mine(w) EXCEPT !.state = "UNKNOWN"])
      BY <2>0 DEF Lasting, AttemptRecord
    <3>2. QED
      BY <1>1, <2>0, <2>3, <3>1, WrittenLasts DEF MarkUnknown
  <2>4. CASE Confirm(w)
    <3>1. Lasting(Mine(w), [Mine(w) EXCEPT !.intent = "CONFIRMED"])
      BY <2>0 DEF Lasting, AttemptRecord
    <3>2. QED
      BY <1>1, <2>0, <2>4, <3>1, WrittenLasts DEF Confirm
  <2>5. CASE CompleteExpired(w)
    <3>1. Lasting(Mine(w), [Mine(w) EXCEPT !.state = "COMMITTED_EXPIRED", !.status = "FAILED"])
      BY <2>0 DEF Lasting, AttemptRecord
    <3>2. QED
      BY <1>1, <2>0, <2>5, <3>1, WrittenLasts DEF CompleteExpired
  <2>6. CASE Complete(w)
    <3>1. Lasting(Mine(w), [Mine(w) EXCEPT !.state = "COMPLETE", !.status = "COMPLETE"])
      BY <2>0 DEF Lasting, AttemptRecord
    <3>2. QED
      BY <1>1, <2>0, <2>6, <3>1, WrittenLasts DEF Complete
  <2>7. QED
    BY <1>5, <2>1, <2>2, <2>3, <2>4, <2>5, <2>6
<1>6. QED
  BY <1>2, <1>3, <1>4, <1>5
     DEF Next, Run, Drain, BeginApply, BeginReconcile, Request, Apply, Inspect, Observe, Stop

\* The head moves for the result of a confirmed attempt on the head it names.
LEMMA HeadMoves ==
  ASSUME GatewayInv, Next, head' # head
  PROVE  \E a \in Attempt :
           /\ attempts[a].stable /\ attempts[a].intent = "CONFIRMED"
           /\ attempts[a].previous = head.digest
           /\ head' = [digest |-> attempts[a].result, generation |-> head.generation + 1]
<1>1. PICK w \in Worker : Complete(w)
  BY DEF Next, Run, Prepare, CheckBase, Enqueue, Expire, LeaseEnds, Drain, Abort, BeginApply,
         BeginReconcile, Claim, Admit, Request, Apply, MarkUnknown, Inspect, Observe, Confirm,
         CompleteExpired, Stop
<1>2. /\ worker[w].attempt \in Attempt /\ Mine(w) = attempts[worker[w].attempt]
      /\ Carries(worker[w], attempts)
  BY <1>1, MineTyped, Invariant DEF Complete, At
<1>3. QED
  BY <1>1, <1>2 DEF Complete, At, HeadAtBase, Carries

\* Everybody on the branch is prepared, and stays where he is.
LEMMA BranchLasts ==
  ASSUME GatewayInv, Next, NEW i \in DOMAIN branch
  PROVE  /\ i \in DOMAIN branch' /\ branch'[i] = branch[i]
         /\ branch[i] \in Attempt /\ attempts[branch[i]].state # "ABSENT"
         /\ i \in Nat /\ 1 .. i \subseteq DOMAIN branch
<1>1. /\ branch \in Seq(Attempt) /\ DOMAIN branch = 1 .. Len(branch) /\ Len(branch) \in Nat
      /\ \A b \in Attempt : Says(b, attempts[b])
  BY Invariant, LenProperties DEF Types
<1>2. branch[i] \in Attempt /\ attempts[branch[i]].state # "ABSENT"
  <2>1. branch[i] \in Attempt
    BY <1>1, ElementOfSeq
  <2>2. QED
    BY <1>1, <2>1 DEF Says, OnBranch
<1>3. i \in DOMAIN branch' /\ branch'[i] = branch[i]
  <2>1. CASE branch' = branch
    BY <2>1
  <2>2. CASE branch' # branch
    <3>1. PICK a \in Attempt : branch' = Append(branch, a)
      BY <2>2, OnlyApplyMoves, Moved
    <3>2. QED
      BY <1>1, <3>1, AppendProperties
  <2>3. QED
    BY <2>1, <2>2
<1>4. QED
  BY <1>1, <1>2, <1>3

\* A published generation stays published.
LEMMA PublishedLasts ==
  ASSUME GatewayInv, Next, NEW i \in DOMAIN branch, NEW g, PublishedAt(i, g),
         SubSeq(head'.digest, 1, g) = SubSeq(head.digest, 1, g)
  PROVE  i \in DOMAIN branch' /\ PublishedAt(i, g)'
<1>1. \A j \in 1 .. i : /\ j \in DOMAIN branch /\ branch'[j] = branch[j] /\ branch[j] \in Attempt
                        /\ Lasting(attempts[branch[j]], attempts'[branch[j]])
  BY BranchLasts, RecordsLast DEF Prepare
<1>2. i \in DOMAIN branch' /\ i \in 1 .. i
  <2>1. i \in DOMAIN branch' /\ i \in Nat /\ 1 .. i \subseteq DOMAIN branch
    BY BranchLasts
  <2>2. DOMAIN branch = 1 .. Len(branch)
    BY LenProperties DEF GatewayInv, TypeOK, Types
  <2>3. QED
    BY <2>1, <2>2
<1>3. QED
  BY <1>1, <1>2, ZenonT(40) DEF PublishedAt, Lasting

\* What was composed on a head stays so.
LEMMA ResultsLast ==
  ASSUME GatewayInv, HeadInv, Next, head'.generation \in Nat,
         head.generation <= head'.generation
  PROVE  ResultsFollow'
<1>1. /\ attempts \in [Attempt -> AttemptRecord] /\ head.generation \in Nat
      /\ head.digest \in View /\ head.generation = Len(head.digest)
  BY DEF GatewayInv, TypeOK, Types, HeadInv, HeadIsPublished
<1>2. ASSUME NEW a \in Attempt, attempts'[a].state # "ABSENT"
      PROVE  /\ Len(attempts'[a].previous) <= head'.generation
             /\ \E plan \in Plan : attempts'[a].result = Append(attempts'[a].previous, plan)
  <2>1. CASE Lasting(attempts[a], attempts'[a])
    <3>1. attempts[a].previous \in View /\ Len(attempts[a].previous) \in Nat
      BY <1>1, RecordFields, LenProperties DEF View
    <3>2. QED
      BY <1>1, <1>2, <2>1, <3>1 DEF Lasting, HeadInv, ResultsFollow
  <2>2. CASE \E plan \in Plan, stable \in BOOLEAN : Prepare(a, plan, stable)
    <3>1. PICK plan \in Plan, stable \in BOOLEAN : Prepare(a, plan, stable)
      BY <2>2
    <3>2. attempts'[a].previous = head.digest /\ attempts'[a].result = Append(head.digest, plan)
      BY <1>1, <3>1 DEF Prepare, SetAttempt
    <3>3. QED
      BY <1>1, <3>2
  <2>3. QED
    BY <2>1, <2>2, RecordsLast
<1>3. QED
  BY <1>2 DEF ResultsFollow

\* The head at the beginning is the base the realm began with.
LEMMA HeadStarts == Init => HeadInv
<1>1. SUFFICES ASSUME Init PROVE HeadInv
  OBVIOUS
<1>2. /\ head.digest = imported /\ head.generation = Len(imported)
      /\ imported \in View /\ Len(imported) \in Nat
  BY <1>1, ImportedAssumption, LenProperties DEF Init, View
<1>3. IsPrefix(imported, head.digest)
  <2>1. IsPrefix(imported, imported)
    BY <1>2 DEF IsPrefix
  <2>2. QED
    BY <1>2, <2>1
<1>4. Len(imported) + 1 .. head.generation = {}
  BY <1>2
<1>5. HeadIsPublished
  BY <1>2, <1>3, <1>4 DEF HeadIsPublished
<1>6. ResultsFollow
  BY <1>1 DEF Init, Absent, ResultsFollow
<1>7. QED
  BY <1>5, <1>6 DEF HeadInv

\* The head is the published chain after every step.
LEMMA HeadStep ==
  ASSUME GatewayInv, HeadInv, Next
  PROVE  HeadInv'
<1>1. /\ head.digest \in View /\ head.generation \in Nat /\ head.generation = Len(head.digest)
      /\ imported \in View /\ Len(imported) \in Nat /\ IsPrefix(imported, head.digest)
      /\ DOMAIN branch = 1 .. Len(branch)
  BY LenProperties DEF GatewayInv, TypeOK, Types, HeadInv, HeadIsPublished, View
<1>2. imported' = imported
  BY DEF Next, Run, Prepare, CheckBase, Enqueue, Expire, LeaseEnds, Drain, Abort, BeginApply,
         BeginReconcile, Claim, Admit, Request, Apply, MarkUnknown, Inspect, Observe, Confirm,
         CompleteExpired, Complete, Stop
<1>3. \A g \in Len(imported) + 1 .. head.generation : \E i \in DOMAIN branch : PublishedAt(i, g)
  BY DEF HeadInv, HeadIsPublished, PublishedAt
<1>4. CASE head' = head
  <2>1. ASSUME NEW g \in Len(imported) + 1 .. head.generation
        PROVE  \E i \in DOMAIN branch' : PublishedAt(i, g)'
    BY <1>3, <1>4, PublishedLasts
  <2>2. HeadIsPublished'
    BY <1>1, <1>2, <1>4, <2>1 DEF HeadIsPublished, PublishedAt
  <2>3. ResultsFollow'
    BY <1>1, <1>4, ResultsLast
  <2>4. QED
    BY <2>2, <2>3 DEF HeadInv
<1>5. CASE head' # head
  <2>1. PICK a \in Attempt :
          /\ attempts[a].stable /\ attempts[a].intent = "CONFIRMED"
          /\ attempts[a].previous = head.digest
          /\ head' = [digest |-> attempts[a].result, generation |-> head.generation + 1]
    BY <1>5, HeadMoves
  <2>2. OnBranch(a) /\ attempts[a].state # "ABSENT"
    BY <2>1, Invariant, NoneAssumption DEF Says
  <2>3. PICK plan \in Plan : attempts[a].result = Append(head.digest, plan)
    BY <2>1, <2>2 DEF HeadInv, ResultsFollow
  <2>. DEFINE s == head.digest
  <2>0. PICK n \in Nat : n = head.generation
    BY <1>1
  <2>4. head'.digest = Append(s, plan) /\ head'.generation = n + 1
    BY <2>0, <2>1, <2>3
  <2>5. /\ Append(s, plan) \in View /\ Len(Append(s, plan)) = n + 1
        /\ SubSeq(Append(s, plan), 1, n + 1) = Append(s, plan)
        /\ \A g \in 0 .. n : SubSeq(Append(s, plan), 1, g) = SubSeq(s, 1, g)
    BY <1>1, <2>0, OneMorePlan, ZenonT(40)
  <2>6. IsPrefix(imported, head'.digest)
    BY <1>1, <2>0, <2>4, <2>5 DEF IsPrefix
  <2>7. ASSUME NEW g \in Len(imported) + 1 .. n
        PROVE  \E i \in DOMAIN branch' : PublishedAt(i, g)'
    <3>1. PICK i \in DOMAIN branch : PublishedAt(i, g)
      BY <1>3, <2>0
    <3>2. SubSeq(head'.digest, 1, g) = SubSeq(head.digest, 1, g)
      BY <1>1, <2>0, <2>4, <2>5
    <3>3. QED
      BY <3>1, <3>2, PublishedLasts
  <2>8. \E i \in DOMAIN branch' : PublishedAt(i, n + 1)'
    <3>1. PICK i \in DOMAIN branch : branch[i] = a
      BY <2>2 DEF OnBranch
    <3>2. \A j \in 1 .. i : /\ branch'[j] = branch[j] /\ branch[j] \in Attempt
                            /\ attempts[branch[j]].state # "ABSENT"
                            /\ Lasting(attempts[branch[j]], attempts'[branch[j]])
      BY BranchLasts, RecordsLast DEF Prepare
    <3>3. i \in DOMAIN branch' /\ i \in 1 .. i
      BY <1>1, BranchLasts
    <3>4. ASSUME NEW j \in 1 .. i
          PROVE  Len(attempts'[branch'[j]].previous) < n + 1
      <4>1. /\ attempts'[branch'[j]].previous = attempts[branch[j]].previous
            /\ Len(attempts[branch[j]].previous) <= n
        BY <2>0, <3>2 DEF Lasting, HeadInv, ResultsFollow
      <4>2. Len(attempts[branch[j]].previous) \in Nat
        BY <3>2, RecordFields, LenProperties DEF GatewayInv, TypeOK, Types, View
      <4>3. QED
        BY <1>1, <4>1, <4>2
    <3>5. /\ attempts'[branch'[i]].stable /\ attempts'[branch'[i]].intent = "CONFIRMED"
          /\ attempts'[branch'[i]].result = SubSeq(head'.digest, 1, n + 1)
      BY <2>1, <2>3, <2>4, <2>5, <3>1, <3>2, <3>3 DEF Lasting
    <3>6. QED
      BY <3>3, <3>4, <3>5 DEF PublishedAt
  <2>9. HeadIsPublished'
    <3>1. \A g \in Len(imported) + 1 .. n + 1 : \E i \in DOMAIN branch' : PublishedAt(i, g)'
      BY <1>1, <2>0, <2>7, <2>8
    <3>2. QED
      BY <1>2, <2>4, <2>5, <2>6, <3>1 DEF HeadIsPublished, PublishedAt
  <2>10. ResultsFollow'
    BY <1>1, <2>0, <2>4, ResultsLast
  <2>11. QED
    BY <2>9, <2>10 DEF HeadInv
<1>6. QED
  BY <1>4, <1>5

\* The stable head is the chain of the published stable results on top of the
\* base the realm began with, each on the branch before what was composed on it.
THEOREM HeadPublished == Spec => []HeadIsPublished
<1>1. Init => HeadInv
  BY HeadStarts
<1>2. GatewayInv /\ HeadInv /\ [Next]_vars => HeadInv'
  <2>1. ASSUME HeadInv, UNCHANGED vars PROVE HeadInv'
    BY <2>1 DEF HeadInv, HeadIsPublished, ResultsFollow, vars
  <2>2. QED
    BY <2>1, HeadStep
<1>3. HeadInv => HeadIsPublished
  BY DEF HeadInv
<1>4. QED
  BY <1>1, <1>2, <1>3, GatewayInvariant, PTL DEF Spec

-----------------------------------------------------------------------------
(* The client: its inductive invariant.                                    *)

\* A descriptor says what the gateway published at its generation, and ends no
\* later than the approval of that publication.
Truthful(d) ==
  /\ d.generation \in 1 .. Len(published)
  /\ d.view = published[d.generation].view
  /\ d.expires <= published[d.generation].expires

DescriptorsTruthful == \A d \in descriptors : Truthful(d)

\* What the client keeps of descriptors are descriptors it verified.
FilesVerified ==
  /\ active # NoValue => active \in descriptors
  /\ pending # NoValue => pending.descriptor \in descriptors

\* The journal is of the next view, or of the active one, when the update stopped
\* between commit and clearing.
JournalInv ==
  pending # NoValue => active = pending.descriptor \/ Follows(pending.descriptor)

\* What the update under the lock has established.
RunInv ==
  run # NoValue =>
    /\ run.intent.descriptor \in descriptors
    /\ run.step = "verified" => pending \in {NoValue, run.intent}
    /\ run.step # "verified" => pending = run.intent
    /\ run.step # "committed" => Follows(run.intent.descriptor)
    /\ run.step = "committed" => active = run.intent.descriptor

\* An orphaned DNF works on the journalled view, or on one that was committed
\* since by the update that resumed it.
OrphanInv ==
  \A i \in orphans :
    \/ pending = i
    \/ active # NoValue /\ i.descriptor.generation <= active.generation

ClientInv ==
  /\ ClientTypeOK
  /\ DescriptorsTruthful /\ FilesVerified /\ JournalInv /\ RunInv /\ OrphanInv
  /\ AheadOnlyWhilePending

-----------------------------------------------------------------------------
(* The client: facts about single states.                                  *)

LEMMA InitClient == ClientInit => ClientInv
BY ClientAssumption
   DEF ClientInit, ClientInv, ClientTypeOK, DescriptorsTruthful, FilesVerified, JournalInv, RunInv,
       OrphanInv, AheadOnlyWhilePending

\* A descriptor that follows is of the next generation.
LEMMA FollowsNext ==
  ASSUME NEW d, Follows(d), active # NoValue
  PROVE d.generation = active.generation + 1
BY DEF Follows

\* Whoever installs from the journalled view keeps AheadOnlyWhilePending.
LEMMA InstallKeeps ==
  ASSUME ClientInv, NEW i \in Intent, NEW names,
         installed' = Applied(i, names), UNCHANGED <<active, pending>>,
         pending = i \/ (active # NoValue /\ i.descriptor.generation <= active.generation)
  PROVE AheadOnlyWhilePending' /\ installed' \in [Name -> [version : Nat, generation : Nat]]
<1> DEFINE g == i.descriptor.generation
<1>1. i.descriptor \in Descriptor /\ g \in Nat /\ i.descriptor.view \in [Name -> Nat]
  BY ClientAssumption DEF Intent, Descriptor
<1>2. \A n \in Name : \/ installed'[n] = installed[n]
                      \/ installed'[n].generation = g /\ installed'[n].version = i.descriptor.view[n]
  BY DEF Applied, Installed, ClientInv, ClientTypeOK
<1>3. installed' \in [Name -> [version : Nat, generation : Nat]]
  BY <1>1 DEF Applied, Installed, ClientInv, ClientTypeOK
<1>4. active # NoValue => active.generation \in Nat
  BY DEF ClientInv, ClientTypeOK, Descriptor
<1>5. pending = i /\ active # NoValue => g = active.generation \/ g = active.generation + 1
  BY FollowsNext, RecordAssumption DEF ClientInv, JournalInv
<1>6. AheadOnlyWhilePending'
  <2> SUFFICES ASSUME NEW n \in Name,
                      installed'[n].generation > (IF active = NoValue THEN 0 ELSE active.generation)
               PROVE /\ pending # NoValue
                     /\ pending.descriptor.generation = installed'[n].generation
                     /\ active # NoValue => pending.descriptor.generation = active.generation + 1
    BY DEF AheadOnlyWhilePending
  <2>1. CASE installed'[n] = installed[n]
    BY <2>1 DEF ClientInv, AheadOnlyWhilePending
  <2>2. CASE installed'[n].generation = g
    <3>1. pending = i
      BY <1>1, <1>4, <2>2
    <3>2. pending # NoValue
      BY <3>1, RecordAssumption
    <3> QED
      BY <1>1, <1>4, <1>5, <2>2, <3>1, <3>2
  <2> QED
    BY <1>2, <2>1, <2>2
<1> QED
  BY <1>3, <1>6

\* Publications and descriptors are only added.
LEMMA IssuerKeeps ==
  ASSUME ClientInv, ClientTypeOK', DescriptorsTruthful', descriptors \subseteq descriptors',
         UNCHANGED client
  PROVE ClientInv'
BY DEF ClientInv, FilesVerified, JournalInv, RunInv, OrphanInv, AheadOnlyWhilePending, Follows,
       client, files

-----------------------------------------------------------------------------
(* The client: one lemma for each action.                                  *)

LEMMA PublishKeeps ==
  ASSUME ClientInv, NEW view \in ClientView, NEW life \in 1 .. MaxClock, Publish(view, life)
  PROVE ClientInv'
<1> DEFINE new == [view |-> view, expires |-> clock + life]
<1>0. clock \in Nat /\ published \in Seq(Publication) /\ life \in Nat
  BY ClientAssumption DEF ClientInv, ClientTypeOK
<1>1. new \in Publication
  BY <1>0 DEF Publication
<1>2. published' = Append(published, new) /\ UNCHANGED <<clock, descriptors, client>>
  BY DEF Publish
<1>3. published' \in Seq(Publication) /\ Len(published') = Len(published) + 1
      /\ \A g \in 1 .. Len(published) : published'[g] = published[g]
  <2> HIDE DEF new
  <2> QED BY <1>0, <1>1, <1>2
<1>4. ClientTypeOK'
  BY <1>2, <1>3 DEF ClientInv, ClientTypeOK, client, files
<1>5. DescriptorsTruthful'
  BY <1>0, <1>2, <1>3 DEF ClientInv, DescriptorsTruthful, Truthful
<1> QED
  BY <1>2, <1>4, <1>5, IssuerKeeps

LEMMA IssueKeeps ==
  ASSUME ClientInv, NEW life \in 1 .. MaxLife, Issue(life)
  PROVE ClientInv'
<1> DEFINE d == [generation |-> Generation, previous |-> PreviousView,
                 view |-> published[Generation].view, issued |-> clock, expires |-> clock + life]
<1>0. clock \in Nat /\ published \in Seq(Publication) /\ life \in Nat /\ published # <<>>
  BY ClientAssumption DEF ClientInv, ClientTypeOK, Issue
<1>1. Generation \in 1 .. Len(published) /\ Generation \in Nat \ {0}
  BY <1>0 DEF Generation
<1>2. \A g \in 1 .. Len(published) : published[g] \in Publication
  BY <1>0
<1>3. PreviousView \in ClientView \cup {NoValue} /\ published[Generation].view \in ClientView
  BY <1>1, <1>2 DEF PreviousView, Publication
<1>4. d \in Descriptor
  BY <1>0, <1>1, <1>3 DEF Descriptor
<1>5. descriptors' = descriptors \cup {d} /\ UNCHANGED <<clock, published, client>>
  BY DEF Issue
<1>6. Truthful(d)
  BY <1>1 DEF Issue, IssuedWithin, Truthful
<1> HIDE DEF d
<1>7. ClientTypeOK'
  BY <1>4, <1>5 DEF ClientInv, ClientTypeOK, client, files
<1>8. DescriptorsTruthful'
  BY <1>5, <1>6 DEF ClientInv, DescriptorsTruthful, Truthful
<1> QED
  BY <1>5, <1>7, <1>8, IssuerKeeps

LEMMA RecoverKeeps ==
  ASSUME ClientInv, NEW i \in Intents, NEW resume \in BOOLEAN, Recover(i, resume)
  PROVE ClientInv'
<1>1. /\ run = NoValue /\ pending = i /\ active = i.descriptor /\ active # NoValue
      /\ pending' = NoValue /\ UNCHANGED <<clock, published, descriptors, active, installed, run, orphans>>
  BY RecordAssumption
     DEF Recover, Verified, Committed, ClientInv, ClientTypeOK, Intents
<1>2. active.generation \in Nat
  BY <1>1 DEF ClientInv, ClientTypeOK, Descriptor
<1>3. ClientTypeOK' /\ DescriptorsTruthful' /\ FilesVerified' /\ JournalInv' /\ RunInv'
  BY <1>1 DEF ClientInv, ClientTypeOK, DescriptorsTruthful, Truthful, FilesVerified, JournalInv, RunInv
<1>4. OrphanInv'
  BY <1>1, <1>2 DEF ClientInv, OrphanInv
<1>5. AheadOnlyWhilePending'
  BY <1>1, <1>2 DEF ClientInv, AheadOnlyWhilePending
<1> QED
  BY <1>3, <1>4, <1>5 DEF ClientInv

\* A step of the update that changes its place alone.
LEMMA RunOnly ==
  ASSUME ClientInv, run' \in [intent : Intent, step : Steps] \cup {NoValue}, RunInv',
         UNCHANGED <<clock, published, descriptors, active, pending, installed, orphans>>
  PROVE ClientInv'
BY DEF ClientInv, ClientTypeOK, DescriptorsTruthful, Truthful, FilesVerified, JournalInv, OrphanInv,
       AheadOnlyWhilePending, Follows

LEMMA BeginKeeps ==
  ASSUME ClientInv, NEW i \in Intents, NEW resume \in BOOLEAN, Begin(i, resume)
  PROVE ClientInv'
<1>1. i \in Intent /\ i.descriptor \in descriptors
  BY DEF Intents, Intent, ClientInv, ClientTypeOK
<1>2. run' \in [intent : Intent, step : Steps]
      /\ run'.intent = i /\ run'.step = "verified"
  BY <1>1, RecordAssumption DEF Begin, Steps
<1>3. RunInv'
  BY <1>1, <1>2 DEF Begin, Unblocked, RunInv, Follows, files
<1> QED
  BY <1>2, <1>3, RunOnly DEF Begin, files

\* The update under the lock, at one of its steps.
LEMMA RunTyped ==
  ASSUME ClientInv, run # NoValue
  PROVE run.intent \in Intent /\ run.intent # NoValue /\ run.step \in Steps
        /\ run.intent.descriptor \in Descriptor
        /\ \A s \in Steps : [run EXCEPT !.step = s] \in [intent : Intent, step : Steps]
                            /\ [run EXCEPT !.step = s].intent = run.intent
                            /\ [run EXCEPT !.step = s].step = s
BY RecordAssumption DEF ClientInv, ClientTypeOK, Intent

LEMMA JournalKeeps == ASSUME ClientInv, Journal PROVE ClientInv'
<1> DEFINE i == run.intent
           new == [run EXCEPT !.step = "journaled"]
<1>1. run # NoValue /\ run.step = "verified" /\ "journaled" \in Steps
  BY DEF Journal, AtStep, Steps
<1>2. i \in Intent /\ i # NoValue /\ new \in [intent : Intent, step : Steps]
      /\ new.intent = i /\ new.step = "journaled"
  BY <1>1, RunTyped
<1>3. i.descriptor \in descriptors /\ pending \in {NoValue, i} /\ Follows(i.descriptor)
  BY <1>1 DEF ClientInv, RunInv
<1>4. pending' = i /\ run' = new /\ UNCHANGED <<clock, published, descriptors, active, installed, orphans>>
  BY DEF Journal, ToStep
<1> HIDE DEF i, new
<1>5. ClientTypeOK' /\ DescriptorsTruthful' /\ FilesVerified'
  BY <1>2, <1>3, <1>4 DEF ClientInv, ClientTypeOK, DescriptorsTruthful, Truthful, FilesVerified
<1>6. JournalInv' /\ RunInv'
  BY <1>2, <1>3, <1>4 DEF JournalInv, RunInv, Follows
<1>7. OrphanInv'
  BY <1>3, <1>4, RecordAssumption DEF ClientInv, ClientTypeOK, OrphanInv
<1>8. AheadOnlyWhilePending'
  BY <1>2, <1>3, <1>4 DEF ClientInv, AheadOnlyWhilePending
<1> QED
  BY <1>5, <1>6, <1>7, <1>8 DEF ClientInv

LEMMA StartDnfKeeps == ASSUME ClientInv, StartDnf PROVE ClientInv'
<1> DEFINE new == [run EXCEPT !.step = "dnf"]
<1>1. run # NoValue /\ run.step = "journaled" /\ "dnf" \in Steps
  BY DEF StartDnf, Startable, AtStep, Steps
<1>2. new \in [intent : Intent, step : Steps] /\ new.intent = run.intent /\ new.step = "dnf"
  BY <1>1, RunTyped
<1>3. run' = new /\ UNCHANGED <<clock, published, descriptors, files, installed, orphans>>
  BY DEF StartDnf, ToStep
<1> HIDE DEF new
<1>4. RunInv'
  BY <1>1, <1>2, <1>3 DEF ClientInv, RunInv, Follows, files
<1> QED
  BY <1>2, <1>3, <1>4, RunOnly DEF files

\* DNF, or one left behind, installs for the journalled view; where the update is
\* afterwards is the other hypothesis.
LEMMA DnfKeeps ==
  ASSUME ClientInv, NEW i \in Intent, NEW names,
         installed' = Applied(i, names),
         pending = i \/ (active # NoValue /\ i.descriptor.generation <= active.generation),
         UNCHANGED <<clock, published, descriptors, active, pending>>, orphans' \subseteq orphans,
         run' \in [intent : Intent, step : Steps] \cup {NoValue}, RunInv'
  PROVE ClientInv'
<1>1. AheadOnlyWhilePending' /\ installed' \in [Name -> [version : Nat, generation : Nat]]
  BY InstallKeeps
<1>2. ClientTypeOK' /\ DescriptorsTruthful' /\ FilesVerified' /\ JournalInv' /\ OrphanInv'
  BY <1>1 DEF ClientInv, ClientTypeOK, DescriptorsTruthful, Truthful, FilesVerified, JournalInv,
              OrphanInv, Follows
<1> QED
  BY <1>1, <1>2 DEF ClientInv

LEMMA DnfSucceedsKeeps == ASSUME ClientInv, DnfSucceeds PROVE ClientInv'
<1> DEFINE new == [run EXCEPT !.step = "transacted"]
<1>1. run # NoValue /\ run.step = "dnf" /\ "transacted" \in Steps
  BY DEF DnfSucceeds, AtStep, Steps
<1>2. run.intent \in Intent /\ new \in [intent : Intent, step : Steps]
      /\ new.intent = run.intent /\ new.step = "transacted"
  BY <1>1, RunTyped
<1>3. run' = new /\ UNCHANGED <<clock, published, descriptors, active, pending, orphans>>
  BY DEF DnfSucceeds, ToStep, files
<1>4. PICK names : installed' = Applied(run.intent, names)
  BY DEF DnfSucceeds
<1>5. pending = run.intent
  BY <1>1 DEF ClientInv, RunInv
<1> HIDE DEF new
<1>6. RunInv'
  BY <1>1, <1>2, <1>3 DEF ClientInv, RunInv, Follows
<1> QED
  BY <1>2, <1>3, <1>4, <1>5, <1>6, DnfKeeps

LEMMA DnfFailsKeeps == ASSUME ClientInv, DnfFails PROVE ClientInv'
<1>1. run # NoValue /\ run.step = "dnf"
  BY DEF DnfFails, AtStep
<1>2. run.intent \in Intent /\ pending = run.intent
  BY <1>1, RunTyped DEF ClientInv, RunInv
<1>3. PICK names : installed' = Applied(run.intent, names)
  BY DEF DnfFails
<1>4. run' = NoValue /\ UNCHANGED <<clock, published, descriptors, active, pending, orphans>>
  BY DEF DnfFails, files
<1>5. RunInv'
  BY <1>4 DEF RunInv
<1> QED
  BY <1>2, <1>3, <1>4, <1>5, DnfKeeps

LEMMA OrphanEndsKeeps == ASSUME ClientInv, NEW i \in orphans, OrphanEnds(i) PROVE ClientInv'
<1>1. i \in Intent /\ (pending = i \/ (active # NoValue /\ i.descriptor.generation <= active.generation))
  BY DEF ClientInv, ClientTypeOK, OrphanInv
<1>2. PICK names : installed' = Applied(i, names)
  BY DEF OrphanEnds
<1>3. /\ UNCHANGED <<clock, published, descriptors, active, pending>> /\ orphans' \subseteq orphans
      /\ run' = run
  BY DEF OrphanEnds, files
<1>4. run' \in [intent : Intent, step : Steps] \cup {NoValue} /\ RunInv'
  BY <1>3 DEF ClientInv, ClientTypeOK, RunInv, Follows
<1> QED
  BY <1>1, <1>2, <1>3, <1>4, DnfKeeps

\* Committing makes the journalled view the active one, which all that was ahead
\* comes from.
LEMMA CommitKeeps == ASSUME ClientInv, Commit PROVE ClientInv'
<1> DEFINE i == run.intent
           new == [run EXCEPT !.step = "committed"]
<1>1. run # NoValue /\ run.step \in {"transacted", "journaled"} /\ "committed" \in Steps
  BY DEF Commit, AtStep, Steps
<1>2. i \in Intent /\ i # NoValue /\ i.descriptor \in Descriptor
      /\ new \in [intent : Intent, step : Steps] /\ new.intent = i /\ new.step = "committed"
  BY <1>1, RunTyped
<1>3. i.descriptor \in descriptors /\ pending = i /\ Follows(i.descriptor)
  BY <1>1 DEF ClientInv, RunInv
<1>4. active' = i.descriptor /\ run' = new
      /\ UNCHANGED <<clock, published, descriptors, pending, installed, orphans>>
  BY DEF Commit, ToStep
<1> HIDE DEF i, new
<1>5. active' # NoValue /\ active'.generation \in Nat
      /\ (active # NoValue => active.generation \in Nat /\ active'.generation = active.generation + 1)
  BY <1>2, <1>3, <1>4, RecordAssumption, FollowsNext DEF ClientInv, ClientTypeOK, Descriptor
<1>6. ClientTypeOK' /\ DescriptorsTruthful' /\ FilesVerified'
  BY <1>2, <1>3, <1>4 DEF ClientInv, ClientTypeOK, DescriptorsTruthful, Truthful, FilesVerified
<1>7. JournalInv' /\ RunInv'
  BY <1>2, <1>3, <1>4 DEF JournalInv, RunInv
<1>8. OrphanInv'
  <2> SUFFICES ASSUME NEW o \in orphans PROVE pending = o \/ o.descriptor.generation <= active'.generation
    BY <1>4, <1>5 DEF OrphanInv
  <2>1. o.descriptor.generation \in Nat
    BY DEF ClientInv, ClientTypeOK, Intent, Descriptor
  <2> QED
    BY <1>5, <2>1 DEF ClientInv, OrphanInv
<1>9. AheadOnlyWhilePending'
  <2> SUFFICES ASSUME NEW n \in Name PROVE installed[n].generation <= active'.generation
    BY <1>4, <1>5 DEF AheadOnlyWhilePending, ClientInv, ClientTypeOK
  <2>1. installed[n].generation \in Nat
    BY DEF ClientInv, ClientTypeOK
  <2>2. \/ installed[n].generation <= (IF active = NoValue THEN 0 ELSE active.generation)
        \/ installed[n].generation = active'.generation
    BY <1>3, <1>4, <1>5, <2>1 DEF ClientInv, AheadOnlyWhilePending
  <2> QED
    BY <1>5, <2>1, <2>2
<1> QED
  BY <1>6, <1>7, <1>8, <1>9 DEF ClientInv

LEMMA ClearKeeps == ASSUME ClientInv, Clear PROVE ClientInv'
<1>1. run # NoValue /\ run.step = "committed"
  BY DEF Clear, AtStep
<1>2. active = run.intent.descriptor /\ pending = run.intent /\ run.intent # NoValue
      /\ active \in Descriptor /\ active # NoValue
  BY <1>1, RunTyped, RecordAssumption DEF ClientInv, RunInv
<1>3. pending' = NoValue /\ run' = NoValue
      /\ UNCHANGED <<clock, published, descriptors, active, installed, orphans>>
  BY DEF Clear
<1>4. active.generation \in Nat
  BY <1>2 DEF Descriptor
<1>5. ClientTypeOK' /\ DescriptorsTruthful' /\ FilesVerified' /\ JournalInv' /\ RunInv'
  BY <1>3 DEF ClientInv, ClientTypeOK, DescriptorsTruthful, Truthful, FilesVerified, JournalInv, RunInv
<1>6. OrphanInv'
  BY <1>2, <1>3, <1>4 DEF ClientInv, OrphanInv
<1>7. AheadOnlyWhilePending'
  BY <1>2, <1>3, <1>4 DEF ClientInv, AheadOnlyWhilePending
<1> QED
  BY <1>5, <1>6, <1>7 DEF ClientInv

\* A killed update leaves its DNF behind, which works on the journalled view.
LEMMA StopKeeps == ASSUME ClientInv, StopUpdate PROVE ClientInv'
<1>1. run # NoValue /\ run' = NoValue /\ UNCHANGED <<clock, published, descriptors, active, pending, installed>>
  BY DEF StopUpdate, files
<1>2. run.intent \in Intent
  BY <1>1, RunTyped
<1>3. orphans' = orphans \/ (orphans' = orphans \cup {run.intent} /\ pending = run.intent)
  BY <1>1 DEF StopUpdate, ClientInv, RunInv
<1>4. ClientTypeOK' /\ DescriptorsTruthful' /\ FilesVerified' /\ JournalInv' /\ RunInv'
  BY <1>1, <1>2, <1>3 DEF ClientInv, ClientTypeOK, DescriptorsTruthful, Truthful, FilesVerified, JournalInv,
                          RunInv, Follows
<1>5. OrphanInv' /\ AheadOnlyWhilePending'
  BY <1>1, <1>3 DEF ClientInv, OrphanInv, AheadOnlyWhilePending
<1> QED
  BY <1>4, <1>5 DEF ClientInv

LEMMA TickKeeps == ASSUME ClientInv, Tick PROVE ClientInv'
<1>1. clock' \in Nat /\ UNCHANGED <<published, descriptors, client>>
  BY DEF Tick, ClientInv, ClientTypeOK
<1>2. ClientTypeOK' /\ DescriptorsTruthful'
  BY <1>1 DEF ClientInv, ClientTypeOK, DescriptorsTruthful, Truthful, client, files
<1> QED
  BY <1>1, <1>2, IssuerKeeps

-----------------------------------------------------------------------------
(* The client: theorems.                                                   *)

\* Every step of issuer, update and DNF keeps the invariant.
THEOREM ClientInvariant == ClientSpec => []ClientInv
<1>1. ClientInv /\ [ClientNext]_clientVars => ClientInv'
  <2> SUFFICES ASSUME ClientInv, [ClientNext]_clientVars PROVE ClientInv'
    OBVIOUS
  <2>1. ASSUME NEW view \in ClientView, NEW life \in 1 .. MaxClock, Publish(view, life) PROVE ClientInv'
    BY <2>1, PublishKeeps
  <2>2. ASSUME NEW life \in 1 .. MaxLife, Issue(life) PROVE ClientInv'
    BY <2>2, IssueKeeps
  <2>3. ASSUME NEW i \in Intents, NEW resume \in BOOLEAN, Recover(i, resume) \/ Begin(i, resume)
        PROVE ClientInv'
    BY <2>3, RecoverKeeps, BeginKeeps
  <2>4. CASE Journal \/ StartDnf \/ Commit \/ Clear \/ StopUpdate
    BY <2>4, JournalKeeps, StartDnfKeeps, CommitKeeps, ClearKeeps, StopKeeps
  <2>5. CASE DnfSucceeds \/ DnfFails
    BY <2>5, DnfSucceedsKeeps, DnfFailsKeeps
  <2>6. ASSUME NEW i \in orphans, OrphanEnds(i) PROVE ClientInv'
    BY <2>6, OrphanEndsKeeps
  <2>7. CASE Tick
    BY <2>7, TickKeeps
  <2>8. CASE UNCHANGED clientVars
    <3>1. UNCHANGED <<clock, published, descriptors, client>>
      BY <2>8 DEF clientVars
    <3>2. ClientTypeOK' /\ DescriptorsTruthful'
      BY <3>1 DEF ClientInv, ClientTypeOK, DescriptorsTruthful, Truthful, client, files
    <3> QED
      BY <3>1, <3>2, IssuerKeeps
  <2> QED
    BY <2>1, <2>2, <2>3, <2>4, <2>5, <2>6, <2>7, <2>8 DEF ClientNext
<1> QED
  BY InitClient, <1>1, PTL DEF ClientSpec

\* Every reachable state is well typed.
THEOREM PsopClientTypeCorrect == ClientSpec => []ClientTypeOK
<1>1. ClientInv => ClientTypeOK
  BY DEF ClientInv
<1> QED
  BY <1>1, ClientInvariant, PTL

\* What is installed ahead of the active view is the journalled next view,
\* whatever step an update or a DNF left behind stopped at.
THEOREM AheadIsJournalled == ClientSpec => []AheadOnlyWhilePending
<1>1. ClientInv => AheadOnlyWhilePending
  BY DEF ClientInv
<1> QED
  BY <1>1, ClientInvariant, PTL

\* The journal never locks its own update out.
THEOREM JournalResumable == ClientSpec => []PendingResumable
<1>1. ClientInv => PendingResumable
  BY DEF ClientInv, JournalInv, PendingResumable, Committed, Unblocked
<1> QED
  BY <1>1, ClientInvariant, PTL

\* The active view moves to the publication right after it only.
THEOREM ActiveFollows == ClientSpec => ActiveFollowsStable
<1> DEFINE A == active' # active =>
                  /\ active'.view = published[active'.generation].view
                  /\ active # NoValue => active'.generation = active.generation + 1
<1>1. ClientInv /\ [ClientNext]_clientVars => [A]_clientVars
  <2> SUFFICES ASSUME ClientInv, ClientNext, active' # active PROVE A
    BY DEF clientVars, client, files
  <2>1. Commit
    BY DEF ClientNext, Publish, Issue, Recover, Begin, Journal, StartDnf, DnfSucceeds, DnfFails, Clear, StopUpdate,
           OrphanEnds, Tick, client, files
  <2>2. run # NoValue /\ run.step # "verified" /\ run.step # "committed" /\ active' = run.intent.descriptor
    BY <2>1 DEF Commit, AtStep
  <2>3. active' \in descriptors /\ Follows(active')
    BY <2>2 DEF ClientInv, RunInv
  <2> QED
    BY <2>3, FollowsNext DEF ClientInv, DescriptorsTruthful, Truthful
<1> QED
  BY <1>1, ClientInvariant, PTL DEF ClientSpec, ActiveFollowsStable

\* DNF is started under a valid approval and never again for the active view.
THEOREM DnfUnderApproval == ClientSpec => TransactsUnderApproval
<1> DEFINE A == run' # run /\ run' # NoValue /\ run'.step = "dnf" =>
                  /\ clock < published[run'.intent.descriptor.generation].expires
                  /\ run'.intent.descriptor # active
<1>1. ClientInv /\ [ClientNext]_clientVars => [A]_clientVars
  <2> SUFFICES ASSUME ClientInv, ClientNext, run' # run, run' # NoValue, run'.step = "dnf"
               PROVE /\ clock < published[run'.intent.descriptor.generation].expires
                     /\ run'.intent.descriptor # active
    BY DEF clientVars, client
  <2> DEFINE d == run.intent.descriptor
  <2>1. StartDnf
    <3>1. ASSUME NEW s \in Steps, run # NoValue, ToStep(s) PROVE s = "dnf"
      BY <3>1, RunTyped DEF ToStep
    <3>2. ~Journal /\ ~DnfSucceeds /\ ~Commit
      BY <3>1 DEF Journal, DnfSucceeds, Commit, AtStep, Steps
    <3>3. /\ \A view \in ClientView, life \in 1 .. MaxClock : ~Publish(view, life)
          /\ \A life \in 1 .. MaxLife : ~Issue(life)
          /\ ~DnfFails /\ ~Clear /\ ~StopUpdate /\ ~Tick /\ \A i \in orphans : ~OrphanEnds(i)
      BY DEF Publish, Issue, DnfFails, Clear, StopUpdate, Tick, OrphanEnds, client, files
    <3>4. \A i \in Intents, resume \in BOOLEAN : ~Recover(i, resume) /\ ~Begin(i, resume)
      BY DEF Recover, Begin
    <3> QED
      BY <3>2, <3>3, <3>4 DEF ClientNext
  <2>2. run # NoValue /\ run.step = "journaled" /\ Fresh(d)
    BY <2>1 DEF StartDnf, Startable, AtStep
  <2>3. run'.intent = run.intent /\ d \in Descriptor
    BY <2>1, <2>2, RunTyped DEF StartDnf, ToStep, Steps
  <2>4. d \in descriptors /\ Follows(d)
    BY <2>2 DEF ClientInv, RunInv
  <2>5. Truthful(d) /\ published[d.generation] \in Publication
    BY <2>4 DEF ClientInv, ClientTypeOK, DescriptorsTruthful, Truthful
  <2>6. clock < d.expires /\ d.expires <= published[d.generation].expires
    BY <2>2, <2>5 DEF Fresh, Truthful
  <2>7. clock < published[d.generation].expires
    BY <2>3, <2>5, <2>6 DEF ClientInv, ClientTypeOK, Descriptor, Publication
  <2>8. d # active
    BY <2>3, <2>4, RecordAssumption, FollowsNext DEF Descriptor
  <2> QED
    BY <2>3, <2>7, <2>8
<1> QED
  BY <1>1, ClientInvariant, PTL DEF ClientSpec, TransactsUnderApproval
=============================================================================
