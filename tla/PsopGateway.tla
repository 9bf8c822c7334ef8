---------------------------- MODULE PsopGateway ----------------------------
(***************************************************************************)
(* The local single-writer gateway of the simulated PSOP realm             *)
(* (src/tools/psop_storage_gateway.py on psop_ledger.py, psop_outbox.py,   *)
(* and the admission and reconciliation of v3_fenced_publisher.py).        *)
(*                                                                         *)
(* One attempt at a time may be pending in the realm.  A worker leases it, *)
(* commits the intent to move the branch, and moves it under the transport *)
(* lock if the transport epoch is still the one of its preparation.  A     *)
(* drain raises the epoch, which fences every request prepared before, and *)
(* lets an operator abort the intent.  Ledger transactions, reads of the   *)
(* branch and transport operations are separate actions; gateways of other *)
(* processes act between any two of them, and a process may stop anywhere. *)
(*                                                                         *)
(* A result names the stable view it was composed on, so a digest is       *)
(* represented by the chain of plans behind it, and a commit by the        *)
(* attempts that it and its ancestors published.                           *)
(***************************************************************************)
EXTENDS Integers, SequencesExt

CONSTANTS
  Attempt,    \* attempt identifiers
  Worker,     \* processes that use a gateway
  Plan,       \* plans a result can be composed by
  None,       \* Python's None
  Imported,   \* the test bases a realm may have adopted; <<>> for a new one
  MaxFence,   \* bound on the leases granted for one job
  MaxEpoch    \* bound on the drains

ASSUME NoneAssumption ==
  None \notin Attempt \cup Worker
              \cup {"PENDING", "COMPLETE", "FAILED", "IN_FLIGHT", "CONFIRMED", "ABORTED"}
ASSUME ImportedAssumption == Imported \subseteq Seq(Plan)
ASSUME BoundAssumption == MaxFence \in Nat /\ MaxEpoch \in Nat

VARIABLES
  head,       \* the stable head in the ledger
  imported,   \* the test base it started from
  attempts,   \* the attempts, each with its outbox job
  branch,     \* refs/heads/isolated-storage
  epoch,      \* psop-transport-epoch
  proof,      \* the drain proof that fits the newest audit event
  worker      \* where each process is

vars == <<head, imported, attempts, branch, epoch, proof, worker>>

View == Seq(Plan)

Final == {"COMPLETE", "COMMITTED_EXPIRED"}

IntentStatus == {"IN_FLIGHT", "CONFIRMED", "ABORTED"}

AttemptRecord ==
  [state : {"ABSENT", "PREPARED", "STAGED", "UNKNOWN", "ABORTED"} \cup Final,
   stable : BOOLEAN,                     \* its writer moves the stable head
   previous : View, result : View,       \* the reviewed base and the result
   expected : Seq(Attempt),              \* the branch it was prepared on
   epoch : Nat,                          \* the transport epoch then
   live : BOOLEAN,                       \* its approval has not expired
   checked : BOOLEAN,                    \* admit compared the branch
   status : {None, "PENDING", "COMPLETE", "FAILED"},
   intent : IntentStatus \cup {None},
   fence : Nat, leased : BOOLEAN]          \* the newest lease

WorkerRecord ==
  [step : {"idle", "claim", "admit", "request", "apply", "unknown",
           "inspect", "observe", "confirm", "complete"},
   attempt : Attempt \cup {None}, fence : Nat, seen : IntentStatus \cup {None}]

Absent == [state |-> "ABSENT", stable |-> FALSE, previous |-> <<>>, result |-> <<>>,
           expected |-> <<>>, epoch |-> 0, live |-> FALSE, checked |-> FALSE, status |-> None,
           intent |-> None, fence |-> 0, leased |-> FALSE]

Idle == [step |-> "idle", attempt |-> None, fence |-> 0, seen |-> None]

Types ==
  /\ head \in [digest : View, generation : Nat]
  /\ imported \in View
  /\ attempts \in [Attempt -> AttemptRecord]
  /\ branch \in Seq(Attempt)
  /\ epoch \in Nat
  /\ proof \in [attempt : Attempt, epoch : Nat] \cup {None}
  /\ worker \in [Worker -> WorkerRecord]

\* Types, and a resolved job has a resolved intent.
TypeOK ==
  /\ Types
  /\ \A a \in Attempt :
       /\ attempts[a].status = "COMPLETE" => attempts[a].intent = "CONFIRMED"
       /\ attempts[a].intent = "ABORTED" <=> (attempts[a].status = "FAILED"
                                              /\ attempts[a].intent # "CONFIRMED")

\* A new realm, or one that adopted a synthetic base (adopt_test_base).
Init == /\ imported \in Imported
        /\ head = [digest |-> imported, generation |-> Len(imported)]
        /\ attempts = [a \in Attempt |-> Absent]
        /\ branch = <<>>
        /\ epoch = 0
        /\ proof = None
        /\ worker = [w \in Worker |-> Idle]

-----------------------------------------------------------------------------
(* Steps.                                                                  *)

At(w, step) == worker[w].step = step

Mine(w) == attempts[worker[w].attempt]

\* A ledger transaction adds an audit event, and a drain proof names the newest.
Transaction == proof' = None

SetAttempt(a, record) == attempts' = [attempts EXCEPT ![a] = record]

Goto(w, step) == worker' = [worker EXCEPT ![w].step = step]

Leave(w) == worker' = [worker EXCEPT ![w] = Idle]

Target(a) == Append(attempts[a].expected, a)

-----------------------------------------------------------------------------
(* Preparation and admission.                                              *)

\* An approved result is prepared on the branch as it is: approval and commit
\* name it.  A review of a base that is not the head's never gets through admit.
Prepare(a, plan, stable) ==
  /\ attempts[a].state = "ABSENT"
  /\ SetAttempt(a, [state |-> "PREPARED", stable |-> stable, previous |-> head.digest,
                    result |-> Append(head.digest, plan), expected |-> branch, epoch |-> epoch,
                    live |-> TRUE, checked |-> FALSE, status |-> None, intent |-> None,
                    fence |-> 0, leased |-> FALSE])
  /\ UNCHANGED <<head, imported, branch, epoch, proof, worker>>

\* admit compares the branch before its ledger transaction begins.
CheckBase(a) ==
  /\ attempts[a].state = "PREPARED" /\ ~attempts[a].checked
  /\ branch = attempts[a].expected
  /\ SetAttempt(a, [attempts[a] EXCEPT !.checked = TRUE])
  /\ UNCHANGED <<head, imported, branch, epoch, proof, worker>>

\* _available: no unresolved intent in the realm.
RealmFreeOfIntents == \A b \in Attempt : attempts[b].intent # "IN_FLIGHT"

\* enqueue: a pending job blocks the whole writer realm.
RealmFree == \A b \in Attempt : attempts[b].status # "PENDING"

Enqueue(a) ==
  /\ attempts[a].state = "PREPARED" /\ attempts[a].checked
  /\ RealmFree
  /\ attempts[a].live
  /\ head.digest = attempts[a].previous
  /\ SetAttempt(a, [attempts[a] EXCEPT !.state = "STAGED", !.status = "PENDING"])
  /\ Transaction
  /\ UNCHANGED <<head, imported, branch, epoch, worker>>

-----------------------------------------------------------------------------
(* Gateway.apply.                                                          *)

\* An existing intent is left to reconciliation, and a finished job returns.
BeginApply(w, a) ==
  /\ At(w, "idle")
  /\ attempts[a].state \notin {"ABSENT", "PREPARED"} \cup Final
  /\ attempts[a].intent = None
  /\ worker' = [worker EXCEPT ![w] = [Idle EXCEPT !.step = "claim", !.attempt = a]]
  /\ UNCHANGED <<head, imported, attempts, branch, epoch, proof>>

Claim(w) ==
  /\ At(w, "claim")
  /\ Mine(w).status = "PENDING" /\ ~Mine(w).leased /\ Mine(w).live
  /\ Mine(w).fence < MaxFence
  /\ SetAttempt(worker[w].attempt, [Mine(w) EXCEPT !.fence = @ + 1, !.leased = TRUE])
  /\ worker' = [worker EXCEPT ![w].step = "admit", ![w].fence = Mine(w).fence + 1]
  /\ Transaction
  /\ UNCHANGED <<head, imported, branch, epoch>>

\* _guard: the worker holds the newest lease of a job that is not finished.
Guard(w) == /\ Mine(w).fence = worker[w].fence /\ Mine(w).leased
            /\ Mine(w).status = "PENDING" /\ Mine(w).live

\* _admit: the intent is durable before the branch is touched, one per job and
\* one at a time in the realm.
Admit(w) ==
  /\ At(w, "admit")
  /\ Guard(w)
  /\ RealmFreeOfIntents
  /\ Mine(w).intent = None
  /\ SetAttempt(worker[w].attempt, [Mine(w) EXCEPT !.intent = "IN_FLIGHT"])
  /\ Goto(w, "request")
  /\ Transaction
  /\ UNCHANGED <<head, imported, branch, epoch>>

\* The time of the request is recorded under the lease.
Request(w) ==
  /\ At(w, "request")
  /\ Guard(w)
  /\ Goto(w, "apply")
  /\ Transaction
  /\ UNCHANGED <<head, imported, attempts, branch, epoch>>

\* Mutant: the epoch is not compared.
NotFencedEver(w) == TRUE

\* No drain has fenced the request since it was prepared.
NotFenced(w) == epoch = Mine(w).epoch

\* LocalTransport.apply under the transport lock, which asks for no lease any
\* more.  Whatever raises before or after the update leads to _mark_unknown.
Apply(w) ==
  /\ At(w, "apply")
  /\ \/ /\ NotFenced(w)
        /\ branch = Mine(w).expected
        /\ branch' = Target(worker[w].attempt)
        /\ Goto(w, "inspect") \/ Goto(w, "unknown")
     \/ /\ Goto(w, "unknown")
        /\ UNCHANGED branch
  /\ UNCHANGED <<head, imported, attempts, epoch, proof>>

\* _mark_unknown looks at nothing that happened meanwhile.
MarkUnknown(w) ==
  /\ At(w, "unknown")
  /\ SetAttempt(worker[w].attempt, [Mine(w) EXCEPT !.state = "UNKNOWN"])
  /\ Leave(w)
  /\ Transaction
  /\ UNCHANGED <<head, imported, branch, epoch>>

-----------------------------------------------------------------------------
(* Gateway.reconcile, by the worker or by anybody else.                    *)

BeginReconcile(w, a) ==
  /\ At(w, "idle")
  /\ attempts[a].state \notin {"ABSENT", "PREPARED"}
  /\ worker' = [worker EXCEPT ![w] = [Idle EXCEPT !.step = "inspect", !.attempt = a]]
  /\ UNCHANGED <<head, imported, attempts, branch, epoch, proof>>

\* A finished publication has nothing left but its receipt.
Inspect(w) ==
  /\ At(w, "inspect")
  /\ IF Mine(w).state \in Final THEN Leave(w) ELSE Goto(w, "observe")
  /\ UNCHANGED <<head, imported, attempts, branch, epoch, proof>>

\* Mutant: a branch that still is at the base counts as an answer too.
ShowsAtBase(w) == branch = Target(worker[w].attempt) \/ branch = Mine(w).expected

\* verify_target: only the exact target answers an unknown request.
Shows(w) == branch = Target(worker[w].attempt)

\* Where reconcile goes on once the target was seen.
AfterShown == "confirm"

\* The branch is read before and after the intent and never returns to a commit
\* it left, so the intent is read while the branch is at the target.
Observe(w) ==
  /\ At(w, "observe")
  /\ Mine(w).intent # None
  /\ Shows(w)
  /\ worker' = [worker EXCEPT ![w].step = AfterShown, ![w].seen = Mine(w).intent]
  /\ UNCHANGED <<head, imported, attempts, branch, epoch, proof>>

Confirm(w) ==
  /\ At(w, "confirm")
  /\ Mine(w).intent = worker[w].seen
  /\ SetAttempt(worker[w].attempt, [Mine(w) EXCEPT !.intent = "CONFIRMED"])
  /\ Goto(w, "complete")
  /\ Transaction
  /\ UNCHANGED <<head, imported, branch, epoch>>

\* Mutant: the stable head is moved whatever it is.
HeadAtAnyBase(w) == TRUE

HeadAtBase(w) == head.digest = Mine(w).previous

\* After the approval expired the commit stands, and the head stays.
CompleteExpired(w) ==
  /\ At(w, "complete")
  /\ ~Mine(w).live
  /\ SetAttempt(worker[w].attempt, [Mine(w) EXCEPT !.state = "COMMITTED_EXPIRED", !.status = "FAILED"])
  /\ Leave(w)
  /\ Transaction
  /\ UNCHANGED <<head, imported, branch, epoch>>

Complete(w) ==
  /\ At(w, "complete")
  /\ Mine(w).live
  /\ IF Mine(w).stable
       THEN /\ HeadAtBase(w)
            /\ head' = [digest |-> Mine(w).result, generation |-> head.generation + 1]
       ELSE UNCHANGED head
  /\ SetAttempt(worker[w].attempt, [Mine(w) EXCEPT !.state = "COMPLETE", !.status = "COMPLETE"])
  /\ Leave(w)
  /\ Transaction
  /\ UNCHANGED <<imported, branch, epoch>>

-----------------------------------------------------------------------------
(* Time, stops, and the operator who drains and aborts.                    *)

\* Any exception, crash or refused guard; the ledger and the branch stay.
Stop(w) ==
  /\ worker[w].step # "idle"
  /\ Leave(w)
  /\ UNCHANGED <<head, imported, attempts, branch, epoch, proof>>

Expire(a) ==
  /\ attempts[a].live
  /\ SetAttempt(a, [attempts[a] EXCEPT !.live = FALSE])
  /\ UNCHANGED <<head, imported, branch, epoch, proof, worker>>

LeaseEnds(a) ==
  /\ attempts[a].leased
  /\ SetAttempt(a, [attempts[a] EXCEPT !.leased = FALSE])
  /\ UNCHANGED <<head, imported, branch, epoch, proof, worker>>

\* LocalTransport.drain: the epoch is raised while the branch is at the base.
Drain(a) ==
  /\ attempts[a].intent # None
  /\ branch = attempts[a].expected
  /\ epoch < MaxEpoch
  /\ epoch' = epoch + 1
  /\ proof' = [attempt |-> a, epoch |-> epoch + 1]
  /\ UNCHANGED <<head, imported, attempts, branch, worker>>

\* The proof is of the newest event and of the current epoch.
Proven(a) == proof # None /\ proof = [attempt |-> a, epoch |-> epoch]

\* abort_noncommit holds the transport lock around its transaction.
Abort(a) ==
  /\ attempts[a].intent = "IN_FLIGHT"
  /\ Proven(a)
  /\ attempts[a].epoch < epoch
  /\ branch = attempts[a].expected
  /\ SetAttempt(a, [attempts[a] EXCEPT !.state = "ABORTED", !.status = "FAILED", !.intent = "ABORTED"])
  /\ Transaction
  /\ UNCHANGED <<head, imported, branch, epoch, worker>>

Run(w) == \/ \E a \in Attempt : BeginApply(w, a) \/ BeginReconcile(w, a)
          \/ Claim(w) \/ Admit(w) \/ Request(w) \/ Apply(w) \/ MarkUnknown(w)
          \/ Inspect(w) \/ Observe(w) \/ Confirm(w) \/ CompleteExpired(w) \/ Complete(w)
          \/ Stop(w)

Next == \/ \E a \in Attempt :
             \/ \E plan \in Plan, stable \in BOOLEAN : Prepare(a, plan, stable)
             \/ CheckBase(a) \/ Enqueue(a) \/ Expire(a) \/ LeaseEnds(a) \/ Drain(a) \/ Abort(a)
        \/ \E w \in Worker : Run(w)

Spec == Init /\ [][Next]_vars

-----------------------------------------------------------------------------

OnBranch(a) == \E i \in DOMAIN branch : branch[i] = a

\* What the ledger says of a request stays true of the branch: a confirmed or
\* finished one is in its history, and an aborted one never gets there, however
\* late its worker acts and whatever is drained meanwhile (apply, drain,
\* abort_noncommit, reconcile).
OutcomeTruth ==
  \A a \in Attempt :
    /\ attempts[a].intent = "CONFIRMED" \/ attempts[a].state \in Final => OnBranch(a)
    /\ attempts[a].intent = "ABORTED" => ~OnBranch(a)

\* Why it does, as an inductive invariant: one job is pending at a time, its
\* intent stands in for the branch, and a worker carries what it has seen.
PendingAlone ==
  \A a, b \in Attempt : attempts[a].status = "PENDING" /\ attempts[b].status = "PENDING" => a = b

IntentInv ==
  \A a \in Attempt :
    LET r == attempts[a]
    IN /\ r.state \in {"ABSENT", "PREPARED"} => r.intent = None /\ r.status = None /\ ~OnBranch(a)
       /\ \A i \in DOMAIN r.expected : r.expected[i] # a
       /\ r.intent = "IN_FLIGHT" => r.status = "PENDING"
       /\ r.intent = "CONFIRMED" => OnBranch(a) /\ Len(r.expected) < Len(branch)
       /\ r.intent = "ABORTED" => ~OnBranch(a) /\ r.epoch < epoch
       /\ r.state \in Final => OnBranch(a)

WorkerInv ==
  \A w \in Worker :
    LET k == worker[w]
    IN k.step # "idle" =>
         /\ k.attempt \in Attempt /\ Mine(w).state \notin {"ABSENT", "PREPARED"}
         /\ k.step \in {"request", "apply"} => Mine(w).intent # None
         /\ k.step = "confirm" => OnBranch(k.attempt) /\ Len(Mine(w).expected) < Len(branch)
         /\ k.step = "complete" => Mine(w).intent = "CONFIRMED"

GatewayInv == TypeOK /\ PendingAlone /\ IntentInv /\ WorkerInv

\* The stable head is the chain of published stable results on top of the base
\* the realm began with, one generation for each however often it is reconciled,
\* and the branch holds a result before everything composed on it.
HeadIsPublished ==
  /\ head.generation = Len(head.digest)
  /\ IsPrefix(imported, head.digest)
  /\ \A g \in Len(imported) + 1 .. head.generation :
       \E i \in DOMAIN branch :
         /\ attempts[branch[i]].stable /\ attempts[branch[i]].intent = "CONFIRMED"
         /\ attempts[branch[i]].result = SubSeq(head.digest, 1, g)
         /\ \A j \in 1 .. i : Len(attempts[branch[j]].previous) < g

\* The branch is moved only for the one pending job of the realm, under its
\* unresolved intent, although the move asks for no lease and its worker may
\* have been taken over, expired or given up by everybody else.
MovesAreAdmitted ==
  [][branch' # branch =>
       \E a \in Attempt : /\ branch' = Target(a)
                          /\ attempts[a].status = "PENDING" /\ attempts[a].intent = "IN_FLIGHT"
                          /\ \A b \in Attempt \ {a} : attempts[b].status # "PENDING"]_vars

\* docs/psop/PR-B-IMPLEMENTATION.md:75 says that an update found applied after
\* its approval expired becomes COMMITTED_EXPIRED and the stable head does not
\* advance: no result of such an attempt is in the head's chain, unless another
\* stable attempt published the same result.
ExpiredLeavesHead ==
  \A a \in Attempt :
    (attempts[a].state = "COMMITTED_EXPIRED" /\ attempts[a].stable) =>
      \/ ~IsPrefix(attempts[a].result, head.digest)
      \/ \E b \in Attempt \ {a} : /\ OnBranch(b) /\ attempts[b].stable
                                  /\ attempts[b].result = attempts[a].result
=============================================================================
