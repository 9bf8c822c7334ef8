-------------------------- MODULE FencedPublication --------------------------
(***************************************************************************)
(* Publication jobs on one storage branch (src/tools/v3_publication_outbox.*)
(* py, class Outbox and Coordinator._run_branch; src/tools/v3_fenced_      *)
(* publisher.py; the expected-head update of src/tools/v3_github_provider. *)
(* py).                                                                    *)
(*                                                                         *)
(* Workers hold a job by a lease with an increasing fence.  A worker first *)
(* commits an intent to the ledger, which stops every other writer of the  *)
(* branch, and then asks the provider to move the branch from an expected  *)
(* commit.  Ledger transactions, reads of the branch and provider requests *)
(* are separate actions; a worker may fail or stop between any two, its    *)
(* lease may end at any time, and a request may take effect after its      *)
(* sender has given up.                                                    *)
(*                                                                         *)
(* A commit is identified by the entries it and its ancestors added, so a  *)
(* commit is a sequence of entries and the branch is its newest commit.    *)
(***************************************************************************)
EXTENDS SequencesExt, Integers

CONSTANTS
  Attempt,    \* attempt identifiers
  Worker,     \* processes that run jobs
  Digest,     \* identities of complete stable views
  None,       \* Python's None
  Past,       \* the verified heads a behaviour may start from; None: a new ledger
  MaxLeases,  \* bound on the leases granted, for one job or another
  Retaken     \* bound on what is leased again: jobs prepared on one of these heads

ASSUME NoneAssumption == None \notin Attempt \cup Worker \cup Digest
ASSUME PastAssumption == Past \subseteq Digest \cup {None} /\ Retaken \subseteq Digest \cup {None}
ASSUME LeaseAssumption == MaxLeases \in Nat

VARIABLES
  head,       \* the stable head in the ledger
  views,      \* digests verified after a publication
  attempts,   \* the attempts, each with its outbox job
  branch,     \* the storage branch
  requests,   \* provider requests whose sender has given up, still under way
  worker      \* where each worker is

vars == <<head, views, attempts, branch, requests, worker>>

Phases == {"stage", "advertisement"}

Entry == [kind : Phases, attempt : Attempt, generation : Nat]

Commit == Seq(Entry)

Intent == [phase : Phases, expected : Commit, target : Commit,
           status : {"IN_FLIGHT", "CONFIRMED", "ABORTED"}, fence : Nat]

Job == [expected : Commit,               \* the branch when the job was enqueued
        fence : Nat, owner : Worker \cup {None}, leased : BOOLEAN,
        status : {"PENDING", "COMPLETE"},
        intent : Intent \cup {None},
        identity : [Phases -> Commit \cup {None}]]   \* deployment_requests

ASSUME RecordAssumption == None \notin Phases \cup Job \cup Intent

AttemptRecord ==
  [state : {"ABSENT", "STAGED", "REMOTE_VERIFIED", "PUBLISHED", "POST_VERIFIED", "FAILED"},
   proofs : SUBSET {"PUBLISHED", "REAUTHORIZED"},
   previous : Digest \cup {None}, result : Digest \cup {None}, base : Nat,
   parent : Attempt \cup {None},         \* the attempt whose intent it adopted
   live : BOOLEAN,                       \* its authorization has not expired
   commit : Commit \cup {None},          \* the storage commit verified remotely
   job : Job \cup {None}]

Steps == {"idle", "begin", "check", "observe", "confirm", "resume", "enter", "prior",
          "build", "admit", "send", "identify", "verify", "accept", "guard", "publish",
          "complete"}

WorkerRecord ==
  [step : Steps, attempt : Attempt \cup {None}, fence : Nat,
   phase : Phases \cup {None},
   expected : Commit \cup {None}, target : Commit \cup {None},
   seen : Intent \cup {None}]

Absent == [state |-> "ABSENT", proofs |-> {}, previous |-> None, result |-> None,
           base |-> 0, parent |-> None, live |-> FALSE, commit |-> None, job |-> None]

Idle(fence, attempt) == [step |-> "idle", attempt |-> attempt, fence |-> fence, phase |-> None,
                         expected |-> None, target |-> None, seen |-> None]

TypeOK == /\ head \in [digest : Digest \cup {None}, generation : Nat,
                       last_verified : Digest \cup {None}]
          /\ views \subseteq Digest
          /\ attempts \in [Attempt -> AttemptRecord]
          /\ branch \in Commit
          /\ requests \subseteq [attempt : Attempt, expected : Commit, target : Commit]
          /\ worker \in [Worker -> WorkerRecord]

\* A new ledger, or one whose newest publication is verified.  The empty
\* sequence stands for the commit the branch is at when the behaviour starts.
Init == /\ \E d \in Past :
             /\ head = [digest |-> d, generation |-> IF d = None THEN 0 ELSE 1,
                        last_verified |-> d]
             /\ views = {d} \ {None}
        /\ attempts = [a \in Attempt |-> Absent]
        /\ branch = <<>>
        /\ requests = {}
        /\ worker = [w \in Worker |-> Idle(0, None)]

-----------------------------------------------------------------------------
(* Outbox.                                                                 *)

HasJob(a) == attempts[a].job # None

IntentOf(a) == IF HasJob(a) THEN attempts[a].job.intent ELSE None

InFlight(a) == IntentOf(a) # None /\ IntentOf(a).status = "IN_FLIGHT"

\* _guard: the worker holds the current lease of a job that can still run.
Guard(w) ==
  LET r == attempts[worker[w].attempt]
  IN /\ r.job.owner = w /\ r.job.fence = worker[w].fence /\ r.job.leased
     /\ r.job.status # "COMPLETE" /\ r.state # "FAILED" /\ r.live

SetJob(a, job) == attempts' = [attempts EXCEPT ![a].job = job]

Goto(w, step) == worker' = [worker EXCEPT ![w].step = step]

\* The leases granted so far, each with its fence.
Leases == {lease \in Attempt \X (1 .. MaxLeases) :
             HasJob(lease[1]) /\ lease[2] <= attempts[lease[1]].job.fence}

\* Attempts reach STAGED through PublicationBackend: promotion from a verified
\* head, recovery to a verified view.
Prepare(a, result) ==
  /\ attempts[a].state = "ABSENT"
  /\ head.digest = head.last_verified \/ result \in views
  /\ attempts' = [attempts EXCEPT ![a] =
       [Absent EXCEPT !.state = "STAGED", !.previous = head.digest, !.result = result,
                      !.base = head.generation, !.live = TRUE]]
  /\ UNCHANGED <<head, views, branch, requests, worker>>

\* No request of p is under way and none can still be sent.
Drained(p) == /\ \A r \in requests : r.attempt # p
              /\ \A w \in Worker : ~(worker[w].step = "send" /\ worker[w].attempt = p)

\* reauthorize_first: a child adopts the unverified first publication of p.
Adopt(a, p) ==
  /\ attempts[a].state = "ABSENT"
  /\ attempts[p].previous = None /\ ~attempts[p].live
  /\ attempts[p].state \in {"STAGED", "REMOTE_VERIFIED", "PUBLISHED", "FAILED"}
  /\ (IF attempts[p].parent = None THEN "PUBLISHED" ELSE "REAUTHORIZED") \in attempts[p].proofs
  /\ head = [digest |-> attempts[p].result, generation |-> attempts[p].base + 1,
             last_verified |-> None]
  /\ \A b \in Attempt : attempts[b].parent # p
  /\ Drained(p)
  /\ attempts' = [attempts EXCEPT ![a] =
       [Absent EXCEPT !.state = "STAGED", !.proofs = {"REAUTHORIZED"}, !.parent = p,
                      !.result = attempts[p].result, !.base = attempts[p].base,
                      !.live = TRUE]]
  /\ UNCHANGED <<head, views, branch, requests, worker>>

\* The caller names the commit it read from the branch.
Enqueue(a) ==
  /\ attempts[a].state = "STAGED" /\ ~HasJob(a) /\ attempts[a].live
  /\ SetJob(a, [expected |-> branch, fence |-> 0, owner |-> None, leased |-> FALSE,
                status |-> "PENDING", intent |-> None,
                identity |-> [phase \in Phases |-> None]])
  /\ UNCHANGED <<head, views, branch, requests, worker>>

Claimable(a) ==
  /\ HasJob(a) /\ attempts[a].job.status # "COMPLETE" /\ attempts[a].state # "FAILED"
  /\ ~attempts[a].job.leased /\ attempts[a].live

Claim(w, a) ==
  /\ worker[w].step = "idle"
  /\ Claimable(a)
  /\ Cardinality(Leases) < MaxLeases
  /\ attempts[a].job.fence > 0 => attempts[a].previous \in Retaken
  /\ SetJob(a, [attempts[a].job EXCEPT !.fence = @ + 1, !.owner = w, !.leased = TRUE])
  /\ worker' = [worker EXCEPT ![w] = [Idle(attempts[a].job.fence + 1, a) EXCEPT !.step = "begin"]]
  /\ UNCHANGED <<head, views, branch, requests>>

\* A worker whose run failed runs the job again under the fence it remembers.
Rerun(w) ==
  /\ worker[w].step = "idle" /\ worker[w].attempt # None
  /\ Goto(w, "begin")
  /\ UNCHANGED <<head, views, attempts, branch, requests>>

\* Any exception, crash or refused guard ends the run; what the ledger and the
\* branch hold stays.
Stop(w) ==
  /\ worker[w].step # "idle"
  /\ worker' = [worker EXCEPT ![w] = Idle(@.fence, @.attempt)]
  /\ UNCHANGED <<head, views, attempts, branch, requests>>

-----------------------------------------------------------------------------
(* Coordinator._run_branch and the publisher it calls.                     *)

At(w, step) == worker[w].step = step

Mine(w) == attempts[worker[w].attempt]

\* The run starts from the state of the attempt, and remembers the intent then.
Begin(w) ==
  /\ At(w, "begin")
  /\ \/ /\ Mine(w).state = "POST_VERIFIED"
        /\ Goto(w, IF Mine(w).job.status = "COMPLETE" THEN "idle" ELSE "complete")
     \/ /\ Mine(w).state \in {"STAGED", "REMOTE_VERIFIED", "PUBLISHED"}
        /\ worker' = [worker EXCEPT ![w].step = "check", ![w].seen = Mine(w).job.intent]
  /\ UNCHANGED <<head, views, attempts, branch, requests>>

\* A run takes over an unresolved intent by reconciling it first.
Check(w) ==
  /\ At(w, "check")
  /\ Guard(w)
  /\ Goto(w, IF worker[w].seen # None /\ worker[w].seen.status = "IN_FLIGHT" THEN "observe" ELSE "resume")
  /\ UNCHANGED <<head, views, attempts, branch, requests>>

\* Mutant: a branch that still is where the request expected it also confirms.
ShowsAtBase(intent) == branch = intent.target \/ branch = intent.expected

\* reconcile: only the target of an intent proves that the request was applied.
Shows(intent) == branch = intent.target

\* An intent never returns to an earlier value, so reading it together with the
\* branch misses nothing that the comparison in Confirm would not refuse.
Observe(w) ==
  /\ At(w, "observe")
  /\ IntentOf(worker[w].attempt) # None
  /\ Shows(IntentOf(worker[w].attempt))
  /\ worker' = [worker EXCEPT ![w].step = "confirm", ![w].seen = Mine(w).job.intent]
  /\ UNCHANGED <<head, views, attempts, branch, requests>>

Confirm(w) ==
  /\ At(w, "confirm")
  /\ Mine(w).job.intent = worker[w].seen
  /\ SetJob(worker[w].attempt, [Mine(w).job EXCEPT !.intent.status = "CONFIRMED"])
  /\ Goto(w, IF worker[w].phase = None THEN "resume" ELSE "identify")
  /\ UNCHANGED <<head, views, branch, requests>>

\* The state of the attempt, read again, selects the next part of the run.
Resume(w) ==
  /\ At(w, "resume")
  /\ worker' = [worker EXCEPT ![w] =
       [Idle(@.fence, @.attempt) EXCEPT
          !.step = IF Mine(w).state = "REMOTE_VERIFIED" THEN "guard" ELSE "enter",
          !.phase = CASE Mine(w).state = "STAGED" -> "stage"
                      [] Mine(w).state = "REMOTE_VERIFIED" -> None
                      [] OTHER -> "advertisement"]]
  /\ UNCHANGED <<head, views, attempts, branch, requests>>

\* Mutant: only the intents of the worker's own attempt block it.
AvailableToMe(w) == ~InFlight(worker[w].attempt)

\* _available: an unresolved intent blocks every writer of the branch.
Available(w) == \A a \in Attempt : ~InFlight(a)

\* The publication is the head's: its digest and its generation.
OwnsHead(r) == r.state = "PUBLISHED" /\ head.digest = r.result /\ head.generation = r.base + 1

Enter(w) ==
  /\ At(w, "enter")
  /\ Guard(w)
  /\ Available(w)
  /\ IF worker[w].phase = "stage" THEN Mine(w).state = "STAGED" ELSE OwnsHead(Mine(w))
  /\ Goto(w, "prior")
  /\ UNCHANGED <<head, views, attempts, branch, requests>>

SamePhase(w) == Mine(w).job.intent # None /\ Mine(w).job.intent.phase = worker[w].phase

\* What this phase confirmed before is not done again, only looked at.
Prior(w) ==
  /\ At(w, "prior")
  /\ IF SamePhase(w) /\ Mine(w).job.intent.status = "CONFIRMED"
       THEN /\ branch = Mine(w).job.intent.target
            /\ worker' = [worker EXCEPT ![w].step = "identify", ![w].target = branch]
       ELSE Goto(w, "build")
  /\ UNCHANGED <<head, views, attempts, branch, requests>>

\* Mutant: the advertisement follows the branch and not the verified commit.
BaseAtHead(w) == IF worker[w].phase = "stage" THEN Mine(w).job.expected ELSE branch

\* stage builds on the commit the job named, advertise_immutable on the commit
\* whose bytes were verified.
Base(w) == IF worker[w].phase = "stage" THEN Mine(w).job.expected ELSE Mine(w).commit

Target(w) == Append(Base(w), [kind |-> worker[w].phase, attempt |-> worker[w].attempt,
                              generation |-> IF worker[w].phase = "stage" THEN 0
                                                                          ELSE Mine(w).base + 1])

\* _append uploads objects, which nothing refers to yet, and reads the branch.
\* A branch that is at the target already is only possible for a stage, whose
\* commit is deterministic: an advertisement is signed and dated anew each time.
Build(w) ==
  /\ At(w, "build")
  /\ Mine(w).live
  /\ branch = Base(w) \/ (worker[w].phase = "stage" /\ branch = Target(w))
  /\ worker' = [worker EXCEPT ![w].step = "admit", ![w].expected = branch, ![w].target = Target(w)]
  /\ UNCHANGED <<head, views, attempts, branch, requests>>

\* _admit: a phase of a job is tried once, under the current lease, alone.
Admissible(w) == Guard(w) /\ Available(w) /\ ~SamePhase(w)

Admit(w) ==
  /\ At(w, "admit")
  /\ Admissible(w)
  /\ SetJob(worker[w].attempt, [Mine(w).job EXCEPT !.intent =
       [phase |-> worker[w].phase, expected |-> worker[w].expected, target |-> worker[w].target,
        status |-> "IN_FLIGHT", fence |-> worker[w].fence]])
  /\ Goto(w, "send")
  /\ UNCHANGED <<head, views, branch, requests>>

\* Mutant: the update is forced.
ApplyForced(expected, target) == branch' = target

\* The provider's expected-head update of the branch.
Apply(expected, target) == branch = expected /\ branch' = target

\* _cas: the request is applied and answered, applied and the answer lost, or
\* still under way when its sender gives up.  A refused one stops the run.
Send(w) ==
  /\ At(w, "send")
  /\ \/ /\ Apply(worker[w].expected, worker[w].target)
        /\ Goto(w, "observe")
        /\ UNCHANGED requests
     \/ /\ Apply(worker[w].expected, worker[w].target)
        /\ worker' = [worker EXCEPT ![w] = Idle(@.fence, @.attempt)]
        /\ UNCHANGED requests
     \/ /\ requests' = requests \cup {[attempt |-> worker[w].attempt,
                                       expected |-> worker[w].expected, target |-> worker[w].target]}
        /\ worker' = [worker EXCEPT ![w] = Idle(@.fence, @.attempt)]
        /\ UNCHANGED branch
  /\ UNCHANGED <<head, views, attempts>>

\* deployment_identity: the first commit bound to a phase stays bound.
Identify(w) ==
  /\ At(w, "identify")
  /\ Guard(w)
  /\ Mine(w).job.identity[worker[w].phase] \in {None, worker[w].target}
  /\ SetJob(worker[w].attempt, [Mine(w).job EXCEPT !.identity[worker[w].phase] = worker[w].target])
  /\ Goto(w, "verify")
  /\ UNCHANGED <<head, views, branch, requests>>

\* The signed advertisement of attempt a that the branch holds, and the verified
\* commit it was added to.
Advertises(a, generation) ==
  \E i \in 2 .. Len(branch) :
    /\ branch[i] = [kind |-> "advertisement", attempt |-> a, generation |-> generation]
    /\ SubSeq(branch, 1, i - 1) = attempts[a].commit

\* The deployment that is verified is of the branch's newest commit.  It is
\* checked before and after the bytes are read, and the branch never returns to
\* an earlier commit, so the reads between see that commit.
Deployed(w) == branch = worker[w].target

Verify(w) ==
  /\ At(w, "verify")
  /\ Deployed(w)
  /\ worker[w].phase = "advertisement" => /\ head.digest = Mine(w).result
                                          /\ Advertises(worker[w].attempt, head.generation)
  /\ Goto(w, "accept")
  /\ UNCHANGED <<head, views, attempts, branch, requests>>

\* remotely_verified records the verified commit.
AcceptStaged(w) ==
  /\ At(w, "accept") /\ worker[w].phase = "stage"
  /\ Mine(w).state = "STAGED" /\ Mine(w).live
  /\ attempts' = [attempts EXCEPT ![worker[w].attempt].state = "REMOTE_VERIFIED",
                                  ![worker[w].attempt].commit = worker[w].target]
  /\ Goto(w, "resume")
  /\ UNCHANGED <<head, views, branch, requests>>

\* The lease is checked, and publish, which knows no leases, follows.
CheckLease(w) ==
  /\ At(w, "guard")
  /\ Guard(w)
  /\ Goto(w, "publish")
  /\ UNCHANGED <<head, views, attempts, branch, requests>>

\* Backend.publish.
Publish(w) ==
  LET r == Mine(w)
  IN /\ At(w, "publish")
     /\ r.state = "REMOTE_VERIFIED" /\ r.live
     /\ IF r.parent # None
          THEN head = [digest |-> r.result, generation |-> r.base + 1, last_verified |-> None]
          ELSE head.digest = r.previous /\ head.generation = r.base
     /\ head' = [head EXCEPT !.digest = r.result, !.generation = r.base + 1]
     /\ attempts' = [attempts EXCEPT ![worker[w].attempt].state = "PUBLISHED",
                                     ![worker[w].attempt].proofs = @ \cup {"PUBLISHED"}]
     /\ Goto(w, "resume")
     /\ UNCHANGED <<views, branch, requests>>

\* A second publish under the same approval returns what the first recorded.
PublishAgain(w) ==
  /\ At(w, "publish")
  /\ "PUBLISHED" \in Mine(w).proofs /\ Mine(w).live
  /\ Goto(w, "resume")
  /\ UNCHANGED <<head, views, attempts, branch, requests>>

\* post_verified: the generation the verification saw is still the head's.
AcceptAdvertised(w) ==
  /\ At(w, "accept") /\ worker[w].phase = "advertisement"
  /\ OwnsHead(Mine(w)) /\ Mine(w).live
  /\ head' = [head EXCEPT !.last_verified = head.digest]
  /\ views' = views \cup {head.digest}
  /\ attempts' = [attempts EXCEPT ![worker[w].attempt].state = "POST_VERIFIED"]
  /\ Goto(w, "complete")
  /\ UNCHANGED <<branch, requests>>

Complete(w) ==
  /\ At(w, "complete")
  /\ Guard(w)
  /\ SetJob(worker[w].attempt, [Mine(w).job EXCEPT !.status = "COMPLETE"])
  /\ worker' = [worker EXCEPT ![w] = Idle(@.fence, @.attempt)]
  /\ UNCHANGED <<head, views, branch, requests>>

-----------------------------------------------------------------------------
(* Time, the provider, and the people who resolve an unknown outcome.      *)

LeaseEnds(a) ==
  /\ HasJob(a) /\ attempts[a].job.leased
  /\ SetJob(a, [attempts[a].job EXCEPT !.leased = FALSE])
  /\ UNCHANGED <<head, views, branch, requests, worker>>

Expire(a) ==
  /\ attempts[a].live
  /\ attempts' = [attempts EXCEPT ![a].live = FALSE]
  /\ UNCHANGED <<head, views, branch, requests, worker>>

\* Backend.fail, which leaves the job as it is.
Fail(a) ==
  /\ attempts[a].state \notin {"ABSENT", "POST_VERIFIED", "FAILED"}
  /\ attempts' = [attempts EXCEPT ![a].state = "FAILED"]
  /\ UNCHANGED <<head, views, branch, requests, worker>>

Arrive(r) ==
  /\ Apply(r.expected, r.target)
  /\ requests' = requests \ {r}
  /\ UNCHANGED <<head, views, attempts, worker>>

\* The request is refused, or lost on its way.
Lose(r) ==
  /\ requests' = requests \ {r}
  /\ UNCHANGED <<head, views, attempts, branch, worker>>

\* An operator calls FencedPublisher.reconcile, which needs no lease.
Reconcile(a) ==
  /\ InFlight(a)
  /\ Shows(IntentOf(a))
  /\ SetJob(a, [attempts[a].job EXCEPT !.intent.status = "CONFIRMED"])
  /\ UNCHANGED <<head, views, branch, requests, worker>>

\* abort_noncommit: the branch has not moved, the lease of the request is over
\* and an independent observer attests that the request is fenced and drained.
Abortable(a) ==
  /\ branch = IntentOf(a).expected
  /\ IntentOf(a).expected # IntentOf(a).target
  /\ ~(attempts[a].job.leased /\ attempts[a].job.fence = IntentOf(a).fence)
  /\ Drained(a)

Abort(a) ==
  /\ InFlight(a)
  /\ Abortable(a)
  /\ SetJob(a, [attempts[a].job EXCEPT !.intent.status = "ABORTED"])
  /\ UNCHANGED <<head, views, branch, requests, worker>>

Run(w) == \/ Begin(w) \/ Check(w) \/ Observe(w) \/ Confirm(w) \/ Resume(w) \/ Enter(w)
          \/ Prior(w) \/ Build(w) \/ Admit(w) \/ Send(w) \/ Identify(w) \/ Verify(w)
          \/ AcceptStaged(w) \/ CheckLease(w) \/ Publish(w) \/ PublishAgain(w)
          \/ AcceptAdvertised(w) \/ Complete(w)

Next == \/ \E a \in Attempt :
             \/ \E result \in Digest : Prepare(a, result)
             \/ \E p \in Attempt : Adopt(a, p)
             \/ Enqueue(a) \/ LeaseEnds(a) \/ Expire(a) \/ Fail(a) \/ Reconcile(a) \/ Abort(a)
        \/ \E w \in Worker :
             \/ \E a \in Attempt : Claim(w, a)
             \/ Rerun(w) \/ Stop(w) \/ Run(w)
        \/ \E r \in requests : Arrive(r) \/ Lose(r)

Spec == Init /\ [][Next]_vars

-----------------------------------------------------------------------------
(* Safety.                                                                 *)

\* What an intent says of the branch is true for ever: a confirmed target is in
\* its history and an aborted one never gets there, whenever requests arrive and
\* whoever resolves them (reconcile, abort_noncommit).
IntentTruth ==
  \A a \in Attempt :
    IntentOf(a) # None =>
      /\ IntentOf(a).status = "CONFIRMED" => IsPrefix(IntentOf(a).target, branch)
      /\ IntentOf(a).status = "ABORTED" => ~IsPrefix(IntentOf(a).target, branch)

\* Every request that may still reach the provider, sent or about to be sent, is
\* the one of the only unresolved intent, or can no longer move the branch.
SoleWriter ==
  /\ \A a, b \in Attempt : InFlight(a) /\ InFlight(b) => a = b
  /\ \A r \in requests : r.expected # r.target /\ r.expected = branch => InFlight(r.attempt)
  /\ \A w \in Worker : At(w, "send") /\ worker[w].expected = branch => InFlight(worker[w].attempt)

\* A verified publication is on the branch: its advertisement names the head's
\* generation and follows the very commit that was verified before publication.
VerifiedIsAdvertised ==
  \A a \in Attempt : attempts[a].state = "POST_VERIFIED" => Advertises(a, attempts[a].base + 1)

\* An advertisement reaches the branch only while the ledger's head is the
\* publication it advertises, although the head was compared in an earlier
\* transaction than the one that admitted the request, and the request itself
\* may be late (advertise, _admit, _cas).
AdvertisedIsCurrent ==
  [][\A a \in Attempt :
       (branch' # branch /\ Last(branch') = [kind |-> "advertisement", attempt |-> a,
                                             generation |-> attempts[a].base + 1])
         => head.digest = attempts[a].result /\ head.generation = attempts[a].base + 1]_vars

\* docs/V3-GITHUB-PAGES-FINALIZATION.md:192 resolves an unknown outcome as
\* CONFIRMED at the exact target or as independently ABORTED.  One of the two
\* must stay possible: the branch is at the target or still at the base.
Resolvable == \A a \in Attempt : InFlight(a) => branch \in {IntentOf(a).expected, IntentOf(a).target}
=============================================================================
