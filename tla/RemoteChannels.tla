--------------------------- MODULE RemoteChannels ---------------------------
(***************************************************************************)
(* The beta and stable channels of the second generation: the workflows    *)
(* that write the branch pages-storage (src/.github/workflows) with the    *)
(* tools they call (src/tools/ro_repo.py, v2_selected_stable.py,           *)
(* component_beta.py).                                                     *)
(*                                                                         *)
(* One run at a time holds the concurrency group of the branch.  A job     *)
(* works on a fresh checkout and pushes only a child of the tip it fetched *)
(* just before, so a job is one step.  What a run carries from one job to  *)
(* the next are its inputs and artifacts; they grow old when the run fails,*)
(* releases the group and is re-run later, entirely or from the job that   *)
(* failed.  A job can also fail after its push.                            *)
(*                                                                         *)
(* A snapshot is the release of each component that it holds; a promotion  *)
(* group is one component.  The branch is linear, so a commit is its       *)
(* number.  Verification of signatures and bytes always succeeds.          *)
(***************************************************************************)
EXTENDS Integers, Sequences, FiniteSetsExt

CONSTANTS
  Component,      \* components, each a promotion group
  Request,        \* requests of the orchestrator
  Release,        \* the releases that are offered, as [component, version]
  None,           \* absent
  Initial,        \* the releases in the snapshots that are stored at first
  Dwell,          \* minimum_days
  MaxSnapshot,    \* the last number of the daily snapshot namespace
  MaxRun,         \* bound on the workflow runs
  MaxFault,       \* bound on the failures and re-runs
  MaxValidation,  \* bound on the validation runs
  MaxVersion,     \* bound on the releases of a component
  MaxClock        \* bound on the clock

VARIABLES
  site,         \* the tree at the tip of pages-storage
  tip,          \* the number of commits
  author,       \* the run whose commit the tip is
  runs,         \* the workflow runs in the order of their ids
  lock,         \* the run in progress in the group ro-repo-pages-storage
  validations,  \* artifacts of the promotion validations
  orch,         \* the requests of component_beta.py
  clock,
  faults        \* failures and re-runs so far

vars == <<site, tip, author, runs, lock, validations, orch, clock, faults>>

Channel == {"beta", "stable"}
Snapshot == 1 .. MaxSnapshot
Run == 1 .. MaxRun
Content == [Component -> 0 .. MaxVersion]

\* publication-v1: `store' is the run that built the store metadata, `signing'
\* stands for the signature and tells two signings of one run apart.
Publication == [run : Run, snapshot : Snapshot, store : Run,
                at : 0 .. MaxClock, signing : 1 .. MaxFault + 1]

Constants ==
  /\ {Dwell, MaxSnapshot, MaxRun, MaxFault, MaxValidation, MaxVersion, MaxClock} \subseteq Nat
  /\ MaxSnapshot > 0 /\ MaxRun > 1 /\ MaxValidation > 0 /\ Dwell <= MaxClock
  /\ Release \subseteq [component : Component, version : 1 .. MaxVersion]
  /\ Initial \in Seq(Content) /\ Len(Initial) \in Snapshot
  /\ None \notin Nat \cup Request \cup Component \cup Content \cup Publication \cup {"snapshot", "beta"}
ASSUME ConstantsAssumption == Constants

\* promotion-validation-v1
Evidence == [snapshot : Snapshot, beta_run : Run, beta_started_at : 0 .. MaxClock]

Site ==
  [snapshots : [Snapshot -> Content \cup {None}],
   channel : [Channel -> Publication \cup {None}],
   history : [Channel -> [Run -> Publication \cup {None}]],
   promotions : SUBSET [run : Run, validation : 0 .. MaxValidation],
   rollbacks : SUBSET [run : Run, channel : Channel, from : Run, to : Run]]

RunRecord ==
  [kind : {"snapshot", "beta", "promote", "select", "rollback"},
   request : Request \cup {None},                  \* the orchestrator's, None if manual
   channel : Channel, snapshot : Snapshot \cup {None}, target : Run \cup {None},
   group : Component \cup {None},                  \* the other inputs of the dispatch
   validation : 0 .. MaxValidation,                \* evidence to promote on
   base : Nat \cup {None},                         \* the tip it must still find
   content : Content \cup {None},                  \* releases of a new snapshot
   previous : Publication \cup {None},             \* stable when it composed
   artifact : Publication \cup {None},             \* the signed publication
   job : {"verify", "compose", "validate", "sign", "publish"},
   attempt : 1 .. MaxFault + 1, status : {"in_progress", "success", "failure"}]

Request0 ==
  [stage : {"idle", "ready", "snapshot", "beta", "success", "failure"},
   queued : {None, "snapshot", "beta"},             \* dispatched, not yet started
   storage : Nat, head : Nat,                       \* tips it expects to find
   parent : Snapshot \cup {None}, snapshot : Snapshot \cup {None},
   component : Component \cup {None}, version : 0 .. MaxVersion,
   child : Run \cup {None}]

TypeOK ==
  /\ site \in Site
  /\ tip \in Nat /\ author \in Run
  /\ runs \in Seq(RunRecord) /\ Len(runs) <= MaxRun
  /\ lock \in 1 .. Len(runs) \cup {None}
  /\ \A r \in 1 .. Len(runs) : runs[r].status = "in_progress" <=> lock = r
  /\ validations \in Seq(Evidence) /\ Len(validations) <= MaxValidation
  /\ orch \in [Request -> Request0]
  /\ clock \in 0 .. MaxClock
  /\ faults \in 0 .. MaxFault

FirstJob(kind) == CASE kind \in {"snapshot", "rollback"} -> "publish"
                    [] kind = "beta"    -> "sign"
                    [] kind = "promote" -> "verify"
                    [] kind = "select"  -> "compose"

NewRun(kind) ==
  [kind |-> kind, request |-> None, channel |-> "beta", snapshot |-> None, target |-> None,
   group |-> None, validation |-> 0, base |-> None, content |-> None, previous |-> None,
   artifact |-> None, job |-> FirstJob(kind), attempt |-> 1, status |-> "in_progress"]

Idle == [stage |-> "idle", queued |-> None, storage |-> 0, head |-> 0, parent |-> None,
         snapshot |-> None, component |-> None, version |-> 0, child |-> None]

FirstBeta == [run |-> 1, snapshot |-> 1, store |-> 1, at |-> 0, signing |-> 1]
FirstStable == [FirstBeta EXCEPT !.run = 2, !.at = Dwell]

FirstRuns(stable) ==
  <<[NewRun("beta") EXCEPT !.snapshot = 1, !.artifact = FirstBeta,
                           !.job = "publish", !.status = "success"],
    IF stable = None
      THEN [NewRun("beta") EXCEPT !.snapshot = Len(Initial), !.status = "failure"]
      ELSE [NewRun("promote") EXCEPT !.snapshot = 1, !.validation = 1, !.status = "success",
                                     !.artifact = stable, !.job = "publish"]>>

\* Snapshots are stored, the first of them is published as beta and validated.
\* Stable was never published and a beta of the last snapshot failed, or the
\* first beta has just been promoted.
Init ==
  \E stable \in {None, FirstStable} :
    /\ site = [snapshots |-> [s \in Snapshot |-> IF s <= Len(Initial) THEN Initial[s] ELSE None],
               channel |-> [beta |-> FirstBeta, stable |-> stable],
               history |-> [beta |-> [r \in Run |-> IF r = 1 THEN FirstBeta ELSE None],
                            stable |-> [r \in Run |-> IF r = 2 THEN stable ELSE None]],
               promotions |-> IF stable = None THEN {} ELSE {[run |-> 2, validation |-> 1]},
               rollbacks |-> {}]
    /\ tip = 2 /\ author = (IF stable = None THEN 1 ELSE 2)
    /\ runs = FirstRuns(stable)
    /\ lock = None
    /\ validations = <<[snapshot |-> 1, beta_run |-> 1, beta_started_at |-> 0]>>
    /\ orch = [q \in Request |-> Idle]
    /\ clock = IF stable = None THEN 0 ELSE Dwell
    /\ faults = 0

Stored(tree) == {s \in Snapshot : tree.snapshots[s] # None}

\* The releases that a channel serves.
Served(tree, c) == IF tree.channel[c] = None THEN [k \in Component |-> 0]
                   ELSE tree.snapshots[tree.channel[c].snapshot]

-----------------------------------------------------------------------------
\* Runs and their jobs.

\* One of the failures and re-runs of the bound.
Fault == faults < MaxFault /\ faults' = faults + 1

Begin(run) ==
  /\ lock = None /\ Len(runs) < MaxRun
  /\ runs' = Append(runs, run)
  /\ lock' = Len(runs) + 1
  /\ UNCHANGED <<site, tip, author, validations, clock, faults>>

\* A job of the run that holds the group.  Jobs of an orchestrated run refuse
\* to be repeated.
Job(r, kind, job) ==
  /\ lock = r
  /\ runs[r].kind = kind /\ runs[r].job = job
  /\ runs[r].request # None => runs[r].attempt = 1

\* The job succeeds and hands the run on to its next job.
HandOn(r, run) ==
  /\ runs' = [runs EXCEPT ![r] = run]
  /\ UNCHANGED <<site, tip, author, lock, validations, orch, clock, faults>>

\* The commit is pushed as a child of the fetched tip.  The run may be reported
\* as failed all the same.
Push(r, tree) ==
  /\ site' = tree
  /\ tip' = tip + 1 /\ author' = r
  /\ \/ runs' = [runs EXCEPT ![r].status = "success"] /\ UNCHANGED faults
     \/ runs' = [runs EXCEPT ![r].status = "failure"] /\ Fault
  /\ lock' = None
  /\ UNCHANGED <<validations, orch, clock>>

\* There is nothing to commit.
Quiet(r) ==
  /\ runs' = [runs EXCEPT ![r].status = "success"]
  /\ lock' = None
  /\ UNCHANGED <<site, tip, author, validations, orch, clock, faults>>

Fail(r) ==
  /\ lock = r
  /\ Fault
  /\ runs' = [runs EXCEPT ![r].status = "failure"]
  /\ lock' = None
  /\ UNCHANGED <<site, tip, author, validations, orch, clock>>

\* Re-run failed jobs keeps the artifacts of the jobs before; re-run all jobs
\* starts over under the same run id.
ReRun(r) ==
  /\ lock = None
  /\ Fault
  /\ \/ /\ runs[r].status = "failure"
        /\ runs' = [runs EXCEPT ![r].status = "in_progress", ![r].attempt = @ + 1]
     \/ runs' = [runs EXCEPT ![r].status = "in_progress", ![r].attempt = @ + 1,
                             ![r].job = FirstJob(runs[r].kind)]
  /\ lock' = r
  /\ UNCHANGED <<site, tip, author, validations, orch, clock>>

\* Mutant of StorageUnchanged: the writer does not look at the storage.
StorageAny(r) == r \in 1 .. Len(runs)

\* component_beta_storage_guard.py; a manual run names no commit.
StorageUnchanged(r) == runs[r].base = None \/ tip = runs[r].base

-----------------------------------------------------------------------------
\* Immutable snapshots: publish-pages-snapshot and stage_pages_snapshot.

\* A candidate keeps the packages of its parent and replaces a component by a
\* newer release (v2_candidate.plan).
CandidateOf(parent, c, v) == [site.snapshots[parent] EXCEPT ![c] = v]

\* The operator publishes a candidate built by hand, under a number of his.
DispatchSnapshot(s, parent, c, v) ==
  /\ v > site.snapshots[parent][c]
  /\ Begin([NewRun("snapshot") EXCEPT !.snapshot = s, !.content = CandidateOf(parent, c, v)])
  /\ UNCHANGED orch

\* Mutant of MayStore: a snapshot is published again with other bytes.
MayStoreNewer(s, content) ==
  site.snapshots[s] # None => \A c \in Component : content[c] >= site.snapshots[s][c]

\* Stored bytes are never replaced.
MayStore(s, content) == site.snapshots[s] \in {None, content}

PublishSnapshot(r) ==
  /\ Job(r, "snapshot", "publish")
  /\ StorageUnchanged(r)
  /\ LET s == runs[r].snapshot
         tree == [site EXCEPT !.snapshots[s] = runs[r].content] IN
     /\ MayStore(s, runs[r].content)
     /\ IF tree # site THEN Push(r, tree) ELSE Quiet(r)

-----------------------------------------------------------------------------
\* stage_remote_channel: a channel is the bytes of a stored snapshot under a
\* signed publication, which is kept in the history under its run id.

\* A history entry is never replaced by other bytes.
MayKeep(tree, c, p) == tree.history[c][p.run] \in {None, p}

MayStage(tree, c, p) == tree.snapshots[p.snapshot] # None /\ MayKeep(tree, c, p)

Staged(tree, c, p) == [tree EXCEPT !.history[c][p.run] = p, !.channel[c] = p]

\* build_signed_remote_publication
Signed(r, snapshot, store) ==
  [run |-> r, snapshot |-> snapshot, store |-> store, at |-> clock, signing |-> runs[r].attempt]

DispatchBeta(s) ==
  /\ Begin([NewRun("beta") EXCEPT !.snapshot = s])
  /\ UNCHANGED orch

SignBeta(r) ==
  /\ Job(r, "beta", "sign")
  /\ site.snapshots[runs[r].snapshot] # None
  /\ HandOn(r, [runs[r] EXCEPT !.artifact = Signed(r, runs[r].snapshot, r), !.job = "publish"])

PublishBeta(r) ==
  /\ Job(r, "beta", "publish")
  /\ StorageUnchanged(r)
  /\ LET p == runs[r].artifact IN
     /\ MayStage(site, "beta", p)
     /\ IF Staged(site, "beta", p) # site THEN Push(r, Staged(site, "beta", p)) ELSE Quiet(r)

-----------------------------------------------------------------------------
\* Promotion of the exact beta snapshot.

\* validate-remote-beta-promotion binds its evidence to the beta it found.
Validate ==
  /\ Len(validations) < MaxValidation
  /\ LET beta == site.channel["beta"] IN
       validations' = Append(validations, [snapshot |-> beta.snapshot, beta_run |-> beta.run,
                                           beta_started_at |-> beta.at])
  /\ UNCHANGED <<site, tip, author, runs, lock, orch, clock, faults>>

DispatchPromotion(v) ==
  /\ Begin([NewRun("promote") EXCEPT !.validation = v, !.snapshot = validations[v].snapshot])
  /\ UNCHANGED orch

\* Mutant of ForCurrentBeta: the same snapshot is good enough.
ForCurrentSnapshot(r) == site.channel["beta"].snapshot = validations[runs[r].validation].snapshot

\* The evidence of the run is about the beta that is published now.
ForCurrentBeta(r) ==
  LET beta == site.channel["beta"]
      evidence == validations[runs[r].validation] IN
  beta.snapshot = evidence.snapshot /\ beta.run = evidence.beta_run

\* Mutant of VerifyPolicy: any age is old enough.
VerifyPolicyAnyAge(r) ==
  /\ Job(r, "promote", "verify")
  /\ ForCurrentBeta(r)
  /\ site.channel["beta"].at = validations[runs[r].validation].beta_started_at
  /\ HandOn(r, [runs[r] EXCEPT !.job = "sign"])

\* prepare_remote_stable_promotion
VerifyPolicy(r) ==
  /\ Job(r, "promote", "verify")
  /\ ForCurrentBeta(r)
  /\ site.channel["beta"].at = validations[runs[r].validation].beta_started_at
  /\ clock - site.channel["beta"].at >= Dwell
  /\ HandOn(r, [runs[r] EXCEPT !.job = "sign"])

\* Stable reuses the store metadata that was published and tested as beta.
SignStable(r) ==
  /\ Job(r, "promote", "sign")
  /\ ForCurrentBeta(r)
  /\ HandOn(r, [runs[r] EXCEPT !.artifact = Signed(r, runs[r].snapshot, site.channel["beta"].store),
                               !.job = "publish"])

\* Mutant of Unfiled: it writes over what is filed.
UnfiledOver(r) == r \in 1 .. Len(runs)

\* The evidence is filed under its snapshot and validation, the promotion under
\* its snapshot and run; neither may exist.
Unfiled(r) == \A p \in site.promotions : p.run # r /\ p.validation # runs[r].validation

PublishStable(r) ==
  /\ Job(r, "promote", "publish")
  /\ ForCurrentBeta(r)
  /\ MayStage(site, "stable", runs[r].artifact)
  /\ Unfiled(r)
  /\ Push(r, [Staged(site, "stable", runs[r].artifact) EXCEPT
                !.promotions = @ \cup {[run |-> r, validation |-> runs[r].validation]}])

-----------------------------------------------------------------------------
\* Promotion of one group: v2_selected_stable.compose, stage_selected_stable.

DispatchSelection(g) ==
  /\ Begin([NewRun("select") EXCEPT !.group = g, !.snapshot = site.channel["beta"].snapshot,
                                    !.target = site.channel["beta"].run])
  /\ UNCHANGED orch

\* Previous stable minus the old group plus the group of beta.
Composed(g) == [Served(site, "stable") EXCEPT ![g] = Served(site, "beta")[g]]

Compose(r) ==
  LET beta == site.channel["beta"]
      g == runs[r].group
      free == Snapshot \ Stored(site) IN
  /\ Job(r, "select", "compose")
  /\ beta.snapshot = runs[r].snapshot /\ beta.run = runs[r].target
  /\ Served(site, "beta")[g] > 0
  /\ IF Composed(g) = Served(site, "stable")
       THEN Quiet(r)
       ELSE /\ free # {}
            /\ HandOn(r, [runs[r] EXCEPT !.content = Composed(g),
                                         !.artifact = Signed(r, Min(free), r),
                                         !.previous = site.channel["stable"],
                                         !.base = tip, !.job = "validate"])

\* The upgrade from the previous stable does not verify a downgrade.
ValidateUpgrade(r) ==
  /\ Job(r, "select", "validate")
  /\ runs[r].previous # None =>
       \A c \in Component : runs[r].content[c] >= site.snapshots[runs[r].previous.snapshot][c]
  /\ HandOn(r, [runs[r] EXCEPT !.job = "publish"])

\* Mutant of OnItsBase: it asks for the beta of the composition only.
OnItsBeta(r) ==
  site.channel["beta"].snapshot = runs[r].snapshot /\ site.channel["beta"].run = runs[r].target

\* Nothing was committed since the composition.
OnItsBase(r) ==
  /\ tip = runs[r].base
  /\ site.channel["beta"].snapshot = runs[r].snapshot /\ site.channel["beta"].run = runs[r].target
  /\ site.channel["stable"] = runs[r].previous

PublishSelection(r) ==
  LET p == runs[r].artifact
      stored == [site EXCEPT !.snapshots[p.snapshot] = runs[r].content] IN
  /\ Job(r, "select", "publish")
  /\ OnItsBase(r)
  /\ site.snapshots[p.snapshot] = None
  /\ MayKeep(site, "stable", p)
  /\ Push(r, [Staged(stored, "stable", p) EXCEPT
                !.promotions = @ \cup {[run |-> r, validation |-> 0]}])

-----------------------------------------------------------------------------
\* rollback_remote_channel: back to a publication of the same channel.

DispatchRollback(c, t) ==
  /\ Begin([NewRun("rollback") EXCEPT !.channel = c, !.target = t])
  /\ UNCHANGED orch

\* A rollback is recorded once.
Unrecorded(r, c) == \A e \in site.rollbacks : ~(e.run = r /\ e.channel = c)

RollBack(r) ==
  LET c == runs[r].channel
      current == site.channel[c]
      target == site.history[c][runs[r].target] IN
  /\ Job(r, "rollback", "publish")
  /\ current # None /\ target # None
  /\ current.run # target.run
  /\ Unrecorded(r, c)
  /\ MayStage(site, c, target)
  /\ Push(r, [Staged(site, c, target) EXCEPT
                !.rollbacks = @ \cup {[run |-> r, channel |-> c,
                                       from |-> current.run, to |-> target.run]}])

-----------------------------------------------------------------------------
\* The orchestrator, component_beta.py: acceptance and candidate, then the
\* snapshot, then beta, each as a run of its own that takes the group when it
\* is free.  What it dispatched may start although it has given up.

Active == {"ready", "snapshot", "beta"}

\* allocate_snapshot: above every stored number.
Allocated == Max(Stored(site)) + 1

\* main: the request is built on the beta that is published now.
Preflight(q, c, v) ==
  /\ orch[q].stage = "idle"
  /\ \A p \in Request : orch[p].stage \notin Active
  /\ Allocated <= MaxSnapshot
  /\ orch' = [orch EXCEPT ![q] = [Idle EXCEPT !.stage = "ready", !.storage = tip,
                !.parent = site.channel["beta"].snapshot, !.snapshot = Allocated,
                !.component = c, !.version = v]]
  /\ UNCHANGED <<site, tip, author, runs, lock, validations, clock, faults>>

\* The component is accepted, the candidate is newer than the parent, and the
\* storage is still the one of the preflight.
DispatchCandidate(q) ==
  /\ orch[q].stage = "ready"
  /\ orch[q].version > site.snapshots[orch[q].parent][orch[q].component]
  /\ tip = orch[q].storage
  /\ orch' = [orch EXCEPT ![q].stage = "snapshot", ![q].queued = "snapshot"]
  /\ UNCHANGED <<site, tip, author, runs, lock, validations, clock, faults>>

StartChild(q) ==
  LET o == orch[q] IN
  /\ o.queued # None
  /\ Begin([NewRun(o.queued) EXCEPT
              !.request = q, !.snapshot = o.snapshot,
              !.base = IF o.queued = "snapshot" THEN o.storage ELSE o.head,
              !.content = IF o.queued = "snapshot"
                            THEN CandidateOf(o.parent, o.component, o.version) ELSE None])
  /\ orch' = [orch EXCEPT ![q].queued = None, ![q].child = Len(runs) + 1]

\* The stage's run was successful at its first attempt.
ChildSucceeded(q) ==
  /\ orch[q].queued = None /\ orch[q].child # None
  /\ runs[orch[q].child].status = "success" /\ runs[orch[q].child].attempt = 1

\* The writer's commit is the tip and the sole child of the storage of the preflight.
DispatchRemoteBeta(q) ==
  /\ orch[q].stage = "snapshot" /\ ChildSucceeded(q)
  /\ tip = orch[q].storage + 1 /\ author = orch[q].child
  /\ orch' = [orch EXCEPT ![q].stage = "beta", ![q].queued = "beta", ![q].head = tip]
  /\ UNCHANGED <<site, tip, author, runs, lock, validations, clock, faults>>

Report(q) ==
  /\ orch[q].stage = "beta" /\ ChildSucceeded(q)
  /\ orch' = [orch EXCEPT ![q].stage = "success"]
  /\ UNCHANGED <<site, tip, author, runs, lock, validations, clock, faults>>

\* A deadline, an uncertain dispatch, an interruption, a failed check.
GiveUp(q) ==
  /\ Fault
  /\ orch[q].stage \in Active
  /\ orch' = [orch EXCEPT ![q].stage = "failure"]
  /\ UNCHANGED <<site, tip, author, runs, lock, validations, clock>>

Tick ==
  /\ clock < MaxClock
  /\ clock' = clock + 1
  /\ UNCHANGED <<site, tip, author, runs, lock, validations, orch, faults>>

-----------------------------------------------------------------------------
Dispatch ==
  \/ \E s \in Snapshot, parent \in Stored(site), n \in Release :
        DispatchSnapshot(s, parent, n.component, n.version)
  \/ \E s \in Stored(site) : DispatchBeta(s)
  \/ \E v \in 1 .. Len(validations) : DispatchPromotion(v)
  \/ \E g \in Component : DispatchSelection(g)
  \/ \E c \in Channel : \E t \in {r \in Run : site.history[c][r] # None} : DispatchRollback(c, t)

Work(r) ==
  \/ PublishSnapshot(r)
  \/ SignBeta(r) \/ PublishBeta(r)
  \/ VerifyPolicy(r) \/ SignStable(r) \/ PublishStable(r)
  \/ Compose(r) \/ ValidateUpgrade(r) \/ PublishSelection(r)
  \/ RollBack(r)
  \/ Fail(r) \/ ReRun(r)

Orchestrate(q) ==
  \/ \E n \in Release : Preflight(q, n.component, n.version)
  \/ DispatchCandidate(q) \/ StartChild(q) \/ DispatchRemoteBeta(q) \/ Report(q) \/ GiveUp(q)

Next ==
  \/ Dispatch
  \/ \E r \in 1 .. Len(runs) : Work(r)
  \/ \E q \in Request : Orchestrate(q)
  \/ Validate
  \/ Tick

Spec == Init /\ [][Next]_vars

-----------------------------------------------------------------------------
\* Properties.

\* Run r writes in this step.
Writes(r, kind) == lock = r /\ runs[r].kind = kind /\ site' # site

\* Stable only moves to a publication never seen before or, on the record, back
\* to one of its history; a run that failed after its push and is repeated does
\* not bring its publication back (stage_remote_channel, rollback_remote_channel
\* and the steps of the workflows around them).
StableChannel == INSTANCE ChannelHistory WITH
  Publication <- Publication, Run <- Run, None <- None,
  current <- site.channel["stable"], published <- site.history["stable"],
  returns <- {[run |-> e.run, from |-> e.from, to |-> e.to] :
                e \in {d \in site.rollbacks : d.channel = "stable"}}

ImplementsStableChannel == StableChannel!Spec

\* Whatever stable serves was served by beta at some time, also when it was
\* composed from two of its own ancestors (compose, prepare_remote_stable_promotion).
StableFromBeta ==
  \A c \in Component :
    Served(site, "stable")[c] > 0 =>
      \E r \in Run : /\ site.history["beta"][r] # None
                     /\ site.snapshots[site.history["beta"][r].snapshot][c] = Served(site, "stable")[c]

\* Stable is promoted to the snapshot and the store metadata that beta serves at
\* that moment, and was signed when that publication of beta had dwelled, whenever
\* the jobs before ran (promote-remote-stable.yml, prepare_remote_stable_promotion).
PromotesCurrentBeta ==
  [][\A r \in 1 .. Len(runs) : Writes(r, "promote") =>
       LET stable == site'.channel["stable"]
           beta == site.channel["beta"] IN
       /\ stable.snapshot = beta.snapshot /\ stable.store = beta.store
       /\ stable.at - beta.at >= Dwell]_vars

\* The promotion of one group leaves every other group of stable as it is at
\* that moment, and takes the group from the beta of that moment, to a release
\* that is not older (compose, stage_selected_stable).
SelectionMovesOneGroup ==
  [][\A r \in 1 .. Len(runs) : Writes(r, "select") =>
       /\ Served(site', "stable") =
            [Served(site, "stable") EXCEPT ![runs[r].group] = Served(site, "beta")[runs[r].group]]
       /\ Served(site', "stable")[runs[r].group] > Served(site, "stable")[runs[r].group]]_vars

\* An orchestrated publication adds its component to the beta that users had
\* just before, to nothing older and nothing newer, whoever else writes to the
\* branch between its stages (component_beta.execute, the storage guard).
OrchestratedOnBeta ==
  [][\A r \in 1 .. Len(runs) : (Writes(r, "beta") /\ runs[r].request # None) =>
       LET o == orch[runs[r].request] IN
       /\ Served(site', "beta") = [Served(site, "beta") EXCEPT ![o.component] = o.version]
       /\ o.version > Served(site, "beta")[o.component]]_vars
=============================================================================
