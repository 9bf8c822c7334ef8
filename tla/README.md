# Verification of Ro-Repo

Ro-Repo accepts RPM packages, signs repository metadata and publishes Fedora
package sets as immutable views on Git-backed static storage.  A client may only
ever be moved forward along one history of published views, although publishers,
operators, storage provider, ledger database and clients are separate processes
that stop, repeat themselves and lose each other's answers.

This directory holds TLA+ modules translated from `src/tools`,
`src/scripts` and the workflows of `src/.github/workflows`, TLC configurations that
check them on small instances, and TLAPS proofs for every value of the constants.  `PROJECT.json` lists components, runs, mutants,
theorems and, for every definition, the source lines it stands for.

Run from this directory:

    tlc -workers 2 -config MCBackendHistory.cfg MCPublicationBackend
    tlapm PublicationBackend_proofs.tla

## 1. Inventory

### V3 publication ledger (modelled)

**Publication backend** (`v3_publication_backend.py`, with `v3_immutable_view.py`,
`v3_backend_evidence.py`, `v3_authorization.py`).  State: the head (digest,
generation, digest verified last), the attempts, consumed approval tokens and
resumed predecessors, the views table.  Operations: `create`, the ladder
`verified … remotely_verified`, `publish`, `post_verified`, `recover`, `fail`,
`reauthorize_first`.  Each is one ledger transaction, called by any publisher in
any order.  Hard: the head carries digests only, so an old digest at a new
generation looks like an old verification; approvals, evidence and remote
verifications each have a deadline and are checked at different moments; a first
publication that stops half-way is resumed by a child whose parent may still
hold authority.  Correct when the generations form one append-only history whose
newest element alone can be verified, and a blocked head always leaves a way out.

**Signed audit ledger and independent authority** (`v3_backend_ledger.py`,
`v3_independent_authority.py`).  State: the events table; at the authority a
checkpoint and a reservation record, each replaced by compare-and-swap.
Operations: `execute`, `inspect`, `reconcile`, `reconcile_abort`.  They interact
by calls between which database and authority change.  Hard: commit without
acknowledgement, lost and late calls, a database put back from a backup, a
checkpoint read before the transaction that uses it.  Correct when the history
never forks, what a caller was told is checkpointed, and a reservation ends.

**Outbox, coordinator and fenced publisher** (`v3_publication_outbox.py`,
`v3_fenced_publisher.py`, `v3_github_provider.py`, `v3_branch_pages.py`).  State:
for each attempt a job (fence, lease, expected branch, intents), and the storage
branch at the provider.  A worker claims the job, admits an intent in the ledger,
asks the provider to move the branch, verifies, swaps the head, and advertises
it on the branch.  Hard: the lease may end anywhere; the provider's answer may be
lost and the request be late; lease guard and head swap are separate
transactions; the intent is admitted after the branch was read.  Correct when at
most one request can still move the branch, a resolved intent stays true, and an
advertisement reaches the branch only while its publication is the head.

**Client discovery and update** (`v3_client_update.py`).  State: one client root
with lock file, repository file and pinned state.  `update` sends a nonce,
verifies the signed answer, compares it with the pin, writes repository file and
pin, and runs DNF.  Hard: a stop between any two writes, two updates at once,
answers to older requests, a ledger restored behind the service.  Correct when
DNF is never run on an older or contradicting view and only on the view its own
update pinned, and an honest update is not refused.

### Simulated PSOP realm

**Gateway, ledger and outbox** (`psop_storage_gateway.py`, `psop_ledger.py`,
`psop_outbox.py`, `psop_receipts.py`; modelled).  State: attempts with jobs and
intents, the stable head, the isolated branch, the transport epoch.  Operations:
`admit`, `apply`, `reconcile`, `drain`, `abort_noncommit`, `adopt_test_base`.
Several gateways use one realm.  Hard: the transport asks for no lease, so a
worker that lost it may still move the branch; branch, intent and head change in
separate steps of possibly different processes; outcomes are rewritten without
looking at the state found.  Correct when what the ledger says of a request
stays true of the branch and the head is the chain of published results.

**Client** (`psop_client.py`; modelled).  State: `pending.json` and
`active.json` of a disposable client root.  `issue_descriptor` announces a
completed attempt, `update` installs it as one journalled transaction.  Hard:
stops between journal and activation, and a DNF child that goes on after its
parent was killed.  Correct when what is installed ahead of the active view is
the journalled view and nothing else, the journal can always be resumed, and a
descriptor never leads back along the lineage.

**Inputs, signing, audits** (`psop_inputs.py`, `psop_plan.py`, `psop_result.py`,
`psop_signing.py`, `psop_context.py`, `psop_history.py`, `psop_pages.py`,
`psop_audit.py`): bytes compared with bytes and external tools; no protocol
state.

### V2 channels

**Remote channels** (`ro_repo.py`, `v2_candidate.py`, `v2_selected_stable.py`,
`component_beta.py`, the workflows that write `pages-storage`; modelled).
State: on the branch, the stored snapshots, the beta and stable trees, the
publication history of each, filed promotions and rollbacks; outside, the
workflow runs with their inputs and artifacts, and the requests of the
orchestrator.  Operations: store a snapshot, sign and publish beta, validate,
promote the whole of beta, promote one group, roll back, and the orchestrated
sequence of the first two.  The runs share one concurrency group and interact
through the branch alone.  Hard: GitHub can re-run a job, or a whole run, long
after the others of the run; a job may fail after its push; manual writers get
between the stages of the orchestrator; two allocators use one namespace of
snapshot numbers.  Correct when stored and published bytes never change, stable
holds what beta held and goes back on the record only, and an orchestrated
publication adds its component to the beta of the moment.

**Acceptance, signing and candidates** (`ro_repo.py`, `v2_candidate.py`;
modelled).  State: the accepted object of each run and its signed files
(artifacts), candidate trees, stored snapshots.  Operations: `accept`,
`sign_accepted_component`, `build_production_snapshot`,
`verify_production_candidate` and the staging of a snapshot.  Every step verifies
what the step before left as an artifact.  Hard: a candidate is composed of any
successful runs on any stored parent and stored later or never; a NEVRA comes
back, released again or signed again, after the line has left it behind; an
object changes between two verifications.  Correct when a line of snapshots has
one file for a NEVRA and every stored file is what an attested producer built.

**Local channels** (`ro_repo.py`, `publish`, `promote`, `rollback` on local
directories; not modelled): see section 6.

### Promotion from beta to the V3 stable head

**Version order** (`version_compare` in `v3_promotion_planner.py`; modelled): a pure
function.  Correct when it orders every list of versions the way rpm does.

**Planner, policy, tests, preflight, migration assessment**
(`v3_promotion_planner.py`, `v3_policy_profile.py`, `v3_group_validation.py`,
`v3_rpm_preflight.py`, `v3_migration.py`; modelled as operators): what one
component promotion makes of a beta set and the stable set, and what it demands.

**Evidence, approval, rehearsal** (`v3_integration.py`, `v3_promotion_policy.py`,
`v3_signed_beta_history.py`, `v3_github_beta_audit.py`,
`v3_signed_stable_preview.py`, `v3_publication_rehearsal.py`; modelled).  State:
the beta runs with the time of their remote verification, each attempt's proposal
and approval, the locked `state.json` (records, head, verified snapshots) and the
trees under `snapshots/`.  Operations: publish and end a beta run, prepare,
approve, `begin`, `finish`, `initialize`.  Hard: a proposal is prepared, tested
and approved on a head that others move meanwhile; a result may be prepared on
any signed snapshot, not only the head; the tree is staged and the head moved in
two locked steps with crashes between the writes inside one.  Correct when
whatever moves the head was planned, tested, dwelt and approved against exactly
the head it replaces, and no package goes back unless a recovery is recorded.

### Not state machines (not modelled)

**DNF and VM runs, receipts, GitHub audits, trust primitives**: read-only
comparison, external tools, and cryptography, which the modules assume to
identify what it signs.

## 2. Plan

In order of importance; each module is written so that it can be proved about
(constants with named assumptions, one action per operation, invariants as named
conjuncts, no `RECURSIVE`).

| # | module | state |
|---|---|---|
| 1 | `PublicationBackend`, implementing `StableHead` | done, safety and refinement proved |
| 2 | `CheckpointedLedger`, implementing `AuditLog` | done, safety and refinement proved |
| 3 | `FencedPublication` (backend head, outbox, provider composed) | done, safety proved |
| 4 | `ClientUpdate` (ledger, discovery service and client composed) | done, proved |
| 5 | `PsopGateway` | done, proved |
| 6 | `RemoteChannels` (orchestrator and V2 workflows on `pages-storage`), implementing `ChannelHistory` for stable | done, safety and refinement proved |
| 7 | `RpmVersion`, `PromotionPlanner` (operators) and `PromotionPipeline` (beta history, proposals, approvals, rehearsal), which extends them | done, proved but for the order of versions |
| 8 | `PsopClient` (issuer, update, DNF) | done, proved |
| 9 | `SnapshotBuilder` (acceptance to stored snapshot) | done, proved |
| 10 | `OutboxCoordinator`: the coordinator on the mutable pointer store | planned |

Abstract specifications: `StableHead`, `AuditLog` and `ChannelHistory`.

Runs stay at one for each question.  Theorems still worth having beyond section 5:
that the gateway and the client compose, so that the client's published views are
those of the gateway's ledger.

## 3. Models

### PublicationBackend and StableHead

One action for each operation of `Backend`; the transaction it runs in is one
step, because `Ledger.execute` serializes (what happens when that fails is module
`CheckpointedLedger`).  A view is a member of `Digest`; `Parent` says which view
each was composed on.  An approval is a record with token, expiry and the fields
the code compares; evidence is its expiry; a `RemoteVerification` is a record
with time, authorization and generation, kept in `remotes` because its holder may
submit it at any later time.  `clock` is advanced by `Tick`.

`StableHead` has two variables: the digest advertised at each generation, and the
generations verified remotely.  The mapping reads both off the attempts: the
advertisement of a generation is the result of an attempt that published it, and
a generation is confirmed when one of its attempts is post-verified.

### CheckpointedLedger and AuditLog

A history is a sequence of events.  Each call to the authority and each boundary
of a database transaction is one action; a writer's locals (`tip`, `seen`,
`draft`) are what it read before.  A call whose sender gave up stays in `late`
and is delivered or dropped at any time, under the authority's compare-and-swap.
`Restore` puts back any history ever committed.  `Abort` is the observer's, under
the condition its signed observation states.  The mapping takes the longest
history ever committed as the log and the checkpoint as what is acknowledged.

### FencedPublication

The branch is the sequence of entries (stage or advertisement of an attempt)
that its commits append; a commit is the branch it produces, so `expected` and
`target` are branches.  A worker reads, decides, admits and sends in separate
actions, with the steps of `Coordinator.run` on a branch as its program counter.
Requests whose sender gave up are in `requests` until they arrive or are lost.
Backend operations that the coordinator calls are their effect on the head.
`Past` lets the ledger start empty or with a verified publication.

### ClientUpdate

Discovery answers are signed records of head and audit log, addressed by nonce.
The ledger is its log of events, each with the head it leaves behind.  `update`
is the sequence ask, receive, accept, write repository file, write state, DNF,
with a stop possible before each; the lock is taken in `Ask`.  `Restore` cuts the
log, and later events may differ from those that were cut.

### PsopGateway

A result manifest hashes the view it was composed on, so a digest is the chain
of plans behind it; a commit is the sequence of attempts its branch has
published.  Preparation abstracts composing, testing and signing to the review of
the head as it is; a review of another base never gets through `admit`.  `admit`
is two steps, since it compares the branch before its transaction begins.
`apply` and `reconcile` are one action for each ledger transaction, transport
operation and branch read.  The lease's owner is the same string for every
worker, so only the fence tells leases apart.  A drain proof fits while no
audit event follows it and the epoch stays.

### RemoteChannels and ChannelHistory

The branch is one record (`site`); its commits are linear, so a commit is its
number.  A job is one step: it works on a fresh checkout, its run holds the
concurrency group, and it pushes only a child of the tip it fetched.  What is
old in a job are its inputs and artifacts, kept in the run's record: a run that
failed, or is over, can be re-run from the job that failed or from the start,
under the same run id.  `Push` may leave the run failed.  A publication carries the
run, the snapshot, the run that built its store metadata, its time and the
attempt that signed it, since two signings of one run differ in bytes.  A
snapshot is the release of each component, and a promotion group is a component.

The orchestrator keeps what `component_beta.py` keeps (the commits it expects,
parent, snapshot, child); a child is dispatched in one step and takes the group
in a later one, when any manual run may have had it before.  `ChannelHistory` has
the publication a channel serves, its history and the record of going back; the
mapping reads them off `site` for stable.  Beta does not implement it: a manual
run that failed after its push and is re-run later brings its publication back
without a record, which `component_beta.py` tells the operator never to do.

### RpmVersion, PromotionPlanner and PromotionPipeline

A version is the sequence of runs the code's regular expressions take, with
digits as numbers and letters by their place in the order, so the comparison is
a recursive function on the two sequences.  The planner has no state: a snapshot
is a set of packages, a package record is all its signed bytes say, and where the
code raises an operator is `FALSE`.  `PromotionPipeline` EXTENDS it.  Its attempts
hold a proposal (beta, base, group, tests, signed result), an approval with an
expiry, and a phase in `state.json`; a snapshot is its manifest.  `finish` and
`begin` hold the file lock, so each is a step, with one more action for each
place inside it where a crash leaves part of its writes.  What a proposal may
combine is not chosen for it: any beta, any signed base, any claim whose fields
match, as the files an operator passes.

### PsopClient

The issuer's head is the list of publications, each with the expiry of its
approval.  An update is a process under the lock that walks through verified,
journaled, dnf, transacted, committed, and may stop at each; DNF succeeds, fails
half-way, or is orphaned and ends at any later time, whoever holds the lock then.
`installed` records for each name the version and the view it came from, which is
how the properties see a half-done transaction.

### SnapshotBuilder

An item of a release is an RPM file before signing: a header, which is also its
name (`verify_component` refuses a second file of a name), and its content;
signing adds the run and the digest of the producer's file.  Candidates are kept
until they are stored, and any object may be damaged in between: bytes of an
accepted file change, or a tree no longer verifies.  `visible` says whether the
build sees the stored snapshots (an operator in place) or an empty output (a
workflow); only the parent then guards the history.

What the models bring out, beyond their properties:

- an expired job that no worker admitted stays pending and blocks the realm;
- `_mark_unknown` overwrites whatever outcome was recorded meanwhile;
- in `FencedPublication`, a phase whose intent was aborted can never be admitted
  again for that job, and a published attempt whose stage commit is no longer
  the tip of the branch can only be recovered, never advertised;
- `create` of the backend compares digests only.  After a recovery republished
  the digest verified last, the head is at a generation nobody verified and the
  next promotion is accepted, although the error message of that guard says an
  unverified advertisement requires recovery (v3_publication_backend.py:48-49);
- a rehearsal that crashes between the rename of the state and the record of the
  attempt leaves the head at a result whose attempt is recorded failed, although
  a comment says that state and receipt commit together
  (v3_publication_rehearsal.py:176-185).

## 4. Runs

| run | instance | shows |
|---|---|---|
| `backend_history` | 3 attempts, 2 views, 3 tokens, 1 remote verification, evidence lives 1 or 2, approvals 1, clock to 1 | the safety of the head, also for chains of resumed first publications and expiring evidence, and the refinement of `StableHead` |
| `ledger_faults` | 2 writers, 2 events, 1 read, 2 faults, 1 restore | acknowledged is checkpointed, a difference between database and authority is reserved, refinement of `AuditLog` |
| `ledger_liveness` | the same without reads and restores | every reservation ends |
| `fenced_writers` | 2 workers, 2 jobs, 2 leases | true intents, one writer, verified is advertised, advertised is current |
| `fenced_resolvable` | the same | violated: see findings |
| `client_update` | 2 processes, 2 nonces, 2 views, 4 events, 1 restore | DNF never goes back, reads what was pinned and what was asked for, is not locked out |
| `psop_gateway` | 2 attempts, 2 processes, 2 leases, 1 drain, new or adopted base | true outcomes, head is the published chain, admitted moves |
| `psop_expired` | the same | violated: see findings |
| `remote_channels` | 2 components, 3 snapshots, 2 runs before and 2 more, 1 request, 1 more validation, 2 faults, 1 tick | stable follows beta and goes back on the record only, promotions take the beta of the moment, selections and orchestrated publications change one component |
| `promotion_pipeline` | 2 groups, 2 beta snapshots (one older, one incomplete), 2 attempts, 2 identities, 2 runs, 1 tick | no downgrade, promotions extend the head they were prepared on, with its dwell and tests; heads are whole and can be adopted |
| `psop_client` | 2 packages, 3 views, 3 publications and descriptors, 1 tick | half-done transactions are journalled and resumable, the active view follows the head, DNF runs under an approval |
| `snapshot_builder` | 6 releases of 2 components (one again with other content, one unattested, one without source), 3 runs, 3 snapshots, 1 damaged object | one file for a NEVRA along a line, stored is accepted |

Bounds, and why they are enough:

- Three attempts are a publication, one that competes with it and a recovery or a
  resumed child of either; two views are what it takes for a digest to come back
  at a new generation (A, B, A).  Deadlines are compared with each other and with
  the clock, so a clock that passes each of them once orders them in every way.
- Two ledger writers with two events and two faults have one event that is
  reserved or committed by somebody who stopped, and another writer who has to
  get past it; one restore takes the database behind it.
- `MaxLeases` counts the leases granted in all: two are two jobs that compete for
  the branch, or the takeover of one job while the other attempt waits.  A job is
  leased again (`Retaken`) only when it was prepared on an empty ledger; takeovers
  on a verified publication too (4.1 million states) were checked as well.
- A client gets by with one answer under way at a time: it is either the one it
  waits for or a stale one.  Four events allow two publications with their
  confirmations and a different publication after a restore.
- Two PSOP attempts are one that holds the realm and one reviewed on the same
  base; the second lease is the takeover, the drain fences the first request.
  Plans are one, because two results differ through their base or not at all to
  the code.
- The remote channels start with two stored snapshots and either a published
  beta and a later beta run that failed, or a beta that was just promoted; both
  are what workflow runs leave behind.  `MaxFault` counts failures, runs given up
  and re-runs together: two are a failure after a push and its re-run, around
  one or two other runs.  `MaxRun` counts the two first runs.  The cases the
  guards are there for need no more: promotion, another promotion, the first
  re-run; selection composed, beta or stable replaced, publication re-run;
  snapshot stage, manual writer, beta stage.  Three faults (3.3 million states),
  and five runs with one fault, were checked as well.

- The pipeline's `Dwell` is one tick for the classes of both groups, so that the
  clock's single step separates served from not served.
  Two attempts are a promotion and another promotion or recovery prepared on the
  same or a later head; two runs are the publication that counts for the dwell
  and one that hides it.
- Three PSOP publications let a client lag behind, follow, and be offered a view
  without a package it has; the clock's step expires descriptors and approvals.
- Three snapshots are the shortest line on which a NEVRA can leave and come back;
  three runs are the first release, its successor and the first one again.

Deadlock checking is off where the system really stops: attempts, leases,
events, runs or nonces are used up.  In `client_update` it is on.  Symmetry is used
over interchangeable attempts, tokens, writers, workers, processes, nonces and
views in runs without liveness.

### Fairness

`ledger_liveness`: callers keep reconciling (every operation does), a call once made returns or fails, the database lock is granted
fairly, and the observer examines a reservation that stays blocked.  Strong
fairness is used for the steps that wait for the lock and for the observer, since
both are disabled now and then by other writers.

### Findings

- `fenced_resolvable`: `_admit` does not compare its base with the branch, which
  was read before.  When another publication moved the branch in between, the
  intent can neither be reconciled nor aborted, and it blocks the branch.
- `psop_expired`: `complete` decides again without looking at the state.  Two
  overlapping reconciliations around the expiry of the approval leave the head at
  a result whose receipt says `COMMITTED_EXPIRED`.

Each is quoted with its lines in `PROJECT.json`.

## 5. Proofs

**`PublicationBackend_proofs`**, from `Parent` being a function on `Digest`, the
numeric bounds, and `None` being distinct.  `GenerationOwned` is not inductive:
that a publisher of generation g has the head's digest needs that its base was
the head when it was created and still is when it swaps it.  `BackendInv` adds
that records hold what their stage needs (`RecordComplete`), no attempt is ahead
of the head (`BaseBehindHead`), an attempt on the current generation starts from
the current digest (`BaseIsCurrent`), and views and marker rest on post-verified
attempts (`ViewsRest`).  One lemma per action.

What the other properties compare lies further apart: the marker carries no
generation, and of a chain of resumed first publications any member may be the
one that publishes or verifies.  `IntentInv` adds that a record climbed the ladder
in order, under one authorization and within its evidence (`ChainBound`,
`ChildBound`), that whatever was post-verified has a view and the newest of it is
what the marker names (`ViewsComplete`, `MarkerNewest`), and that the publisher of
the first generation and its children form one line, of which only the end can
hold authority and can always be resumed (`OneLine`, `FirstResumable`).  A step is
one of five kinds (`StepKinds`), and the proof has a lemma for each.  The
refinement maps a publication to `Promote` or `Recover`, a verification to
`Confirm` and every other step to a stutter.  Theorems: `BackendInvariant`, `IntentInvariant`,
`TypeCorrect`, `GenerationsOwned`, `MarkerIsNewest`, `ViewsConfirmed`,
`AuthorityUnforked`, `AlwaysAWayOut`, `PublishedFresh`, `RefinesStableHead`.

**`CheckpointedLedger_proofs`**, for any number of writers, events, reads, faults
and restores, from `None` being no reservation record.  No call sees both sides at
once, so `LedgerInv` says what holds between any two of them: every history ever
committed is a prefix of one log (`OneLog`), the log is ahead of the checkpoint by
the reserved event at most (`OneAhead`), a late call acknowledges only what was
committed and never aborts (`Harmless`), and each writer is about to commit only
when its reservation still stands at the base it read (`WriterBound`).  That a
restored database cannot fork the log follows from the last: an event is appended
to the checkpoint, which is the whole log.  Theorems: `LedgerInvariant`,
`LedgerTypeCorrect`, `AckedCheckpointed`, `DifferenceReserved`,
`InspectionsComplete`, `RefinesAuditLog`.

**`FencedPublication_proofs`**, for any number of workers, attempts, leases and
late requests, from `None` being no phase, job or intent.  Reading the branch,
admitting an intent, the move itself and its confirmation are steps of processes
that may lose their lease between any two.  `FenceInv` needs, for every change of
the branch that is still asked for, that its base is a commit the branch was at,
and that it is the one of the unresolved intent if the branch is still there
(`Live`, for requests under way and for workers about to send).  An aborted intent
stays out of the branch because its requests are drained and another attempt adds
other entries; a phase is not built twice because whoever still stages a job whose
advertisement was admitted no longer holds its lease (`PhaseHeld`); and an attempt
whose generation was superseded has a verified commit the branch has left behind
(`PublishedBound`), which is why its advertisement can no longer be applied.  One
lemma per action; `Steady`, `Quiet` and `Still` are what most of them share.
Theorems: `FenceInvariant`, `FenceTypeCorrect`, `IntentsTrue`, `OneWriter`,
`VerifiedAdvertised`, `AdvertisedCurrent`.

**`ClientUpdate_proofs`**, for any number of processes, requests, events and
restores.  `NeverBack` compares two DNF runs that may be of different processes
with any number of stopped updates in between; `ClientInv` says what the holder
of the lock has checked (`HolderInv`) and that what DNF was run on never leads
the pin (`PinLeads`).  The comparison is transitive on what is pinned, which is
the lemma behind it.  While no ledger is restored, `FreshInv` says more: heads are in
order, and no answer to a request and no pin precedes what the log was when the
request was made.  That an update installs nothing older than the head it asked
for, and that its own pin refuses no answer, are both read off it.  Theorems:
`ClientTypeCorrect`, `DnfNeverGoesBack`, `DnfReadsPinned`, `InstallsFresh`,
`NotLockedOut`.

**`Psop_proofs`, the gateway**, for every set of attempts, processes and plans, every
adopted base and any number of leases and drains.  The truth of outcomes needs
that one job is pending at a time (`PendingAlone`), that an open intent belongs
to it, a confirmed one has lengthened the branch and an aborted one was fenced by
a raised epoch (`IntentInv`), and what a process carries from its last step to
the next (`WorkerInv`).  The heart is the transport's step: it happens with a
branch equal to its base, hence unconfirmed, and in its own epoch, hence not
aborted, so its intent is open and its job the pending one (`Moved`).  Lemma
`RecordChanges` then reduces every step that writes one record to what the record
must say and what other processes rely on.  That the head is on the branch needs one thing
more, that the results of the jobs whose intents are confirmed follow one another
along it (`ResultsFollow`).  Theorems: `GatewayInvariant`, `GatewayTypeCorrect`,
`OutcomesAreTrue`, `OnlyAdmittedMoves`, `HeadPublished`.

**`Psop_proofs`, the client** (one module extends both sides, whose names differ
for that), for every set of names and views and any number of publications, descriptors and DNF processes left behind.  `AheadOnlyWhilePending`
is inductive only together with what a journal says (`JournalInv`: its view
follows the active one or is it), what the update under the lock has established
at each step (`RunInv`) and what an orphaned DNF may still install (`OrphanInv`:
the journalled view, or one no newer than the active one).  Every step that
installs goes through one lemma, `InstallKeeps`.  All four properties of the run
are theorems: `AheadIsJournalled`, `JournalResumable`, `ActiveFollows`,
`DnfUnderApproval`; and `PsopClientTypeCorrect`.

**`SnapshotBuilder_proofs`**, for every registry, every set of releases and any
number of runs, snapshots and damaged objects.  `StoredIsAccepted` needs that what
a run signed is of its release (`RunsAccepted`), which rests on a name standing
for one file of a release, and that candidates, which wait unprotected, hold such
files only (`CandidatesAccepted`).  `LineageBound` compares a snapshot with any
ancestor, though it was built from its parent alone.  `LineInv` says of each
snapshot and its parent that every slot of the parent is kept with the same file
or one of a greater version (`GoesOn`); so along a line a slot's version only
grows, and the same NEVRA can only be the same file.  Ancestors are the least
closed set, so what holds of the parent and passes on holds of all of them.
Theorems: `StoredFromProducers`, `BuilderTypeCorrect`, `LineInvariant`,
`LineagesBind`.

**`PromotionPipeline_proofs`**, for every registry, every beta snapshot, dwell and
longest approval, and any number of runs and attempts.  Between a proposal and the
move of the head lie an approval, other attempts, crashes and time, so the
invariant carries what each stage has established to the next: what a proposal as
prepared binds together (`ProposalInv`), that a dwell once met stays met
(`DwellInv`, which needs that only the newest run can still be running), what an
approval was given for (`ApprovalInv`) and what `begin` has looked at (`StagedInv`).
Lemma `HeadMoves` shows that the head moves for one attempt only, on the base of its
proposal; a property then follows from what that proposal binds.  Of the two
properties that rest on the order of versions, the part that does not is proved:
each package a promotion makes current was compared with the one it replaces
(`PromotionsCompared`), and every head has whole groups of one build
(`HeadsPlannable`).  Theorems: `PromotionsExtend`, `DwellIsServed`, `TestedWhole`,
`HeadsAreWhole`, `HeadsPlannable`, `PromotionsCompared`, `PipelineInvariant`,
`PipelineTypeCorrect`.

**`RemoteChannels_proofs`**, for any components, releases and requests, any number
of snapshots, runs, failures, validations and orchestrated requests, and any dwell.
A job acts on what an earlier job of its run left it, which may be of a long past
tip, so the invariant says for each run what its inputs and artifacts still mean
(`RunBound`): of a promotion, that its evidence is about a publication of beta's
history that has dwelled before signing (`PromoteBound`); of a selection, that what
it composed was all served by beta, and is what would be composed now as long as the
tip is the base it was composed on (`SelectBound`); of an orchestrated run, that it
still carries what its request chose (`RequestBound`).  A request keeps that the beta
it builds on is served until somebody else commits (`RequestInv`, `AuthorInv`), which
is how one candidate is added to exactly the beta it replaces across three runs.
`StableFromBeta` rests on `StableInv`, the same of every publication that a rollback
may return to.  `FiledInv` says that a publication of stable is on the record of
promotions and was signed by an attempt of its run that has ended; so a run that is
repeated does not publish a second time, which the refinement needs.  `Steady`
is what every step preserves (stored bytes, the history, what a run is) and
`RunKept`, `RequestKept`, `FiledKept` and `AuthorKept` carry the invariant over it,
so that a lemma of an action is about the run it moves.  Theorems: `ChannelInvariant`,
`RemoteChannelsTypeCorrect`, `StableServesBeta`, `PromotionsAreCurrent`,
`SelectionsMoveOneGroup`, `OrchestratedAddsToBeta`, and `StableIsAChannel`, the
refinement of `ChannelHistory`.

Only model-checked: of the ledger, `ReservationsEnd`, which is liveness; of the
pipeline, `NoDowngrade` and `StableAdoptable`, beyond the theorems above.  The
first says that the planner's comparison is RPM's order, the second that a head
compared with itself is no downgrade; both are about a recursive function over
the characters of a version, which takes induction over data.  `StableAdoptable`
also counts source packages of the architecture `src` only, as
`v3_migration.py:68` does, while the planner takes `nosrc` for a source package
too (`v3_promotion_planner.py:147-148`); in the instance every source package is
`src`.  The two findings are violations, which TLC shows.  Liveness is out of the
prover's reach, as is induction over data.  No module here declares a `RECURSIVE`
operator.

## 6. Not modelled, and what is abstracted

- Signatures, hashes and canonical JSON identify what they sign; a forged value
  does not occur.
- The bytes behind a digest: inventories, RPM and repository metadata, Git
  objects.  Where a check of them can fail, the step may stop.
- SQLite and PostgreSQL are one serialized lock with atomic commit.
- HTTP and GitHub are requests that are answered, lost or late.
- What DNF does after it was started.  The lock descriptor is not inherited, so a
  DNF whose update was killed goes on without the client's lock.
- Of the V2 workflows: acceptance and candidate building (one step of the
  orchestrator, since they write no storage), the jobs that read the published
  site back after a push, and what the validation tests read at which moment.
- The coordinator on the mutable pointer store, whose Git calls run inside the
  ledger transaction, is in the plan.
- The local commands `publish`, `promote-snapshot` and `rollback-publication` and
  the test-only `build-snapshot`: `RemoteChannels` has the remote channels they
  rehearse.  Reading them showed one difference to the documents: a local
  promotion asks only for the tests of the highest risk class among the changed
  packages, so that a snapshot with a critical-system and a critical-desktop
  change needs no desktop tests (ro_repo.py:2236-2238), while
  docs/V2-BETA-EXPANSION.md:63-67 lists them as required before stable.
- In `SnapshotBuilder`, a file's name is its header; file conflicts, the collision
  with Fedora's names and the signing keys are left out.
- `prepare_live`, which repeats `prepare` on a pinned checkout; the execution of
  DNF and VM tests, whose report is a claim; receipts and audits, which compare.
