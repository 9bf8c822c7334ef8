------------------------- MODULE PromotionPipeline -------------------------
(***************************************************************************)
(* From a beta publication to the V3 stable head of the local rehearsal    *)
(* (src/tools/v3_integration.py, v3_promotion_policy.py,                   *)
(* v3_github_beta_audit.py, v3_signed_beta_history.py, v3_authorization.py,*)
(* v3_signed_stable_preview.py, v3_publication_rehearsal.py).              *)
(*                                                                         *)
(* Beta runs push a signed publication and verify it remotely later.  An   *)
(* attempt binds a proposal prepared from a beta snapshot and any stable   *)
(* snapshot, a signed approval that expires, and a two-step publication    *)
(* under one lock: begin stages the result tree, finish moves the head.    *)
(* Time passes, other attempts run and crashes happen between all of them. *)
(*                                                                         *)
(* A signed stable snapshot is its manifest: id, packages, parent.  The    *)
(* digest of its tree is the snapshot itself.                              *)
(***************************************************************************)
EXTENDS PromotionPlanner

CONSTANTS
  Beta, Content, Evidence,  \* beta snapshots, their packages, and the acceptance
                            \* manifests their build evidence names
  SnapshotId,   \* identities of signed stable snapshots
  Attempt,      \* publication attempts
  Dwell,        \* days in beta per risk class: 7, 7 and 14 in the code
  Passed,       \* the sets of passed tests a claim may report
  MaxApproval,  \* longest approval: 24 hours in the code
  MaxRuns,      \* bound on beta runs
  MaxClock,     \* bound on time
  None

ASSUME PipelineAssumption ==
  /\ Content \in [Beta -> SUBSET UNION {Content[b] : b \in Beta}]
  /\ None \notin SnapshotId \cup Attempt \cup Beta
  /\ Dwell \in [Risk -> Nat]
  /\ {MaxApproval, MaxRuns, MaxClock} \subseteq Nat

VARIABLES
  clock,
  runs,      \* the beta runs that pushed a publication, in order
  value,     \* each attempt's proposal
  approval,  \* the signed approval each attempt holds
  record,    \* the phase of each attempt in state.json
  current,   \* the head in state.json
  verified,  \* verified_snapshots in state.json
  trees,     \* the complete trees under snapshots/
  damaged    \* those altered since

requests == <<value, approval>>
state == <<record, current, verified, trees>>
vars == <<clock, runs, requests, state, damaged>>

Package == UNION {Content[b] : b \in Beta}
Snapshot == [id : SnapshotId, packages : SUBSET Package, parent : SnapshotId \cup {None}]
Claim == [group : Group, selected : SUBSET Package, beta : Beta, base : SnapshotId \cup {None},
          set : SUBSET Package, passed : Passed]
Reviewed == [group : Group, mode : {"normal", "fast-track"}, selected : SUBSET Package,
             base : Snapshot \cup {None}, result : Snapshot, claim : Claim \cup {None},
             revised : BOOLEAN, dwellMet : BOOLEAN]

TypeOK ==
  /\ clock \in Nat
  /\ runs \in Seq([beta : Beta, signed : Nat, ended : Nat \cup {None}, success : BOOLEAN])
  /\ value \in [Attempt -> Reviewed \cup {None}]
  /\ approval \in [Attempt -> [operation : {"promote", "recover"}, expires : Nat] \cup {None}]
  /\ record \in [Attempt -> {"none", "attempted", "staged", "failed", "completed"}]
  /\ current \in Snapshot \cup {None}
  /\ verified \subseteq Snapshot /\ trees \subseteq Snapshot /\ damaged \subseteq Snapshot

Packages(s) == IF s = None THEN {} ELSE s.packages
IdOf(s) == IF s = None THEN None ELSE s.id

Init ==
  /\ clock = 0 /\ runs = <<>>
  /\ value = [a \in Attempt |-> None] /\ approval = [a \in Attempt |-> None]
  /\ record = [a \in Attempt |-> "none"]
  /\ current = None /\ verified = {} /\ trees = {} /\ damaged = {}

-----------------------------------------------------------------------------
(* Beta publications.                                                      *)

Running == \E i \in DOMAIN runs : runs[i].ended = None
Succeeded(r) == r.ended # None /\ r.success

\* publish-beta pushed the signed publication of b.
PublishBeta(b) ==
  /\ ~Running /\ Len(runs) < MaxRuns
  /\ runs' = Append(runs, [beta |-> b, signed |-> clock, ended |-> None, success |-> FALSE])
  /\ UNCHANGED <<clock, requests, state, damaged>>

\* verify-remote-beta ended, or the run was cancelled.
EndBeta(success) ==
  /\ Running
  /\ runs' = [runs EXCEPT ![Len(runs)].ended = clock, ![Len(runs)].success = success]
  /\ UNCHANGED <<clock, requests, state, damaged>>

\* signed_archive_bundle: every archived publication is read, and a build of g
\* in any of them must be plannable.
ArchiveReadable(g) ==
  /\ runs # <<>>
  /\ \A i \in DOMAIN runs :
       /\ WellFormed(Content[runs[i].beta])
       /\ OfGroup(Content[runs[i].beta], g) # {} => Plannable(Content[runs[i].beta], {}, g)

\* The archive keeps every publication that was pushed.
Archived == DOMAIN runs

\* collect: the runs GitHub reports as successful.
Collected == {i \in DOMAIN runs : Succeeded(runs[i])}

\* validate_history: the archive holds exactly the successful runs.
HistoryCovered == Archived = Collected

\* first_seen: the publications of exactly these packages of g.
Matching(g, selected) == {i \in DOMAIN runs : OfGroup(Content[runs[i].beta], g) = selected}

\* Mutant of SeenAt: the signed timestamp counts, not the remote verification.
SeenAtSigned(r) == r.signed

\* A publication is seen when its remote verification completed.
SeenAt(r) == r.ended

\* verify_evidence: a complete history in which the candidate was seen.
BetaEvidence(g, selected) ==
  ArchiveReadable(g) /\ HistoryCovered /\ Matching(g, selected) # {}

\* evaluate: the oldest publication is old enough for the risk class.
DwellMet(g, selected) ==
  \E i \in Matching(g, selected) : clock - SeenAt(runs[i]) >= Dwell[Registry[g].risk]

-----------------------------------------------------------------------------
(* Proposals and approvals.                                                *)

\* Stable snapshots some attempt has produced.
Produced == {value[a].result : a \in {x \in Attempt : value[x] # None}}

\* create_preview: signed snapshots of some composition onto base.
Previews(base) ==
  {[id |-> i, packages |-> PlanResult(Content[b], Packages(base), g), parent |-> IdOf(base)] :
     i \in SnapshotId, b \in Beta, g \in Group}

\* Test claims about any plan.
Claims(b, g) ==
  {[group |-> g, selected |-> OfGroup(Content[b], g), beta |-> b, base |-> IdOf(s),
    set |-> PlanResult(Content[b], Packages(s), g), passed |-> t] :
     s \in Produced \cup {None}, t \in Passed}

\* Mutant of ResultMatches: the parent of the signed result is not compared.
ResultMatchesSet(result, b, base, g) ==
  result.packages = PlanResult(Content[b], Packages(base), g)

\* The signed result is the composed set on top of base.
ResultMatches(result, b, base, g) ==
  /\ result.parent = IdOf(base)
  /\ result.packages = PlanResult(Content[b], Packages(base), g)

\* _provenance: the signed build names the acceptance of every selected package.
Provenance(b, selected) == {p.manifest : p \in selected} \subseteq Evidence[b]

\* proposal: what a review binds.
Proposal(g, mode, selected, base, result, claim) ==
  [group |-> g, mode |-> mode, selected |-> selected, base |-> base, result |-> result,
   claim |-> claim, revised |-> FALSE, dwellMet |-> DwellMet(g, selected)]

\* prepare: verify, plan, compose, check and bind.  base need not be the head.
Prepare(a, b, base, g, mode) ==
  LET selected == OfGroup(Content[b], g)
      planned == PlanResult(Content[b], Packages(base), g)
  IN /\ value[a] = None
     /\ Plannable(Content[b], Packages(base), g) /\ Complete(planned, g)
     /\ Provenance(b, selected) /\ BetaEvidence(g, selected)
     /\ Composable(Content[b], Packages(base), g) /\ Preflight(planned)
     /\ \E claim \in Claims(b, g) \cup {None}, from \in Produced \cup {None} :
        \E result \in Previews(from) :
          /\ claim # None => ClaimHolds(claim, g, selected, b, IdOf(base), result.packages)
          /\ ResultMatches(result, b, base, g)
          /\ value' = [value EXCEPT ![a] = Proposal(g, mode, selected, base, result, claim)]
     /\ UNCHANGED <<clock, runs, approval, state, damaged>>

\* A recovery proposal: an earlier one bound to another base.
Revise(a, x, base) ==
  /\ value[a] = None /\ value[x] # None
  /\ value' = [value EXCEPT ![a] = [value[x] EXCEPT !.base = base, !.revised = TRUE]]
  /\ UNCHANGED <<clock, runs, approval, state, damaged>>

\* request: what may be signed.
Requestable(v, operation) ==
  operation = "promote" =>
    /\ v.mode = "normal" => v.dwellMet
    /\ v.claim # None

\* The approver signs a promotion only for a proposal as prepared.
Approve(a, operation, life) ==
  /\ value[a] # None /\ approval[a] = None
  /\ Requestable(value[a], operation)
  /\ operation = "promote" => ~value[a].revised
  /\ approval' = [approval EXCEPT ![a] = [operation |-> operation, expires |-> clock + life]]
  /\ UNCHANGED <<clock, runs, value, state, damaged>>

-----------------------------------------------------------------------------
(* begin and finish, under the lock of the rehearsal.                      *)

\* _integrity: no operation runs once a verified tree was altered.
Integrity == verified \cap damaged = {}

\* verify_signed in begin: a recovery needs a target verified before.
Authorized(a) ==
  /\ approval[a] # None
  /\ clock < approval[a].expires
  /\ approval[a].operation = "recover" => value[a].result \in verified

\* begin up to its first write: the attempt and its approval are used up.
Admitted(a) == Integrity /\ Authorized(a) /\ record[a] = "none"

AtBase(a) == current = value[a].base

\* The result tree can be staged, or is there already and intact.
Stageable(a) == AtBase(a) /\ value[a].result \notin damaged

Stage(a) ==
  /\ Admitted(a) /\ Stageable(a)
  /\ record' = [record EXCEPT ![a] = "staged"]
  /\ trees' = trees \cup {value[a].result}
  /\ UNCHANGED <<clock, runs, requests, current, verified, damaged>>

\* begin stops after its first write: refused, out of disk, or killed; the tree
\* may have been renamed into place.
StageFails(a, phase) ==
  /\ Admitted(a)
  /\ record' = [record EXCEPT ![a] = phase]
  /\ trees' \in IF Stageable(a) THEN {trees, trees \cup {value[a].result}} ELSE {trees}
  /\ UNCHANGED <<clock, runs, requests, current, verified, damaged>>

\* Mutant of Finishable: the tree staged by begin is not read again.
FinishableUnread(a) ==
  record[a] = "staged" /\ clock < approval[a].expires /\ AtBase(a)

\* finish: staged, unexpired, still on its base, tree intact.
Finishable(a) ==
  /\ record[a] = "staged" /\ clock < approval[a].expires /\ AtBase(a)
  /\ value[a].result \in trees \ damaged

\* finish moves the head.  When the write of the new state reports an error the
\* handler marks the attempt failed and writes the same state again.
MoveHead(a, phase) ==
  /\ Integrity /\ Finishable(a)
  /\ current' = value[a].result
  /\ verified' = verified \cup {current'}
  /\ record' = [record EXCEPT ![a] = phase]
  /\ UNCHANGED <<clock, runs, requests, trees, damaged>>

Finish(a) == MoveHead(a, "completed")
FinishWriteFails(a) == MoveHead(a, "failed")

\* finish of an attempt that cannot move the head.
FinishRefused(a) ==
  /\ Integrity /\ record[a] \in {"attempted", "staged"} /\ ~Finishable(a)
  /\ record' = [record EXCEPT ![a] = "failed"]
  /\ UNCHANGED <<clock, runs, requests, current, verified, trees, damaged>>

-----------------------------------------------------------------------------

\* One tree on disk is altered.
Damage(s) ==
  /\ damaged = {} /\ s \in trees
  /\ damaged' = {s}
  /\ UNCHANGED <<clock, runs, requests, state>>

Tick ==
  /\ clock < MaxClock
  /\ clock' = clock + 1
  /\ UNCHANGED <<runs, requests, state, damaged>>

Propose(a) ==
  \/ \E b \in Beta, base \in Produced \cup {None}, g \in Group, mode \in {"normal", "fast-track"} :
       Prepare(a, b, base, g, mode)
  \/ \E x \in Attempt, base \in Produced \cup {None} : Revise(a, x, base)
  \/ \E operation \in {"promote", "recover"}, life \in 1 .. MaxApproval : Approve(a, operation, life)

Publish(a) ==
  \/ Stage(a) \/ StageFails(a, "failed") \/ StageFails(a, "attempted")
  \/ Finish(a) \/ FinishWriteFails(a) \/ FinishRefused(a)

Next ==
  \/ \E b \in Beta : PublishBeta(b)
  \/ \E success \in BOOLEAN : EndBeta(success)
  \/ \E a \in Attempt : Propose(a) \/ Publish(a)
  \/ \E s \in trees : Damage(s)
  \/ Tick

Spec == Init /\ [][Next]_vars

-----------------------------------------------------------------------------
(* Properties.                                                             *)

\* Attempt a moves the head by an operation.
Moves(a, operation) ==
  current' # current /\ record'[a] # record[a] /\ approval[a].operation = operation

\* A promotion never lowers the version of a package the head has at that
\* moment: plan compared with a base chosen by the caller, begin and finish
\* compare that base with the head (v3_promotion_planner.py:192-196,
\* v3_publication_rehearsal.py:122, 173).
NoDowngrade ==
  [][\A a \in Attempt : Moves(a, "promote") =>
       \A p \in current'.packages, q \in Packages(current) :
         SameSlot(p, q) => ~Older(p.evr, q.evr)]_vars

\* A promotion names the head it replaces as its parent and changes the
\* packages of one group of it and no other.
PromotionExtendsHead ==
  [][\A a \in Attempt : Moves(a, "promote") =>
       LET g == value[a].group
       IN /\ current'.parent = IdOf(current)
          /\ current'.packages \ OfGroup(current'.packages, g)
               = Packages(current) \ OfGroup(Packages(current), g)]_vars

\* A normal promotion publishes only packages which, all of them and
\* unchanged, were in beta for the whole dwell after a remote verification
\* succeeded (v3_promotion_policy.py:33-64, v3_github_beta_audit.py:75-137).
DwellServed ==
  [][\A a \in Attempt : Moves(a, "promote") /\ value[a].mode = "normal" =>
       \E i \in DOMAIN runs :
         /\ Succeeded(runs[i])
         /\ OfGroup(Content[runs[i].beta], value[a].group)
              = OfGroup(current'.packages, value[a].group)
         /\ clock - runs[i].ended >= Dwell[Registry[value[a].group].risk]]_vars

\* Every set of packages a promotion makes current was tested as a whole, on
\* the head it replaces, on each of its architectures, fast-track or not
\* (v3_authorization.py:35, v3_group_validation.py:25-130).
TestedAsPublished ==
  [][\A a \in Attempt : Moves(a, "promote") =>
       /\ value[a].claim # None
       /\ value[a].claim.set = current'.packages
       /\ value[a].claim.base = IdOf(current)
       /\ TestArches(current'.packages) \X RequiredTests(value[a].group)
            \subseteq value[a].claim.passed]_vars

\* Every head the pipeline ever had passes the migration's own assessment, and
\* so every later promotion can retain its groups: each of them is there whole,
\* on every architecture of its policy (v3_migration.py:56-77,
\* v3_promotion_planner.py:182-183).
StableAdoptable ==
  [][\A s \in verified' \ verified :
       /\ Adoptable(s.packages)
       /\ \A g \in Groups(s.packages) : \A n \in Registry[g].names, a \in Registry[g].arches :
            \E p \in s.packages : p.name = n /\ p.arch = a]_vars

\* A recovery returns to a snapshot that was the head before, and whatever the
\* head moves to is a complete tree nobody altered
\* (v3_publication_rehearsal.py:102-105, 172-176).
HeadIsWhole ==
  [][current' # current =>
       /\ current' \in trees \ damaged
       /\ \A a \in Attempt : Moves(a, "recover") => current' \in verified]_vars

=============================================================================
