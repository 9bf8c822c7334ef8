---------------------- MODULE PromotionPipeline_proofs ----------------------
(***************************************************************************)
(* Proofs about PromotionPipeline, for every registry, every beta snapshot *)
(* and dwell, and any number of runs and attempts.                         *)
(***************************************************************************)
EXTENDS PromotionPipeline, TLAPS

\* Only the newest run may be running.
OnlyLastRuns == \A i \in DOMAIN runs : runs[i].ended = None => i = Len(runs)

\* What a proposal as prepared binds together.
Prepared(v) ==
  \E b \in Beta :
    /\ v.group \in Group
    /\ v.selected = OfGroup(Content[b], v.group)
    /\ Plannable(Content[b], Packages(v.base), v.group) /\ Complete(v.result.packages, v.group)
    /\ ResultMatches(v.result, b, v.base, v.group)
    /\ v.claim # None => ClaimHolds(v.claim, v.group, v.selected, b, IdOf(v.base), v.result.packages)

ProposalInv == \A a \in Attempt : value[a] # None /\ ~value[a].revised => Prepared(value[a])

\* What was selected has been in beta for its dwell.
Served(v) ==
  \E i \in DOMAIN runs :
    /\ Succeeded(runs[i])
    /\ OfGroup(Content[runs[i].beta], v.group) = v.selected
    /\ clock - runs[i].ended >= Dwell[Registry[v.group].risk]

DwellInv == \A a \in Attempt : value[a] # None /\ value[a].dwellMet => Served(value[a])

\* What an approval was given for.
ApprovalInv ==
  \A a \in Attempt : approval[a] # None =>
    /\ value[a] # None
    /\ approval[a].operation = "promote" =>
         /\ ~value[a].revised /\ value[a].claim # None
         /\ value[a].mode = "normal" => value[a].dwellMet

\* What begin has looked at.
StagedInv ==
  \A a \in Attempt : record[a] = "staged" =>
    /\ approval[a] # None
    /\ approval[a].operation = "recover" => value[a].result \in verified

PipelineInv ==
  /\ TypeOK /\ OnlyLastRuns
  /\ ProposalInv /\ DwellInv /\ ApprovalInv /\ StagedInv

-----------------------------------------------------------------------------

\* The packages of g are the only ones a plan changes, and they are the selected
\* ones.
LEMMA PlanChangesGroup ==
  ASSUME NEW candidate, NEW stable, NEW g
  PROVE LET result == PlanResult(candidate, stable, g)
        IN /\ OfGroup(result, g) = OfGroup(candidate, g)
           /\ result \ OfGroup(result, g) = stable \ OfGroup(stable, g)
BY DEF PlanResult, OfGroup

LEMMA InitPipeline == Init => PipelineInv
BY DEF Init, PipelineInv, TypeOK, OnlyLastRuns, ProposalInv, DwellInv, ApprovalInv, StagedInv

LEMMA RunTyped ==
  ASSUME TypeOK, NEW i \in DOMAIN runs
  PROVE i \in Nat /\ runs[i].beta \in Beta /\ runs[i].ended \in Nat \cup {None}
<1> DEFINE T == [beta : Beta, signed : Nat, ended : Nat \cup {None}, success : BOOLEAN]
<1>1. runs \in Seq(T)
  BY DEF TypeOK
<1> HIDE DEF T
<1>2. i \in Nat /\ runs[i] \in T
  BY <1>1
<1> QED
  BY <1>2 DEF T

\* Snapshots carry packages of beta.
LEMMA SnapshotTyped ==
  ASSUME NEW s \in Snapshot \cup {None}
  PROVE Packages(s) \subseteq Package /\ IdOf(s) \in SnapshotId \cup {None}
BY DEF Snapshot, Packages, IdOf

LEMMA PlanTyped ==
  ASSUME NEW b \in Beta, NEW s \in Snapshot \cup {None}, NEW g
  PROVE PlanResult(Content[b], Packages(s), g) \subseteq Package
        /\ OfGroup(Content[b], g) \subseteq Package
BY SnapshotTyped DEF PlanResult, OfGroup, Package

-----------------------------------------------------------------------------
(* One lemma for each kind of action.                                      *)

\* A beta run begins.
LEMMA PublishBetaKeeps ==
  ASSUME PipelineInv, NEW b \in Beta, PublishBeta(b)
  PROVE PipelineInv'
<1> DEFINE T == [beta : Beta, signed : Nat, ended : Nat \cup {None}, success : BOOLEAN]
           new == [beta |-> b, signed |-> clock, ended |-> None, success |-> FALSE]
<1>1. runs \in Seq(T) /\ new \in T /\ new.ended = None
  BY DEF PipelineInv, TypeOK
<1>2. runs' = Append(runs, new) /\ UNCHANGED <<clock, value, approval, record, current, verified, trees, damaged>>
  BY DEF PublishBeta, requests, state
<1>3. \A i \in DOMAIN runs : runs[i].ended # None
  BY DEF PublishBeta, Running
<1> HIDE DEF T, new
<1>4. runs' \in Seq(T) /\ Len(runs') = Len(runs) + 1 /\ DOMAIN runs' = DOMAIN runs \cup {Len(runs) + 1}
      /\ \A i \in DOMAIN runs : runs'[i] = runs[i]
  BY <1>1, <1>2
<1>5. TypeOK'
  BY <1>2, <1>4 DEF PipelineInv, TypeOK, T
<1>6. OnlyLastRuns'
  BY <1>3, <1>4 DEF OnlyLastRuns
<1>7. DwellInv'
  BY <1>2, <1>4 DEF PipelineInv, DwellInv, Served
<1>8. ProposalInv' /\ ApprovalInv' /\ StagedInv'
  BY <1>2 DEF PipelineInv, ProposalInv, ApprovalInv, StagedInv
<1> QED
  BY <1>5, <1>6, <1>7, <1>8 DEF PipelineInv

\* A beta run ends.
LEMMA EndBetaKeeps ==
  ASSUME PipelineInv, NEW success \in BOOLEAN, EndBeta(success)
  PROVE PipelineInv'
<1> DEFINE T == [beta : Beta, signed : Nat, ended : Nat \cup {None}, success : BOOLEAN]
           last == Len(runs)
           new == [runs[last] EXCEPT !.ended = clock, !.success = success]
<1>1. last \in DOMAIN runs /\ runs[last].ended = None
  BY DEF EndBeta, Running, PipelineInv, OnlyLastRuns
<1>2. runs \in Seq(T) /\ clock \in Nat
  BY DEF PipelineInv, TypeOK
<1>3. runs[last] \in T
  <2> HIDE DEF T
  <2> QED BY <1>1, <1>2
<1>10. new \in T
  BY <1>2, <1>3
<1>4. runs' = [runs EXCEPT ![last] = new]
      /\ UNCHANGED <<clock, value, approval, record, current, verified, trees, damaged>>
  BY <1>1, <1>3 DEF EndBeta, requests, state
<1> HIDE DEF T, new
<1>5. runs' \in Seq(T) /\ Len(runs') = last /\ DOMAIN runs' = DOMAIN runs
      /\ \A i \in DOMAIN runs \ {last} : runs'[i] = runs[i]
  BY <1>1, <1>2, <1>4, <1>10
<1>6. TypeOK'
  BY <1>4, <1>5 DEF PipelineInv, TypeOK, T
<1>7. OnlyLastRuns'
  BY <1>5 DEF PipelineInv, OnlyLastRuns
<1>8. DwellInv'
  BY <1>1, <1>4, <1>5 DEF PipelineInv, DwellInv, Served, Succeeded
<1>9. ProposalInv' /\ ApprovalInv' /\ StagedInv'
  BY <1>4 DEF PipelineInv, ProposalInv, ApprovalInv, StagedInv
<1> QED
  BY <1>6, <1>7, <1>8, <1>9 DEF PipelineInv

\* An attempt gets a proposal that binds what it must.
LEMMA ProposedKeeps ==
  ASSUME PipelineInv, NEW a \in Attempt, NEW v \in Reviewed,
         value[a] = None, value' = [value EXCEPT ![a] = v],
         ~v.revised => Prepared(v), v.dwellMet => Served(v),
         UNCHANGED <<clock, runs, approval, record, current, verified, trees, damaged>>
  PROVE PipelineInv'
<1>1. value'[a] = v /\ \A x \in Attempt \ {a} : value'[x] = value[x]
  BY DEF PipelineInv, TypeOK
<1>2. TypeOK' /\ OnlyLastRuns'
  BY DEF PipelineInv, TypeOK, OnlyLastRuns
<1>3. ProposalInv'
  BY <1>1 DEF PipelineInv, ProposalInv
<1>4. DwellInv'
  <2>1. \A w : Served(w) => Served(w)'
    BY DEF Served
  <2> QED
    BY <1>1, <2>1 DEF PipelineInv, DwellInv
<1>5. approval[a] = None
  BY DEF PipelineInv, ApprovalInv
<1>6. ApprovalInv' /\ StagedInv'
  BY <1>1, <1>5 DEF PipelineInv, ApprovalInv, StagedInv
<1> QED
  BY <1>2, <1>3, <1>4, <1>6 DEF PipelineInv

LEMMA PrepareKeeps ==
  ASSUME PipelineInv, NEW a \in Attempt, NEW b \in Beta, NEW base \in Produced \cup {None},
         NEW g \in Group, NEW mode \in {"normal", "fast-track"}, Prepare(a, b, base, g, mode)
  PROVE PipelineInv'
<1> DEFINE selected == OfGroup(Content[b], g)
<1>1. base \in Snapshot \cup {None}
  BY DEF Produced, PipelineInv, TypeOK, Reviewed
<1>2. PICK claim \in Claims(b, g) \cup {None}, from \in Produced \cup {None} :
      \E result \in Previews(from) :
        /\ claim # None => ClaimHolds(claim, g, selected, b, IdOf(base), result.packages)
        /\ ResultMatches(result, b, base, g)
        /\ value' = [value EXCEPT ![a] = Proposal(g, mode, selected, base, result, claim)]
  BY DEF Prepare
<1>3. PICK result \in Previews(from) :
        /\ claim # None => ClaimHolds(claim, g, selected, b, IdOf(base), result.packages)
        /\ ResultMatches(result, b, base, g)
        /\ value' = [value EXCEPT ![a] = Proposal(g, mode, selected, base, result, claim)]
  BY <1>2
<1> DEFINE v == Proposal(g, mode, selected, base, result, claim)
<1>4. from \in Snapshot \cup {None}
  BY DEF Produced, PipelineInv, TypeOK, Reviewed
<1>5. result \in Snapshot
  <2>1. PICK i \in SnapshotId, bb \in Beta, gg \in Group :
          result = [id |-> i, packages |-> PlanResult(Content[bb], Packages(from), gg), parent |-> IdOf(from)]
    BY <1>3 DEF Previews
  <2>2. PlanResult(Content[bb], Packages(from), gg) \subseteq Package
    BY <1>4, PlanTyped
  <2>3. IdOf(from) \in SnapshotId \cup {None}
    BY <1>4, SnapshotTyped
  <2> QED
    BY <2>1, <2>2, <2>3 DEF Snapshot
<1>6. claim \in Claim \cup {None}
  <2>1. \A s \in Produced \cup {None} : s \in Snapshot \cup {None}
    BY DEF Produced, PipelineInv, TypeOK, Reviewed
  <2> QED
    BY <2>1, PlanTyped, SnapshotTyped DEF Claims, Claim
<1>7. selected \subseteq Package /\ DwellMet(g, selected) \in BOOLEAN
  BY PlanTyped DEF DwellMet
<1>8. v \in Reviewed
  <2> HIDE DEF selected
  <2> QED BY <1>1, <1>5, <1>6, <1>7 DEF Proposal, Reviewed
<1>9. /\ v.group = g /\ v.selected = selected /\ v.base = base /\ v.result = result /\ v.claim = claim
      /\ v.dwellMet = DwellMet(g, selected)
  <2> HIDE DEF selected
  <2> QED BY DEF Proposal
<1>10. v.dwellMet => Served(v)
  <2> SUFFICES ASSUME DwellMet(g, selected) PROVE Served(v)
    BY <1>9
  <2>1. \A i \in DOMAIN runs : Succeeded(runs[i])
    BY DEF Prepare, BetaEvidence, HistoryCovered, Archived, Collected
  <2>2. PICK i \in Matching(g, selected) : clock - SeenAt(runs[i]) >= Dwell[Registry[g].risk]
    BY DEF DwellMet
  <2> HIDE DEF selected, v
  <2> QED
    BY <1>9, <2>1, <2>2 DEF Served, Matching, SeenAt
<1>11. Prepared(v)
  <2> HIDE DEF v
  <2> QED BY <1>3, <1>9 DEF Prepared, Prepare, ResultMatches
<1>12. value[a] = None /\ value' = [value EXCEPT ![a] = v]
       /\ UNCHANGED <<clock, runs, approval, record, current, verified, trees, damaged>>
  BY <1>3 DEF Prepare, state
<1> HIDE DEF v
<1> QED
  BY <1>8, <1>10, <1>11, <1>12, ProposedKeeps

LEMMA ReviseKeeps ==
  ASSUME PipelineInv, NEW a \in Attempt, NEW x \in Attempt, NEW base \in Produced \cup {None},
         Revise(a, x, base)
  PROVE PipelineInv'
<1> DEFINE v == [value[x] EXCEPT !.base = base, !.revised = TRUE]
<1>1. base \in Snapshot \cup {None}
  BY DEF Produced, PipelineInv, TypeOK, Reviewed
<1>2. value[x] \in Reviewed /\ value[x] # None
  BY DEF Revise, PipelineInv, TypeOK
<1>3. v \in Reviewed /\ v.revised
      /\ v.group = value[x].group /\ v.selected = value[x].selected /\ v.dwellMet = value[x].dwellMet
  BY <1>1, <1>2 DEF Reviewed
<1>4. value[a] = None /\ value' = [value EXCEPT ![a] = v]
      /\ UNCHANGED <<clock, runs, approval, record, current, verified, trees, damaged>>
  BY DEF Revise, state
<1> HIDE DEF v
<1>5. v.dwellMet => Served(v)
  BY <1>2, <1>3 DEF PipelineInv, DwellInv, Served
<1> QED
  BY <1>3, <1>4, <1>5, ProposedKeeps

LEMMA ApproveKeeps ==
  ASSUME PipelineInv, NEW a \in Attempt, NEW operation \in {"promote", "recover"},
         NEW life \in 1 .. MaxApproval, Approve(a, operation, life)
  PROVE PipelineInv'
<1> DEFINE new == [operation |-> operation, expires |-> clock + life]
<1>1. clock \in Nat /\ life \in Nat
  BY PipelineAssumption DEF PipelineInv, TypeOK
<1>2. new \in [operation : {"promote", "recover"}, expires : Nat] /\ new.operation = operation
  BY <1>1
<1>3. approval' = [approval EXCEPT ![a] = new] /\ approval[a] = None
      /\ UNCHANGED <<clock, runs, value, record, current, verified, trees, damaged>>
  BY DEF Approve, state
<1> HIDE DEF new
<1>4. approval'[a] = new /\ \A x \in Attempt \ {a} : approval'[x] = approval[x]
  BY <1>3 DEF PipelineInv, TypeOK
<1>5. TypeOK' /\ OnlyLastRuns'
  BY <1>2, <1>3 DEF PipelineInv, TypeOK, OnlyLastRuns
<1>6. ProposalInv' /\ DwellInv'
  BY <1>3 DEF PipelineInv, ProposalInv, DwellInv, Served
<1>7. ApprovalInv'
  BY <1>2, <1>3, <1>4 DEF PipelineInv, ApprovalInv, Approve, Requestable
<1>8. StagedInv'
  BY <1>3, <1>4 DEF PipelineInv, StagedInv
<1> QED
  BY <1>5, <1>6, <1>7, <1>8 DEF PipelineInv

\* begin and finish: an attempt changes its phase, and is staged only after the
\* checks of begin.
LEMMA RecordKeeps ==
  ASSUME PipelineInv, NEW a \in Attempt, NEW phase \in {"attempted", "staged", "failed", "completed"},
         record' = [record EXCEPT ![a] = phase],
         phase = "staged" => Authorized(a),
         current' \in Snapshot \cup {None}, trees' \subseteq Snapshot,
         verified \subseteq verified', verified' \subseteq Snapshot,
         UNCHANGED <<clock, runs, value, approval, damaged>>
  PROVE PipelineInv'
<1>1. record'[a] = phase /\ \A x \in Attempt \ {a} : record'[x] = record[x]
  BY DEF PipelineInv, TypeOK
<1>2. TypeOK' /\ OnlyLastRuns'
  BY DEF PipelineInv, TypeOK, OnlyLastRuns
<1>3. ProposalInv' /\ DwellInv' /\ ApprovalInv'
  BY DEF PipelineInv, ProposalInv, DwellInv, Served, ApprovalInv
<1>4. StagedInv'
  BY <1>1 DEF PipelineInv, StagedInv, Authorized
<1> QED
  BY <1>2, <1>3, <1>4 DEF PipelineInv

LEMMA PublishKeeps ==
  ASSUME PipelineInv, NEW a \in Attempt, Publish(a)
  PROVE PipelineInv'
<1>1. ASSUME approval[a] # None PROVE value[a].result \in Snapshot
  BY <1>1 DEF PipelineInv, TypeOK, ApprovalInv, Reviewed
<1>2. /\ current \in Snapshot \cup {None} /\ trees \subseteq Snapshot /\ verified \subseteq Snapshot
      /\ damaged \subseteq Snapshot
  BY DEF PipelineInv, TypeOK
<1>3. CASE Stage(a)
  BY <1>1, <1>2, <1>3, RecordKeeps DEF Stage, Admitted, Authorized, requests
<1>4. ASSUME NEW phase \in {"failed", "attempted"}, StageFails(a, phase) PROVE PipelineInv'
  <2>1. trees' \subseteq Snapshot
    BY <1>1, <1>2, <1>4 DEF StageFails, Admitted, Authorized
  <2> QED
    BY <1>2, <1>4, <2>1, RecordKeeps DEF StageFails, requests
<1>5. ASSUME NEW phase \in {"completed", "failed"}, MoveHead(a, phase) PROVE PipelineInv'
  <2>1. value[a].result \in Snapshot
    BY <1>2, <1>5 DEF MoveHead, Finishable
  <2>2. current' = value[a].result /\ verified' = verified \cup {value[a].result} /\ trees' = trees
    BY <1>5 DEF MoveHead
  <2> QED
    BY <1>2, <1>5, <2>1, <2>2, RecordKeeps DEF MoveHead, requests
<1>6. CASE FinishRefused(a)
  BY <1>2, <1>6, RecordKeeps DEF FinishRefused, requests
<1> QED
  BY <1>3, <1>4, <1>5, <1>6 DEF Publish, Finish, FinishWriteFails

LEMMA DamageKeeps ==
  ASSUME PipelineInv, NEW s \in trees, Damage(s)
  PROVE PipelineInv'
<1>1. damaged' \subseteq Snapshot
      /\ UNCHANGED <<clock, runs, value, approval, record, current, verified, trees>>
  BY DEF Damage, PipelineInv, TypeOK, requests, state
<1> QED
  BY <1>1 DEF PipelineInv, TypeOK, OnlyLastRuns, ProposalInv, DwellInv, Served, ApprovalInv, StagedInv

\* Time only adds to the dwell.
LEMMA TickKeeps ==
  ASSUME PipelineInv, Tick
  PROVE PipelineInv'
<1>1. clock \in Nat /\ clock' = clock + 1
      /\ UNCHANGED <<runs, value, approval, record, current, verified, trees, damaged>>
  BY DEF Tick, PipelineInv, TypeOK, requests, state
<1>2. TypeOK' /\ OnlyLastRuns' /\ ProposalInv' /\ ApprovalInv' /\ StagedInv'
  BY <1>1 DEF PipelineInv, TypeOK, OnlyLastRuns, ProposalInv, ApprovalInv, StagedInv
<1>3. ASSUME NEW a \in Attempt, value[a] # None, value[a].dwellMet PROVE Served(value[a])'
  <2>1. PICK i \in DOMAIN runs :
          /\ Succeeded(runs[i])
          /\ OfGroup(Content[runs[i].beta], value[a].group) = value[a].selected
          /\ clock - runs[i].ended >= Dwell[Registry[value[a].group].risk]
    BY <1>3 DEF PipelineInv, DwellInv, Served
  <2>2. runs[i].ended \in Nat
    BY <2>1, RunTyped DEF PipelineInv, Succeeded
  <2>3. Dwell[Registry[value[a].group].risk] \in Nat
    <3>1. value[a].group \in Group
      BY <1>3 DEF PipelineInv, TypeOK, Reviewed
    <3> QED
      BY <3>1, RegistryAssumption, PipelineAssumption
  <2>4. clock' - runs[i].ended >= Dwell[Registry[value[a].group].risk]
    BY <1>1, <2>1, <2>2, <2>3
  <2> QED
    BY <1>1, <2>1, <2>4 DEF Served
<1>4. DwellInv'
  BY <1>1, <1>3 DEF DwellInv
<1> QED
  BY <1>2, <1>4 DEF PipelineInv

-----------------------------------------------------------------------------
(* Theorems.                                                               *)

\* Every step keeps what proposals, approvals and stages rest on.
THEOREM PipelineInvariant == Spec => []PipelineInv
<1>1. PipelineInv /\ [Next]_vars => PipelineInv'
  <2> SUFFICES ASSUME PipelineInv, [Next]_vars PROVE PipelineInv'
    OBVIOUS
  <2>1. ASSUME NEW b \in Beta, PublishBeta(b) PROVE PipelineInv'
    BY <2>1, PublishBetaKeeps
  <2>2. ASSUME NEW success \in BOOLEAN, EndBeta(success) PROVE PipelineInv'
    BY <2>2, EndBetaKeeps
  <2>3. ASSUME NEW a \in Attempt, Propose(a) PROVE PipelineInv'
    BY <2>3, PrepareKeeps, ReviseKeeps, ApproveKeeps DEF Propose
  <2>4. ASSUME NEW a \in Attempt, Publish(a) PROVE PipelineInv'
    BY <2>4, PublishKeeps
  <2>5. ASSUME NEW s \in trees, Damage(s) PROVE PipelineInv'
    BY <2>5, DamageKeeps
  <2>6. CASE Tick
    BY <2>6, TickKeeps
  <2>7. CASE UNCHANGED vars
    BY <2>7 DEF vars, requests, state, PipelineInv, TypeOK, OnlyLastRuns, ProposalInv, DwellInv, Served,
                ApprovalInv, StagedInv
  <2> QED
    BY <2>1, <2>2, <2>3, <2>4, <2>5, <2>6, <2>7 DEF Next
<1> QED
  BY InitPipeline, <1>1, PTL DEF Spec

\* The head moves in finish only, for one attempt, on the base of its proposal
\* and to its result.
LEMMA HeadMoves ==
  ASSUME PipelineInv, Next, current' # current \/ verified' # verified
  PROVE \E a \in Attempt :
          /\ Finishable(a) /\ current' = value[a].result /\ current = value[a].base
          /\ verified' = verified \cup {current'}
          /\ approval[a] # None /\ value[a] # None
          /\ \A x \in Attempt : record'[x] # record[x] => x = a
<1>1. PICK a \in Attempt, phase \in {"completed", "failed"} : MoveHead(a, phase)
  <2>1. \A b \in Beta : ~PublishBeta(b)
    BY DEF PublishBeta, state
  <2>2. \A success \in BOOLEAN : ~EndBeta(success)
    BY DEF EndBeta, state
  <2>3. ASSUME NEW a \in Attempt, Propose(a) PROVE FALSE
    <3>1. \A b, base, g, mode : ~Prepare(a, b, base, g, mode)
      BY DEF Prepare, state
    <3>2. \A x, base : ~Revise(a, x, base)
      BY DEF Revise, state
    <3>3. \A operation, life : ~Approve(a, operation, life)
      BY DEF Approve, state
    <3> QED
      BY <2>3, <3>1, <3>2, <3>3 DEF Propose
  <2>4. \A s \in trees : ~Damage(s)
    BY DEF Damage, state
  <2>5. ~Tick
    BY DEF Tick, state
  <2>6. PICK a \in Attempt : Publish(a)
    BY <2>1, <2>2, <2>3, <2>4, <2>5 DEF Next
  <2>7. ~Stage(a) /\ ~StageFails(a, "failed") /\ ~StageFails(a, "attempted") /\ ~FinishRefused(a)
    BY DEF Stage, StageFails, FinishRefused
  <2> QED
    BY <2>6, <2>7 DEF Publish, Finish, FinishWriteFails
<1>2. /\ Finishable(a) /\ current' = value[a].result /\ verified' = verified \cup {current'}
      /\ record' = [record EXCEPT ![a] = phase]
  BY <1>1 DEF MoveHead
<1>3. approval[a] # None /\ value[a] # None
  BY <1>2 DEF Finishable, PipelineInv, StagedInv, ApprovalInv
<1>4. \A x \in Attempt : record'[x] # record[x] => x = a
  BY <1>2 DEF PipelineInv, TypeOK
<1> QED
  BY <1>2, <1>3, <1>4 DEF Finishable, AtBase

\* A promotion moves the head to the result of a proposal as prepared on it.
LEMMA PromotionMoves ==
  ASSUME PipelineInv, Next, NEW a \in Attempt, Moves(a, "promote")
  PROVE /\ current' = value[a].result /\ current = value[a].base
        /\ value[a] # None /\ Prepared(value[a]) /\ value[a].claim # None
        /\ value[a].mode = "normal" => Served(value[a])
<1>1. PICK x \in Attempt :
        /\ Finishable(x) /\ current' = value[x].result /\ current = value[x].base
        /\ approval[x] # None /\ value[x] # None
        /\ \A y \in Attempt : record'[y] # record[y] => y = x
  BY HeadMoves DEF Moves
<1>2. x = a /\ approval[a].operation = "promote"
  BY <1>1 DEF Moves
<1> QED
  BY <1>1, <1>2 DEF PipelineInv, ApprovalInv, ProposalInv, DwellInv

\* Every reachable state of the pipeline is well typed.
THEOREM PipelineTypeCorrect == Spec => []TypeOK
<1>1. PipelineInv => TypeOK
  BY DEF PipelineInv
<1> QED
  BY <1>1, PipelineInvariant, PTL

\* A promotion names the head it replaces as its parent and changes one group.
THEOREM PromotionsExtend == Spec => PromotionExtendsHead
<1> DEFINE A == \A a \in Attempt : Moves(a, "promote") =>
                  LET g == value[a].group
                  IN /\ current'.parent = IdOf(current)
                     /\ current'.packages \ OfGroup(current'.packages, g)
                          = Packages(current) \ OfGroup(Packages(current), g)
<1>1. PipelineInv /\ [Next]_vars => [A]_vars
  <2> SUFFICES ASSUME PipelineInv, Next, NEW a \in Attempt, Moves(a, "promote")
               PROVE /\ current'.parent = IdOf(current)
                     /\ current'.packages \ OfGroup(current'.packages, value[a].group)
                          = Packages(current) \ OfGroup(Packages(current), value[a].group)
    BY DEF vars
  <2>1. current' = value[a].result /\ current = value[a].base /\ Prepared(value[a])
    BY PromotionMoves
  <2>2. PICK b \in Beta : ResultMatches(current', b, current, value[a].group)
    BY <2>1 DEF Prepared
  <2> QED
    BY <2>2, PlanChangesGroup DEF ResultMatches
<1> QED
  BY <1>1, PipelineInvariant, PTL DEF Spec, PromotionExtendsHead

\* A normal promotion publishes only what was in beta for its whole dwell after a
\* remote verification.
THEOREM DwellIsServed == Spec => DwellServed
<1> DEFINE A == \A a \in Attempt : Moves(a, "promote") /\ value[a].mode = "normal" =>
                  \E i \in DOMAIN runs :
                    /\ Succeeded(runs[i])
                    /\ OfGroup(Content[runs[i].beta], value[a].group)
                         = OfGroup(current'.packages, value[a].group)
                    /\ clock - runs[i].ended >= Dwell[Registry[value[a].group].risk]
<1>1. PipelineInv /\ [Next]_vars => [A]_vars
  <2> SUFFICES ASSUME PipelineInv, Next, NEW a \in Attempt, Moves(a, "promote"), value[a].mode = "normal"
               PROVE \E i \in DOMAIN runs :
                       /\ Succeeded(runs[i])
                       /\ OfGroup(Content[runs[i].beta], value[a].group)
                            = OfGroup(current'.packages, value[a].group)
                       /\ clock - runs[i].ended >= Dwell[Registry[value[a].group].risk]
    BY DEF vars
  <2>1. current' = value[a].result /\ Prepared(value[a]) /\ Served(value[a])
    BY PromotionMoves
  <2>2. OfGroup(current'.packages, value[a].group) = value[a].selected
    BY <2>1, PlanChangesGroup DEF Prepared, ResultMatches
  <2> QED
    BY <2>1, <2>2 DEF Served
<1> QED
  BY <1>1, PipelineInvariant, PTL DEF Spec, DwellServed

\* What a promotion makes current was tested as a whole on the head it replaces.
THEOREM TestedWhole == Spec => TestedAsPublished
<1> DEFINE A == \A a \in Attempt : Moves(a, "promote") =>
                  /\ value[a].claim # None
                  /\ value[a].claim.set = current'.packages
                  /\ value[a].claim.base = IdOf(current)
                  /\ TestArches(current'.packages) \X RequiredTests(value[a].group)
                       \subseteq value[a].claim.passed
<1>1. PipelineInv /\ [Next]_vars => [A]_vars
  <2> SUFFICES ASSUME PipelineInv, Next, NEW a \in Attempt, Moves(a, "promote")
               PROVE /\ value[a].claim # None
                     /\ value[a].claim.set = current'.packages
                     /\ value[a].claim.base = IdOf(current)
                     /\ TestArches(current'.packages) \X RequiredTests(value[a].group)
                          \subseteq value[a].claim.passed
    BY DEF vars
  <2>1. current' = value[a].result /\ current = value[a].base /\ Prepared(value[a]) /\ value[a].claim # None
    BY PromotionMoves
  <2> QED
    BY <2>1 DEF Prepared, ClaimHolds
<1> QED
  BY <1>1, PipelineInvariant, PTL DEF Spec, TestedAsPublished

\* Whatever the head moves to is whole, and a recovery returns to a snapshot that
\* was the head before.
THEOREM HeadsAreWhole == Spec => HeadIsWhole
<1> DEFINE A == current' # current =>
                  /\ current' \in trees \ damaged
                  /\ \A a \in Attempt : Moves(a, "recover") => current' \in verified
<1>1. PipelineInv /\ [Next]_vars => [A]_vars
  <2> SUFFICES ASSUME PipelineInv, Next, current' # current
               PROVE /\ current' \in trees \ damaged
                     /\ \A a \in Attempt : Moves(a, "recover") => current' \in verified
    BY DEF vars, state
  <2>1. PICK x \in Attempt :
          /\ Finishable(x) /\ current' = value[x].result
          /\ \A y \in Attempt : record'[y] # record[y] => y = x
    BY HeadMoves
  <2>2. \A a \in Attempt : Moves(a, "recover") => a = x /\ approval[x].operation = "recover"
    BY <2>1 DEF Moves
  <2> QED
    BY <2>1, <2>2 DEF Finishable, PipelineInv, StagedInv
<1> QED
  BY <1>1, PipelineInvariant, PTL DEF Spec, HeadIsWhole

-----------------------------------------------------------------------------
(* What the planner's checks are worth at the head.                        *)

\* A plan changes one group and keeps the others, name by name.
LEMMA PlanKeepsGroups ==
  ASSUME NEW candidate, NEW stable, NEW g \in Group, NEW h \in Group, h # g
  PROVE  OfGroup(PlanResult(candidate, stable, g), h) = OfGroup(stable, h)
BY RegistryAssumption DEF PlanResult, OfGroup

\* What a plan makes of well formed snapshots is well formed, and each group in
\* it is one build.
LEMMA PlanWellFormed ==
  ASSUME NEW candidate, NEW stable, NEW g \in Group, Plannable(candidate, stable, g)
  PROVE  LET result == PlanResult(candidate, stable, g)
         IN /\ WellFormed(result)
            /\ \A h \in Groups(result) : OneBuild(result, h)
<1>. DEFINE result == PlanResult(candidate, stable, g)
            owned == Registry[g].names
<1>1. WellFormed(candidate) /\ WellFormed(stable) /\ OneBuild(candidate, g)
      /\ \A h \in Groups(stable) : OneBuild(stable, h)
  BY DEF Plannable
<1>2. \A p : p \in result <=>
             (p \in candidate /\ p.name \in owned) \/ (p \in stable /\ p.name \notin owned)
  BY DEF PlanResult, OfGroup
<1>3. WellFormed(result)
  <2>1. ASSUME NEW p \in result
        PROVE  \E h \in Group : p.name \in Registry[h].names
    BY <1>1, <1>2 DEF WellFormed
  <2>2. ASSUME NEW p \in result, NEW q \in result, SameSlot(p, q)
        PROVE  p = q
    BY <1>1, <1>2, <2>2 DEF WellFormed, SameSlot
  <2>3. ASSUME NEW p \in result, p.arch \in SourceArch
        PROVE  \E q \in result : q.arch \notin SourceArch /\ q.name = p.name
    <3>1. CASE p \in candidate /\ p.name \in owned
      <4>1. p.name \in Names(Binaries(candidate))
        BY <1>1, <2>3, <3>1 DEF WellFormed, Names, Sources
      <4>2. QED
        BY <1>2, <3>1, <4>1 DEF Names, Binaries
    <3>2. CASE p \in stable /\ p.name \notin owned
      <4>1. p.name \in Names(Binaries(stable))
        BY <1>1, <2>3, <3>2 DEF WellFormed, Names, Sources
      <4>2. QED
        BY <1>2, <3>2, <4>1 DEF Names, Binaries
    <3>3. QED
      BY <1>2, <3>1, <3>2
  <2>. HIDE DEF result
  <2>4. Names(Sources(result)) \subseteq Names(Binaries(result))
    BY <2>3 DEF Names, Sources, Binaries
  <2>5. QED
    BY <2>1, <2>2, <2>4 DEF WellFormed
<1>4. ASSUME NEW h \in Groups(result)
      PROVE  OneBuild(result, h)
  <2>1. h \in Group
    BY DEF Groups
  <2>2. CASE h = g
    <3>1. OfGroup(result, g) = OfGroup(candidate, g)
      BY PlanChangesGroup
    <3>2. QED
      BY <1>1, <2>2, <3>1 DEF OneBuild
  <2>3. CASE h # g
    <3>1. OfGroup(result, h) = OfGroup(stable, h)
      BY <2>1, <2>3, PlanKeepsGroups
    <3>2. h \in Groups(stable)
      BY <3>1 DEF Groups
    <3>3. QED
      BY <1>1, <3>1, <3>2 DEF OneBuild
  <2>4. QED
    BY <2>2, <2>3
<1>5. QED
  BY <1>3, <1>4

\* What becomes stable for the first time is a promotion's result.
LEMMA NewHeads ==
  ASSUME PipelineInv, Next, NEW s \in verified' \ verified
  PROVE  \E a \in Attempt : s = value[a].result /\ Prepared(value[a])
<1>1. PICK a \in Attempt :
        /\ Finishable(a) /\ current' = value[a].result /\ verified' = verified \cup {current'}
        /\ approval[a] # None /\ value[a] # None
  BY HeadMoves
<1>2. s = value[a].result
  BY <1>1
<1>3. approval[a].operation = "promote"
  BY <1>1, <1>2 DEF Finishable, PipelineInv, StagedInv, TypeOK
<1>4. QED
  BY <1>1, <1>2, <1>3 DEF PipelineInv, ApprovalInv, ProposalInv

\* Every head the pipeline ever had can be planned upon: it is well formed, and
\* each group in it is one build, whole on every architecture of its policy
\* (v3_promotion_planner.py:182-183, v3_migration.py:56-77).
THEOREM HeadsPlannable ==
  Spec => [][\A s \in verified' \ verified :
               /\ WellFormed(s.packages)
               /\ \A g \in Groups(s.packages) :
                    /\ OneBuild(s.packages, g)
                    /\ \A n \in Registry[g].names, a \in Registry[g].arches :
                         \E p \in s.packages : p.name = n /\ p.arch = a]_vars
<1>. DEFINE Whole(S) == /\ WellFormed(S)
                        /\ \A g \in Groups(S) :
                             /\ OneBuild(S, g)
                             /\ \A n \in Registry[g].names, a \in Registry[g].arches :
                                  \E p \in S : p.name = n /\ p.arch = a
            A == \A s \in verified' \ verified : Whole(s.packages)
<1>1. ASSUME PipelineInv, Next, NEW s \in verified' \ verified
      PROVE  Whole(s.packages)
  <2>1. PICK x \in Attempt : s = value[x].result /\ Prepared(value[x])
    BY <1>1, NewHeads
  <2>. DEFINE v == value[x]
              S == s.packages
  <2>2. PICK b \in Beta : /\ v.group \in Group /\ Plannable(Content[b], Packages(v.base), v.group)
                          /\ Complete(S, v.group)
                          /\ S = PlanResult(Content[b], Packages(v.base), v.group)
    BY <2>1 DEF Prepared, ResultMatches
  <2>3. WellFormed(S) /\ \A g \in Groups(S) : OneBuild(S, g)
    BY <2>2, PlanWellFormed
  <2>. HIDE DEF v, S
  <2>4. ASSUME NEW g \in Groups(S), NEW n \in Registry[g].names, NEW a \in Registry[g].arches
        PROVE  \E p \in S : p.name = n /\ p.arch = a
    <3>1. Names(InArch(OfGroup(S, g), a)) = Registry[g].names
      BY <2>2 DEF Complete
    <3>2. QED
      BY <3>1 DEF Names, InArch, OfGroup
  <2>5. Whole(S)
    BY <2>3, <2>4
  <2>6. QED
    BY <2>5 DEF S
<1>2. PipelineInv /\ [Next]_vars => [A]_vars
  <2>. HIDE DEF Whole
  <2>1. QED
    BY <1>1
<1>3. QED
  BY <1>2, PipelineInvariant, PTL DEF Spec

\* A package a promotion makes current in place of another is that package, or
\* was compared with it by the planner, although the base was the caller's choice
\* (v3_promotion_planner.py:192-196, v3_publication_rehearsal.py:122, 173).
THEOREM PromotionsCompared ==
  Spec => [][\A a \in Attempt : Moves(a, "promote") =>
               \A p \in current'.packages, q \in Packages(current) :
                 SameSlot(p, q) => p = q \/ NotDowngraded(p, q)]_vars
<1>. DEFINE A == \A a \in Attempt : Moves(a, "promote") =>
                   \A p \in current'.packages, q \in Packages(current) :
                     SameSlot(p, q) => p = q \/ NotDowngraded(p, q)
<1>1. ASSUME PipelineInv, Next, NEW a \in Attempt, Moves(a, "promote"),
             NEW p \in current'.packages, NEW q \in Packages(current), SameSlot(p, q)
      PROVE  p = q \/ NotDowngraded(p, q)
  <2>. DEFINE g == value[a].group
  <2>1. PICK b \in Beta : /\ Plannable(Content[b], Packages(current), g)
                          /\ current'.packages = PlanResult(Content[b], Packages(current), g)
    BY <1>1, PromotionMoves DEF Prepared, ResultMatches
  <2>. HIDE DEF g
  <2>2. p.name = q.name
    BY <1>1 DEF SameSlot
  <2>3. CASE p.name \in Registry[g].names
    <3>1. p \in OfGroup(Content[b], g) /\ q \in OfGroup(Packages(current), g)
      BY <1>1, <2>1, <2>2, <2>3 DEF PlanResult, OfGroup
    <3>2. QED
      BY <1>1, <2>1, <3>1 DEF Plannable
  <2>4. CASE p.name \notin Registry[g].names
    <3>1. p \in Packages(current)
      BY <1>1, <2>1, <2>4 DEF PlanResult, OfGroup
    <3>2. QED
      BY <1>1, <2>1, <3>1 DEF Plannable, WellFormed
  <2>5. QED
    BY <2>3, <2>4
<1>2. PipelineInv /\ [Next]_vars => [A]_vars
  BY <1>1 DEF vars, state, Moves
<1>3. QED
  BY <1>2, PipelineInvariant, PTL DEF Spec
==============================================================================
