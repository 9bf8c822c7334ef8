-------------------------- MODULE PromotionPlanner --------------------------
(***************************************************************************)
(* What one component promotion makes of a beta snapshot and the stable    *)
(* set, and what is demanded of it: the planner, the policy profile, the   *)
(* RPM preflight, the group validation claim and the migration assessment  *)
(* (src/tools/v3_promotion_planner.py, v3_policy_profile.py,               *)
(* v3_rpm_preflight.py, v3_group_validation.py, v3_migration.py).          *)
(*                                                                         *)
(* These are functions of data without state.  A snapshot is a set of      *)
(* packages; where the code raises PlanningError an operator is FALSE.  A  *)
(* package record is what its signed bytes say, header included, so a file *)
(* whose bytes differ from the manifest is a different record.             *)
(***************************************************************************)
EXTENDS RpmVersion, FiniteSets

CONSTANT Registry   \* the producer registry: the policy of each promotion group

Group == DOMAIN Registry
Risk == {"normal-app", "critical-desktop", "critical-system"}
SourceArch == {"src", "nosrc"}

\* _policies refuses a registry in which two groups own a name.
ASSUME RegistryAssumption ==
  /\ \A g \in Group : Registry[g].names # {} /\ Registry[g].arches # {}
                      /\ Registry[g].risk \in Risk
  /\ \A g, h \in Group : g # h => Registry[g].names \cap Registry[h].names = {}

Names(S) == {p.name : p \in S}
InArch(S, a) == {p \in S : p.arch = a}
Binaries(S) == {p \in S : p.arch \notin SourceArch}
Sources(S) == {p \in S : p.arch \in SourceArch}
OfGroup(S, g) == {p \in S : p.name \in Registry[g].names}
Groups(S) == {g \in Group : OfGroup(S, g) # {}}
SameSlot(p, q) == p.name = q.name /\ p.arch = q.arch

-----------------------------------------------------------------------------
(* The planner.                                                            *)

\* _packages: every package registered, one per name and architecture, no
\* source package alone.
WellFormed(S) ==
  /\ \A p \in S : \E g \in Group : p.name \in Registry[g].names
  /\ \A p, q \in S : SameSlot(p, q) => p = q
  /\ Names(Sources(S)) \subseteq Names(Binaries(S))

\* _verify_candidate: the packages of g in S are one build of the whole group.
OneBuild(S, g) ==
  LET selected == OfGroup(S, g)
      binaries == Binaries(selected)
      policy == Registry[g]
  IN /\ binaries # {}
     /\ Names(binaries) = policy.names
     /\ \A p \in binaries : p.arch \in policy.arches
     /\ policy.complete => \A a \in policy.arches : Names(InArch(binaries, a)) = policy.names
     /\ \E s \in Sources(selected) :
          /\ Sources(selected) = {s}
          /\ \A p \in selected : p.evr = s.evr /\ p.manifest = s.manifest

\* Mutant of NotDowngraded: only the version is looked at.
NotDowngradedVersion(p, q) == VersionCompare[<<p.evr.version, q.evr.version>>] >= 0

\* A package may replace q: no downgrade, and no new bytes under an old NEVRA.
NotDowngraded(p, q) == /\ EvrCompare(p.evr, q.evr) >= 0
                       /\ p.evr = q.evr => p.bytes = q.bytes

\* plan: the checks.  Two groups share no name, so the selected packages
\* cannot collide with or change those of another group.
Plannable(candidate, stable, g) ==
  /\ WellFormed(candidate) /\ WellFormed(stable)
  /\ \A h \in Groups(stable) : OneBuild(stable, h)
  /\ OneBuild(candidate, g)
  /\ \A p \in OfGroup(candidate, g), q \in OfGroup(stable, g) :
       SameSlot(p, q) => NotDowngraded(p, q)

\* plan: the resulting stable set.
PlanResult(candidate, stable, g) ==
  (stable \ OfGroup(stable, g)) \cup OfGroup(candidate, g)

\* compose: every file of the result is copied from the snapshot it belongs to,
\* a selected NEVRA from the beta snapshot, any other from the stable one.
Composable(candidate, stable, g) ==
  \A p \in PlanResult(candidate, stable, g) :
    IF \E q \in OfGroup(candidate, g) : SameSlot(p, q) /\ p.evr = q.evr
    THEN p \in candidate
    ELSE p \in stable

-----------------------------------------------------------------------------
(* The gates around it.                                                    *)

\* Mutant of Complete: only where the registry asks the component for it.
CompleteWhereAsked(S, g) ==
  \A h \in Groups(S) \cup {g} : Registry[h].complete =>
    \A a \in Registry[h].arches : Names(InArch(OfGroup(S, h), a)) = Registry[h].names

\* require_complete: every group of S, and g, covers its architectures.
Complete(S, g) ==
  \A h \in Groups(S) \cup {g} : \A a \in Registry[h].arches :
    Names(InArch(OfGroup(S, h), a)) = Registry[h].names

\* v3_rpm_preflight.verify: every binary RPM's header names a source RPM of
\* the set, of the same build.
Preflight(S) ==
  /\ Binaries(S) # {}
  /\ \A p \in Binaries(S) : \E s \in Sources(S) :
       p.srpm = s.name /\ p.evr = s.evr /\ p.manifest = s.manifest

\* profile: the tests a group must pass.
RequiredTests(g) ==
  Registry[g].tests \cup {"base"}
    \cup (IF Registry[g].risk = "critical-desktop" THEN {"desktop"} ELSE {})
    \cup (IF Registry[g].risk = "critical-system" THEN {"system"} ELSE {})

\* A noarch package is available to both architectures.
TestArches(S) ==
  LET arches == {p.arch : p \in S}
  IN (arches \cap {"x86_64", "aarch64"})
       \cup (IF "noarch" \in arches THEN {"x86_64", "aarch64"} ELSE {})

\* Mutant of ClaimHolds: the tests may have run on another stable set.
ClaimHoldsAnySet(claim, g, selected, beta, base, result) ==
  /\ claim.group = g /\ claim.selected = selected /\ claim.beta = beta
  /\ TestArches(result) \X RequiredTests(g) \subseteq claim.passed

\* validate_claim: the tests passed for exactly this plan on every
\* architecture of the whole resulting set.
ClaimHolds(claim, g, selected, beta, base, result) ==
  /\ claim.group = g /\ claim.selected = selected /\ claim.beta = beta
  /\ claim.base = base /\ claim.set = result
  /\ TestArches(result) # {}
  /\ claim.passed \subseteq TestArches(result) \X (RequiredTests(g) \cup {"base", "desktop", "system"})
  /\ TestArches(result) \X RequiredTests(g) \subseteq claim.passed

\* assess_manifest: a stable set V3 can take over as it is.
Adoptable(S) ==
  /\ WellFormed(S)
  /\ \A g \in Groups(S) :
       /\ Complete(OfGroup(S, g), g)
       /\ Cardinality(InArch(OfGroup(S, g), "src")) = 1
       /\ Plannable(S, S, g) /\ PlanResult(S, S, g) = S
=============================================================================
