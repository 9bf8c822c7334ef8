------------------------ MODULE MCPromotionPipeline ------------------------
(* An instance of PromotionPipeline small enough for TLC.                  *)
EXTENDS PromotionPipeline, TLC

CONSTANTS b1, b2, s1, s2, a1, a2

\* Two components: one noarch, one for two architectures.
MCRegistry ==
  ("app" :> [names |-> {"ro"}, arches |-> {"noarch"}, complete |-> TRUE,
             risk |-> "normal-app", tests |-> {"cli"}])
  @@ ("desk" :> [names |-> {"kde"}, arches |-> {"x86_64", "aarch64"}, complete |-> FALSE,
                 risk |-> "critical-desktop", tests |-> {"cli"}])

Number(n) == [kind |-> "number", value |-> n]
Dot == [kind |-> "separator", value |-> 0]
Tilde == [kind |-> "tilde", value |-> 0]
Caret == [kind |-> "caret", value |-> 0]
Letters(n) == [kind |-> "letters", value |-> n]

Build(name, arches, version, release) ==
  {[name |-> name, arch |-> a, evr |-> [epoch |-> 0, version |-> version, release |-> release],
    manifest |-> <<name, version, release>>, srpm |-> name, bytes |-> a] : a \in arches \cup {"src"}}

\* The second snapshot is older in one component, 1.0-1~rc and not 1.0-1, and has
\* only one architecture of the other.
MCContent ==
  b1 :> Build("ro", {"noarch"}, <<Number(1), Dot, Number(0)>>, <<Number(1)>>)
          \cup Build("kde", {"x86_64", "aarch64"}, <<Number(6)>>, <<Number(1)>>)
  @@ b2 :> Build("ro", {"noarch"}, <<Number(1), Dot, Number(0)>>, <<Number(1), Tilde, Letters(1)>>)
             \cup Build("kde", {"x86_64"}, <<Number(7)>>, <<Number(1)>>)
MCEvidence == [b \in {b1, b2} |-> {p.manifest : p \in MCContent[b]}]

MCDwell == [r \in Risk |-> IF r = "critical-system" THEN 2 ELSE 1]

\* All tests on both architectures, or on one of them.
MCPassed == {a \X {"base", "cli", "desktop"} : a \in {{"x86_64", "aarch64"}, {"x86_64"}}}

MCVersions == UNION {[1 .. n -> {Number(0), Number(1), Dot, Tilde, Caret, Letters(1), Letters(2)}] : n \in 0 .. 3}

\* The loop of version_compare computes the documented order, where separators
\* are maximal.
ASSUME CompareIsRpmOrder ==
  LET versions == {v \in MCVersions : \A i \in 1 .. Len(v) - 1 : ~(v[i] = Dot /\ v[i + 1] = Dot)}
  IN \A v, w \in versions : VersionCompare[<<v, w>>] = RpmOrder(v, w)

\* Attempts are interchangeable, and so are snapshot identities.
MCSymmetry == Permutations(Attempt) \cup Permutations(SnapshotId)
=============================================================================
