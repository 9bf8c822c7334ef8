------------------------- MODULE MCSnapshotBuilder -------------------------
(* An instance of SnapshotBuilder small enough for TLC.                    *)
EXTENDS SnapshotBuilder, TLC

CONSTANTS s1, s2, s3

MCRegistry ==
  "release" :> [names |-> {"ro"}, arches |-> {"noarch"}, complete |-> TRUE]
  @@ "theme" :> [names |-> {"kde"}, arches |-> {"x86_64", "aarch64"}, complete |-> FALSE]

ItemsOf(name, arches, version, content) ==
  {[name |-> name, arch |-> a, version |-> version, content |-> content] : a \in arches \cup {"src"}}

\* The first version of one component is released twice, with other content;
\* a release is not attested and one lacks its source package.
MCRelease ==
  "r1" :> [component |-> "release", items |-> ItemsOf("ro", {"noarch"}, 1, "first")]
  @@ "r1 again" :> [component |-> "release", items |-> ItemsOf("ro", {"noarch"}, 1, "again")]
  @@ "r2" :> [component |-> "release", items |-> ItemsOf("ro", {"noarch"}, 2, "second")]
  @@ "t1" :> [component |-> "theme", items |-> ItemsOf("kde", {"x86_64"}, 1, "theme")]
  @@ "t2" :> [component |-> "theme", items |-> ItemsOf("kde", {"x86_64", "aarch64"}, 2, "theme")]
  @@ "t3" :> [component |-> "theme", items |-> {i \in ItemsOf("kde", {"aarch64"}, 3, "theme") : i.arch # "src"}]
MCAttested == DOMAIN MCRelease \ {"t2"}

MCSymmetry == Permutations(SnapshotId)
=============================================================================
