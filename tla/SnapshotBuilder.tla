--------------------------- MODULE SnapshotBuilder ---------------------------
(***************************************************************************)
(* From a producer's release to an immutable snapshot of the second        *)
(* generation (src/tools/ro_repo.py, v2_candidate.py): acceptance, RPM     *)
(* signing, the build of a candidate from signing runs and a parent, and   *)
(* its storage.                                                            *)
(*                                                                         *)
(* A run accepts a release and signs it.  Candidates are built from any    *)
(* successful runs on any stored parent and wait as artifacts, so that     *)
(* several of one parent, or of one identity, are stored in any order or   *)
(* never.  Artifacts and stored trees are damaged in between.              *)
(*                                                                         *)
(* An item of a release is an RPM file before signing: its header and its  *)
(* content.  Every signing makes its own bytes of it.                      *)
(***************************************************************************)
EXTENDS Integers, Sequences, FiniteSets

CONSTANTS
  Registry,    \* the producer registry: each component's policy
  Release,     \* the releases that are offered: component and items
  Attested,    \* those whose assets one producer run attested
  SnapshotId,  \* identities of snapshots
  MaxRun,      \* bound on the acceptance and signing runs
  MaxPending,  \* bound on the candidates
  MaxBuild,    \* bound on the candidates and stored snapshots
  MaxDamage,   \* bound on the damaged objects
  None

Component == DOMAIN Registry

ASSUME RegistryAssumption ==
  /\ \A c \in Component : Registry[c].names # {}
  /\ \A c, d \in Component : c # d => Registry[c].names \cap Registry[d].names = {}

\* The contents of released files, and what damage makes of them.
Content == {"damaged"} \cup UNION {{i.content : i \in Release[m].items} : m \in DOMAIN Release}

\* An RPM file, named by its header; what a signing makes of it, as the snapshot
\* manifests record it: with the digest of the producer's file and its run.
Item == [name : STRING, version : Nat, arch : STRING, content : Content]
SignedFile == [name : STRING, version : Nat, arch : STRING, content : Content,
               producer : Content, run : Nat]
Run == [release : DOMAIN Release, accepted : SUBSET Item,
        signed : SUBSET SignedFile, damaged : BOOLEAN]
Snapshot == [parent : SnapshotId \cup {None}, packages : SUBSET SignedFile, damaged : BOOLEAN]
Candidate == [id : SnapshotId, parent : SnapshotId \cup {None},
              packages : SUBSET SignedFile, damaged : BOOLEAN]

ASSUME ReleaseAssumption ==
  \A m \in DOMAIN Release : Release[m].component \in Component /\ Release[m].items \subseteq Item
ASSUME BoundAssumption ==
  {MaxRun, MaxPending, MaxBuild, MaxDamage} \subseteq Nat
ASSUME NoneAssumption == None \notin SnapshotId \cup Snapshot

VARIABLES
  runs,        \* the acceptance and signing runs
  candidates,  \* the built trees that are not stored
  snapshots,   \* the stored snapshots
  damage       \* damaged objects so far

vars == <<runs, candidates, snapshots, damage>>

TypeOK ==
  /\ runs \in Seq(Run)
  /\ candidates \subseteq Candidate
  /\ snapshots \in [SnapshotId -> Snapshot \cup {None}]
  /\ damage \in Nat

Init ==
  /\ runs = <<>> /\ candidates = {} /\ damage = 0
  /\ snapshots = [s \in SnapshotId |-> None]

Source(S) == {i \in S : i.arch = "src"}
Binary(S) == S \ Source(S)
Names(S) == {i.name : i \in S}
Arches(S) == {i.arch : i \in S}
Nevra(i) == <<i.name, i.version, i.arch>>
Slot(i) == <<i.name, i.arch>>

-----------------------------------------------------------------------------
(* Acceptance and signing.                                                 *)

\* verify_component: the files are those of the manifest, and the release
\* keeps to the policy of its component.
Acceptable(m, files) ==
  LET policy == Registry[Release[m].component]
  IN /\ files = Release[m].items
     /\ \A i, j \in files : Nevra(i) = Nevra(j) => i = j
     /\ Names(files) \subseteq policy.names
     /\ Binary(files) # {} /\ Arches(Binary(files)) \subseteq policy.arches
     /\ policy.complete => Arches(Binary(files)) = policy.arches
     /\ \E s \in files : Source(files) = {s} /\ \A i \in files : i.version = s.version

\* verify_attestations: every asset was attested by the one producer run the
\* manifest names, for its tag and commit.
Provenance(m) == m \in Attested

\* accept: a new run has the files of a release whose assets are attested.
\* When the report cannot be written main removes the object again, which
\* leaves nothing.
Accept(m) ==
  /\ Len(runs) < MaxRun
  /\ Acceptable(m, Release[m].items) /\ Provenance(m)
  /\ runs' = Append(runs, [release |-> m, accepted |-> Release[m].items,
                           signed |-> {}, damaged |-> FALSE])
  /\ UNCHANGED <<candidates, snapshots, damage>>

Manifest(r) == Release[runs[r].release]

\* Mutant of VerifyAccepted: only the headers of the files are compared.
VerifyAcceptedHeaders(r) ==
  {Nevra(i) : i \in runs[r].accepted} = {Nevra(i) : i \in Manifest(r).items}

\* verify_accepted_object: the accepted files are those of the manifest.
VerifyAccepted(r) == runs[r].accepted = Manifest(r).items

\* A signed file keeps its header.
File(i, producer, r) == [name |-> i.name, version |-> i.version, arch |-> i.arch,
                         content |-> i.content, producer |-> producer.content, run |-> r]

\* sign_accepted_component: what is accepted now is signed, once; the signing
\* evidence takes the producer's digest from the manifest.
Sign(r) ==
  /\ runs[r].signed = {} /\ VerifyAccepted(r)
  /\ runs' = [runs EXCEPT ![r].signed =
       {File(x[1], x[2], r) : x \in {y \in runs[r].accepted \X Manifest(r).items :
                                       Nevra(y[1]) = Nevra(y[2])}}]
  /\ UNCHANGED <<candidates, snapshots, damage>>

Signed == {r \in DOMAIN runs : runs[r].signed # {}}
FileNames(r) == {Nevra(x) : x \in runs[r].signed}

\* verify_signed_component_bundle: each run's files are those it signed, of the
\* release it accepted, and no two runs bring the same file name.
VerifyBundle(R) ==
  /\ \A r \in R : VerifyAccepted(r) /\ ~runs[r].damaged
  /\ \A r, q \in R : r # q => FileNames(r) \cap FileNames(q) = {}

-----------------------------------------------------------------------------
(* Candidates.                                                             *)

OfComponent(packages, c) == {x \in packages : x.name \in Registry[c].names}
Incoming(R) == UNION {runs[r].signed : r \in R}

\* Mutant of Newer: the same version may come again.
NewerOrSame(new, old) == new.version >= old.version

\* plan: a replacement is strictly newer.
Newer(new, old) == new.version > old.version

\* plan and select_group: a signing run brings one complete component, and
\* replaces the same files by newer ones.
Replaceable(base, r) ==
  LET c == Manifest(r).component
      binaries == Binary(Manifest(r).items)
      old == OfComponent(base, c)
  IN /\ Names(binaries) = Registry[c].names
     /\ \A n \in Registry[c].names : Arches({i \in binaries : i.name = n}) = Arches(binaries)
     /\ old # {} =>
          /\ {Slot(x) : x \in old} = {Slot(x) : x \in runs[r].signed}
          /\ \A x \in old, y \in runs[r].signed : Slot(x) = Slot(y) => Newer(y, x)

\* plan: what of the base the runs leave in place, byte for byte.
Retained(base, R) == base \ UNION {OfComponent(base, Manifest(r).component) : r \in R}

Stored == {s \in SnapshotId : snapshots[s] # None}

\* verify_snapshot: the tree is what its signed manifest says.
Unchanged(tree) == ~tree.damaged

Packages(s) == IF s = None THEN {} ELSE snapshots[s].packages

\* No other producer content under a NEVRA of the base or of a snapshot in the
\* output.
NevraFree(R, parent, visible) ==
  \A x \in Incoming(R), h \in Packages(parent) \cup UNION {Packages(s) : s \in visible} :
    Nevra(x) = Nevra(h) => x.producer = h.producer

\* inventory: one version of a package per architecture.
Inventory(packages) == \A x, y \in packages : Slot(x) = Slot(y) => x = y

\* plan: the parent is stored and intact, one run per component.
Plannable(s, parent, R) ==
  /\ parent # s /\ Unchanged(snapshots[parent]) /\ Inventory(Packages(parent))
  /\ \A r \in R : Replaceable(Packages(parent), r)
  /\ \A r, q \in R : Manifest(r).component = Manifest(q).component => r = q

\* build_production_snapshot: a workflow builds into an empty output, an
\* operator where the snapshots are; the tree is verified as it is finished.
Build(s, parent, R, visible) ==
  /\ Cardinality(candidates) < MaxPending
  /\ Cardinality(candidates) + Cardinality(Stored) < MaxBuild
  /\ R # {} /\ VerifyBundle(R)
  /\ parent # None => Plannable(s, parent, R)
  /\ s \notin visible /\ NevraFree(R, parent, visible)
  /\ candidates' = candidates \cup
       {[id |-> s, parent |-> parent, damaged |-> FALSE,
         packages |-> Retained(Packages(parent), R) \cup Incoming(R)]}
  /\ UNCHANGED <<runs, snapshots, damage>>

\* verify_production_candidate and stage_pages_snapshot, or the last rename of
\* a build in place: a snapshot that is there is left alone.
Store(c) ==
  /\ Unchanged(c) /\ c.id \notin Stored
  /\ snapshots' = [snapshots EXCEPT ![c.id] =
       [parent |-> c.parent, packages |-> c.packages, damaged |-> FALSE]]
  /\ candidates' = candidates \ {c}
  /\ UNCHANGED <<runs, damage>>

-----------------------------------------------------------------------------
(* Faults.                                                                 *)

Spoiled(items) == {[i EXCEPT !.content = "damaged"] : i \in items}

DamageRun(r) ==
  /\ \/ runs' = [runs EXCEPT ![r].accepted = Spoiled(@)]
     \/ runs[r].signed # {} /\ runs' = [runs EXCEPT ![r].damaged = TRUE]
  /\ UNCHANGED <<candidates, snapshots>>

DamageCandidate(c) ==
  candidates' = (candidates \ {c}) \cup {[c EXCEPT !.damaged = TRUE]} /\ UNCHANGED <<runs, snapshots>>

DamageSnapshot(s) ==
  snapshots' = [snapshots EXCEPT ![s].damaged = TRUE] /\ UNCHANGED <<runs, candidates>>

\* An artifact or a stored file changes.
Damage ==
  /\ damage < MaxDamage /\ damage' = damage + 1
  /\ \/ \E r \in DOMAIN runs : DamageRun(r)
     \/ \E c \in candidates : DamageCandidate(c)
     \/ \E s \in Stored : DamageSnapshot(s)

Next ==
  \/ \E m \in DOMAIN Release : Accept(m)
  \/ \E r \in DOMAIN runs : Sign(r)
  \/ \E s \in SnapshotId, parent \in Stored \cup {None}, R \in SUBSET Signed, visible \in {{}, Stored} :
       Build(s, parent, R, visible)
  \/ \E c \in candidates : Store(c)
  \/ Damage

Spec == Init /\ [][Next]_vars

-----------------------------------------------------------------------------
(* Properties.                                                             *)

\* The stored snapshots that t was composed onto, one after another: those in
\* every set that holds the parent of t and of each of its own members.
Ancestors(t) ==
  {s \in Stored : \A A \in SUBSET Stored :
     (\A u \in A \cup {t} : snapshots[u].parent \in A \cup {None}) => s \in A}

\* Along a line of snapshots a NEVRA has one file, with the same signed bytes
\* in every snapshot that has it, whatever the producers released again,
\* however often it was signed and wherever the candidates were built; clients
\* and the later composition of stable rely on it (build_production_snapshot,
\* plan).
LineageBound ==
  \A t \in Stored : \A s \in Ancestors(t) :
    \A x \in Packages(s), y \in Packages(t) : Nevra(x) = Nevra(y) => x = y

\* Every file of a stored snapshot was made from the file its manifest names, of
\* a release that was attested, although objects are damaged between
\* acceptance, signing, composition and storage (verify_accepted_object,
\* verify_signed_component_bundle).
StoredIsAccepted ==
  \A s \in Stored : \A x \in Packages(s) :
    /\ x.content = x.producer
    /\ runs[x.run].release \in Attested
    /\ \E i \in Manifest(x.run).items : Nevra(i) = Nevra(x) /\ i.content = x.producer
=============================================================================
