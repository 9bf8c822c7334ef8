----------------------- MODULE SnapshotBuilder_proofs -----------------------
(***************************************************************************)
(* Proofs about SnapshotBuilder, for every registry, every set of releases *)
(* and any number of runs, candidates, snapshots and damaged objects.      *)
(***************************************************************************)
EXTENDS SnapshotBuilder, TLAPS

\* What StoredIsAccepted says of one file.
Accepted(x) ==
  /\ x.content = x.producer
  /\ x.run \in DOMAIN runs
  /\ runs[x.run].release \in Attested
  /\ \E i \in Manifest(x.run).items : Nevra(i) = Nevra(x) /\ i.content = x.producer

\* What a run has signed is accepted, because a name stands for one file of the
\* release and the accepted files were compared with it before they were signed.
RunsAccepted ==
  \A r \in DOMAIN runs :
    /\ runs[r].release \in Attested
    /\ \A i, j \in Manifest(r).items : Nevra(i) = Nevra(j) => i = j
    /\ \A x \in runs[r].signed : Accepted(x)

CandidatesAccepted == \A c \in candidates : \A x \in c.packages : Accepted(x)

SnapshotsAccepted == \A s \in SnapshotId : snapshots[s] # None => \A x \in snapshots[s].packages : Accepted(x)

BuilderInv == TypeOK /\ RunsAccepted /\ CandidatesAccepted /\ SnapshotsAccepted

-----------------------------------------------------------------------------

LEMMA InitBuilder == Init => BuilderInv
BY BoundAssumption, NoneAssumption
   DEF Init, BuilderInv, TypeOK, RunsAccepted, CandidatesAccepted, SnapshotsAccepted

LEMMA RunTyped ==
  ASSUME TypeOK, NEW r \in DOMAIN runs
  PROVE /\ r \in Nat /\ runs[r] \in Run
        /\ runs[r].release \in DOMAIN Release /\ runs[r].accepted \subseteq Item
        /\ runs[r].signed \subseteq SignedFile
<1>1. r \in Nat /\ runs[r] \in Run
  BY DEF TypeOK
<1> QED
  BY <1>1 DEF Run

\* Runs keep their release, so that an accepted file stays accepted.
RunsKept == DOMAIN runs \subseteq DOMAIN runs' /\ \A r \in DOMAIN runs : runs'[r].release = runs[r].release

LEMMA AcceptedStays == ASSUME RunsKept, NEW x, Accepted(x) PROVE Accepted(x)'
BY DEF RunsKept, Accepted, Manifest

\* No run, candidate or snapshot becomes worse where it keeps its packages.
LEMMA RunsOnly ==
  ASSUME BuilderInv, RunsKept, UNCHANGED <<candidates, snapshots>>
  PROVE CandidatesAccepted' /\ SnapshotsAccepted'
BY AcceptedStays DEF BuilderInv, CandidatesAccepted, SnapshotsAccepted

LEMMA TreesOnly ==
  ASSUME BuilderInv, UNCHANGED runs
  PROVE RunsKept /\ RunsAccepted' /\ (\A x : Accepted(x) => Accepted(x)')
<1>1. RunsKept
  BY DEF RunsKept
<1>2. \A x : Accepted(x) => Accepted(x)'
  BY <1>1, AcceptedStays
<1> QED
  BY <1>1, <1>2 DEF BuilderInv, RunsAccepted, Manifest

-----------------------------------------------------------------------------
(* One lemma for each action.                                              *)

LEMMA AcceptKeeps ==
  ASSUME BuilderInv, NEW m \in DOMAIN Release, Accept(m)
  PROVE BuilderInv'
<1> DEFINE new == [release |-> m, accepted |-> Release[m].items, signed |-> {}, damaged |-> FALSE]
<1>0. TypeOK /\ RunsAccepted /\ runs' = Append(runs, new) /\ UNCHANGED <<candidates, snapshots, damage>>
  BY DEF BuilderInv, Accept
<1>1. new \in Run
  BY ReleaseAssumption DEF Run
<1>2. runs' \in Seq(Run) /\ DOMAIN runs' = DOMAIN runs \cup {Len(runs) + 1}
      /\ runs'[Len(runs) + 1] = new /\ \A r \in DOMAIN runs : runs'[r] = runs[r]
  <2> HIDE DEF new
  <2> QED BY <1>0, <1>1 DEF TypeOK
<1>3. RunsKept
  BY <1>2 DEF RunsKept
<1>4. TypeOK'
  BY <1>0, <1>2 DEF TypeOK
<1>5. CandidatesAccepted' /\ SnapshotsAccepted'
  BY <1>0, <1>3, RunsOnly
<1>6. RunsAccepted'
  <2> SUFFICES ASSUME NEW r \in DOMAIN runs'
               PROVE /\ runs'[r].release \in Attested
                     /\ \A i, j \in Release[runs'[r].release].items : Nevra(i) = Nevra(j) => i = j
                     /\ \A x \in runs'[r].signed : Accepted(x)'
    BY DEF RunsAccepted, Manifest
  <2>1. CASE r \in DOMAIN runs
    BY <1>0, <1>2, <1>3, <2>1, AcceptedStays DEF RunsAccepted, Manifest
  <2>2. CASE r = Len(runs) + 1
    BY <1>2, <2>2 DEF Accept, Acceptable, Provenance
  <2> QED
    BY <1>2, <2>1, <2>2
<1> QED
  BY <1>4, <1>5, <1>6 DEF BuilderInv

\* What changes one run, and keeps its release.
LEMMA OneRunKeeps ==
  ASSUME BuilderInv, NEW r \in DOMAIN runs, NEW new \in Run,
         new.release = runs[r].release, runs' = [runs EXCEPT ![r] = new],
         \A x \in new.signed : Accepted(x),
         UNCHANGED <<candidates, snapshots>>, damage' \in Nat
  PROVE BuilderInv'
<1>1. runs' \in Seq(Run) /\ DOMAIN runs' = DOMAIN runs
      /\ runs'[r] = new /\ \A q \in DOMAIN runs \ {r} : runs'[q] = runs[q]
  BY DEF BuilderInv, TypeOK
<1>2. RunsKept
  BY <1>1 DEF RunsKept
<1>3. TypeOK'
  BY <1>1 DEF BuilderInv, TypeOK
<1>4. RunsAccepted'
  <2> SUFFICES ASSUME NEW q \in DOMAIN runs
               PROVE /\ runs'[q].release \in Attested
                     /\ \A i, j \in Release[runs'[q].release].items : Nevra(i) = Nevra(j) => i = j
                     /\ \A x \in runs'[q].signed : Accepted(x)'
    BY <1>1 DEF RunsAccepted, Manifest
  <2> QED
    BY <1>1, <1>2, AcceptedStays DEF BuilderInv, RunsAccepted, Manifest
<1> QED
  BY <1>2, <1>3, <1>4, RunsOnly DEF BuilderInv

LEMMA SignKeeps ==
  ASSUME BuilderInv, NEW r \in DOMAIN runs, Sign(r)
  PROVE BuilderInv'
<1> DEFINE files == {File(x[1], x[2], r) : x \in {y \in runs[r].accepted \X Manifest(r).items :
                                       Nevra(y[1]) = Nevra(y[2])}}
           new == [runs[r] EXCEPT !.signed = files]
<1>1. runs[r] \in Run /\ r \in Nat /\ runs[r].release \in DOMAIN Release
  BY RunTyped DEF BuilderInv
<1>2. \A i \in Manifest(r).items : i \in Item
  BY <1>1, ReleaseAssumption DEF Manifest
<1>3. ASSUME NEW x \in files PROVE x \in SignedFile /\ Accepted(x)
  <2>1. PICK i \in Manifest(r).items : x = File(i, i, r)
    BY <1>3 DEF Sign, VerifyAccepted, BuilderInv, RunsAccepted
  <2>2. i \in Item
    BY <1>2
  <2>3. x \in SignedFile
    BY <1>1, <2>1, <2>2 DEF File, SignedFile, Item
  <2>4. Nevra(i) = Nevra(x) /\ i.content = x.producer /\ x.content = x.producer /\ x.run = r
    BY <2>1 DEF File, Nevra
  <2> QED
    BY <2>3, <2>4 DEF Accepted, BuilderInv, RunsAccepted
<1>4. files \in SUBSET SignedFile /\ \A x \in files : Accepted(x)
  BY <1>3
<1>5. new \in Run /\ new.release = runs[r].release /\ new.signed = files
  <2> HIDE DEF files
  <2> QED BY <1>1, <1>4 DEF Run
<1>6. runs' = [runs EXCEPT ![r] = new] /\ UNCHANGED <<candidates, snapshots>> /\ damage' \in Nat
  BY DEF Sign, BuilderInv, TypeOK
<1> HIDE DEF files, new
<1> QED
  BY <1>4, <1>5, <1>6, OneRunKeeps

LEMMA BuildKeeps ==
  ASSUME BuilderInv, NEW s \in SnapshotId, NEW parent \in Stored \cup {None},
         NEW R \in SUBSET Signed, NEW visible, Build(s, parent, R, visible)
  PROVE BuilderInv'
<1> DEFINE packages == Retained(Packages(parent), R) \cup Incoming(R)
           new == [id |-> s, parent |-> parent, damaged |-> FALSE, packages |-> packages]
<1>1. candidates' = candidates \cup {new} /\ UNCHANGED <<runs, snapshots, damage>>
  BY DEF Build
<1>2. RunsAccepted' /\ \A x : Accepted(x) => Accepted(x)'
  BY <1>1, TreesOnly
<1>3. \A x \in Packages(parent) : x \in SignedFile /\ Accepted(x)
  BY NoneAssumption
     DEF BuilderInv, TypeOK, Snapshot, Packages, Stored, SnapshotsAccepted
<1>4. \A x \in Incoming(R) : x \in SignedFile /\ Accepted(x)
  BY RunTyped DEF BuilderInv, Incoming, Signed, RunsAccepted
<1>5. \A x \in packages : x \in SignedFile /\ Accepted(x)
  BY <1>3, <1>4 DEF Retained
<1>6. new \in Candidate
  <2> HIDE DEF packages
  <2> QED BY <1>5 DEF Candidate, Stored
<1>7. TypeOK'
  <2> HIDE DEF new
  <2> QED BY <1>1, <1>6 DEF BuilderInv, TypeOK
<1>8. CandidatesAccepted'
  <2>1. new.packages = packages
    OBVIOUS
  <2> HIDE DEF new
  <2> QED BY <1>1, <1>2, <1>5, <2>1 DEF BuilderInv, CandidatesAccepted
<1>9. SnapshotsAccepted'
  BY <1>1, <1>2 DEF BuilderInv, SnapshotsAccepted
<1> QED
  BY <1>2, <1>7, <1>8, <1>9 DEF BuilderInv

LEMMA StoreKeeps ==
  ASSUME BuilderInv, NEW c \in candidates, Store(c)
  PROVE BuilderInv'
<1> DEFINE new == [parent |-> c.parent, packages |-> c.packages, damaged |-> FALSE]
<1>1. candidates' = candidates \ {c} /\ snapshots' = [snapshots EXCEPT ![c.id] = new]
      /\ UNCHANGED <<runs, damage>>
  BY DEF Store
<1>2. RunsAccepted' /\ \A x : Accepted(x) => Accepted(x)'
  BY <1>1, TreesOnly
<1>3. c \in Candidate /\ c.id \in SnapshotId
  BY DEF BuilderInv, TypeOK, Candidate
<1>4. new \in Snapshot
  BY <1>3 DEF Candidate, Snapshot
<1>5. new.packages = c.packages
  OBVIOUS
<1> HIDE DEF new
<1>6. TypeOK'
  BY <1>1, <1>3, <1>4 DEF BuilderInv, TypeOK
<1>7. CandidatesAccepted'
  BY <1>1, <1>2 DEF BuilderInv, CandidatesAccepted
<1>8. SnapshotsAccepted'
  BY <1>1, <1>2, <1>3, <1>5 DEF BuilderInv, TypeOK, CandidatesAccepted, SnapshotsAccepted
<1> QED
  BY <1>2, <1>6, <1>7, <1>8 DEF BuilderInv

\* Damage takes nothing away from what was checked: a spoiled file is not signed
\* any more, and a damaged tree keeps its manifest.
LEMMA DamageKeeps ==
  ASSUME BuilderInv, Damage
  PROVE BuilderInv'
<1>1. damage' \in Nat
  BY DEF Damage, BuilderInv, TypeOK
<1>2. ASSUME NEW r \in DOMAIN runs, DamageRun(r) PROVE BuilderInv'
  <2> DEFINE spoiled == [runs[r] EXCEPT !.accepted = Spoiled(runs[r].accepted)]
             marked == [runs[r] EXCEPT !.damaged = TRUE]
  <2>1. runs[r] \in Run
    BY RunTyped DEF BuilderInv
  <2>2. Spoiled(runs[r].accepted) \in SUBSET Item
    <3>1. \A i \in runs[r].accepted : [i EXCEPT !.content = "damaged"] \in Item
      <4>1. \A i \in Item : [i EXCEPT !.content = "damaged"] \in Item
        BY DEF Item, Content
      <4> QED
        BY <4>1, RunTyped DEF BuilderInv
    <3> QED
      BY <3>1 DEF Spoiled
  <2>3. spoiled \in Run /\ marked \in Run
        /\ spoiled.release = runs[r].release /\ marked.release = runs[r].release
        /\ spoiled.signed = runs[r].signed /\ marked.signed = runs[r].signed
    BY <2>1, <2>2 DEF Run
  <2>4. runs' = [runs EXCEPT ![r] = spoiled] \/ runs' = [runs EXCEPT ![r] = marked]
    BY <1>2 DEF DamageRun
  <2>5. UNCHANGED <<candidates, snapshots>>
    BY <1>2 DEF DamageRun
  <2>6. \A x \in runs[r].signed : Accepted(x)
    BY DEF BuilderInv, RunsAccepted
  <2> HIDE DEF spoiled, marked
  <2> QED
    BY <1>1, <2>3, <2>4, <2>5, <2>6, OneRunKeeps
<1>3. ASSUME NEW c \in candidates, DamageCandidate(c) PROVE BuilderInv'
  <2> DEFINE new == [c EXCEPT !.damaged = TRUE]
  <2>1. c \in Candidate
    BY DEF BuilderInv, TypeOK
  <2>2. new \in Candidate /\ new.packages = c.packages
    BY <2>1 DEF Candidate
  <2>3. candidates' = (candidates \ {c}) \cup {new} /\ UNCHANGED <<runs, snapshots>>
    BY <1>3 DEF DamageCandidate
  <2>4. RunsAccepted' /\ \A x : Accepted(x) => Accepted(x)'
    BY <2>3, TreesOnly
  <2> HIDE DEF new
  <2>5. TypeOK'
    BY <1>1, <2>2, <2>3 DEF BuilderInv, TypeOK
  <2>6. CandidatesAccepted' /\ SnapshotsAccepted'
    BY <2>2, <2>3, <2>4 DEF BuilderInv, CandidatesAccepted, SnapshotsAccepted
  <2> QED
    BY <2>4, <2>5, <2>6 DEF BuilderInv
<1>4. ASSUME NEW s \in Stored, DamageSnapshot(s) PROVE BuilderInv'
  <2> DEFINE new == [snapshots[s] EXCEPT !.damaged = TRUE]
  <2>1. s \in SnapshotId /\ snapshots[s] \in Snapshot
    BY DEF BuilderInv, TypeOK, Stored
  <2>2. new \in Snapshot /\ new.packages = snapshots[s].packages
    BY <2>1 DEF Snapshot
  <2>3. snapshots' = [snapshots EXCEPT ![s] = new] /\ UNCHANGED <<runs, candidates>>
    BY <1>4 DEF DamageSnapshot
  <2>4. RunsAccepted' /\ \A x : Accepted(x) => Accepted(x)'
    BY <2>3, TreesOnly
  <2> HIDE DEF new
  <2>5. TypeOK'
    BY <1>1, <2>1, <2>2, <2>3 DEF BuilderInv, TypeOK
  <2>6. CandidatesAccepted'
    BY <2>3, <2>4 DEF BuilderInv, CandidatesAccepted
  <2>7. SnapshotsAccepted'
    BY <2>1, <2>2, <2>3, <2>4 DEF BuilderInv, TypeOK, SnapshotsAccepted, Stored
  <2> QED
    BY <2>4, <2>5, <2>6, <2>7 DEF BuilderInv
<1> QED
  BY <1>2, <1>3, <1>4 DEF Damage

-----------------------------------------------------------------------------

\* Types are kept, and every file of a run, a candidate or a snapshot is what an
\* attested producer built, in every reachable state.
THEOREM BuilderInvariant == Spec => []BuilderInv
<1>1. BuilderInv /\ [Next]_vars => BuilderInv'
  <2> SUFFICES ASSUME BuilderInv, [Next]_vars PROVE BuilderInv'
    OBVIOUS
  <2>1. ASSUME NEW m \in DOMAIN Release, Accept(m) PROVE BuilderInv'
    BY <2>1, AcceptKeeps
  <2>2. ASSUME NEW r \in DOMAIN runs, Sign(r) PROVE BuilderInv'
    BY <2>2, SignKeeps
  <2>3. ASSUME NEW s \in SnapshotId, NEW parent \in Stored \cup {None}, NEW R \in SUBSET Signed,
               NEW visible \in {{}, Stored}, Build(s, parent, R, visible)
        PROVE BuilderInv'
    BY <2>3, BuildKeeps
  <2>4. ASSUME NEW c \in candidates, Store(c) PROVE BuilderInv'
    BY <2>4, StoreKeeps
  <2>5. CASE Damage
    BY <2>5, DamageKeeps
  <2>6. CASE UNCHANGED vars
    BY <2>6, TreesOnly
       DEF vars, BuilderInv, TypeOK, CandidatesAccepted, SnapshotsAccepted
  <2> QED
    BY <2>1, <2>2, <2>3, <2>4, <2>5, <2>6 DEF Next
<1> QED
  BY InitBuilder, <1>1, PTL DEF Spec

\* Every reachable state of the builder is well typed.
THEOREM BuilderTypeCorrect == Spec => []TypeOK
<1>1. BuilderInv => TypeOK
  BY DEF BuilderInv
<1> QED
  BY <1>1, BuilderInvariant, PTL

\* Every file of a stored snapshot was made from the file of an attested release
\* that its manifest names (ro_repo.py, verify_accepted_object,
\* verify_signed_component_bundle, build_production_snapshot).
THEOREM StoredFromProducers == Spec => []StoredIsAccepted
<1>1. BuilderInv => StoredIsAccepted
  BY DEF BuilderInv, SnapshotsAccepted, StoredIsAccepted, Stored, Packages, Accepted
<1> QED
  BY <1>1, BuilderInvariant, PTL

-----------------------------------------------------------------------------
(* Lines of snapshots.                                                     *)

\* A run brings files of its own component only, one for each slot.
InOrder(run) ==
  LET m == run.release
  IN /\ Acceptable(m, Release[m].items)
     /\ \A x \in run.signed : x.name \in Registry[Release[m].component].names
     /\ Inventory(run.signed)

RunsInOrder == \A r \in DOMAIN runs : InOrder(runs[r])

\* Packages that go on from others keep each of them, or have a newer one in its
\* place, and one of each name and architecture.
GoesOn(packages, base) ==
  /\ Inventory(packages)
  /\ \A x \in base : \E y \in packages : Slot(y) = Slot(x) /\ (y = x \/ y.version > x.version)

CandidatesGoOn ==
  \A c \in candidates : c.parent # None =>
    c.parent \in Stored /\ GoesOn(c.packages, Packages(c.parent))

SnapshotsGoOn ==
  \A t \in Stored : snapshots[t].parent # None =>
    snapshots[t].parent \in Stored /\ GoesOn(Packages(t), Packages(snapshots[t].parent))

LineInv == RunsInOrder /\ CandidatesGoOn /\ SnapshotsGoOn

\* Slots and NEVRAs are compared field by field.
LEMMA Headers ==
  ASSUME NEW x, NEW y
  PROVE  /\ Slot(x) = Slot(y) <=> x.name = y.name /\ x.arch = y.arch
         /\ Nevra(x) = Nevra(y) <=> Slot(x) = Slot(y) /\ x.version = y.version
BY DEF Slot, Nevra

\* The versions of stored and signed files are numbers.
LEMMA Versions ==
  ASSUME TypeOK
  PROVE  /\ \A r \in DOMAIN runs : \A x \in runs[r].signed : x.version \in Nat
         /\ \A s \in Stored \cup {None} : \A x \in Packages(s) : x.version \in Nat
<1>1. \A x \in SignedFile : x.version \in Nat
  BY DEF SignedFile
<1>2. \A s \in Stored : Packages(s) \subseteq SignedFile
  BY NoneAssumption DEF TypeOK, Stored, Packages, Snapshot
<1>3. QED
  BY <1>1, <1>2, RunTyped DEF Packages

\* Going on is transitive.
LEMMA GoesOnAlong ==
  ASSUME NEW P, NEW Q, NEW S, GoesOn(Q, P), GoesOn(S, Q),
         \A x \in P \cup Q \cup S : x.version \in Nat
  PROVE  GoesOn(S, P)
<1>1. ASSUME NEW x \in P
      PROVE  \E y \in S : Slot(y) = Slot(x) /\ (y = x \/ y.version > x.version)
  <2>1. PICK z \in Q : Slot(z) = Slot(x) /\ (z = x \/ z.version > x.version)
    BY DEF GoesOn
  <2>2. PICK y \in S : Slot(y) = Slot(z) /\ (y = z \/ y.version > z.version)
    BY DEF GoesOn
  <2>3. x.version \in Nat /\ y.version \in Nat /\ z.version \in Nat
    OBVIOUS
  <2>4. QED
    BY <2>1, <2>2, <2>3
<1>2. QED
  BY <1>1 DEF GoesOn

\* What goes on from packages has their files under their NEVRAs.
LEMMA GoesOnBinds ==
  ASSUME NEW P, NEW Q, GoesOn(Q, P), \A x \in P \cup Q : x.version \in Nat,
         NEW x \in P, NEW y \in Q, Nevra(x) = Nevra(y)
  PROVE  x = y
<1>1. PICK z \in Q : Slot(z) = Slot(x) /\ (z = x \/ z.version > x.version)
  BY DEF GoesOn
<1>2. Slot(x) = Slot(y) /\ x.version = y.version
  BY Headers
<1>3. z = y
  BY <1>1, <1>2 DEF GoesOn, Inventory
<1>4. x.version \in Nat
  OBVIOUS
<1>5. QED
  BY <1>1, <1>2, <1>3, <1>4

-----------------------------------------------------------------------------

\* An acceptable release has one file for each slot: its versions are the same.
LEMMA SlotsOfRelease ==
  ASSUME NEW m, NEW files, Acceptable(m, files)
  PROVE  \A i, j \in files : Slot(i) = Slot(j) => i = j
<1>1. PICK s \in files : \A i \in files : i.version = s.version
  BY DEF Acceptable
<1>2. ASSUME NEW i \in files, NEW j \in files, Slot(i) = Slot(j)
      PROVE  i = j
  <2>1. Nevra(i) = Nevra(j)
    BY <1>1, <1>2, Headers
  <2>2. QED
    BY <2>1 DEF Acceptable
<1>3. QED
  BY <1>2

\* What is signed is what was accepted, file by file.
LEMMA SignsInOrder ==
  ASSUME BuilderInv, RunsInOrder, NEW r \in DOMAIN runs, Sign(r)
  PROVE  /\ InOrder(runs'[r])
         /\ \A q \in DOMAIN runs \ {r} : runs'[q] = runs[q]
         /\ DOMAIN runs' = DOMAIN runs
<1>. DEFINE items == Manifest(r).items
            files == {File(x[1], x[2], r) : x \in {y \in runs[r].accepted \X items :
                                                     Nevra(y[1]) = Nevra(y[2])}}
            new == [runs[r] EXCEPT !.signed = files]
<1>1. /\ runs \in Seq(Run) /\ runs[r] \in Run /\ runs[r].accepted = items
      /\ InOrder(runs[r]) /\ items = Release[runs[r].release].items
      /\ runs' = [runs EXCEPT ![r] = new]
  BY RunTyped DEF BuilderInv, TypeOK, Sign, VerifyAccepted, RunsInOrder, Manifest
<1>2. \A i, j \in items : Slot(i) = Slot(j) => i = j
  BY <1>1, SlotsOfRelease DEF InOrder
<1>3. ASSUME NEW x \in files
      PROVE  \E i \in items : x = File(i, i, r) /\ Slot(x) = Slot(i) /\ x.name = i.name
  <2>1. PICK i \in items, j \in items : x = File(i, j, r) /\ Nevra(i) = Nevra(j)
    BY <1>1, <1>3
  <2>2. i = j
    BY <1>2, <2>1, Headers
  <2>3. QED
    BY <2>1, <2>2 DEF File, Slot
<1>4. \A x \in files : x.name \in Registry[Release[runs[r].release].component].names
  BY <1>1, <1>3 DEF InOrder, Acceptable, Names
<1>5. Inventory(files)
  <2>1. ASSUME NEW x \in files, NEW y \in files, Slot(x) = Slot(y)
        PROVE  x = y
    <3>1. PICK i \in items : x = File(i, i, r) /\ Slot(x) = Slot(i)
      BY <1>3
    <3>2. PICK j \in items : y = File(j, j, r) /\ Slot(y) = Slot(j)
      BY <1>3
    <3>3. QED
      BY <1>2, <2>1, <3>1, <3>2
  <2>. HIDE DEF files
  <2>2. QED
    BY <2>1 DEF Inventory
<1>. HIDE DEF files, items
<1>6. new.release = runs[r].release /\ new.signed = files
  BY <1>1 DEF Run
<1>7. InOrder(new)
  BY <1>1, <1>4, <1>5, <1>6 DEF InOrder
<1>. HIDE DEF new
<1>8. QED
  BY <1>1, <1>7

\* Every step keeps the runs in order.
LEMMA RunsStep ==
  ASSUME BuilderInv, RunsInOrder, Next
  PROVE  RunsInOrder'
<1>1. runs \in Seq(Run)
  BY DEF BuilderInv, TypeOK
<1>2. CASE UNCHANGED runs
  BY <1>2 DEF RunsInOrder
<1>3. ASSUME NEW m \in DOMAIN Release, Accept(m)
      PROVE  RunsInOrder'
  <2>. DEFINE new == [release |-> m, accepted |-> Release[m].items, signed |-> {}, damaged |-> FALSE]
  <2>1. runs' = Append(runs, new) /\ Acceptable(m, Release[m].items)
    BY <1>3 DEF Accept
  <2>2. InOrder(new)
    BY <2>1 DEF InOrder, Inventory
  <2>. HIDE DEF new
  <2>3. /\ DOMAIN runs' = DOMAIN runs \cup {Len(runs) + 1} /\ runs'[Len(runs) + 1] = new
        /\ \A q \in DOMAIN runs : runs'[q] = runs[q]
    BY <1>1, <2>1
  <2>4. QED
    BY <2>2, <2>3 DEF RunsInOrder
<1>4. ASSUME NEW r \in DOMAIN runs, Sign(r)
      PROVE  RunsInOrder'
  BY <1>4, SignsInOrder DEF RunsInOrder
<1>5. ASSUME NEW r \in DOMAIN runs, DamageRun(r)
      PROVE  RunsInOrder'
  <2>1. PICK new : /\ new.release = runs[r].release /\ new.signed = runs[r].signed
                   /\ runs' = [runs EXCEPT ![r] = new]
    <3>1. runs[r] \in Run
      BY RunTyped DEF BuilderInv
    <3>2. CASE runs' = [runs EXCEPT ![r].accepted = Spoiled(@)]
      <4>. DEFINE new == [runs[r] EXCEPT !.accepted = Spoiled(runs[r].accepted)]
      <4>1. new.release = runs[r].release /\ new.signed = runs[r].signed
        BY <3>1 DEF Run
      <4>2. runs' = [runs EXCEPT ![r] = new]
        BY <3>2
      <4>3. QED
        BY <4>1, <4>2
    <3>3. CASE runs' = [runs EXCEPT ![r].damaged = TRUE]
      <4>. DEFINE new == [runs[r] EXCEPT !.damaged = TRUE]
      <4>1. new.release = runs[r].release /\ new.signed = runs[r].signed
        BY <3>1 DEF Run
      <4>2. runs' = [runs EXCEPT ![r] = new]
        BY <3>3
      <4>3. QED
        BY <4>1, <4>2
    <3>4. QED
      BY <1>5, <3>2, <3>3 DEF DamageRun
  <2>2. InOrder(new)
    BY <2>1 DEF RunsInOrder, InOrder
  <2>3. DOMAIN runs' = DOMAIN runs /\ \A q \in DOMAIN runs : runs'[q] = IF q = r THEN new ELSE runs[q]
    BY <1>1, <2>1
  <2>4. QED
    BY <2>2, <2>3 DEF RunsInOrder
<1>6. QED
  BY <1>2, <1>3, <1>4, <1>5 DEF Next, Build, Store, Damage, DamageCandidate, DamageSnapshot

-----------------------------------------------------------------------------

\* A candidate goes on from the parent it was planned on: what no run replaces
\* is retained, and what one replaces gets newer, slot by slot.
LEMMA BuiltGoesOn ==
  ASSUME BuilderInv, RunsInOrder, NEW s \in SnapshotId, NEW parent \in Stored, NEW R \in SUBSET Signed,
         Plannable(s, parent, R)
  PROVE  GoesOn(Retained(Packages(parent), R) \cup Incoming(R), Packages(parent))
<1>. DEFINE base == Packages(parent)
            C(r) == Manifest(r).component
            new == Retained(base, R) \cup Incoming(R)
<1>1. /\ Inventory(base) /\ \A r \in R : Replaceable(base, r)
      /\ \A r, q \in R : C(r) = C(q) => r = q
  BY DEF Plannable
<1>2. ASSUME NEW r \in R
      PROVE  /\ r \in DOMAIN runs /\ C(r) \in Component /\ Inventory(runs[r].signed)
             /\ \A x \in runs[r].signed : x.name \in Registry[C(r)].names
  BY RunTyped, ReleaseAssumption DEF Signed, BuilderInv, RunsInOrder, InOrder, Manifest
<1>3. ASSUME NEW x \in Incoming(R)
      PROVE  \E r \in R : x \in runs[r].signed /\ x.name \in Registry[C(r)].names
  BY <1>2 DEF Incoming
<1>4. ASSUME NEW x \in Retained(base, R), NEW r \in R
      PROVE  x \in base /\ x.name \notin Registry[C(r)].names
  BY DEF Retained, OfComponent
<1>5. ASSUME NEW x \in new, NEW y \in new, Slot(x) = Slot(y)
      PROVE  x = y
  <2>1. x.name = y.name
    BY <1>5, Headers
  <2>2. CASE x \in Incoming(R) /\ y \in Incoming(R)
    <3>1. PICK r \in R : x \in runs[r].signed /\ x.name \in Registry[C(r)].names
      BY <1>3, <2>2
    <3>2. PICK q \in R : y \in runs[q].signed /\ y.name \in Registry[C(q)].names
      BY <1>3, <2>2
    <3>3. C(r) = C(q)
      BY <1>2, <2>1, <3>1, <3>2, RegistryAssumption
    <3>4. QED
      BY <1>1, <1>2, <1>5, <3>1, <3>2, <3>3 DEF Inventory
  <2>3. CASE x \in Retained(base, R) /\ y \in Retained(base, R)
    BY <1>1, <1>5, <2>3 DEF Inventory, Retained
  <2>4. QED
    BY <1>3, <1>4, <2>1, <2>2, <2>3
<1>6. ASSUME NEW x \in base
      PROVE  \E y \in new : Slot(y) = Slot(x) /\ (y = x \/ y.version > x.version)
  <2>1. CASE x \in Retained(base, R)
    BY <2>1
  <2>2. CASE x \notin Retained(base, R)
    <3>1. PICK r \in R : x \in OfComponent(base, C(r))
      BY <2>2 DEF Retained
    <3>2. /\ {Slot(z) : z \in OfComponent(base, C(r))} = {Slot(y) : y \in runs[r].signed}
          /\ \A z \in OfComponent(base, C(r)), y \in runs[r].signed : Slot(z) = Slot(y) => Newer(y, z)
      BY <1>1, <3>1 DEF Replaceable
    <3>3. PICK y \in runs[r].signed : Slot(y) = Slot(x)
      BY <3>1, <3>2
    <3>4. y \in new
      BY <3>3 DEF Incoming
    <3>5. QED
      BY <3>1, <3>2, <3>3, <3>4 DEF Newer
  <2>3. QED
    BY <2>1, <2>2
<1>. HIDE DEF base, new
<1>7. GoesOn(new, base)
  BY <1>5, <1>6 DEF GoesOn, Inventory
<1>8. QED
  BY <1>7 DEF base, new

\* Candidates and snapshots go on from their parents while these are stored and
\* keep their packages.
LEMMA GoOnKept ==
  ASSUME TypeOK, CandidatesGoOn, SnapshotsGoOn, Stored \subseteq Stored',
         \A t \in Stored : /\ snapshots'[t].parent = snapshots[t].parent
                          /\ snapshots'[t].packages = snapshots[t].packages
  PROVE  /\ \A t \in Stored : Packages(t)' = Packages(t)
         /\ \A c \in candidates : c.parent # None =>
              c.parent \in Stored' /\ GoesOn(c.packages, Packages(c.parent)')
         /\ \A t \in Stored, p \in Stored : snapshots'[t].parent = p =>
              GoesOn(Packages(t)', Packages(p)')
         /\ \A t \in Stored : snapshots'[t].parent \in Stored \cup {None}
<1>1. \A t \in Stored : Packages(t)' = Packages(t)
  BY NoneAssumption DEF Packages, Stored
<1>2. QED
  BY <1>1, NoneAssumption DEF CandidatesGoOn, SnapshotsGoOn, Stored

\* Every step keeps the lines.
LEMMA LineStep ==
  ASSUME BuilderInv, LineInv, Next
  PROVE  LineInv'
<1>1. TypeOK /\ RunsInOrder /\ CandidatesGoOn /\ SnapshotsGoOn /\ RunsInOrder'
  BY RunsStep DEF BuilderInv, LineInv
<1>2. CASE UNCHANGED <<candidates, snapshots>>
  BY <1>1, <1>2 DEF LineInv, CandidatesGoOn, SnapshotsGoOn, Stored, Packages
<1>3. ASSUME NEW s \in SnapshotId, NEW parent \in Stored \cup {None}, NEW R \in SUBSET Signed,
             NEW visible, Build(s, parent, R, visible)
      PROVE  LineInv'
  <2>. DEFINE packages == Retained(Packages(parent), R) \cup Incoming(R)
              new == [id |-> s, parent |-> parent, damaged |-> FALSE, packages |-> packages]
  <2>1. UNCHANGED snapshots /\ candidates' = candidates \cup {new}
    BY <1>3 DEF Build
  <2>2. parent # None => GoesOn(packages, Packages(parent))
    BY <1>1, <1>3, BuiltGoesOn DEF Build
  <2>3. new.parent = parent /\ new.packages = packages
    OBVIOUS
  <2>. HIDE DEF packages, new
  <2>4. CandidatesGoOn'
    BY <1>1, <2>1, <2>2, <2>3 DEF CandidatesGoOn, Stored, Packages
  <2>5. SnapshotsGoOn'
    BY <1>1, <2>1 DEF SnapshotsGoOn, Stored, Packages
  <2>6. QED
    BY <1>1, <2>4, <2>5 DEF LineInv
<1>4. ASSUME NEW c \in candidates, Store(c)
      PROVE  LineInv'
  <2>. DEFINE new == [parent |-> c.parent, packages |-> c.packages, damaged |-> FALSE]
  <2>1. /\ c.id \in SnapshotId /\ c.id \notin Stored /\ candidates' = candidates \ {c}
        /\ snapshots' = [snapshots EXCEPT ![c.id] = new]
        /\ new \in Snapshot /\ new.parent = c.parent /\ new.packages = c.packages
    BY <1>1, <1>4 DEF Store, TypeOK, Candidate, Snapshot
  <2>. HIDE DEF new
  <2>2. /\ Stored' = Stored \cup {c.id} /\ snapshots'[c.id] = new
        /\ \A t \in Stored : snapshots'[t] = snapshots[t]
    BY <1>1, <2>1, NoneAssumption DEF TypeOK, Stored
  <2>3. /\ \A t \in Stored : Packages(t)' = Packages(t)
        /\ \A d \in candidates : d.parent # None =>
             d.parent \in Stored' /\ GoesOn(d.packages, Packages(d.parent)')
        /\ \A t \in Stored, p \in Stored : snapshots'[t].parent = p => GoesOn(Packages(t)', Packages(p)')
        /\ \A t \in Stored : snapshots'[t].parent \in Stored \cup {None}
    BY <1>1, <2>2, GoOnKept
  <2>4. CandidatesGoOn'
    BY <2>1, <2>3 DEF CandidatesGoOn
  <2>5. SnapshotsGoOn'
    <3>1. Packages(c.id)' = c.packages
      BY <2>1, <2>2, NoneAssumption DEF Packages
    <3>2. QED
      BY <2>1, <2>2, <2>3, <3>1 DEF SnapshotsGoOn
  <2>6. QED
    BY <1>1, <2>4, <2>5 DEF LineInv
<1>5. ASSUME NEW c \in candidates, DamageCandidate(c)
      PROVE  LineInv'
  <2>. DEFINE new == [c EXCEPT !.damaged = TRUE]
  <2>1. /\ candidates' = (candidates \ {c}) \cup {new} /\ UNCHANGED snapshots
        /\ new.parent = c.parent /\ new.packages = c.packages
    BY <1>1, <1>5 DEF DamageCandidate, TypeOK, Candidate
  <2>. HIDE DEF new
  <2>2. QED
    BY <1>1, <2>1 DEF LineInv, CandidatesGoOn, SnapshotsGoOn, Stored, Packages
<1>6. ASSUME NEW s \in Stored, DamageSnapshot(s)
      PROVE  LineInv'
  <2>. DEFINE new == [snapshots[s] EXCEPT !.damaged = TRUE]
  <2>1. /\ snapshots' = [snapshots EXCEPT ![s] = new] /\ UNCHANGED candidates
        /\ s \in SnapshotId /\ new \in Snapshot
        /\ new.parent = snapshots[s].parent /\ new.packages = snapshots[s].packages
    BY <1>1, <1>6 DEF DamageSnapshot, TypeOK, Stored, Snapshot
  <2>. HIDE DEF new
  <2>2. /\ Stored' = Stored
        /\ \A t \in Stored : /\ snapshots'[t].parent = snapshots[t].parent
                             /\ snapshots'[t].packages = snapshots[t].packages
    BY <1>1, <2>1, NoneAssumption DEF TypeOK, Stored
  <2>3. /\ \A d \in candidates : d.parent # None =>
             d.parent \in Stored' /\ GoesOn(d.packages, Packages(d.parent)')
        /\ \A t \in Stored, p \in Stored : snapshots'[t].parent = p => GoesOn(Packages(t)', Packages(p)')
        /\ \A t \in Stored : snapshots'[t].parent \in Stored \cup {None}
    BY <1>1, <2>2, GoOnKept
  <2>4. CandidatesGoOn'
    BY <2>1, <2>3 DEF CandidatesGoOn
  <2>5. SnapshotsGoOn'
    BY <2>2, <2>3 DEF SnapshotsGoOn
  <2>6. QED
    BY <1>1, <2>4, <2>5 DEF LineInv
<1>7. QED
  BY <1>2, <1>3, <1>4, <1>5, <1>6 DEF Next, Accept, Sign, Damage, DamageRun

\* A stored snapshot goes on from each that it was composed onto: the snapshots
\* it goes on from hold its parent and the parents of their own.
LEMMA GoesOnFromAncestors ==
  ASSUME TypeOK, LineInv, NEW t \in Stored, NEW s \in Ancestors(t)
  PROVE  s \in Stored /\ GoesOn(Packages(t), Packages(s))
<1>. DEFINE A == {u \in Stored : snapshots[t].parent # None /\ GoesOn(Packages(t), Packages(u))}
<1>1. ASSUME NEW u \in A \cup {t}
      PROVE  snapshots[u].parent \in A \cup {None}
  <2>1. SUFFICES ASSUME snapshots[u].parent # None
                 PROVE  snapshots[u].parent \in A
    OBVIOUS
  <2>2. u \in Stored
    OBVIOUS
  <2>3. PICK p \in Stored : p = snapshots[u].parent /\ GoesOn(Packages(u), Packages(p))
    BY <2>1, <2>2 DEF LineInv, SnapshotsGoOn
  <2>4. CASE u = t
    BY <2>1, <2>3, <2>4
  <2>5. CASE u # t
    <3>1. snapshots[t].parent # None /\ GoesOn(Packages(t), Packages(u))
      BY <2>5
    <3>2. \A x \in Packages(p) \cup Packages(u) \cup Packages(t) : x.version \in Nat
      BY <2>2, Versions
    <3>3. GoesOn(Packages(t), Packages(p))
      BY <2>3, <3>1, <3>2, GoesOnAlong
    <3>4. QED
      BY <2>3, <3>1, <3>3
  <2>6. QED
    BY <2>4, <2>5
<1>2. A \in SUBSET Stored
  OBVIOUS
<1>3. s \in A
  <2>. HIDE DEF A
  <2>1. QED
    BY <1>1, <1>2 DEF Ancestors
<1>4. QED
  BY <1>3

\* Runs are in order, and every candidate and snapshot goes on from its parent, in
\* every reachable state.
THEOREM LineInvariant == Spec => []LineInv
<1>1. Init => LineInv
  BY DEF Init, LineInv, RunsInOrder, CandidatesGoOn, SnapshotsGoOn, Stored
<1>2. BuilderInv /\ LineInv /\ [Next]_vars => LineInv'
  <2>1. ASSUME LineInv, UNCHANGED vars PROVE LineInv'
    BY <2>1 DEF LineInv, RunsInOrder, CandidatesGoOn, SnapshotsGoOn, Stored, Packages, vars
  <2>2. QED
    BY <2>1, LineStep
<1>3. QED
  BY <1>1, <1>2, BuilderInvariant, PTL DEF Spec

\* Along a line of snapshots a NEVRA has one file, with the same signed bytes in
\* every snapshot that has it.
THEOREM LineagesBind == Spec => []LineageBound
<1>1. BuilderInv /\ LineInv => LineageBound
  <2>1. SUFFICES ASSUME BuilderInv, LineInv, NEW t \in Stored, NEW s \in Ancestors(t),
                        NEW x \in Packages(s), NEW y \in Packages(t), Nevra(x) = Nevra(y)
                 PROVE  x = y
    BY DEF LineageBound
  <2>2. TypeOK /\ s \in Stored /\ GoesOn(Packages(t), Packages(s))
    BY <2>1, GoesOnFromAncestors DEF BuilderInv
  <2>3. \A z \in Packages(s) \cup Packages(t) : z.version \in Nat
    BY <2>2, Versions
  <2>4. QED
    BY <2>1, <2>2, <2>3, GoesOnBinds
<1>2. QED
  BY <1>1, LineInvariant, BuilderInvariant, PTL
==============================================================================
