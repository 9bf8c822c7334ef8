----------------------- MODULE FencedPublication_proofs -----------------------
(***************************************************************************)
(* Proofs about the fenced publisher, for any number of workers, attempts, *)
(* leases and late requests: what the ledger says of an intent is true of  *)
(* the branch, only the change of the one unresolved intent can move it,   *)
(* an advertisement reaches it only while the head is what it advertises,  *)
(* and a verified publication is advertised on it.                         *)
(***************************************************************************)
EXTENDS FencedPublication, SequenceTheorems, TLAPS

-----------------------------------------------------------------------------
(* The inductive invariant.                                                *)

Staged(a) == [kind |-> "stage", attempt |-> a, generation |-> 0]

Advert(a) == [kind |-> "advertisement", attempt |-> a, generation |-> attempts[a].base + 1]

Published(a) == "PUBLISHED" \in attempts[a].proofs

\* The attempt is staged no more, and what was verified of it stays.
Beyond(a) == attempts[a].state \notin {"ABSENT", "STAGED"}

Intended(a) == HasJob(a) /\ attempts[a].job.intent \in Intent

\* A change of the branch that attempt a may ask for.
Change(a, phase, expected, target) ==
  \/ /\ phase = "stage"
     /\ expected = attempts[a].job.expected
     /\ target = Append(expected, Staged(a))
  \/ /\ phase = "advertisement" /\ Published(a)
     /\ expected = attempts[a].commit
     /\ target = Append(expected, Advert(a))

\* A commit the branch was at.
Behind(commit) == commit = branch \/ Len(commit) < Len(branch)

\* The change is the one the unresolved intent of a names.
Pending(a, expected, target) ==
  /\ InFlight(a)
  /\ attempts[a].job.intent.expected = expected
  /\ attempts[a].job.intent.target = target

Live(a, expected, target) ==
  /\ Intended(a)
  /\ Behind(expected)
  /\ expected = branch => Pending(a, expected, target)

\* The head, and what is older than it.
HeadBound ==
  /\ head.digest = None => head.generation = 0
  /\ head.last_verified = None => views = {} /\ \A a \in Attempt : attempts[a].base = 0
  /\ \A a \in Attempt : attempts[a].base <= head.generation

\* An attempt has its job while it is staged, and its commit is the job's.
AttemptBound(a) ==
  /\ attempts[a].state = "ABSENT" => ~HasJob(a)
  /\ attempts[a].state # "ABSENT" => attempts[a].result \in Digest
  /\ HasJob(a) => Len(attempts[a].job.expected) <= Len(branch)
  /\ attempts[a].state \in {"PUBLISHED", "POST_VERIFIED"} => Published(a)
  /\ (Published(a) \/ attempts[a].state = "REMOTE_VERIFIED") =>
       /\ Beyond(a) /\ HasJob(a)
       /\ attempts[a].commit = Append(attempts[a].job.expected, Staged(a))
       /\ Len(attempts[a].commit) <= Len(branch)
  /\ attempts[a].state = "POST_VERIFIED" => Advertises(a, attempts[a].base + 1)

\* The head was the publication a, and a newer one was staged after it.
PublishedBound(a) ==
  Published(a) =>
    /\ attempts[a].base < head.generation
    /\ head.generation = attempts[a].base + 1 => head.digest = attempts[a].result
    /\ head.generation > attempts[a].base + 1 => Len(attempts[a].commit) < Len(branch)
    /\ \A b \in Attempt : HasJob(b) /\ attempts[a].base < attempts[b].base =>
         Len(attempts[a].commit) <= Len(attempts[b].job.expected)

IntentBound(a) ==
  Intended(a) =>
    LET intent == attempts[a].job.intent
    IN /\ Change(a, intent.phase, intent.expected, intent.target)
       /\ intent.phase = "advertisement" => Beyond(a)
       /\ intent.status = "CONFIRMED" => IsPrefix(intent.target, branch)
       /\ intent.status = "ABORTED" => ~IsPrefix(intent.target, branch) /\ Drained(a)

RequestBound(r) ==
  /\ \E phase \in Phases : Change(r.attempt, phase, r.expected, r.target)
  /\ Live(r.attempt, r.expected, r.target)

BranchBound ==
  \A i \in 1 .. Len(branch) :
    Intended(branch[i].attempt) /\ branch[i] \in {Staged(branch[i].attempt), Advert(branch[i].attempt)}

Holds(w) == Mine(w).job.owner = w /\ Mine(w).job.fence = worker[w].fence

\* Where a worker is: on a job, in a phase the attempt has reached, and without
\* the lease of a job that is past the phase.
Placed(w) ==
  LET a == worker[w].attempt
      phase == worker[w].phase
  IN /\ ~At(w, "idle") => a # None
     /\ IF a = None THEN phase = None ELSE HasJob(a)
     /\ worker[w].step \in {"idle", "begin", "check"} => phase = None
     /\ worker[w].step \in {"enter", "prior", "build", "admit", "send", "identify", "verify",
                            "accept"} => phase \in Phases
     /\ phase = "advertisement" => Beyond(a)
     /\ phase = "advertisement" /\ ~At(w, "enter") => Published(a)

\* A job whose advertisement was admitted is leased to nobody who still stages.
PhaseHeld(w) ==
  LET a == worker[w].attempt
  IN ~(/\ worker[w].phase = "stage"
       /\ Intended(a) /\ attempts[a].job.intent.phase = "advertisement"
       /\ Holds(w))

\* What a worker that admits, sends, confirms, looks at its target or accepts it
\* holds by then.
AdmitBound(w) ==
  LET a == worker[w].attempt
  IN At(w, "admit") =>
       /\ worker[w].expected \in Commit /\ worker[w].target \in Commit
       /\ Behind(worker[w].expected)
       /\ \/ Change(a, worker[w].phase, worker[w].expected, worker[w].target)
          \/ worker[w].phase = "stage" /\ Intended(a)

SendBound(w) ==
  LET a == worker[w].attempt
  IN At(w, "send") =>
       /\ worker[w].expected \in Commit /\ worker[w].target \in Commit
       /\ Change(a, worker[w].phase, worker[w].expected, worker[w].target)
       /\ Live(a, worker[w].expected, worker[w].target)

ConfirmBound(w) ==
  At(w, "confirm") => worker[w].seen \in Intent /\ IsPrefix(worker[w].seen.target, branch)

TargetBound(w) ==
  (/\ worker[w].step \in {"observe", "confirm", "identify", "verify", "accept"}
   /\ worker[w].phase # None) =>
    /\ worker[w].target \in Commit
    /\ worker[w].phase = "stage" =>
         worker[w].target = Append(attempts[worker[w].attempt].job.expected,
                                   Staged(worker[w].attempt))

AcceptBound(w) ==
  LET a == worker[w].attempt
  IN At(w, "accept") =>
       /\ worker[w].phase = "stage" => Len(worker[w].target) <= Len(branch)
       /\ worker[w].phase = "advertisement" => Advertises(a, attempts[a].base + 1)

WorkerBound(w) == /\ Placed(w) /\ PhaseHeld(w)
                  /\ AdmitBound(w) /\ SendBound(w) /\ ConfirmBound(w)
                  /\ TargetBound(w) /\ AcceptBound(w)

OneInFlight == \A a, b \in Attempt : InFlight(a) /\ InFlight(b) => a = b

FenceInv ==
  /\ TypeOK
  /\ HeadBound
  /\ \A a \in Attempt : AttemptBound(a) /\ PublishedBound(a) /\ IntentBound(a)
  /\ OneInFlight
  /\ \A r \in requests : RequestBound(r)
  /\ BranchBound
  /\ \A w \in Worker : WorkerBound(w)

-----------------------------------------------------------------------------
(* Commits.                                                                *)

\* A commit with one more entry.
LEMMA AppendOne ==
  ASSUME NEW c \in Commit, NEW e \in Entry
  PROVE  /\ Append(c, e) \in Commit
         /\ Len(c) \in Nat /\ Len(Append(c, e)) = Len(c) + 1
         /\ \A i \in 1 .. Len(c) : Append(c, e)[i] = c[i]
         /\ Append(c, e)[Len(c) + 1] = e
         /\ Last(Append(c, e)) = e
BY AppendProperties, LenProperties DEF Commit, Last

\* Its ancestors are those of the commit.
LEMMA AppendAncestors ==
  ASSUME NEW c \in Commit, NEW e \in Entry, NEW n \in 0 .. Len(c)
  PROVE  SubSeq(Append(c, e), 1, n) = SubSeq(c, 1, n)
<1> DEFINE d == Append(c, e)
<1>1. /\ d \in Seq(Entry) /\ Len(c) \in Nat /\ Len(d) = Len(c) + 1
      /\ \A i \in 1 .. Len(c) : d[i] = c[i]
  BY AppendOne DEF Commit
<1>2. \A i \in 1 .. n : c[i] \in Entry /\ d[i] = c[i]
  BY <1>1, ElementOfSeq DEF Commit
<1> HIDE DEF d
<1>3. /\ SubSeq(c, 1, n) \in Seq(Entry)
      /\ Len(SubSeq(c, 1, n)) = IF 1 <= n THEN n - 1 + 1 ELSE 0
      /\ \A i \in 1 .. n - 1 + 1 : SubSeq(c, 1, n)[i] = c[1 + i - 1]
  <2>1. 1 \in Int /\ n \in Int
    BY <1>1
  <2> QED BY <1>2, <2>1, SubSeqProperties
<1>4. /\ SubSeq(d, 1, n) \in Seq(Entry)
      /\ Len(SubSeq(d, 1, n)) = IF 1 <= n THEN n - 1 + 1 ELSE 0
      /\ \A i \in 1 .. n - 1 + 1 : SubSeq(d, 1, n)[i] = d[1 + i - 1]
  <2>1. 1 \in Int /\ n \in Int
    BY <1>1
  <2> QED BY <1>2, <2>1, SubSeqProperties
<1>5. /\ Len(SubSeq(d, 1, n)) = Len(SubSeq(c, 1, n))
      /\ \A i \in 1 .. Len(SubSeq(d, 1, n)) : SubSeq(d, 1, n)[i] = SubSeq(c, 1, n)[i]
  BY <1>1, <1>2, <1>3, <1>4
<1>6. SubSeq(d, 1, n) = SubSeq(c, 1, n)
  BY <1>3, <1>4, <1>5, SeqEqual
<1> QED BY <1>6 DEF d

\* The history of a commit with one more entry.
LEMMA AppendHistory ==
  ASSUME NEW c \in Commit, NEW s \in Commit, NEW e \in Entry
  PROVE  IsPrefix(s, Append(c, e)) <=> IsPrefix(s, c) \/ s = Append(c, e)
<1> DEFINE d == Append(c, e)
<1>1. d \in Commit /\ Len(c) \in Nat /\ Len(d) = Len(c) + 1 /\ Len(s) \in Nat
  BY AppendOne, LenProperties DEF Commit
<1>2. SubSeq(s, 1, Len(s)) = s /\ SubSeq(d, 1, Len(d)) = d
  BY <1>1, SubSeqFull DEF Commit
<1>3. CASE Len(s) <= Len(c)
  <2>1. SubSeq(d, 1, Len(s)) = SubSeq(c, 1, Len(s))
    BY <1>1, <1>3, AppendAncestors
  <2> QED BY <1>1, <1>3, <2>1 DEF IsPrefix
<1>4. CASE Len(s) > Len(c)
  <2>1. ~IsPrefix(s, c)
    BY <1>1, <1>4 DEF IsPrefix
  <2>2. ASSUME IsPrefix(s, d) PROVE s = d
    <3> HIDE DEF d
    <3>1. Len(s) <= Len(d) /\ SubSeq(s, 1, Len(s)) = SubSeq(d, 1, Len(s))
      BY <2>2 DEF IsPrefix
    <3>2. Len(s) = Len(d)
      BY <1>1, <1>4, <3>1
    <3> QED BY <1>2, <3>1, <3>2
  <2>3. ASSUME s = d PROVE IsPrefix(s, d)
    BY <1>1, <2>3 DEF IsPrefix
  <2> QED BY <2>1, <2>2, <2>3
<1> QED BY <1>1, <1>3, <1>4

LEMMA PrefixLength ==
  ASSUME NEW s \in Commit, NEW t \in Commit
  PROVE  /\ IsPrefix(s, s)
         /\ IsPrefix(s, t) => Len(s) <= Len(t)
         /\ Len(s) \in Nat /\ Len(t) \in Nat
BY LenProperties DEF IsPrefix, Commit

-----------------------------------------------------------------------------
(* What every step keeps.                                                  *)

\* What no step undoes of an attempt that has its job.
Kept(a) ==
  HasJob(a) =>
    /\ HasJob(a)'
    /\ attempts'[a].job.expected = attempts[a].job.expected
    /\ attempts'[a].base = attempts[a].base
    /\ Intended(a) => Intended(a)'
    /\ Beyond(a) => Beyond(a)'
    /\ Published(a) => Published(a)' /\ attempts'[a].commit = attempts[a].commit

\* The branch stays or gets one more entry.
Extended == branch' = branch \/ \E e \in Entry : branch' = Append(branch, e)

Steady == /\ TypeOK /\ TypeOK'
          /\ \A a \in Attempt : Kept(a)
          /\ Extended

LEMMA ChangeKept ==
  ASSUME Steady, NEW a \in Attempt, HasJob(a)
  PROVE  \A phase, expected, target :
           Change(a, phase, expected, target) => Change(a, phase, expected, target)'
BY DEF Steady, Kept, Change, Staged, Advert

LEMMA BehindKept ==
  ASSUME Steady, NEW c \in Commit, Behind(c)
  PROVE  Behind(c)' /\ (branch' = c => branch' = branch)
<1>1. branch \in Commit /\ Len(branch) \in Nat /\ Len(c) \in Nat
  BY LenProperties DEF Steady, TypeOK, Commit
<1>2. CASE branch' = branch
  BY <1>2 DEF Behind
<1>3. CASE \E e \in Entry : branch' = Append(branch, e)
  <2>1. Len(branch') = Len(branch) + 1
    BY <1>1, <1>3, AppendOne
  <2>2. Len(c) <= Len(branch)
    BY <1>1 DEF Behind
  <2> QED BY <1>1, <2>1, <2>2 DEF Behind
<1> QED BY <1>2, <1>3 DEF Steady, Extended

LEMMA HistoryKept ==
  ASSUME Steady, NEW c \in Commit
  PROVE  /\ IsPrefix(c, branch) => IsPrefix(c, branch')
         /\ Len(c) <= Len(branch) => Len(c) <= Len(branch')
         /\ Len(c) < Len(branch) => Len(c) < Len(branch')
<1>1. branch \in Commit /\ Len(branch) \in Nat /\ Len(c) \in Nat
  BY LenProperties DEF Steady, TypeOK, Commit
<1>2. CASE branch' = branch
  BY <1>2
<1>3. CASE \E e \in Entry : branch' = Append(branch, e)
  <2>1. PICK e \in Entry : branch' = Append(branch, e)
    BY <1>3
  <2>2. Len(branch') = Len(branch) + 1
    BY <1>1, <2>1, AppendOne
  <2>3. IsPrefix(c, branch) => IsPrefix(c, branch')
    BY <1>1, <2>1, AppendHistory
  <2> QED BY <1>1, <2>2, <2>3
<1> QED BY <1>2, <1>3 DEF Steady, Extended

LEMMA AdvertisesKept ==
  ASSUME Steady, NEW a \in Attempt, HasJob(a), Published(a),
         Advertises(a, attempts[a].base + 1)
  PROVE  Advertises(a, attempts[a].base + 1)'
<1>1. /\ branch \in Commit /\ Len(branch) \in Nat
      /\ attempts'[a].base = attempts[a].base /\ attempts'[a].commit = attempts[a].commit
  BY LenProperties DEF Steady, TypeOK, Commit, Kept
<1>2. PICK i \in 2 .. Len(branch) :
        /\ branch[i] = [kind |-> "advertisement", attempt |-> a, generation |-> attempts[a].base + 1]
        /\ SubSeq(branch, 1, i - 1) = attempts[a].commit
  BY DEF Advertises
<1>3. CASE branch' = branch
  BY <1>1, <1>2, <1>3 DEF Advertises
<1>4. CASE \E e \in Entry : branch' = Append(branch, e)
  <2>1. PICK e \in Entry : branch' = Append(branch, e)
    BY <1>4
  <2>2. Len(branch') = Len(branch) + 1 /\ branch'[i] = branch[i]
    BY <1>1, <2>1, AppendOne
  <2>3. i - 1 \in 0 .. Len(branch)
    BY <1>1
  <2>4. SubSeq(branch', 1, i - 1) = SubSeq(branch, 1, i - 1)
    BY <1>1, <2>1, <2>3, AppendAncestors
  <2>5. i \in 2 .. Len(branch')
    BY <1>1, <2>2
  <2> QED BY <1>1, <1>2, <2>2, <2>4, <2>5 DEF Advertises
<1> QED BY <1>3, <1>4 DEF Steady, Extended

\* A worker that does not move keeps its bound, if its request stays the one of
\* the unresolved intent and its lease is not given back to it.
LEMMA WorkerKept ==
  ASSUME Steady, NEW w \in Worker, WorkerBound(w), worker'[w] = worker[w],
         At(w, "send") => Live(worker[w].attempt, worker[w].expected, worker[w].target)',
         PhaseHeld(w)'
  PROVE  WorkerBound(w)'
<1> USE DEF At
<1>1. CASE worker[w].attempt = None
  <2>1. worker[w].step = "idle" /\ worker[w].phase = None
    BY <1>1 DEF WorkerBound, Placed
  <2> QED BY <1>1, <2>1, RecordAssumption
          DEF WorkerBound, Placed, AdmitBound, SendBound, ConfirmBound, TargetBound, AcceptBound, Phases
<1>2. CASE worker[w].attempt # None
  <2>1. PICK a \in Attempt : a = worker[w].attempt
    BY <1>2 DEF Steady, TypeOK, WorkerRecord
  <2>2. PICK phase, expected, target, seen :
          /\ phase = worker[w].phase /\ expected = worker[w].expected
          /\ target = worker[w].target /\ seen = worker[w].seen
    OBVIOUS
  <2>3. HasJob(a) /\ HasJob(a)' /\ Kept(a)
        /\ attempts'[a].job.expected = attempts[a].job.expected
        /\ (Beyond(a) => Beyond(a)') /\ (Published(a) => Published(a)')
        /\ (Intended(a) => Intended(a)')
    BY <1>2, <2>1 DEF WorkerBound, Placed, Steady, Kept
  <2>4. Placed(w)'
    BY <1>2, <2>1, <2>3 DEF WorkerBound, Placed
  <2>5. AdmitBound(w)'
    <3>1. Change(a, phase, expected, target) => Change(a, phase, expected, target)'
      BY <2>3, ChangeKept
    <3>2. expected \in Commit /\ Behind(expected) => Behind(expected)'
      BY BehindKept
    <3> QED BY <2>1, <2>2, <2>3, <3>1, <3>2 DEF WorkerBound, AdmitBound
  <2>6. SendBound(w)'
    <3>1. Change(a, phase, expected, target) => Change(a, phase, expected, target)'
      BY <2>3, ChangeKept
    <3> QED BY <2>1, <2>2, <3>1 DEF WorkerBound, SendBound
  <2>7. ConfirmBound(w)'
    <3>1. seen \in Intent /\ IsPrefix(seen.target, branch) => IsPrefix(seen.target, branch')
      BY HistoryKept DEF Intent
    <3> QED BY <2>2, <3>1 DEF WorkerBound, ConfirmBound
  <2>8. TargetBound(w)'
    BY <2>1, <2>3 DEF WorkerBound, TargetBound, Staged
  <2>9. AcceptBound(w)'
    <3>1. target \in Commit /\ Len(target) <= Len(branch) => Len(target) <= Len(branch')
      BY HistoryKept
    <3>2. Published(a) /\ Advertises(a, attempts[a].base + 1) => Advertises(a, attempts[a].base + 1)'
      BY <2>3, AdvertisesKept
    <3>3. At(w, "accept") => phase # None /\ (phase = "advertisement" => Published(a))
      BY <2>1, <2>2, RecordAssumption DEF WorkerBound, Placed, Phases
    <3>4. At(w, "accept") => target \in Commit
      BY <2>2, <3>3 DEF WorkerBound, TargetBound
    <3> QED BY <2>1, <2>2, <3>1, <3>2, <3>3, <3>4 DEF WorkerBound, AcceptBound
  <2> QED BY <2>4, <2>5, <2>6, <2>7, <2>8, <2>9 DEF WorkerBound
<1> QED BY <1>1, <1>2

-----------------------------------------------------------------------------
(* The three parts of the invariant beside the workers' and their frames.  *)

HeadPart == HeadBound /\ \A a \in Attempt : AttemptBound(a) /\ PublishedBound(a)

WirePart == /\ OneInFlight
            /\ \A a \in Attempt : IntentBound(a)
            /\ \A r \in requests : RequestBound(r)
            /\ BranchBound

LEMMA Parts == FenceInv <=> TypeOK /\ HeadPart /\ WirePart /\ \A w \in Worker : WorkerBound(w)
BY DEF FenceInv, HeadPart, WirePart

\* Of an attempt, all but its authorization, its lease and its intent.
SameCore(a) ==
  /\ attempts'[a].state = attempts[a].state /\ attempts'[a].proofs = attempts[a].proofs
  /\ attempts'[a].result = attempts[a].result /\ attempts'[a].base = attempts[a].base
  /\ attempts'[a].commit = attempts[a].commit
  /\ HasJob(a)' <=> HasJob(a)
  /\ HasJob(a) => attempts'[a].job.expected = attempts[a].job.expected

Still == UNCHANGED <<head, views>> /\ \A a \in Attempt : SameCore(a)

\* No intent, request or commit appears or changes.
Quiet ==
  /\ branch' = branch /\ requests' \subseteq requests
  /\ \A a \in Attempt : /\ Intended(a)' => Intended(a)
                        /\ Intended(a) => attempts'[a].job.intent = attempts[a].job.intent
  /\ \A w \in Worker : At(w, "send")' => /\ At(w, "send")
                                         /\ worker'[w].attempt = worker[w].attempt

\* Nobody gets a lease, and no intent enters another phase.
SameLeases ==
  \A a \in Attempt :
    HasJob(a) /\ Intended(a)' =>
      /\ Intended(a) /\ attempts'[a].job.intent.phase = attempts[a].job.intent.phase
      /\ attempts'[a].job.owner = attempts[a].job.owner
      /\ attempts'[a].job.fence = attempts[a].job.fence

LEMMA IntentIs ==
  ASSUME TypeOK, NEW a \in Attempt
  PROVE  /\ IntentOf(a) # None <=> Intended(a)
         /\ Intended(a) => IntentOf(a) = attempts[a].job.intent
         /\ InFlight(a) <=> Intended(a) /\ attempts[a].job.intent.status = "IN_FLIGHT"
<1>1. HasJob(a) => attempts[a].job \in Job /\ attempts[a].job.intent \in Intent \cup {None}
  BY DEF TypeOK, AttemptRecord, HasJob, Job
<1> QED BY <1>1, RecordAssumption DEF IntentOf, Intended, InFlight

LEMMA IntentWillBe ==
  ASSUME TypeOK', NEW a \in Attempt
  PROVE  /\ (IntentOf(a) # None)' <=> Intended(a)'
         /\ Intended(a)' => IntentOf(a)' = attempts'[a].job.intent
         /\ InFlight(a)' <=> Intended(a)' /\ attempts'[a].job.intent.status = "IN_FLIGHT"
<1>1. HasJob(a)' => attempts'[a].job \in Job /\ attempts'[a].job.intent \in Intent \cup {None}
  BY DEF TypeOK, AttemptRecord, HasJob, Job
<1> QED BY <1>1, RecordAssumption DEF IntentOf, Intended, InFlight

LEMMA QuietLive ==
  ASSUME Steady, Quiet, NEW a \in Attempt
  PROVE  \A expected, target : Live(a, expected, target) => Live(a, expected, target)'
<1>1. InFlight(a) <=> Intended(a) /\ attempts[a].job.intent.status = "IN_FLIGHT"
  BY IntentIs DEF Steady
<1>2. InFlight(a)' <=> Intended(a)' /\ attempts'[a].job.intent.status = "IN_FLIGHT"
  BY IntentWillBe DEF Steady
<1>3. Intended(a) => Intended(a)' /\ attempts'[a].job.intent = attempts[a].job.intent
  BY DEF Steady, Kept, Quiet, Intended
<1> QED BY <1>1, <1>2, <1>3 DEF Quiet, Live, Pending, Behind

LEMMA QuietWire ==
  ASSUME Steady, Quiet, WirePart
  PROVE  WirePart'
<1>1. \A a \in Attempt : /\ Intended(a)' <=> Intended(a)
                         /\ Intended(a) => attempts'[a].job.intent = attempts[a].job.intent
                         /\ InFlight(a)' <=> InFlight(a)
  <2> TAKE a \in Attempt
  <2>1. InFlight(a) <=> Intended(a) /\ attempts[a].job.intent.status = "IN_FLIGHT"
    BY IntentIs DEF Steady
  <2>2. InFlight(a)' <=> Intended(a)' /\ attempts'[a].job.intent.status = "IN_FLIGHT"
    BY IntentWillBe DEF Steady
  <2>3. /\ Intended(a)' <=> Intended(a)
        /\ Intended(a) => attempts'[a].job.intent = attempts[a].job.intent
    BY DEF Steady, Kept, Quiet, Intended
  <2> QED BY <2>1, <2>2, <2>3
<1>2. OneInFlight'
  BY <1>1 DEF WirePart, OneInFlight
<1>3. \A a \in Attempt : Intended(a) => HasJob(a)
  BY DEF Intended
<1>4. \A a \in Attempt : IntentBound(a)'
  <2> SUFFICES ASSUME NEW a \in Attempt, Intended(a)' PROVE IntentBound(a)'
    BY DEF IntentBound
  <2>1. IntentBound(a) /\ Intended(a) /\ attempts'[a].job.intent = attempts[a].job.intent
    BY <1>1 DEF WirePart
  <2>2. \A phase, expected, target :
          Change(a, phase, expected, target) => Change(a, phase, expected, target)'
    BY <1>3, <2>1, ChangeKept
  <2>3. Beyond(a) => Beyond(a)'
    BY <1>3, <2>1 DEF Steady, Kept
  <2>4. Drained(a) => Drained(a)'
    BY DEF Drained, Quiet, At
  <2> QED BY <2>1, <2>2, <2>3, <2>4 DEF IntentBound, Quiet
<1>5. \A r \in requests' : RequestBound(r)'
  <2> TAKE r \in requests'
  <2>1. RequestBound(r) /\ r.attempt \in Attempt /\ Intended(r.attempt)
    BY DEF Quiet, WirePart, RequestBound, Live, Steady, TypeOK
  <2>2. \A phase, expected, target :
          Change(r.attempt, phase, expected, target) => Change(r.attempt, phase, expected, target)'
    BY <1>3, <2>1, ChangeKept
  <2>3. Live(r.attempt, r.expected, r.target)'
    BY <2>1, QuietLive DEF RequestBound
  <2> QED BY <2>1, <2>2, <2>3 DEF RequestBound
<1>6. BranchBound'
  <2> SUFFICES ASSUME NEW i \in 1 .. Len(branch)
               PROVE  /\ Intended(branch[i].attempt)'
                      /\ branch[i] \in {Staged(branch[i].attempt), Advert(branch[i].attempt)}'
    BY DEF BranchBound, Quiet
  <2>1. branch[i] \in Entry
    BY ElementOfSeq DEF Steady, TypeOK, Commit
  <2>2. PICK a \in Attempt : a = branch[i].attempt
    BY <2>1 DEF Entry
  <2>3. Intended(a) /\ branch[i] \in {Staged(a), Advert(a)}
    BY <2>2 DEF WirePart, BranchBound
  <2>4. Intended(a)' /\ Staged(a)' = Staged(a) /\ Advert(a)' = Advert(a)
    BY <1>1, <1>3, <2>3 DEF Staged, Advert, Steady, Kept
  <2> QED BY <2>2, <2>3, <2>4 DEF Quiet
<1> QED BY <1>2, <1>4, <1>5, <1>6 DEF WirePart

LEMMA StillHead ==
  ASSUME Steady, Still, HeadPart
  PROVE  HeadPart'
<1>1. HeadBound'
  BY DEF HeadPart, HeadBound, Still, SameCore
<1>2. ASSUME NEW a \in Attempt PROVE AttemptBound(a)'
  <2>1. AttemptBound(a) /\ SameCore(a)
    BY DEF HeadPart, Still
  <2>2. HasJob(a) => attempts[a].job.expected \in Commit
    BY DEF Steady, TypeOK, AttemptRecord, HasJob, Job
  <2>3. HasJob(a) => Len(attempts[a].job.expected) <= Len(branch')
    BY <2>1, <2>2, HistoryKept DEF AttemptBound
  <2>4. Published(a) \/ attempts[a].state = "REMOTE_VERIFIED" =>
          attempts[a].commit \in Commit /\ Len(attempts[a].commit) <= Len(branch')
    <3> SUFFICES ASSUME Published(a) \/ attempts[a].state = "REMOTE_VERIFIED"
                 PROVE  attempts[a].commit \in Commit /\ Len(attempts[a].commit) <= Len(branch')
      OBVIOUS
    <3>1. HasJob(a) /\ attempts[a].commit = Append(attempts[a].job.expected, Staged(a))
          /\ Len(attempts[a].commit) <= Len(branch)
      BY <2>1 DEF AttemptBound
    <3>2. Staged(a) \in Entry
      BY DEF Staged, Entry, Phases
    <3>3. attempts[a].commit \in Commit
      BY <2>2, <3>1, <3>2, AppendOne
    <3> QED BY <3>1, <3>3, HistoryKept
  <2>5. attempts[a].state = "POST_VERIFIED" =>
          Published(a) /\ HasJob(a) /\ Advertises(a, attempts[a].base + 1)
    BY <2>1 DEF AttemptBound
  <2>6. attempts[a].state = "POST_VERIFIED" => Advertises(a, attempts[a].base + 1)'
    BY <2>5, AdvertisesKept
  <2> QED BY <2>1, <2>3, <2>4, <2>6 DEF AttemptBound, SameCore, Published, Beyond, Staged
<1>3. ASSUME NEW a \in Attempt PROVE PublishedBound(a)'
  <2>1. PublishedBound(a) /\ AttemptBound(a) /\ SameCore(a) /\ UNCHANGED head
    BY DEF HeadPart, Still
  <2>2. Published(a) => attempts[a].commit \in Commit
    <3>1. HasJob(a) => attempts[a].job.expected \in Commit
      BY DEF Steady, TypeOK, AttemptRecord, HasJob, Job
    <3>2. Staged(a) \in Entry
      BY DEF Staged, Entry, Phases
    <3> QED BY <2>1, <3>1, <3>2, AppendOne DEF AttemptBound
  <2>3. Published(a) /\ Len(attempts[a].commit) < Len(branch) => Len(attempts[a].commit) < Len(branch')
    BY <2>2, HistoryKept
  <2>4. \A b \in Attempt : SameCore(b)
    BY DEF Still
  <2> QED BY <2>1, <2>3, <2>4 DEF PublishedBound, SameCore, Published
<1> QED BY <1>1, <1>2, <1>3 DEF HeadPart

LEMMA HeldKept ==
  ASSUME Steady, SameLeases, NEW w \in Worker, WorkerBound(w), worker'[w] = worker[w]
  PROVE  PhaseHeld(w)'
<1>1. CASE worker[w].attempt = None
  BY <1>1, RecordAssumption DEF WorkerBound, Placed, PhaseHeld, Phases
<1>2. CASE worker[w].attempt # None
  <2>1. PICK a \in Attempt : a = worker[w].attempt
    BY <1>2 DEF Steady, TypeOK, WorkerRecord
  <2>2. HasJob(a) /\ PhaseHeld(w)
    BY <1>2, <2>1 DEF WorkerBound, Placed
  <2> QED BY <2>1, <2>2 DEF PhaseHeld, SameLeases, Holds, Mine
<1> QED BY <1>1, <1>2

-----------------------------------------------------------------------------
(* Steps of a worker that read the ledger and the branch.                  *)

\* Only worker w moves.
Moves(w) == /\ worker' = [worker EXCEPT ![w] = worker'[w]]
            /\ worker'[w] \in WorkerRecord

LEMMA GotoIs ==
  ASSUME TypeOK, NEW w \in Worker, NEW step \in Steps, Goto(w, step)
  PROVE  /\ Moves(w)
         /\ worker'[w] = [worker[w] EXCEPT !.step = step]
         /\ worker'[w].step = step
         /\ worker'[w].attempt = worker[w].attempt /\ worker'[w].fence = worker[w].fence
         /\ worker'[w].phase = worker[w].phase /\ worker'[w].seen = worker[w].seen
         /\ worker'[w].expected = worker[w].expected /\ worker'[w].target = worker[w].target
BY DEF TypeOK, Goto, Moves, WorkerRecord

LEMMA IdleIs ==
  ASSUME TypeOK, NEW w \in Worker,
         worker' = [worker EXCEPT ![w] = Idle(@.fence, @.attempt)]
  PROVE  /\ Moves(w)
         /\ worker'[w].step = "idle" /\ worker'[w].phase = None
         /\ worker'[w].attempt = worker[w].attempt /\ worker'[w].fence = worker[w].fence
<1>1. worker[w] \in WorkerRecord
  BY DEF TypeOK
<1>2. Idle(worker[w].fence, worker[w].attempt) \in WorkerRecord
  BY <1>1 DEF Idle, WorkerRecord, Steps
<1>3. worker'[w] = Idle(worker[w].fence, worker[w].attempt)
  BY DEF TypeOK
<1>4. Moves(w)
  BY <1>2, <1>3 DEF Moves
<1> QED BY <1>3, <1>4 DEF Idle

LEMMA OthersSame ==
  ASSUME TypeOK, NEW w \in Worker, Moves(w), NEW v \in Worker, v # w
  PROVE  worker'[v] = worker[v]
BY DEF TypeOK, Moves

LEMMA MovesTyped ==
  ASSUME TypeOK, NEW w \in Worker, Moves(w)
  PROVE  worker' \in [Worker -> WorkerRecord]
BY DEF TypeOK, Moves

\* A worker that is idle holds nothing.
LEMMA IdleBound ==
  ASSUME NEW w \in Worker, worker'[w].step = "idle", worker'[w].phase = None,
         worker'[w].attempt # None => HasJob(worker[w].attempt)'
  PROVE  WorkerBound(w)'
<1>1. None # "stage" /\ None # "advertisement"
  BY RecordAssumption DEF Phases
<1>2. Placed(w)'
  BY <1>1 DEF Placed, At
<1>3. PhaseHeld(w)'
  BY <1>1 DEF PhaseHeld
<1>4. AdmitBound(w)' /\ SendBound(w)' /\ ConfirmBound(w)' /\ TargetBound(w)' /\ AcceptBound(w)'
  BY DEF AdmitBound, SendBound, ConfirmBound, TargetBound, AcceptBound, At
<1> QED BY <1>2, <1>3, <1>4 DEF WorkerBound

LEMMA WorkerIs ==
  ASSUME FenceInv, NEW w \in Worker, ~At(w, "idle")
  PROVE  /\ worker[w] \in WorkerRecord /\ worker[w].attempt \in Attempt
         /\ HasJob(worker[w].attempt)
         /\ Mine(w) = attempts[worker[w].attempt] /\ Mine(w) \in AttemptRecord
         /\ Mine(w).job \in Job /\ Mine(w).state # "ABSENT"
         /\ WorkerBound(w)
<1>1. TypeOK /\ WorkerBound(w)
  BY DEF FenceInv
<1>2. worker[w] \in WorkerRecord /\ worker[w].attempt \in Attempt /\ HasJob(worker[w].attempt)
  BY <1>1 DEF TypeOK, WorkerRecord, WorkerBound, Placed
<1>3. Mine(w) = attempts[worker[w].attempt] /\ Mine(w) \in AttemptRecord /\ Mine(w).job \in Job
  BY <1>1, <1>2 DEF TypeOK, Mine, AttemptRecord, HasJob
<1>4. Mine(w).state # "ABSENT"
  BY <1>2, <1>3 DEF FenceInv, AttemptBound
<1> QED BY <1>1, <1>2, <1>3, <1>4

\* A step after which no intent, request or commit is new keeps the invariant if
\* the bounds of the head and of the worker that moves follow.
LEMMA QuietInv ==
  ASSUME FenceInv, Steady, Quiet, HeadPart',
         \A v \in Worker : WorkerBound(v)' \/ (worker'[v] = worker[v] /\ PhaseHeld(v)')
  PROVE  FenceInv'
<1>1. TypeOK' /\ WirePart /\ \A v \in Worker : WorkerBound(v)
  BY Parts DEF Steady
<1>2. ASSUME NEW v \in Worker PROVE WorkerBound(v)'
  <2>1. CASE worker'[v] = worker[v] /\ PhaseHeld(v)'
    <3>1. At(v, "send") => Live(worker[v].attempt, worker[v].expected, worker[v].target)'
      <4> SUFFICES ASSUME At(v, "send")
                   PROVE  Live(worker[v].attempt, worker[v].expected, worker[v].target)'
        OBVIOUS
      <4>1. /\ worker[v].attempt \in Attempt
            /\ Live(worker[v].attempt, worker[v].expected, worker[v].target)
        BY <1>1, WorkerIs DEF WorkerBound, SendBound, At
      <4>2. PICK a, expected, target : /\ a = worker[v].attempt
                                       /\ expected = worker[v].expected /\ target = worker[v].target
        OBVIOUS
      <4>3. Live(a, expected, target)'
        BY <4>1, <4>2, QuietLive
      <4> QED BY <2>1, <4>2, <4>3
    <3> QED BY <1>1, <2>1, <3>1, WorkerKept
  <2> QED BY <2>1
<1>3. WirePart'
  BY <1>1, QuietWire
<1> QED BY <1>1, <1>2, <1>3 DEF FenceInv, HeadPart, WirePart

\* A step that only reads keeps the invariant if the worker's bound follows.
LEMMA LocalInv ==
  ASSUME FenceInv, NEW w \in Worker, Moves(w), ~At(w, "send")',
         UNCHANGED <<head, views, attempts, branch, requests>>,
         WorkerBound(w)'
  PROVE  FenceInv'
<1>1. TypeOK /\ HeadPart /\ \A v \in Worker : WorkerBound(v)
  BY Parts
<1>2. TypeOK'
  BY <1>1, MovesTyped DEF TypeOK
<1>3. Steady
  <2>1. \A a \in Attempt : Kept(a)
    BY DEF Kept, HasJob, Intended, Beyond, Published
  <2> QED BY <1>1, <1>2, <2>1 DEF Steady, Extended
<1>4. Still /\ SameLeases
  BY DEF Still, SameCore, SameLeases, HasJob, Intended
<1>5. Quiet
  BY <1>1, OthersSame DEF Quiet, Intended, HasJob, At
<1>6. \A v \in Worker : WorkerBound(v)' \/ (worker'[v] = worker[v] /\ PhaseHeld(v)')
  BY <1>1, <1>3, <1>4, OthersSame, HeldKept
<1>7. HeadPart'
  BY <1>1, <1>3, <1>4, StillHead
<1> QED BY <1>3, <1>5, <1>6, <1>7, QuietInv

\* A step that reads, and stays on the attempt and in the phase.
LEMMA ReadInv ==
  ASSUME FenceInv, NEW w \in Worker, Moves(w), ~At(w, "send")',
         UNCHANGED <<head, views, attempts, branch, requests>>,
         worker'[w].attempt = worker[w].attempt, worker'[w].fence = worker[w].fence,
         worker'[w].phase = worker[w].phase, worker[w].attempt # None,
         worker'[w].step \in {"idle", "begin", "check"} => worker[w].phase = None,
         worker'[w].step \in {"enter", "prior", "build", "admit", "send", "identify", "verify",
                              "accept"} => worker[w].phase \in Phases,
         worker[w].phase = "advertisement" /\ worker'[w].step # "enter" =>
           Published(worker[w].attempt),
         AdmitBound(w)', ConfirmBound(w)', TargetBound(w)', AcceptBound(w)'
  PROVE  FenceInv'
<1>1. WorkerBound(w)
  BY DEF FenceInv
<1>2. Placed(w)'
  BY <1>1 DEF WorkerBound, Placed, At, HasJob, Beyond, Published
<1>3. PhaseHeld(w)'
  BY <1>1 DEF WorkerBound, PhaseHeld, Intended, HasJob, Holds, Mine
<1>4. SendBound(w)'
  BY DEF SendBound
<1>5. WorkerBound(w)'
  BY <1>2, <1>3, <1>4 DEF WorkerBound
<1> QED BY <1>5, LocalInv

LEMMA BeginInv ==
  ASSUME FenceInv, NEW w \in Worker, Begin(w)
  PROVE  FenceInv'
<1>1. TypeOK /\ ~At(w, "idle") /\ At(w, "begin")
  BY DEF FenceInv, Begin, At
<1>2. worker[w].attempt # None /\ WorkerBound(w)
  BY <1>1, WorkerIs DEF WorkerBound, Placed
<1>3. worker[w].phase = None /\ worker[w].phase # "advertisement"
  BY <1>1, <1>2, RecordAssumption DEF WorkerBound, Placed, At, Phases
<1>4. /\ Moves(w) /\ worker'[w].step \in {"idle", "complete", "check"}
      /\ worker'[w].attempt = worker[w].attempt /\ worker'[w].fence = worker[w].fence
      /\ worker'[w].phase = worker[w].phase
  <2>1. CASE Goto(w, "idle") \/ Goto(w, "complete")
    <3>1. "idle" \in Steps /\ "complete" \in Steps
      BY DEF Steps
    <3> QED BY <1>1, <2>1, <3>1, GotoIs
  <2>2. CASE worker' = [worker EXCEPT ![w].step = "check", ![w].seen = Mine(w).job.intent]
    <3>1. Mine(w).job.intent \in Intent \cup {None} /\ worker[w] \in WorkerRecord
      BY <1>1, WorkerIs DEF Job
    <3>2. worker'[w] = [worker[w] EXCEPT !.step = "check", !.seen = Mine(w).job.intent]
      BY <1>1, <2>2 DEF TypeOK
    <3>3. worker'[w] \in WorkerRecord
      BY <3>1, <3>2 DEF WorkerRecord, Steps
    <3>4. worker' = [worker EXCEPT ![w] = worker'[w]]
      BY <1>1, <2>2 DEF TypeOK
    <3>5. /\ worker'[w].step = "check" /\ worker'[w].attempt = worker[w].attempt
          /\ worker'[w].fence = worker[w].fence /\ worker'[w].phase = worker[w].phase
      BY <3>1, <3>2 DEF WorkerRecord
    <3> QED BY <3>3, <3>4, <3>5 DEF Moves
  <2>3. \/ Goto(w, "idle") \/ Goto(w, "complete")
        \/ worker' = [worker EXCEPT ![w].step = "check", ![w].seen = Mine(w).job.intent]
    <3>1. ASSUME Goto(w, IF Mine(w).job.status = "COMPLETE" THEN "idle" ELSE "complete")
          PROVE  Goto(w, "idle") \/ Goto(w, "complete")
      <4>1. CASE Mine(w).job.status = "COMPLETE"
        BY <3>1, <4>1
      <4>2. CASE Mine(w).job.status # "COMPLETE"
        BY <3>1, <4>2
      <4> QED BY <4>1, <4>2
    <3> QED BY <3>1 DEF Begin
  <2> QED BY <2>1, <2>2, <2>3
<1>5. AdmitBound(w)' /\ ConfirmBound(w)' /\ TargetBound(w)' /\ AcceptBound(w)' /\ ~At(w, "send")'
  BY <1>4 DEF AdmitBound, ConfirmBound, TargetBound, AcceptBound, At
<1>6. UNCHANGED <<head, views, attempts, branch, requests>>
  BY DEF Begin
<1> QED BY <1>2, <1>3, <1>4, <1>5, <1>6, ReadInv

\* A step that only goes on to the next part of the run.
LEMMA GotoInv ==
  ASSUME FenceInv, NEW w \in Worker, NEW step \in Steps \ {"admit", "send", "confirm"},
         Goto(w, step), UNCHANGED <<head, views, attempts, branch, requests>>,
         worker[w].attempt # None,
         step \in {"idle", "begin", "check"} => worker[w].phase = None,
         step \in {"enter", "prior", "build", "identify", "verify", "accept"} =>
           worker[w].phase \in Phases,
         worker[w].phase = "advertisement" /\ step # "enter" => Published(worker[w].attempt),
         step \in {"observe", "identify", "verify", "accept"} /\ worker[w].phase # None =>
           /\ worker[w].target \in Commit
           /\ worker[w].phase = "stage" =>
                worker[w].target = Append(attempts[worker[w].attempt].job.expected,
                                          Staged(worker[w].attempt)),
         step = "accept" =>
           /\ worker[w].phase = "stage" => Len(worker[w].target) <= Len(branch)
           /\ worker[w].phase = "advertisement" =>
                Advertises(worker[w].attempt, attempts[worker[w].attempt].base + 1)
  PROVE  FenceInv'
<1>1. /\ Moves(w) /\ worker'[w].step = step
      /\ worker'[w].attempt = worker[w].attempt /\ worker'[w].fence = worker[w].fence
      /\ worker'[w].phase = worker[w].phase /\ worker'[w].target = worker[w].target
  BY GotoIs DEF FenceInv
<1>2. AdmitBound(w)' /\ ConfirmBound(w)' /\ ~At(w, "send")'
  BY <1>1 DEF AdmitBound, ConfirmBound, At
<1>3. TargetBound(w)'
  BY <1>1 DEF TargetBound, Staged
<1>4. AcceptBound(w)'
  BY <1>1 DEF AcceptBound, At, Advertises
<1> QED BY <1>1, <1>2, <1>3, <1>4, ReadInv

LEMMA CheckInv ==
  ASSUME FenceInv, NEW w \in Worker, Check(w)
  PROVE  FenceInv'
<1>1. At(w, "check") /\ ~At(w, "idle") /\ UNCHANGED <<head, views, attempts, branch, requests>>
  BY DEF Check, At
<1>2. WorkerBound(w) /\ worker[w].attempt # None
  BY <1>1, WorkerIs DEF WorkerBound, Placed
<1>3. worker[w].phase = None /\ worker[w].phase # "advertisement"
  BY <1>1, <1>2, RecordAssumption DEF WorkerBound, Placed, At, Phases
<1>4. PICK step \in {"observe", "resume"} : Goto(w, step)
  BY DEF Check
<1>5. step \in Steps \ {"admit", "send", "confirm"}
  BY DEF Steps
<1> QED BY <1>1, <1>2, <1>3, <1>4, <1>5, GotoInv

LEMMA StopInv ==
  ASSUME FenceInv, NEW w \in Worker, Stop(w)
  PROVE  FenceInv'
<1>1. /\ Moves(w) /\ worker'[w].step = "idle" /\ worker'[w].phase = None
      /\ worker'[w].attempt = worker[w].attempt
      /\ ~At(w, "idle") /\ UNCHANGED <<head, views, attempts, branch, requests>>
  BY IdleIs DEF Stop, At, FenceInv
<1>2. worker'[w].attempt # None => HasJob(worker[w].attempt)'
  BY <1>1, WorkerIs DEF HasJob
<1>3. WorkerBound(w)'
  BY <1>1, <1>2, IdleBound
<1> QED BY <1>1, <1>3, LocalInv DEF At

LEMMA RerunInv ==
  ASSUME FenceInv, NEW w \in Worker, Rerun(w)
  PROVE  FenceInv'
<1>1. /\ At(w, "idle") /\ worker[w].attempt # None /\ Goto(w, "begin")
      /\ UNCHANGED <<head, views, attempts, branch, requests>> /\ WorkerBound(w)
  BY DEF Rerun, At, FenceInv
<1>2. worker[w].phase = None /\ worker[w].phase # "advertisement"
  BY <1>1, RecordAssumption DEF WorkerBound, Placed, At, Phases
<1>3. "begin" \in Steps \ {"admit", "send", "confirm"}
  BY DEF Steps
<1> QED BY <1>1, <1>2, <1>3, GotoInv

LEMMA ObserveInv ==
  ASSUME FenceInv, NEW w \in Worker, Observe(w)
  PROVE  FenceInv'
<1>1. /\ TypeOK /\ At(w, "observe") /\ ~At(w, "idle")
      /\ UNCHANGED <<head, views, attempts, branch, requests>>
  BY DEF Observe, At, FenceInv
<1>2. /\ WorkerBound(w) /\ worker[w] \in WorkerRecord
      /\ worker[w].attempt \in Attempt /\ worker[w].attempt # None
  BY <1>1, WorkerIs DEF WorkerBound, Placed
<1>3. PICK a \in Attempt : a = worker[w].attempt
  BY <1>2
<1>4. Mine(w) = attempts[a]
  BY <1>3 DEF Mine
<1>5. Mine(w).job.intent \in Intent /\ Mine(w).job.intent.target = branch
  BY <1>1, <1>3, <1>4, IntentIs DEF Observe, Shows, Intended
<1>6. worker'[w] = [worker[w] EXCEPT !.step = "confirm", !.seen = Mine(w).job.intent]
  BY <1>1 DEF Observe, TypeOK
<1>7. /\ worker'[w].step = "confirm" /\ worker'[w].seen = Mine(w).job.intent
      /\ worker'[w].attempt = worker[w].attempt /\ worker'[w].fence = worker[w].fence
      /\ worker'[w].phase = worker[w].phase /\ worker'[w].target = worker[w].target
  BY <1>2, <1>6 DEF WorkerRecord
<1>8. Moves(w)
  <2>1. worker'[w] \in WorkerRecord
    BY <1>2, <1>5, <1>6 DEF WorkerRecord, Steps
  <2>2. worker' = [worker EXCEPT ![w] = worker'[w]]
    BY <1>1 DEF Observe, TypeOK
  <2> QED BY <2>1, <2>2 DEF Moves
<1>9. ConfirmBound(w)'
  <2>1. IsPrefix(branch, branch)
    BY <1>1, PrefixLength DEF TypeOK
  <2> QED BY <1>1, <1>5, <1>7, <2>1 DEF ConfirmBound
<1>10. TargetBound(w)'
  BY <1>1, <1>2, <1>7 DEF WorkerBound, TargetBound, At, Staged
<1>11. AdmitBound(w)' /\ AcceptBound(w)' /\ ~At(w, "send")'
  BY <1>7 DEF AdmitBound, AcceptBound, At
<1>12. worker[w].phase = "advertisement" => Published(worker[w].attempt)
  BY <1>1, <1>2 DEF WorkerBound, Placed, At
<1> QED BY <1>1, <1>2, <1>7, <1>8, <1>9, <1>10, <1>11, <1>12, ReadInv

LEMMA CheckLeaseInv ==
  ASSUME FenceInv, NEW w \in Worker, CheckLease(w) \/ PublishAgain(w)
  PROVE  FenceInv'
<1>1. PICK step \in {"publish", "resume"} :
        /\ ~At(w, "idle") /\ ~At(w, "enter") /\ Goto(w, step)
        /\ UNCHANGED <<head, views, attempts, branch, requests>>
  BY DEF CheckLease, PublishAgain, At
<1>2. WorkerBound(w) /\ worker[w].attempt # None
  BY <1>1, WorkerIs DEF WorkerBound, Placed
<1>3. worker[w].phase = "advertisement" => Published(worker[w].attempt)
  BY <1>1, <1>2 DEF WorkerBound, Placed, At
<1>4. step \in Steps \ {"admit", "send", "confirm"}
  BY DEF Steps
<1> QED BY <1>1, <1>2, <1>3, <1>4, GotoInv

LEMMA ResumeInv ==
  ASSUME FenceInv, NEW w \in Worker, Resume(w)
  PROVE  FenceInv'
<1>1. /\ TypeOK /\ At(w, "resume") /\ ~At(w, "idle")
      /\ UNCHANGED <<head, views, attempts, branch, requests>>
  BY DEF Resume, At, FenceInv
<1>2. /\ worker[w] \in WorkerRecord /\ worker[w].attempt \in Attempt
      /\ HasJob(worker[w].attempt) /\ Mine(w).state # "ABSENT" /\ worker[w].attempt # None
  BY <1>1, WorkerIs DEF WorkerBound, Placed
<1>3. PICK a \in Attempt : a = worker[w].attempt
  BY <1>2
<1>4. Mine(w) = attempts[a] /\ AttemptBound(a) /\ IntentBound(a)
  BY <1>3 DEF Mine, FenceInv
<1> DEFINE step == IF Mine(w).state = "REMOTE_VERIFIED" THEN "guard" ELSE "enter"
<1> DEFINE phase == CASE Mine(w).state = "STAGED" -> "stage"
                      [] Mine(w).state = "REMOTE_VERIFIED" -> None
                      [] OTHER -> "advertisement"
<1>5. /\ phase \in Phases \cup {None} /\ step \in {"guard", "enter"}
      /\ step = "enter" => phase \in Phases
      /\ step # "enter" => phase = None
      /\ phase = "stage" => Mine(w).state = "STAGED"
      /\ phase = "advertisement" => Beyond(a)
  BY <1>2, <1>4, RecordAssumption DEF Phases, Beyond
<1>6. worker'[w] = [Idle(worker[w].fence, worker[w].attempt) EXCEPT !.step = step, !.phase = phase]
  BY <1>1 DEF Resume, TypeOK
<1> HIDE DEF step, phase
<1>7. /\ worker'[w] \in WorkerRecord /\ worker'[w].step = step /\ worker'[w].phase = phase
      /\ worker'[w].attempt = worker[w].attempt
  BY <1>2, <1>5, <1>6 DEF Idle, WorkerRecord, Steps
<1>8. Moves(w)
  <2>1. worker' = [worker EXCEPT ![w] = worker'[w]]
    BY <1>1 DEF Resume, TypeOK
  <2> QED BY <1>7, <2>1 DEF Moves
<1>9. Placed(w)'
  <2>1. HasJob(a)' /\ (phase = "advertisement" => Beyond(a)')
    BY <1>1, <1>2, <1>3, <1>5 DEF HasJob, Beyond
  <2> QED BY <1>2, <1>3, <1>5, <1>7, <2>1, RecordAssumption DEF Placed, At, Phases
<1>10. PhaseHeld(w)'
  <2>1. phase = "stage" /\ Intended(a) => attempts[a].job.intent.phase # "advertisement"
    BY <1>4, <1>5 DEF IntentBound, Beyond
  <2> QED BY <1>1, <1>3, <1>7, <2>1 DEF PhaseHeld, Intended, HasJob
<1>11. /\ AdmitBound(w)' /\ SendBound(w)' /\ ConfirmBound(w)' /\ TargetBound(w)' /\ AcceptBound(w)'
       /\ ~At(w, "send")'
  BY <1>5, <1>7 DEF AdmitBound, SendBound, ConfirmBound, TargetBound, AcceptBound, At
<1> QED BY <1>1, <1>8, <1>9, <1>10, <1>11, LocalInv DEF WorkerBound

LEMMA EnterInv ==
  ASSUME FenceInv, NEW w \in Worker, Enter(w)
  PROVE  FenceInv'
<1>1. /\ At(w, "enter") /\ ~At(w, "idle") /\ Goto(w, "prior")
      /\ UNCHANGED <<head, views, attempts, branch, requests>>
  BY DEF Enter, At
<1>2. /\ WorkerBound(w) /\ worker[w].attempt # None /\ worker[w].phase \in Phases
      /\ worker[w].attempt \in Attempt
  BY <1>1, WorkerIs DEF WorkerBound, Placed, At
<1>3. worker[w].phase = "advertisement" => Published(worker[w].attempt)
  BY <1>2 DEF Enter, OwnsHead, Mine, FenceInv, AttemptBound
<1>4. "prior" \in Steps \ {"admit", "send", "confirm"}
  BY DEF Steps
<1> QED BY <1>1, <1>2, <1>3, <1>4, GotoInv

LEMMA PriorInv ==
  ASSUME FenceInv, NEW w \in Worker, Prior(w)
  PROVE  FenceInv'
<1>1. /\ TypeOK /\ At(w, "prior") /\ ~At(w, "idle")
      /\ UNCHANGED <<head, views, attempts, branch, requests>>
  BY DEF Prior, At, FenceInv
<1>2. /\ WorkerBound(w) /\ worker[w].attempt # None /\ worker[w].phase \in Phases
      /\ worker[w].attempt \in Attempt /\ worker[w] \in WorkerRecord
      /\ worker[w].phase = "advertisement" => Published(worker[w].attempt)
  BY <1>1, WorkerIs DEF WorkerBound, Placed, At
<1>3. CASE Goto(w, "build")
  <2>1. "build" \in Steps \ {"admit", "send", "confirm"}
    BY DEF Steps
  <2> QED BY <1>1, <1>2, <1>3, <2>1, GotoInv
<1>4. CASE /\ SamePhase(w) /\ branch = Mine(w).job.intent.target
           /\ worker' = [worker EXCEPT ![w] = [@ EXCEPT !.step = "identify", !.target = branch]]
  <2>1. PICK a \in Attempt : a = worker[w].attempt
    BY <1>2
  <2>2. /\ Intended(a) /\ attempts[a].job.intent.phase = worker[w].phase
        /\ branch = attempts[a].job.intent.target /\ IntentBound(a)
    <3>1. HasJob(a) /\ attempts[a].job \in Job
      BY <1>1, <2>1, WorkerIs DEF Mine
    <3> QED BY <1>4, <2>1, <3>1 DEF SamePhase, Mine, Job, Intended, FenceInv
  <2>3. worker[w].phase = "stage" => branch = Append(attempts[a].job.expected, Staged(a))
    BY <2>2 DEF IntentBound, Change
  <2>4. worker'[w] = [worker[w] EXCEPT !.step = "identify", !.target = branch]
    BY <1>1, <1>4 DEF TypeOK
  <2>5. branch \in Commit
    BY <1>1 DEF TypeOK
  <2>6. /\ worker'[w].step = "identify" /\ worker'[w].target = branch
        /\ worker'[w].attempt = worker[w].attempt /\ worker'[w].fence = worker[w].fence
        /\ worker'[w].phase = worker[w].phase
    BY <1>2, <2>4 DEF WorkerRecord
  <2>7. Moves(w)
    <3>1. worker'[w] \in WorkerRecord
      BY <1>2, <2>4, <2>5 DEF WorkerRecord, Steps
    <3>2. worker' = [worker EXCEPT ![w] = worker'[w]]
      BY <1>1, <1>4 DEF TypeOK
    <3> QED BY <3>1, <3>2 DEF Moves
  <2>8. TargetBound(w)'
    BY <1>1, <2>1, <2>3, <2>5, <2>6 DEF TargetBound, Staged
  <2>9. AdmitBound(w)' /\ ConfirmBound(w)' /\ AcceptBound(w)' /\ ~At(w, "send")'
    BY <2>6 DEF AdmitBound, ConfirmBound, AcceptBound, At
  <2> QED BY <1>1, <1>2, <2>6, <2>7, <2>8, <2>9, ReadInv
<1> QED
  <2>1. \/ Goto(w, "build")
        \/ /\ SamePhase(w) /\ branch = Mine(w).job.intent.target
           /\ worker' = [worker EXCEPT ![w].step = "identify", ![w].target = branch]
    BY DEF Prior
  <2>2. [worker EXCEPT ![w].step = "identify", ![w].target = branch]
          = [worker EXCEPT ![w] = [@ EXCEPT !.step = "identify", !.target = branch]]
    BY <1>1, <1>2 DEF TypeOK
  <2> QED BY <1>3, <1>4, <2>1, <2>2

LEMMA JobCommits ==
  ASSUME FenceInv, NEW a \in Attempt, HasJob(a)
  PROVE  /\ attempts[a].job.expected \in Commit
         /\ Append(attempts[a].job.expected, Staged(a)) \in Commit
         /\ Published(a) => /\ attempts[a].commit \in Commit
                            /\ Append(attempts[a].commit, Advert(a)) \in Commit
<1>1. TypeOK /\ AttemptBound(a)
  BY DEF FenceInv
<1>2. attempts[a].job.expected \in Commit /\ attempts[a].base \in Nat
  BY <1>1 DEF TypeOK, AttemptRecord, HasJob, Job
<1>3. Staged(a) \in Entry /\ Advert(a) \in Entry
  BY <1>2 DEF Staged, Advert, Entry, Phases
<1> QED BY <1>1, <1>2, <1>3, AppendOne DEF AttemptBound

\* What a change leads to is the branch's next commit.
LEMMA ChangeIs ==
  ASSUME FenceInv, NEW a \in Attempt, HasJob(a), NEW phase, NEW expected, NEW target,
         Change(a, phase, expected, target)
  PROVE  /\ expected \in Commit /\ target \in Commit /\ phase \in Phases
         /\ \E e \in Entry : target = Append(expected, e) /\ e \in {Staged(a), Advert(a)}
<1>1. attempts[a].base \in Nat
  BY DEF FenceInv, TypeOK, AttemptRecord
<1>2. Staged(a) \in Entry /\ Advert(a) \in Entry
  BY <1>1 DEF Staged, Advert, Entry, Phases
<1> QED BY <1>2, JobCommits DEF Change, Phases

LEMMA BuildInv ==
  ASSUME FenceInv, NEW w \in Worker, Build(w)
  PROVE  FenceInv'
<1>1. /\ TypeOK /\ At(w, "build") /\ ~At(w, "idle")
      /\ UNCHANGED <<head, views, attempts, branch, requests>>
      /\ BranchBound
  BY DEF Build, At, FenceInv
<1>2. /\ WorkerBound(w) /\ worker[w].attempt # None /\ worker[w].phase \in Phases
      /\ worker[w].attempt \in Attempt /\ worker[w] \in WorkerRecord
      /\ HasJob(worker[w].attempt)
      /\ worker[w].phase = "advertisement" => Published(worker[w].attempt)
  BY <1>1, WorkerIs DEF WorkerBound, Placed, At
<1>3. PICK a \in Attempt : a = worker[w].attempt
  BY <1>2
<1>4. Mine(w) = attempts[a] /\ HasJob(a)
  BY <1>2, <1>3 DEF Mine
<1>5. \/ /\ worker[w].phase = "stage"
         /\ Base(w) = attempts[a].job.expected
         /\ Target(w) = Append(attempts[a].job.expected, Staged(a))
      \/ /\ worker[w].phase = "advertisement" /\ Published(a)
         /\ Base(w) = attempts[a].commit
         /\ Target(w) = Append(attempts[a].commit, Advert(a))
  BY <1>2, <1>3, <1>4 DEF Base, Target, Staged, Advert, Phases
<1>6. Target(w) \in Commit /\ branch \in Commit
  BY <1>1, <1>4, <1>5, JobCommits DEF TypeOK
<1>7. Change(a, worker[w].phase, branch, Target(w)) \/ (worker[w].phase = "stage" /\ Intended(a))
  <2>1. CASE branch = Base(w)
    BY <1>5, <2>1 DEF Change
  <2>2. CASE worker[w].phase = "stage" /\ branch = Target(w)
    <3>1. branch = Append(attempts[a].job.expected, Staged(a))
      BY <1>5, <2>2
    <3>2. attempts[a].job.expected \in Commit /\ Staged(a) \in Entry
      BY <1>4, JobCommits DEF Staged, Entry, Phases
    <3>3. /\ Len(attempts[a].job.expected) + 1 \in 1 .. Len(branch)
          /\ branch[Len(attempts[a].job.expected) + 1] = Staged(a)
      BY <3>1, <3>2, AppendOne
    <3>4. Intended(Staged(a).attempt)
      BY <1>1, <3>3 DEF BranchBound
    <3> QED BY <2>2, <3>4 DEF Staged
  <2> QED BY <2>1, <2>2 DEF Build
<1> DEFINE target == Target(w)
<1>8. worker'[w] = [worker[w] EXCEPT !.step = "admit", !.expected = branch, !.target = target]
  BY <1>1 DEF Build, TypeOK
<1> HIDE DEF target
<1>9. /\ worker'[w].step = "admit" /\ worker'[w].expected = branch /\ worker'[w].target = target
      /\ worker'[w].attempt = worker[w].attempt /\ worker'[w].fence = worker[w].fence
      /\ worker'[w].phase = worker[w].phase
  BY <1>2, <1>8 DEF WorkerRecord
<1>10. Moves(w)
  <2>1. target \in Commit
    BY <1>6 DEF target
  <2>2. worker'[w] \in WorkerRecord
    BY <1>2, <1>6, <1>8, <2>1 DEF WorkerRecord, Steps
  <2>3. worker' = [worker EXCEPT ![w] = worker'[w]]
    BY <1>1 DEF Build, TypeOK
  <2> QED BY <2>2, <2>3 DEF Moves
<1>11. AdmitBound(w)'
  <2>1. Change(a, worker[w].phase, branch, target) \/ (worker[w].phase = "stage" /\ Intended(a))
    BY <1>7 DEF target
  <2>2. branch' = branch /\ attempts' = attempts /\ worker'[w].attempt = a
    BY <1>1, <1>3, <1>9
  <2>3. target \in Commit
    BY <1>6 DEF target
  <2>4. \/ Change(worker[w].attempt, worker[w].phase, worker[w].expected, worker[w].target)'
        \/ worker'[w].phase = "stage" /\ Intended(worker[w].attempt)'
    BY <1>9, <2>1, <2>2 DEF Change, Intended, HasJob, Staged, Advert, Published
  <2> QED BY <1>6, <1>9, <2>2, <2>3, <2>4 DEF AdmitBound, Behind
<1>12. ConfirmBound(w)' /\ TargetBound(w)' /\ AcceptBound(w)' /\ ~At(w, "send")'
  BY <1>9 DEF ConfirmBound, TargetBound, AcceptBound, At
<1> QED BY <1>1, <1>2, <1>9, <1>10, <1>11, <1>12, ReadInv

\* The advertisements of an attempt name the generation it was published as.
LEMMA AdvertisedGeneration ==
  ASSUME FenceInv, NEW a \in Attempt, NEW generation, Advertises(a, generation)
  PROVE  Advertises(a, attempts[a].base + 1)
<1>1. PICK i \in 2 .. Len(branch) :
        /\ branch[i] = [kind |-> "advertisement", attempt |-> a, generation |-> generation]
        /\ SubSeq(branch, 1, i - 1) = attempts[a].commit
  BY DEF Advertises
<1>2. i \in 1 .. Len(branch)
  BY LenProperties DEF FenceInv, TypeOK, Commit
<1>3. branch[i].attempt = a /\ branch[i].kind = "advertisement" /\ branch[i].generation = generation
  BY <1>1
<1>4. branch[i] \in {Staged(a), Advert(a)}
  BY <1>2, <1>3 DEF FenceInv, BranchBound
<1>5. generation = attempts[a].base + 1
  BY <1>3, <1>4 DEF Staged, Advert
<1> QED BY <1>5

LEMMA VerifyInv ==
  ASSUME FenceInv, NEW w \in Worker, Verify(w)
  PROVE  FenceInv'
<1>1. /\ TypeOK /\ At(w, "verify") /\ ~At(w, "idle") /\ Goto(w, "accept")
      /\ UNCHANGED <<head, views, attempts, branch, requests>>
  BY DEF Verify, At, FenceInv
<1>2. /\ WorkerBound(w) /\ worker[w].attempt # None /\ worker[w].phase \in Phases
      /\ worker[w].attempt \in Attempt
      /\ worker[w].phase = "advertisement" => Published(worker[w].attempt)
  BY <1>1, WorkerIs DEF WorkerBound, Placed, At
<1>3. worker[w].phase # None
  BY <1>2, RecordAssumption
<1>4. /\ worker[w].target \in Commit
      /\ worker[w].phase = "stage" =>
           worker[w].target = Append(attempts[worker[w].attempt].job.expected,
                                     Staged(worker[w].attempt))
  BY <1>1, <1>2, <1>3 DEF WorkerBound, TargetBound, At
<1>5. Len(worker[w].target) <= Len(branch)
  BY <1>1, PrefixLength DEF Verify, Deployed, TypeOK
<1>6. worker[w].phase = "advertisement" =>
        Advertises(worker[w].attempt, attempts[worker[w].attempt].base + 1)
  BY <1>2, AdvertisedGeneration DEF Verify
<1>7. "accept" \in Steps \ {"admit", "send", "confirm"}
  BY DEF Steps
<1> QED BY <1>1, <1>2, <1>4, <1>5, <1>6, <1>7, GotoInv

-----------------------------------------------------------------------------
(* Leases, and the identities of deployments.                              *)

\* Only the record of attempt a is written.
Writes(a) == /\ attempts' = [attempts EXCEPT ![a] = attempts'[a]]
             /\ attempts'[a] \in AttemptRecord

LEMMA WritesIs ==
  ASSUME TypeOK, NEW a \in Attempt, Writes(a)
  PROVE  /\ attempts' \in [Attempt -> AttemptRecord]
         /\ \A b \in Attempt : b # a => attempts'[b] = attempts[b]
         /\ \A b \in Attempt : b # a => Kept(b) /\ SameCore(b)
<1>1. /\ attempts' \in [Attempt -> AttemptRecord]
      /\ \A b \in Attempt : b # a => attempts'[b] = attempts[b]
  BY DEF TypeOK, Writes
<1> QED BY <1>1 DEF Kept, SameCore, HasJob, Intended, Beyond, Published

LEMMA JobIs ==
  ASSUME TypeOK, NEW a \in Attempt, HasJob(a), NEW job \in Job, SetJob(a, job),
         job.expected = attempts[a].job.expected, Intended(a) => job.intent \in Intent
  PROVE  /\ Writes(a) /\ HasJob(a)' /\ attempts'[a].job = job
         /\ \A b \in Attempt : Kept(b) /\ SameCore(b)
<1>1. attempts'[a] = [attempts[a] EXCEPT !.job = job] /\ attempts[a] \in AttemptRecord
  BY DEF SetJob, TypeOK
<1>2. /\ attempts'[a] \in AttemptRecord /\ attempts'[a].job = job
      /\ attempts'[a].state = attempts[a].state /\ attempts'[a].proofs = attempts[a].proofs
      /\ attempts'[a].result = attempts[a].result /\ attempts'[a].base = attempts[a].base
      /\ attempts'[a].commit = attempts[a].commit
  BY <1>1 DEF AttemptRecord
<1>3. Writes(a)
  BY <1>1, <1>2 DEF Writes, SetJob, TypeOK
<1>4. HasJob(a)'
  BY <1>2, RecordAssumption DEF HasJob
<1>5. Kept(a) /\ SameCore(a)
  BY <1>2, <1>4 DEF Kept, SameCore, Intended, Beyond, Published
<1> QED BY <1>2, <1>3, <1>4, <1>5, WritesIs

LEMMA IdentifyInv ==
  ASSUME FenceInv, NEW w \in Worker, Identify(w)
  PROVE  FenceInv'
<1>1. /\ TypeOK /\ At(w, "identify") /\ ~At(w, "idle") /\ Goto(w, "verify")
      /\ UNCHANGED <<head, views, branch, requests>> /\ HeadPart
  BY Parts DEF Identify, At
<1>2. /\ WorkerBound(w) /\ worker[w].attempt # None /\ worker[w].phase \in Phases
      /\ worker[w].attempt \in Attempt /\ HasJob(worker[w].attempt)
      /\ worker[w].phase = "advertisement" => Published(worker[w].attempt)
  BY <1>1, WorkerIs DEF WorkerBound, Placed, At
<1>3. PICK a \in Attempt : a = worker[w].attempt
  BY <1>2
<1>4. PICK job : job = [Mine(w).job EXCEPT !.identity[worker[w].phase] = worker[w].target]
  OBVIOUS
<1>5. /\ Mine(w).job \in Job /\ Mine(w) = attempts[a] /\ worker[w].target \in Commit
      /\ SetJob(a, job)
  BY <1>1, <1>2, <1>3, <1>4, WorkerIs, RecordAssumption DEF Identify, WorkerBound, TargetBound, At
<1>6. /\ job \in Job /\ job.expected = attempts[a].job.expected
      /\ job.intent = attempts[a].job.intent
      /\ job.owner = attempts[a].job.owner /\ job.fence = attempts[a].job.fence
  <2>1. [Mine(w).job.identity EXCEPT ![worker[w].phase] = worker[w].target]
          \in [Phases -> Commit \cup {None}]
    BY <1>5 DEF Job
  <2>2. job = [Mine(w).job EXCEPT !.identity =
                 [Mine(w).job.identity EXCEPT ![worker[w].phase] = worker[w].target]]
    BY <1>4
  <2> QED BY <1>5, <2>1, <2>2 DEF Job
<1>7. /\ Writes(a) /\ attempts'[a].job = job /\ HasJob(a)'
      /\ \A b \in Attempt : Kept(b) /\ SameCore(b)
  BY <1>1, <1>2, <1>3, <1>5, <1>6, JobIs DEF Intended
<1>8. /\ Moves(w) /\ worker'[w].step = "verify"
      /\ worker'[w].attempt = worker[w].attempt /\ worker'[w].fence = worker[w].fence
      /\ worker'[w].phase = worker[w].phase /\ worker'[w].target = worker[w].target
  BY <1>1, GotoIs DEF Steps
<1>9. Steady
  BY <1>1, <1>7, <1>8, MovesTyped, WritesIs DEF Steady, Extended, TypeOK
<1>10. Still
  BY <1>1, <1>7 DEF Still
<1>11. \A b \in Attempt : /\ Intended(b)' <=> Intended(b)
                          /\ HasJob(b) => /\ attempts'[b].job.intent = attempts[b].job.intent
                                          /\ attempts'[b].job.owner = attempts[b].job.owner
                                          /\ attempts'[b].job.fence = attempts[b].job.fence
  BY <1>1, <1>2, <1>3, <1>6, <1>7, WritesIs DEF Intended, HasJob
<1>12. Quiet /\ SameLeases
  BY <1>1, <1>8, <1>11, OthersSame DEF Quiet, SameLeases, Intended, At
<1>13. WorkerBound(w)'
  <2>1. Placed(w)'
    BY <1>1, <1>2, <1>3, <1>7, <1>8 DEF WorkerBound, Placed, At, Kept
  <2>2. PhaseHeld(w)'
    BY <1>2, <1>3, <1>8, <1>11 DEF WorkerBound, PhaseHeld, Holds, Mine, Intended
  <2>3. TargetBound(w)'
    BY <1>1, <1>2, <1>3, <1>7, <1>8 DEF WorkerBound, TargetBound, At, Staged, SameCore
  <2>4. AdmitBound(w)' /\ SendBound(w)' /\ ConfirmBound(w)' /\ AcceptBound(w)'
    BY <1>8 DEF AdmitBound, SendBound, ConfirmBound, AcceptBound, At
  <2> QED BY <2>1, <2>2, <2>3, <2>4 DEF WorkerBound
<1>14. \A v \in Worker : WorkerBound(v)' \/ (worker'[v] = worker[v] /\ PhaseHeld(v)')
  BY <1>1, <1>8, <1>9, <1>12, <1>13, OthersSame, HeldKept DEF FenceInv
<1>15. HeadPart'
  BY <1>1, <1>9, <1>10, StillHead
<1> QED BY <1>9, <1>12, <1>14, <1>15, QuietInv

\* A step that writes nothing but a lease, an authorization or the status of a job.
LEMMA LeaseInv ==
  ASSUME FenceInv, NEW a \in Attempt, Writes(a), UNCHANGED <<head, views, branch, requests>>,
         \A b \in Attempt : Kept(b) /\ SameCore(b),
         HasJob(a) => attempts'[a].job.intent = attempts[a].job.intent,
         worker' \in [Worker -> WorkerRecord],
         \A v \in Worker : \/ WorkerBound(v)' /\ ~At(v, "send")'
                           \/ worker'[v] = worker[v] /\ PhaseHeld(v)'
  PROVE  FenceInv'
<1>1. TypeOK /\ HeadPart
  BY Parts
<1>2. attempts' \in [Attempt -> AttemptRecord] /\ \A b \in Attempt : b # a => attempts'[b] = attempts[b]
  BY <1>1, WritesIs
<1>3. Steady
  BY <1>1, <1>2 DEF Steady, Extended, TypeOK
<1>4. Quiet
  <2>1. \A b \in Attempt : /\ Intended(b)' => Intended(b)
                           /\ Intended(b) => attempts'[b].job.intent = attempts[b].job.intent
    BY <1>2 DEF Intended, SameCore, HasJob
  <2>2. \A v \in Worker : At(v, "send")' => At(v, "send") /\ worker'[v].attempt = worker[v].attempt
    BY DEF At
  <2> QED BY <2>1, <2>2 DEF Quiet
<1>5. Still
  BY DEF Still
<1>6. HeadPart'
  BY <1>1, <1>3, <1>5, StillHead
<1> QED BY <1>3, <1>4, <1>6, QuietInv

\* Who holds which lease, if only the record of a is written and it names another.
LEMMA LeaseLost ==
  ASSUME FenceInv, NEW a \in Attempt, Writes(a), \A b \in Attempt : Kept(b) /\ SameCore(b),
         HasJob(a) => attempts'[a].job.intent = attempts[a].job.intent,
         NEW v \in Worker, worker'[v] = worker[v],
         \/ attempts'[a].job.owner # v
         \/ /\ attempts'[a].job.owner = attempts[a].job.owner
            /\ attempts'[a].job.fence = attempts[a].job.fence
  PROVE  PhaseHeld(v)'
<1>1. TypeOK /\ WorkerBound(v)
  BY DEF FenceInv
<1>2. CASE worker[v].attempt = None
  BY <1>1, <1>2, RecordAssumption DEF WorkerBound, Placed, PhaseHeld, Phases
<1>3. CASE worker[v].attempt # None
  <2>1. PICK b \in Attempt : b = worker[v].attempt
    BY <1>1, <1>3 DEF TypeOK, WorkerRecord
  <2>2. PhaseHeld(v) /\ HasJob(b)
    BY <1>1, <1>3, <2>1 DEF WorkerBound, Placed
  <2>3. CASE b = a
    BY <2>1, <2>2, <2>3 DEF PhaseHeld, Holds, Mine, Intended
  <2>4. CASE b # a
    BY <1>1, <2>1, <2>2, <2>4, WritesIs DEF PhaseHeld, Holds, Mine, Intended, HasJob
  <2> QED BY <2>3, <2>4
<1> QED BY <1>2, <1>3

LEMMA ClaimInv ==
  ASSUME FenceInv, NEW w \in Worker, NEW a \in Attempt, Claim(w, a)
  PROVE  FenceInv'
<1>1. /\ TypeOK /\ HasJob(a) /\ attempts[a].job \in Job
      /\ UNCHANGED <<head, views, branch, requests>>
  BY DEF Claim, Claimable, FenceInv, TypeOK, AttemptRecord, HasJob
<1>2. PICK job : job = [attempts[a].job EXCEPT !.fence = @ + 1, !.owner = w, !.leased = TRUE]
  OBVIOUS
<1>3. /\ job \in Job /\ job.owner = w /\ job.expected = attempts[a].job.expected
      /\ job.intent = attempts[a].job.intent /\ SetJob(a, job)
  <2>1. SetJob(a, job)
    BY <1>2 DEF Claim
  <2>2. PICK fence \in Nat : fence = attempts[a].job.fence + 1
    BY <1>1 DEF Job
  <2>3. job = [attempts[a].job EXCEPT !.fence = fence, !.owner = w, !.leased = TRUE]
    BY <1>2, <2>2
  <2> QED BY <1>1, <2>1, <2>3 DEF Job
<1>4. /\ Writes(a) /\ HasJob(a)' /\ attempts'[a].job = job
      /\ \A b \in Attempt : Kept(b) /\ SameCore(b)
  BY <1>1, <1>3, JobIs DEF Intended
<1>5. worker'[w] = [Idle(attempts[a].job.fence + 1, a) EXCEPT !.step = "begin"]
  BY <1>1 DEF Claim, TypeOK
<1>6. /\ worker'[w] \in WorkerRecord /\ worker'[w].step = "begin"
      /\ worker'[w].attempt = a /\ worker'[w].phase = None
  BY <1>1, <1>5 DEF Idle, WorkerRecord, Steps, Job
<1>7. Moves(w)
  BY <1>1, <1>6 DEF Claim, Moves, TypeOK
<1>8. WorkerBound(w)' /\ ~At(w, "send")'
  <2>1. None # "stage" /\ None # "advertisement" /\ a # None
    BY RecordAssumption, NoneAssumption DEF Phases
  <2>2. Placed(w)' /\ PhaseHeld(w)'
    BY <1>4, <1>6, <2>1 DEF Placed, PhaseHeld, At
  <2>3. /\ AdmitBound(w)' /\ SendBound(w)' /\ ConfirmBound(w)' /\ TargetBound(w)' /\ AcceptBound(w)'
        /\ ~At(w, "send")'
    BY <1>6 DEF AdmitBound, SendBound, ConfirmBound, TargetBound, AcceptBound, At
  <2> QED BY <2>2, <2>3 DEF WorkerBound
<1>9. ASSUME NEW v \in Worker, v # w
      PROVE  worker'[v] = worker[v] /\ PhaseHeld(v)'
  <2>1. worker'[v] = worker[v]
    BY <1>1, <1>7, <1>9, OthersSame
  <2> QED BY <1>3, <1>4, <1>9, <2>1, LeaseLost
<1>10. worker' \in [Worker -> WorkerRecord]
  BY <1>1, <1>7, MovesTyped
<1> QED BY <1>1, <1>3, <1>4, <1>8, <1>9, <1>10, LeaseInv

LEMMA CompleteInv ==
  ASSUME FenceInv, NEW w \in Worker, Complete(w)
  PROVE  FenceInv'
<1>1. /\ TypeOK /\ ~At(w, "idle") /\ UNCHANGED <<head, views, branch, requests>>
  BY DEF Complete, At, FenceInv
<1>2. PICK a \in Attempt : a = worker[w].attempt
  BY <1>1, WorkerIs
<1>3. HasJob(a) /\ attempts[a].job \in Job /\ Mine(w) = attempts[a]
  BY <1>1, <1>2, WorkerIs
<1>4. PICK job : job = [attempts[a].job EXCEPT !.status = "COMPLETE"]
  OBVIOUS
<1>5. /\ job \in Job /\ job.owner = attempts[a].job.owner /\ job.fence = attempts[a].job.fence
      /\ job.expected = attempts[a].job.expected
      /\ job.intent = attempts[a].job.intent /\ SetJob(a, job)
  BY <1>2, <1>3, <1>4 DEF Job, Complete
<1>6. /\ Writes(a) /\ HasJob(a)' /\ attempts'[a].job = job
      /\ \A b \in Attempt : Kept(b) /\ SameCore(b)
  BY <1>1, <1>3, <1>5, JobIs DEF Intended
<1>7. /\ Moves(w) /\ worker'[w].step = "idle" /\ worker'[w].phase = None
      /\ worker'[w].attempt = a
  BY <1>1, <1>2, IdleIs DEF Complete
<1>8. WorkerBound(w)' /\ ~At(w, "send")'
  BY <1>6, <1>7, IdleBound DEF At
<1>9. \A v \in Worker : v # w => worker'[v] = worker[v] /\ PhaseHeld(v)'
  BY <1>1, <1>5, <1>6, <1>7, OthersSame, LeaseLost
<1>10. worker' \in [Worker -> WorkerRecord]
  BY <1>1, <1>7, MovesTyped
<1> QED BY <1>1, <1>5, <1>6, <1>8, <1>9, <1>10, LeaseInv

LEMMA LeaseEndsInv ==
  ASSUME FenceInv, NEW a \in Attempt, LeaseEnds(a)
  PROVE  FenceInv'
<1>1. /\ TypeOK /\ HasJob(a) /\ attempts[a].job \in Job
      /\ UNCHANGED <<head, views, branch, requests, worker>>
  BY DEF LeaseEnds, FenceInv, TypeOK, AttemptRecord, HasJob
<1>2. PICK job : job = [attempts[a].job EXCEPT !.leased = FALSE]
  OBVIOUS
<1>3. /\ job \in Job /\ job.owner = attempts[a].job.owner /\ job.fence = attempts[a].job.fence
      /\ job.expected = attempts[a].job.expected
      /\ job.intent = attempts[a].job.intent /\ SetJob(a, job)
  BY <1>1, <1>2 DEF Job, LeaseEnds
<1>4. /\ Writes(a) /\ attempts'[a].job = job /\ \A b \in Attempt : Kept(b) /\ SameCore(b)
  BY <1>1, <1>3, JobIs DEF Intended
<1>5. \A v \in Worker : worker'[v] = worker[v] /\ PhaseHeld(v)'
  BY <1>1, <1>3, <1>4, LeaseLost
<1> QED BY <1>1, <1>3, <1>4, <1>5, LeaseInv DEF TypeOK

LEMMA ExpireInv ==
  ASSUME FenceInv, NEW a \in Attempt, Expire(a)
  PROVE  FenceInv'
<1>1. TypeOK /\ UNCHANGED <<head, views, branch, requests, worker>> /\ attempts[a] \in AttemptRecord
  BY DEF Expire, FenceInv, TypeOK
<1>2. attempts'[a] = [attempts[a] EXCEPT !.live = FALSE]
  BY <1>1 DEF Expire, TypeOK
<1>3. /\ attempts'[a] \in AttemptRecord
      /\ attempts'[a].state = attempts[a].state /\ attempts'[a].proofs = attempts[a].proofs
      /\ attempts'[a].result = attempts[a].result /\ attempts'[a].base = attempts[a].base
      /\ attempts'[a].commit = attempts[a].commit /\ attempts'[a].job = attempts[a].job
  BY <1>1, <1>2 DEF AttemptRecord
<1>4. Writes(a)
  BY <1>1, <1>3 DEF Expire, Writes, TypeOK
<1>5. Kept(a) /\ SameCore(a)
  BY <1>3 DEF Kept, SameCore, HasJob, Intended, Beyond, Published
<1>6. \A b \in Attempt : Kept(b) /\ SameCore(b)
  BY <1>1, <1>4, <1>5, WritesIs
<1>7. \A v \in Worker : worker'[v] = worker[v] /\ PhaseHeld(v)'
  BY <1>1, <1>3, <1>4, <1>6, LeaseLost
<1> QED BY <1>1, <1>3, <1>4, <1>6, <1>7, LeaseInv DEF TypeOK

-----------------------------------------------------------------------------
(* Attempts and the head.                                                  *)

\* A step that writes no job that was there.
LEMMA RecordInv ==
  ASSUME FenceInv, NEW a \in Attempt, Writes(a), UNCHANGED <<branch, requests>>, Kept(a),
         IF HasJob(a) THEN attempts'[a].job = attempts[a].job ELSE ~Intended(a)',
         TypeOK', HeadPart',
         \A v \in Worker : (WorkerBound(v)' /\ ~At(v, "send")') \/ worker'[v] = worker[v]
  PROVE  FenceInv'
<1>1. TypeOK /\ \A v \in Worker : WorkerBound(v)
  BY DEF FenceInv
<1>2. \A b \in Attempt : b # a => attempts'[b] = attempts[b] /\ Kept(b)
  BY <1>1, WritesIs
<1>3. Steady
  BY <1>1, <1>2 DEF Steady, Extended
<1>4. \A b \in Attempt : /\ HasJob(b) => attempts'[b].job = attempts[b].job
                         /\ Intended(b)' => Intended(b) /\ HasJob(b)
  BY <1>2 DEF Intended, HasJob
<1>5. Quiet
  <2>1. \A v \in Worker : At(v, "send")' => At(v, "send") /\ worker'[v].attempt = worker[v].attempt
    BY DEF At
  <2> QED BY <1>4, <2>1 DEF Quiet, Intended
<1>6. SameLeases
  BY <1>4 DEF SameLeases
<1>7. \A v \in Worker : WorkerBound(v)' \/ (worker'[v] = worker[v] /\ PhaseHeld(v)')
  BY <1>1, <1>3, <1>6, HeldKept
<1> QED BY <1>3, <1>5, <1>7, QuietInv

\* An attempt that is not written keeps its bound while the branch stays.
LEMMA OtherAttempt ==
  ASSUME FenceInv, NEW a \in Attempt, Writes(a), branch' = branch
  PROVE  \A b \in Attempt : b # a => AttemptBound(b)'
<1>1. \A b \in Attempt : b # a => attempts'[b] = attempts[b] /\ AttemptBound(b)
  BY WritesIs DEF FenceInv
<1> QED BY <1>1 DEF AttemptBound, HasJob, Published, Beyond, Staged, Advertises

LEMMA EnqueueInv ==
  ASSUME FenceInv, NEW a \in Attempt, Enqueue(a)
  PROVE  FenceInv'
<1>1. /\ TypeOK /\ attempts[a] \in AttemptRecord /\ attempts[a].state = "STAGED" /\ ~HasJob(a)
      /\ UNCHANGED <<head, views, branch, requests, worker>> /\ branch \in Commit
      /\ HeadBound /\ \A b \in Attempt : AttemptBound(b) /\ PublishedBound(b)
  BY DEF Enqueue, FenceInv, TypeOK
<1>2. PICK job : job = [expected |-> branch, fence |-> 0, owner |-> None, leased |-> FALSE,
                        status |-> "PENDING", intent |-> None,
                        identity |-> [phase \in Phases |-> None]]
  OBVIOUS
<1>3. job \in Job /\ job.expected = branch /\ job.intent = None
  BY <1>1, <1>2 DEF Job
<1>4. attempts'[a] = [attempts[a] EXCEPT !.job = job]
  BY <1>1, <1>2 DEF Enqueue, SetJob, TypeOK
<1>5. /\ attempts'[a] \in AttemptRecord /\ attempts'[a].job = job
      /\ attempts'[a].state = attempts[a].state /\ attempts'[a].proofs = attempts[a].proofs
      /\ attempts'[a].result = attempts[a].result /\ attempts'[a].base = attempts[a].base
      /\ attempts'[a].commit = attempts[a].commit
  BY <1>1, <1>3, <1>4 DEF AttemptRecord
<1>6. Writes(a)
  BY <1>1, <1>2, <1>4, <1>5 DEF Writes, Enqueue, SetJob, TypeOK
<1>7. Kept(a) /\ ~Intended(a)' /\ HasJob(a)'
  BY <1>1, <1>3, <1>5, RecordAssumption DEF Kept, Intended, HasJob
<1>8. /\ attempts' \in [Attempt -> AttemptRecord]
      /\ \A b \in Attempt : b # a => attempts'[b] = attempts[b]
  BY <1>1, <1>6, WritesIs
<1>9. TypeOK'
  BY <1>1, <1>8 DEF TypeOK
<1>10. ~Published(a)
  BY <1>1 DEF AttemptBound, Beyond
<1>11. HeadPart'
  <2>1. HeadBound'
    BY <1>1, <1>5, <1>8 DEF HeadBound
  <2>2. AttemptBound(a)'
    <3>1. Len(branch) <= Len(branch)
      BY <1>1, PrefixLength
    <3> QED BY <1>1, <1>3, <1>5, <1>7, <1>10, <3>1 DEF AttemptBound, Published
  <2>3. \A b \in Attempt : AttemptBound(b)'
    BY <1>1, <1>6, <2>2, OtherAttempt
  <2>4. ASSUME NEW b \in Attempt, Published(b)' PROVE PublishedBound(b)'
    <3>1. b # a /\ Published(b) /\ attempts'[b] = attempts[b]
      BY <1>5, <1>8, <1>10, <2>4 DEF Published
    <3>2. PublishedBound(b) /\ Len(attempts[b].commit) <= Len(branch)
      BY <1>1, <3>1 DEF AttemptBound
    <3>3. ASSUME NEW c \in Attempt, HasJob(c)', attempts'[b].base < attempts'[c].base
          PROVE  Len(attempts'[b].commit) <= Len(attempts'[c].job.expected)
      <4>1. CASE c = a
        BY <1>3, <1>5, <3>1, <3>2, <4>1
      <4>2. CASE c # a
        BY <1>8, <3>1, <3>2, <3>3, <4>2 DEF PublishedBound, HasJob
      <4> QED BY <4>1, <4>2
    <3> QED BY <1>1, <3>1, <3>2, <3>3 DEF PublishedBound
  <2> QED BY <2>1, <2>3, <2>4 DEF HeadPart, PublishedBound
<1> QED BY <1>1, <1>6, <1>7, <1>9, <1>11, RecordInv

\* An attempt that gets a record without a job.
LEMMA FreshInv ==
  ASSUME FenceInv, NEW a \in Attempt, attempts[a].state = "ABSENT", Writes(a),
         attempts'[a].state = "STAGED", attempts'[a].job = None,
         "PUBLISHED" \notin attempts'[a].proofs,
         attempts'[a].result \in Digest, attempts'[a].base <= head.generation,
         head.last_verified = None => attempts'[a].base = 0,
         UNCHANGED <<head, views, branch, requests, worker>>
  PROVE  FenceInv'
<1>1. /\ TypeOK /\ ~HasJob(a) /\ HeadBound
      /\ \A b \in Attempt : AttemptBound(b) /\ PublishedBound(b)
  BY DEF FenceInv, AttemptBound
<1>2. Kept(a) /\ ~Intended(a)' /\ ~HasJob(a)'
  BY <1>1 DEF Kept, Intended, HasJob
<1>3. /\ attempts' \in [Attempt -> AttemptRecord]
      /\ \A b \in Attempt : b # a => attempts'[b] = attempts[b]
  BY <1>1, WritesIs
<1>4. TypeOK'
  BY <1>1, <1>3 DEF TypeOK
<1>5. HeadBound'
  BY <1>1, <1>3 DEF HeadBound
<1>6. \A b \in Attempt : AttemptBound(b)'
  <2>1. AttemptBound(a)'
    BY <1>2 DEF AttemptBound, Published
  <2> QED BY <2>1, OtherAttempt
<1>7. \A b \in Attempt : PublishedBound(b)'
  BY <1>1, <1>2, <1>3 DEF PublishedBound, Published, HasJob
<1> QED BY <1>1, <1>2, <1>4, <1>5, <1>6, <1>7, RecordInv DEF HeadPart

LEMMA PrepareInv ==
  ASSUME FenceInv, NEW a \in Attempt, NEW result \in Digest, Prepare(a, result)
  PROVE  FenceInv'
<1>1. /\ TypeOK /\ HeadBound /\ attempts[a].state = "ABSENT"
      /\ head.digest \in Digest \cup {None} /\ head.generation \in Nat
      /\ UNCHANGED <<head, views, branch, requests, worker>>
  BY DEF Prepare, FenceInv, TypeOK
<1>2. attempts'[a] = [Absent EXCEPT !.state = "STAGED", !.previous = head.digest, !.result = result,
                                    !.base = head.generation, !.live = TRUE]
  BY <1>1 DEF Prepare, TypeOK
<1>3. /\ attempts'[a] \in AttemptRecord
      /\ attempts'[a].state = "STAGED" /\ attempts'[a].job = None /\ attempts'[a].proofs = {}
      /\ attempts'[a].result = result /\ attempts'[a].base = head.generation
  BY <1>1, <1>2 DEF Absent, AttemptRecord
<1>4. Writes(a)
  BY <1>1, <1>2, <1>3 DEF Writes, Prepare, TypeOK
<1>5. head.last_verified = None => head.generation = 0
  BY <1>1 DEF Prepare, HeadBound
<1> QED BY <1>1, <1>3, <1>4, <1>5, FreshInv

LEMMA AdoptInv ==
  ASSUME FenceInv, NEW a \in Attempt, NEW p \in Attempt, Adopt(a, p)
  PROVE  FenceInv'
<1>1. /\ TypeOK /\ HeadBound /\ AttemptBound(p) /\ attempts[a].state = "ABSENT"
      /\ attempts[p] \in AttemptRecord
      /\ UNCHANGED <<head, views, branch, requests, worker>>
  BY DEF Adopt, FenceInv, TypeOK
<1>2. /\ attempts[p].result \in Digest /\ attempts[p].base \in Nat
      /\ attempts[p].base <= head.generation
      /\ head.last_verified = None => attempts[p].base = 0
  BY <1>1 DEF Adopt, AttemptBound, HeadBound, AttemptRecord
<1>3. attempts'[a] = [Absent EXCEPT !.state = "STAGED", !.proofs = {"REAUTHORIZED"}, !.parent = p,
                                    !.result = attempts[p].result, !.base = attempts[p].base,
                                    !.live = TRUE]
  BY <1>1 DEF Adopt, TypeOK
<1>4. /\ attempts'[a] \in AttemptRecord
      /\ attempts'[a].state = "STAGED" /\ attempts'[a].job = None
      /\ attempts'[a].proofs = {"REAUTHORIZED"}
      /\ attempts'[a].result = attempts[p].result /\ attempts'[a].base = attempts[p].base
  BY <1>2, <1>3, ZenonT(40) DEF Absent, AttemptRecord
<1>5. Writes(a)
  BY <1>1, <1>3, <1>4 DEF Writes, Adopt, TypeOK
<1> QED BY <1>1, <1>2, <1>4, <1>5, FreshInv

\* The head's bounds, if neither the head nor what is published changes.
LEMMA SamePublished ==
  ASSUME FenceInv, NEW a \in Attempt, Writes(a), UNCHANGED <<head, views, branch>>,
         HasJob(a), attempts'[a].job = attempts[a].job,
         attempts'[a].proofs = attempts[a].proofs, attempts'[a].base = attempts[a].base,
         attempts'[a].result = attempts[a].result,
         Published(a) => attempts'[a].commit = attempts[a].commit,
         AttemptBound(a)'
  PROVE  HeadPart'
<1>1. TypeOK /\ HeadBound /\ \A b \in Attempt : PublishedBound(b)
  BY DEF FenceInv
<1>2. \A b \in Attempt : b # a => attempts'[b] = attempts[b]
  BY <1>1, WritesIs
<1>3. HeadBound'
  BY <1>1, <1>2 DEF HeadBound
<1>4. \A b \in Attempt : AttemptBound(b)'
  BY OtherAttempt
<1>5. \A b \in Attempt : /\ HasJob(b)' <=> HasJob(b)
                         /\ attempts'[b].job = attempts[b].job
                         /\ attempts'[b].base = attempts[b].base
                         /\ attempts'[b].result = attempts[b].result
                         /\ Published(b)' <=> Published(b)
                         /\ Published(b) => attempts'[b].commit = attempts[b].commit
  BY <1>2 DEF HasJob, Published
<1>6. \A b \in Attempt : PublishedBound(b)'
  BY <1>1, <1>5 DEF PublishedBound
<1> QED BY <1>3, <1>4, <1>6 DEF HeadPart

LEMMA AcceptStagedInv ==
  ASSUME FenceInv, NEW w \in Worker, AcceptStaged(w)
  PROVE  FenceInv'
<1>1. /\ TypeOK /\ At(w, "accept") /\ ~At(w, "idle") /\ worker[w].phase = "stage"
      /\ Goto(w, "resume") /\ UNCHANGED <<head, views, branch, requests>>
  BY DEF AcceptStaged, At, FenceInv
<1>2. PICK a \in Attempt : a = worker[w].attempt
  BY <1>1, WorkerIs
<1>3. /\ HasJob(a) /\ Mine(w) = attempts[a] /\ WorkerBound(w) /\ attempts[a].state = "STAGED"
      /\ attempts[a] \in AttemptRecord /\ AttemptBound(a) /\ a # None
  BY <1>1, <1>2, WorkerIs, NoneAssumption DEF AcceptStaged, FenceInv
<1>4. PICK target \in Commit : /\ target = worker[w].target
                               /\ target = Append(attempts[a].job.expected, Staged(a))
                               /\ Len(target) <= Len(branch)
  BY <1>1, <1>2, <1>3, RecordAssumption DEF WorkerBound, TargetBound, AcceptBound, At, Phases
<1>5. attempts'[a] = [attempts[a] EXCEPT !.state = "REMOTE_VERIFIED", !.commit = target]
  BY <1>1, <1>2, <1>4 DEF AcceptStaged, TypeOK
<1>6. /\ attempts'[a] \in AttemptRecord
      /\ attempts'[a].state = "REMOTE_VERIFIED" /\ attempts'[a].commit = target
      /\ attempts'[a].proofs = attempts[a].proofs /\ attempts'[a].job = attempts[a].job
      /\ attempts'[a].result = attempts[a].result /\ attempts'[a].base = attempts[a].base
  BY <1>3, <1>5 DEF AttemptRecord
<1>7. Writes(a)
  BY <1>1, <1>2, <1>4, <1>5, <1>6 DEF Writes, AcceptStaged, TypeOK
<1>8. ~Published(a) /\ ~Beyond(a)
  BY <1>3 DEF AttemptBound, Beyond
<1>9. Kept(a)
  BY <1>3, <1>6, <1>8 DEF Kept, HasJob, Intended
<1>10. /\ Moves(w) /\ worker'[w].step = "resume"
       /\ worker'[w].attempt = a /\ worker'[w].fence = worker[w].fence
       /\ worker'[w].phase = "stage"
  BY <1>1, <1>2, GotoIs DEF Steps
<1>11. TypeOK'
  BY <1>1, <1>7, <1>10, WritesIs, MovesTyped DEF TypeOK
<1>12. AttemptBound(a)'
  BY <1>1, <1>3, <1>4, <1>6, <1>8 DEF AttemptBound, HasJob, Published, Beyond, Staged
<1>13. HeadPart'
  BY <1>1, <1>3, <1>6, <1>7, <1>8, <1>12, SamePublished
<1>14. WorkerBound(w)' /\ ~At(w, "send")'
  <2>1. Placed(w)'
    BY <1>3, <1>6, <1>10 DEF Placed, At, HasJob
  <2>2. PhaseHeld(w)'
    BY <1>1, <1>2, <1>3, <1>6, <1>10 DEF WorkerBound, PhaseHeld, Holds, Mine, Intended, HasJob
  <2>3. /\ AdmitBound(w)' /\ SendBound(w)' /\ ConfirmBound(w)' /\ TargetBound(w)' /\ AcceptBound(w)'
        /\ ~At(w, "send")'
    BY <1>10 DEF AdmitBound, SendBound, ConfirmBound, TargetBound, AcceptBound, At
  <2> QED BY <2>1, <2>2, <2>3 DEF WorkerBound
<1>15. \A v \in Worker : v # w => worker'[v] = worker[v]
  BY <1>1, <1>10, OthersSame
<1> QED BY <1>1, <1>3, <1>6, <1>7, <1>9, <1>11, <1>13, <1>14, <1>15, RecordInv

LEMMA FailInv ==
  ASSUME FenceInv, NEW a \in Attempt, Fail(a)
  PROVE  FenceInv'
<1>1. /\ TypeOK /\ attempts[a] \in AttemptRecord /\ AttemptBound(a)
      /\ attempts[a].state # "ABSENT"
      /\ UNCHANGED <<head, views, branch, requests, worker>>
      /\ HeadBound /\ \A b \in Attempt : PublishedBound(b)
  BY DEF Fail, FenceInv, TypeOK
<1>2. attempts'[a] = [attempts[a] EXCEPT !.state = "FAILED"]
  BY <1>1 DEF Fail, TypeOK
<1>3. /\ attempts'[a] \in AttemptRecord /\ attempts'[a].state = "FAILED"
      /\ attempts'[a].commit = attempts[a].commit
      /\ attempts'[a].proofs = attempts[a].proofs /\ attempts'[a].job = attempts[a].job
      /\ attempts'[a].result = attempts[a].result /\ attempts'[a].base = attempts[a].base
  BY <1>1, <1>2 DEF AttemptRecord
<1>4. Writes(a)
  BY <1>1, <1>2, <1>3 DEF Writes, Fail, TypeOK
<1>5. Kept(a) /\ (~HasJob(a) => ~Intended(a)')
  BY <1>3 DEF Kept, HasJob, Intended, Beyond, Published
<1>6. /\ attempts' \in [Attempt -> AttemptRecord]
      /\ \A b \in Attempt : b # a => attempts'[b] = attempts[b]
  BY <1>1, <1>4, WritesIs
<1>7. TypeOK'
  BY <1>1, <1>6 DEF TypeOK
<1>8. AttemptBound(a)'
  BY <1>1, <1>3 DEF AttemptBound, HasJob, Published, Beyond, Staged
<1>9. \A b \in Attempt : AttemptBound(b)'
  BY <1>1, <1>4, <1>8, OtherAttempt
<1>10. \A b \in Attempt : /\ HasJob(b)' <=> HasJob(b)
                          /\ attempts'[b].job = attempts[b].job
                          /\ attempts'[b].base = attempts[b].base
                          /\ attempts'[b].result = attempts[b].result
                          /\ attempts'[b].commit = attempts[b].commit
                          /\ Published(b)' <=> Published(b)
  BY <1>3, <1>6 DEF HasJob, Published
<1>11. HeadBound' /\ \A b \in Attempt : PublishedBound(b)'
  BY <1>1, <1>10 DEF HeadBound, PublishedBound
<1> QED BY <1>1, <1>3, <1>4, <1>5, <1>7, <1>9, <1>11, RecordInv DEF HeadPart

LEMMA AcceptAdvertisedInv ==
  ASSUME FenceInv, NEW w \in Worker, AcceptAdvertised(w)
  PROVE  FenceInv'
<1>1. /\ TypeOK /\ At(w, "accept") /\ ~At(w, "idle") /\ worker[w].phase = "advertisement"
      /\ Goto(w, "complete") /\ UNCHANGED <<branch, requests>>
      /\ HeadBound /\ \A b \in Attempt : AttemptBound(b) /\ PublishedBound(b)
  BY DEF AcceptAdvertised, At, FenceInv
<1>2. PICK a \in Attempt : a = worker[w].attempt
  BY <1>1, WorkerIs
<1>3. /\ HasJob(a) /\ Mine(w) = attempts[a] /\ WorkerBound(w)
      /\ attempts[a] \in AttemptRecord /\ AttemptBound(a) /\ a # None
      /\ attempts[a].state = "PUBLISHED" /\ head.digest = attempts[a].result
      /\ head.generation = attempts[a].base + 1 /\ attempts[a].base \in Nat
      /\ Advertises(a, attempts[a].base + 1)
  BY <1>1, <1>2, WorkerIs, NoneAssumption
     DEF AcceptAdvertised, OwnsHead, FenceInv, WorkerBound, AcceptBound, AttemptRecord
<1>4. Published(a) /\ attempts[a].result \in Digest
  BY <1>3 DEF AttemptBound
<1>5. attempts'[a] = [attempts[a] EXCEPT !.state = "POST_VERIFIED"]
  BY <1>1, <1>2 DEF AcceptAdvertised, TypeOK
<1>6. /\ attempts'[a] \in AttemptRecord
      /\ attempts'[a].state = "POST_VERIFIED" /\ attempts'[a].commit = attempts[a].commit
      /\ attempts'[a].proofs = attempts[a].proofs /\ attempts'[a].job = attempts[a].job
      /\ attempts'[a].result = attempts[a].result /\ attempts'[a].base = attempts[a].base
  BY <1>3, <1>5 DEF AttemptRecord
<1>7. Writes(a)
  BY <1>1, <1>2, <1>5, <1>6 DEF Writes, AcceptAdvertised, TypeOK
<1>8. Kept(a)
  BY <1>3, <1>6 DEF Kept, HasJob, Intended, Beyond, Published
<1>9. /\ Moves(w) /\ worker'[w].step = "complete"
      /\ worker'[w].attempt = a /\ worker'[w].fence = worker[w].fence
      /\ worker'[w].phase = "advertisement"
  BY <1>1, <1>2, GotoIs DEF Steps
<1>10. /\ attempts' \in [Attempt -> AttemptRecord]
       /\ \A b \in Attempt : b # a => attempts'[b] = attempts[b]
  BY <1>1, <1>7, WritesIs
<1>11. head' = [head EXCEPT !.last_verified = head.digest] /\ views' = views \cup {head.digest}
  BY DEF AcceptAdvertised
<1>12. /\ head' \in [digest : Digest \cup {None}, generation : Nat, last_verified : Digest \cup {None}]
       /\ head'.digest = head.digest /\ head'.generation = head.generation
       /\ head'.last_verified = head.digest
  BY <1>1, <1>11 DEF TypeOK
<1>13. TypeOK'
  BY <1>1, <1>3, <1>4, <1>9, <1>10, <1>11, <1>12, MovesTyped DEF TypeOK
<1>14. HeadPart'
  <2>1. head.digest # None
    BY <1>3, <1>4, NoneAssumption
  <2>2. \A b \in Attempt : /\ HasJob(b)' <=> HasJob(b)
                           /\ attempts'[b].job = attempts[b].job
                           /\ attempts'[b].base = attempts[b].base
                           /\ attempts'[b].result = attempts[b].result
                           /\ attempts'[b].commit = attempts[b].commit
                           /\ Published(b)' <=> Published(b)
    BY <1>6, <1>10 DEF HasJob, Published
  <2>3. HeadBound'
    BY <1>1, <1>12, <2>1, <2>2 DEF HeadBound
  <2>4. AttemptBound(a)'
    <3>1. Advertises(a, attempts[a].base + 1)'
      BY <1>1, <1>3, <1>6 DEF Advertises
    <3> QED BY <1>1, <1>3, <1>4, <1>6, <3>1 DEF AttemptBound, HasJob, Published, Beyond, Staged
  <2>5. \A b \in Attempt : AttemptBound(b)'
    BY <1>1, <1>7, <2>4, OtherAttempt
  <2>6. \A b \in Attempt : PublishedBound(b)'
    BY <1>1, <1>12, <2>2 DEF PublishedBound
  <2> QED BY <2>3, <2>5, <2>6 DEF HeadPart
<1>15. WorkerBound(w)' /\ ~At(w, "send")'
  <2>1. Placed(w)' /\ PhaseHeld(w)'
    BY <1>3, <1>4, <1>6, <1>9 DEF Placed, PhaseHeld, At, HasJob, Beyond, Published
  <2>2. /\ AdmitBound(w)' /\ SendBound(w)' /\ ConfirmBound(w)' /\ TargetBound(w)' /\ AcceptBound(w)'
        /\ ~At(w, "send")'
    BY <1>9 DEF AdmitBound, SendBound, ConfirmBound, TargetBound, AcceptBound, At
  <2> QED BY <2>1, <2>2 DEF WorkerBound
<1>16. \A v \in Worker : v # w => worker'[v] = worker[v]
  BY <1>1, <1>9, OthersSame
<1> QED BY <1>1, <1>3, <1>6, <1>7, <1>8, <1>13, <1>14, <1>15, <1>16, RecordInv

\* A publication by the head's successor: whatever was published before is older
\* than the attempt, whose commit came after it.
LEMMA NewHead ==
  ASSUME FenceInv, NEW a \in Attempt, attempts[a].state = "REMOTE_VERIFIED",
         head.generation = attempts[a].base, NEW b \in Attempt, Published(b)
  PROVE  /\ b # a /\ attempts[b].base + 1 < attempts[a].base + 1
         /\ Len(attempts[b].commit) < Len(branch)
<1>1. /\ TypeOK /\ AttemptBound(a) /\ AttemptBound(b) /\ PublishedBound(b)
      /\ attempts[a].base \in Nat /\ attempts[b].base \in Nat
  BY DEF FenceInv, TypeOK, AttemptRecord
<1>2. attempts[b].base < attempts[a].base
  BY <1>1 DEF PublishedBound
<1>3. /\ HasJob(a) /\ HasJob(b)
      /\ attempts[a].commit = Append(attempts[a].job.expected, Staged(a))
      /\ Len(attempts[a].commit) <= Len(branch)
  BY <1>1 DEF AttemptBound
<1>4. Len(attempts[b].commit) <= Len(attempts[a].job.expected)
  BY <1>1, <1>2, <1>3 DEF PublishedBound
<1>5. /\ attempts[a].job.expected \in Commit /\ attempts[b].commit \in Commit
      /\ Staged(a) \in Entry /\ branch \in Commit
  BY <1>1, <1>3, JobCommits DEF Staged, Entry, Phases, TypeOK
<1>6. /\ Len(attempts[a].commit) = Len(attempts[a].job.expected) + 1
      /\ Len(attempts[a].job.expected) \in Nat /\ Len(attempts[b].commit) \in Nat
      /\ Len(branch) \in Nat
  BY <1>3, <1>5, AppendOne, PrefixLength
<1> QED BY <1>1, <1>2, <1>3, <1>4, <1>6, SMTT(30)

LEMMA PublishInv ==
  ASSUME FenceInv, NEW w \in Worker, Publish(w)
  PROVE  FenceInv'
<1>1. /\ TypeOK /\ At(w, "publish") /\ ~At(w, "idle")
      /\ Goto(w, "resume") /\ UNCHANGED <<views, branch, requests>>
      /\ HeadBound /\ \A b \in Attempt : AttemptBound(b) /\ PublishedBound(b)
  BY DEF Publish, At, FenceInv
<1>2. PICK a \in Attempt : a = worker[w].attempt
  BY <1>1, WorkerIs
<1>3. /\ HasJob(a) /\ Mine(w) = attempts[a] /\ WorkerBound(w)
      /\ attempts[a] \in AttemptRecord /\ a # None
      /\ attempts[a].state = "REMOTE_VERIFIED" /\ attempts[a].base \in Nat
  BY <1>1, <1>2, WorkerIs, NoneAssumption DEF Publish, AttemptRecord
<1>4. attempts[a].result \in Digest
  BY <1>1, <1>3 DEF AttemptBound
<1>5. attempts'[a] = [attempts[a] EXCEPT !.state = "PUBLISHED", !.proofs = @ \cup {"PUBLISHED"}]
  BY <1>1, <1>2 DEF Publish, TypeOK
<1>6. /\ attempts'[a] \in AttemptRecord
      /\ attempts'[a].state = "PUBLISHED" /\ attempts'[a].commit = attempts[a].commit
      /\ attempts'[a].proofs = attempts[a].proofs \cup {"PUBLISHED"}
      /\ attempts'[a].job = attempts[a].job
      /\ attempts'[a].result = attempts[a].result /\ attempts'[a].base = attempts[a].base
  <2>1. PICK proofs \in SUBSET {"PUBLISHED", "REAUTHORIZED"} : proofs = attempts[a].proofs \cup {"PUBLISHED"}
    BY <1>3 DEF AttemptRecord
  <2>2. PICK r \in AttemptRecord : r = attempts[a]
    BY <1>3
  <2>3. attempts'[a] = [r EXCEPT !.state = "PUBLISHED", !.proofs = proofs]
    BY <1>5, <2>1, <2>2
  <2>4. [r EXCEPT !.state = "PUBLISHED", !.proofs = proofs] \in AttemptRecord
    BY DEF AttemptRecord
  <2>5. /\ attempts'[a].state = "PUBLISHED" /\ attempts'[a].proofs = proofs
        /\ attempts'[a].commit = r.commit /\ attempts'[a].job = r.job
        /\ attempts'[a].result = r.result /\ attempts'[a].base = r.base
    BY <2>3 DEF AttemptRecord
  <2> QED BY <2>1, <2>2, <2>3, <2>4, <2>5
<1>7. Writes(a)
  BY <1>1, <1>2, <1>5, <1>6 DEF Writes, Publish, TypeOK
<1>8. Kept(a)
  BY <1>3, <1>6 DEF Kept, HasJob, Intended, Beyond, Published
<1>9. /\ Moves(w) /\ worker'[w].step = "resume"
      /\ worker'[w].attempt = a /\ worker'[w].fence = worker[w].fence
      /\ worker'[w].phase = worker[w].phase
  BY <1>1, <1>2, GotoIs DEF Steps
<1>10. /\ attempts' \in [Attempt -> AttemptRecord]
       /\ \A b \in Attempt : b # a => attempts'[b] = attempts[b]
  BY <1>1, <1>7, WritesIs
<1>11. /\ head' \in [digest : Digest \cup {None}, generation : Nat, last_verified : Digest \cup {None}]
       /\ head'.digest = attempts[a].result /\ head'.generation = attempts[a].base + 1
       /\ head'.last_verified = head.last_verified
  <2>1. PICK generation \in Nat : generation = attempts[a].base + 1
    BY <1>3
  <2>2. head' = [head EXCEPT !.digest = attempts[a].result, !.generation = generation]
    BY <1>3, <2>1 DEF Publish
  <2> QED BY <1>1, <1>4, <2>1, <2>2 DEF TypeOK
<1>12. TypeOK'
  BY <1>1, <1>9, <1>10, <1>11, MovesTyped DEF TypeOK
<1>13. \A b \in Attempt : attempts[b].base \in Nat
  BY <1>1 DEF TypeOK, AttemptRecord
<1>14. \/ head.generation = attempts[a].base
       \/ /\ head.generation = attempts[a].base + 1 /\ head.digest = attempts[a].result
          /\ head.last_verified = None
  BY <1>3 DEF Publish
<1>15. \A b \in Attempt : /\ HasJob(b)' <=> HasJob(b)
                          /\ attempts'[b].job = attempts[b].job
                          /\ attempts'[b].base = attempts[b].base
                          /\ attempts'[b].result = attempts[b].result
                          /\ attempts'[b].commit = attempts[b].commit
                          /\ Published(b)' <=> Published(b) \/ b = a
  BY <1>6, <1>10 DEF HasJob, Published
<1>16. HeadBound'
  <2>1. head'.digest # None
    BY <1>4, <1>11, NoneAssumption
  <2>2. \A b \in Attempt : attempts'[b].base <= head'.generation
    BY <1>1, <1>3, <1>11, <1>13, <1>14, <1>15 DEF HeadBound
  <2> QED BY <1>1, <1>11, <1>15, <2>1, <2>2 DEF HeadBound
<1>17. AttemptBound(a)'
  BY <1>1, <1>3, <1>4, <1>6 DEF AttemptBound, HasJob, Published, Beyond, Staged
<1>18. \A b \in Attempt : AttemptBound(b)'
  BY <1>1, <1>7, <1>17, OtherAttempt
<1>19. ASSUME NEW b \in Attempt, Published(b)' PROVE PublishedBound(b)'
  <2>1. CASE head.generation = attempts[a].base
    <3>1. CASE b = a
      <4>1. \A c \in Attempt : ~(attempts'[b].base < attempts'[c].base)
        BY <1>1, <1>13, <1>15, <2>1, <3>1 DEF HeadBound
      <4> QED BY <1>3, <1>11, <1>15, <3>1, <4>1 DEF PublishedBound
    <3>2. CASE b # a
      <4>1. Published(b) /\ PublishedBound(b)
        BY <1>1, <1>15, <1>19, <3>2
      <4>2. /\ attempts[b].base + 1 < attempts[a].base + 1
            /\ Len(attempts[b].commit) < Len(branch)
        BY <1>3, <2>1, <4>1, NewHead
      <4> QED BY <1>1, <1>3, <1>11, <1>13, <1>15, <4>1, <4>2 DEF PublishedBound
    <3> QED BY <3>1, <3>2
  <2>2. CASE /\ head.generation = attempts[a].base + 1 /\ head.digest = attempts[a].result
             /\ head.last_verified = None
    <3>1. \A c \in Attempt : attempts[c].base = 0
      BY <1>1, <2>2 DEF HeadBound
    <3>2. CASE b = a
      BY <1>3, <1>11, <1>15, <3>1, <3>2 DEF PublishedBound
    <3>3. CASE b # a
      BY <1>1, <1>11, <1>15, <1>19, <2>2, <3>3 DEF PublishedBound
    <3> QED BY <3>2, <3>3
  <2> QED BY <1>14, <2>1, <2>2
<1>20. HeadPart'
  BY <1>16, <1>18, <1>19 DEF HeadPart, PublishedBound
<1>21. WorkerBound(w)' /\ ~At(w, "send")'
  <2>1. Placed(w)'
    BY <1>1, <1>2, <1>3, <1>6, <1>9 DEF WorkerBound, Placed, At, HasJob, Beyond, Published
  <2>2. PhaseHeld(w)'
    BY <1>2, <1>3, <1>6, <1>9 DEF WorkerBound, PhaseHeld, Holds, Mine, Intended, HasJob
  <2>3. /\ AdmitBound(w)' /\ SendBound(w)' /\ ConfirmBound(w)' /\ TargetBound(w)' /\ AcceptBound(w)'
        /\ ~At(w, "send")'
    BY <1>9 DEF AdmitBound, SendBound, ConfirmBound, TargetBound, AcceptBound, At
  <2> QED BY <2>1, <2>2, <2>3 DEF WorkerBound
<1>22. \A v \in Worker : v # w => worker'[v] = worker[v]
  BY <1>1, <1>9, OthersSame
<1> QED BY <1>1, <1>3, <1>6, <1>7, <1>8, <1>12, <1>20, <1>21, <1>22, RecordInv

-----------------------------------------------------------------------------
(* Intents, requests and the branch.                                       *)

LEMMA LoseInv ==
  ASSUME FenceInv, NEW r, Lose(r)
  PROVE  FenceInv'
<1>1. /\ TypeOK /\ HeadPart /\ requests' \subseteq requests
      /\ UNCHANGED <<head, views, attempts, branch, worker>>
  BY Parts DEF Lose
<1>2. TypeOK'
  BY <1>1 DEF TypeOK
<1>3. Steady
  BY <1>1, <1>2 DEF Steady, Extended, Kept, HasJob, Intended, Beyond, Published
<1>4. Quiet /\ Still /\ SameLeases
  BY <1>1 DEF Quiet, Still, SameLeases, SameCore, HasJob, Intended, At
<1>5. HeadPart'
  BY <1>1, <1>3, <1>4, StillHead
<1>6. \A v \in Worker : worker'[v] = worker[v] /\ PhaseHeld(v)'
  BY <1>1, <1>3, <1>4, HeldKept DEF FenceInv
<1> QED BY <1>3, <1>4, <1>5, <1>6, QuietInv

\* A change that may still be asked for, when the intent of an attempt is resolved
\* whose target the branch already has.
LEMMA ResolvedLive ==
  ASSUME FenceInv, Steady, branch' = branch, NEW b \in Attempt, Intended(b),
         NEW phase, NEW expected, NEW target,
         Change(b, phase, expected, target), Live(b, expected, target),
         \/ attempts'[b] = attempts[b]
         \/ IsPrefix(attempts[b].job.intent.target, branch)
  PROVE  Live(b, expected, target)'
<1>1. HasJob(b)
  BY DEF Intended
<1>2. expected \in Commit /\ target \in Commit /\ \E e \in Entry : target = Append(expected, e)
  BY <1>1, ChangeIs
<1>3. Intended(b)' /\ Behind(expected)'
  BY <1>1, <1>2, BehindKept DEF Live, Steady, Kept
<1>4. CASE attempts'[b] = attempts[b]
  BY <1>3, <1>4 DEF Live, Pending, InFlight, IntentOf, HasJob
<1>5. CASE IsPrefix(attempts[b].job.intent.target, branch)
  <2>1. ASSUME expected = branch PROVE FALSE
    <3>1. IsPrefix(target, branch)
      BY <1>5, <2>1 DEF Live, Pending
    <3>2. Len(target) = Len(branch) + 1 /\ Len(branch) \in Nat
      BY <1>2, <2>1, AppendOne
    <3>3. branch \in Commit
      BY <1>2, <2>1
    <3>4. Len(target) <= Len(branch)
      BY <1>2, <3>1, <3>3, PrefixLength
    <3> QED BY <3>2, <3>4
  <2> QED BY <1>3, <2>1 DEF Live
<1> QED BY <1>4, <1>5

\* A step that resolves the intent of a as the branch says.
LEMMA ResolveInv ==
  ASSUME FenceInv, NEW a \in Attempt, Intended(a), Writes(a),
         UNCHANGED <<head, views, branch, requests>>,
         \A b \in Attempt : Kept(b) /\ SameCore(b),
         attempts'[a].job.owner = attempts[a].job.owner,
         attempts'[a].job.fence = attempts[a].job.fence,
         NEW status \in {"CONFIRMED", "ABORTED"},
         attempts'[a].job.intent = [attempts[a].job.intent EXCEPT !.status = status],
         IF status = "CONFIRMED"
           THEN IsPrefix(attempts[a].job.intent.target, branch)
           ELSE ~IsPrefix(attempts[a].job.intent.target, branch) /\ Drained(a),
         worker' \in [Worker -> WorkerRecord],
         \A v \in Worker : (WorkerBound(v)' /\ ~At(v, "send")') \/ worker'[v] = worker[v]
  PROVE  FenceInv'
<1>1. TypeOK /\ HeadPart /\ WirePart /\ \A v \in Worker : WorkerBound(v)
  BY Parts
<1>2. attempts' \in [Attempt -> AttemptRecord] /\ \A b \in Attempt : b # a => attempts'[b] = attempts[b]
  BY <1>1, WritesIs
<1>3. Steady
  BY <1>1, <1>2 DEF Steady, Extended, TypeOK
<1>4. /\ attempts[a].job.intent \in Intent
      /\ attempts'[a].job.intent.phase = attempts[a].job.intent.phase
      /\ attempts'[a].job.intent.expected = attempts[a].job.intent.expected
      /\ attempts'[a].job.intent.target = attempts[a].job.intent.target
      /\ attempts'[a].job.intent.status = status
      /\ HasJob(a) /\ Intended(a)'
  BY <1>3 DEF Intended, Intent, Steady, Kept
<1>5. Still /\ SameLeases
  <2>1. \A b \in Attempt : b # a => (Intended(b)' <=> Intended(b))
    BY <1>2 DEF Intended, HasJob
  <2> QED BY <1>2, <1>4, <2>1 DEF Still, SameLeases, Intended
<1>6. HeadPart'
  BY <1>1, <1>3, <1>5, StillHead
<1>7. \A b \in Attempt : InFlight(b)' => InFlight(b) /\ b # a
  <2>1. ~InFlight(a)'
    BY <1>3, <1>4, IntentWillBe DEF Steady
  <2> QED BY <1>2, <2>1 DEF InFlight, IntentOf, HasJob
<1>8. \A b \in Attempt : Drained(b) => Drained(b)'
  BY DEF Drained, At
<1>9. \A b \in Attempt : IntentBound(b)'
  <2>1. ASSUME NEW b \in Attempt PROVE IntentBound(b)'
    <3>1. IntentBound(b)
      BY <1>1 DEF WirePart
    <3>2. HasJob(b) => \A phase, expected, target :
            Change(b, phase, expected, target) => Change(b, phase, expected, target)'
      BY <1>3, ChangeKept
    <3>3. HasJob(b) /\ Beyond(b) => Beyond(b)'
      BY <1>3 DEF Steady, Kept
    <3>4. CASE b = a
      BY <1>4, <1>8, <3>1, <3>2, <3>3, <3>4 DEF IntentBound
    <3>5. CASE b # a
      <4>1. attempts'[b].job = attempts[b].job /\ (Intended(b)' <=> Intended(b) /\ HasJob(b))
        BY <1>2, <3>5 DEF Intended, HasJob
      <4> QED BY <1>8, <3>1, <3>2, <3>3, <4>1 DEF IntentBound
    <3> QED BY <3>4, <3>5
  <2> QED BY <2>1
<1>10. \A r \in requests' : RequestBound(r)'
  <2>1. ASSUME NEW r \in requests PROVE RequestBound(r)'
    <3>1. /\ RequestBound(r) /\ r.attempt \in Attempt /\ Intended(r.attempt)
          /\ Live(r.attempt, r.expected, r.target)
      BY <1>1 DEF WirePart, RequestBound, Live, TypeOK
    <3>2. PICK phase \in Phases : Change(r.attempt, phase, r.expected, r.target)
      BY <3>1 DEF RequestBound
    <3>3. r.attempt = a => IsPrefix(attempts[a].job.intent.target, branch)
      BY DEF Drained
    <3>4. attempts'[r.attempt] = attempts[r.attempt] \/ IsPrefix(attempts[r.attempt].job.intent.target, branch)
      BY <1>2, <3>1, <3>3
    <3>5. Live(r.attempt, r.expected, r.target)'
      BY <1>3, <3>1, <3>2, <3>4, ResolvedLive
    <3>6. Change(r.attempt, phase, r.expected, r.target)'
      BY <1>3, <3>1, <3>2, ChangeKept DEF Intended
    <3> QED BY <3>5, <3>6 DEF RequestBound
  <2> QED BY <2>1
<1>11. BranchBound'
  <2> SUFFICES ASSUME NEW i \in 1 .. Len(branch)
               PROVE  /\ Intended(branch[i].attempt)'
                      /\ branch[i] \in {Staged(branch[i].attempt), Advert(branch[i].attempt)}'
    BY DEF BranchBound
  <2>1. branch[i] \in Entry
    BY <1>1, ElementOfSeq DEF TypeOK, Commit
  <2>2. PICK b \in Attempt : b = branch[i].attempt
    BY <2>1 DEF Entry
  <2>3. Intended(b) /\ HasJob(b) /\ branch[i] \in {Staged(b), Advert(b)}
    BY <1>1, <2>2 DEF WirePart, BranchBound, Intended
  <2>4. Intended(b)' /\ Staged(b)' = Staged(b) /\ Advert(b)' = Advert(b)
    BY <1>3, <2>3 DEF Staged, Advert, Steady, Kept
  <2> QED BY <2>2, <2>3, <2>4
<1>12. ASSUME NEW v \in Worker PROVE WorkerBound(v)'
  <2>1. CASE worker'[v] = worker[v]
    <3>1. PhaseHeld(v)'
      BY <1>1, <1>3, <1>5, <2>1, HeldKept
    <3>2. At(v, "send") => Live(worker[v].attempt, worker[v].expected, worker[v].target)'
      <4> SUFFICES ASSUME At(v, "send")
                   PROVE  Live(worker[v].attempt, worker[v].expected, worker[v].target)'
        OBVIOUS
      <4>1. PICK b, phase, expected, target :
              /\ b = worker[v].attempt /\ phase = worker[v].phase
              /\ expected = worker[v].expected /\ target = worker[v].target
        OBVIOUS
      <4>2. /\ b \in Attempt /\ Change(b, phase, expected, target) /\ Live(b, expected, target)
            /\ Intended(b)
        BY <1>1, <4>1, WorkerIs DEF WorkerBound, SendBound, At, Live
      <4>3. b = a => IsPrefix(attempts[a].job.intent.target, branch)
        BY <4>1 DEF Drained, At
      <4>4. attempts'[b] = attempts[b] \/ IsPrefix(attempts[b].job.intent.target, branch)
        BY <1>2, <4>2, <4>3
      <4>5. Live(b, expected, target)'
        BY <1>3, <4>2, <4>4, ResolvedLive
      <4> QED BY <2>1, <4>1, <4>5
    <3> QED BY <1>1, <1>3, <2>1, <3>1, <3>2, WorkerKept
  <2> QED BY <2>1
<1>13. OneInFlight'
  BY <1>1, <1>7 DEF WirePart, OneInFlight
<1> QED BY <1>3, <1>6, <1>9, <1>10, <1>11, <1>12, <1>13 DEF FenceInv, HeadPart, Steady

LEMMA ConfirmInv ==
  ASSUME FenceInv, NEW w \in Worker, Confirm(w)
  PROVE  FenceInv'
<1>1. /\ TypeOK /\ At(w, "confirm") /\ ~At(w, "idle")
      /\ UNCHANGED <<head, views, branch, requests>>
  BY DEF Confirm, At, FenceInv
<1>2. PICK a \in Attempt : a = worker[w].attempt
  BY <1>1, WorkerIs
<1>3. /\ HasJob(a) /\ attempts[a].job \in Job /\ Mine(w) = attempts[a] /\ WorkerBound(w) /\ a # None
  BY <1>1, <1>2, WorkerIs, NoneAssumption
<1>4. attempts[a].job.intent \in Intent /\ IsPrefix(attempts[a].job.intent.target, branch)
  BY <1>1, <1>3 DEF Confirm, WorkerBound, ConfirmBound
<1>5. PICK intent \in Intent : intent = [attempts[a].job.intent EXCEPT !.status = "CONFIRMED"]
  BY <1>4 DEF Intent
<1>6. PICK job : job = [attempts[a].job EXCEPT !.intent = intent]
  OBVIOUS
<1>7. SetJob(a, job)
  BY <1>2, <1>3, <1>5, <1>6 DEF Confirm
<1>8. /\ job \in Job /\ job.owner = attempts[a].job.owner /\ job.fence = attempts[a].job.fence
      /\ job.expected = attempts[a].job.expected /\ job.intent = intent
  BY <1>3, <1>6 DEF Job
<1>9. /\ Writes(a) /\ HasJob(a)' /\ attempts'[a].job = job
      /\ \A b \in Attempt : Kept(b) /\ SameCore(b)
  BY <1>1, <1>3, <1>7, <1>8, JobIs
<1>10. PICK step \in {"resume", "identify"} :
         /\ Goto(w, step)
         /\ step = "identify" => worker[w].phase # None
  BY DEF Confirm
<1>11. /\ Moves(w) /\ worker'[w].step = step
       /\ worker'[w].attempt = a /\ worker'[w].fence = worker[w].fence
       /\ worker'[w].phase = worker[w].phase /\ worker'[w].target = worker[w].target
  BY <1>1, <1>2, <1>10, GotoIs DEF Steps
<1>12. WorkerBound(w)' /\ ~At(w, "send")'
  <2>1. Placed(w)'
    <3>1. step = "identify" => worker[w].phase \in Phases
      BY <1>1, <1>10 DEF TypeOK, WorkerRecord
    <3> QED BY <1>1, <1>2, <1>3, <1>9, <1>11, <3>1 DEF WorkerBound, Placed, At, Kept
  <2>2. PhaseHeld(w)'
    <3>1. intent.phase = attempts[a].job.intent.phase
      BY <1>4, <1>5 DEF Intent
    <3> QED BY <1>2, <1>3, <1>4, <1>8, <1>9, <1>11, <3>1
            DEF WorkerBound, PhaseHeld, Holds, Mine, Intended
  <2>3. TargetBound(w)'
    BY <1>1, <1>2, <1>3, <1>8, <1>9, <1>11 DEF WorkerBound, TargetBound, At, Staged
  <2>4. AdmitBound(w)' /\ SendBound(w)' /\ ConfirmBound(w)' /\ AcceptBound(w)' /\ ~At(w, "send")'
    BY <1>11 DEF AdmitBound, SendBound, ConfirmBound, AcceptBound, At
  <2> QED BY <2>1, <2>2, <2>3, <2>4 DEF WorkerBound
<1>13. \A v \in Worker : v # w => worker'[v] = worker[v]
  BY <1>1, <1>11, OthersSame
<1>14. worker' \in [Worker -> WorkerRecord]
  BY <1>1, <1>11, MovesTyped
<1> QED BY <1>1, <1>3, <1>4, <1>5, <1>8, <1>9, <1>12, <1>13, <1>14, ResolveInv DEF Intended

LEMMA ReconcileInv ==
  ASSUME FenceInv, NEW a \in Attempt, Reconcile(a) \/ Abort(a)
  PROVE  FenceInv'
<1>1. /\ TypeOK /\ UNCHANGED <<head, views, branch, requests, worker>> /\ InFlight(a)
      /\ worker \in [Worker -> WorkerRecord]
  BY DEF Reconcile, Abort, FenceInv, TypeOK
<1>2. /\ HasJob(a) /\ attempts[a].job \in Job /\ Intended(a) /\ attempts[a].job.intent \in Intent
      /\ IntentOf(a) = attempts[a].job.intent
  BY <1>1, IntentIs DEF Intended, HasJob, TypeOK, AttemptRecord
<1>3. PICK status \in {"CONFIRMED", "ABORTED"} :
        /\ SetJob(a, [attempts[a].job EXCEPT !.intent.status = status])
        /\ IF status = "CONFIRMED" THEN Reconcile(a) ELSE Abort(a)
  BY DEF Reconcile, Abort
<1>4. PICK intent \in Intent : intent = [attempts[a].job.intent EXCEPT !.status = status]
  BY <1>2 DEF Intent
<1>5. PICK job : job = [attempts[a].job EXCEPT !.intent = intent]
  OBVIOUS
<1>6. SetJob(a, job)
  BY <1>3, <1>4, <1>5
<1>7. /\ job \in Job /\ job.owner = attempts[a].job.owner /\ job.fence = attempts[a].job.fence
      /\ job.expected = attempts[a].job.expected /\ job.intent = intent
  BY <1>2, <1>5 DEF Job
<1>8. /\ Writes(a) /\ HasJob(a)' /\ attempts'[a].job = job
      /\ \A b \in Attempt : Kept(b) /\ SameCore(b)
  BY <1>1, <1>2, <1>6, <1>7, JobIs
<1>9. IF status = "CONFIRMED"
        THEN IsPrefix(attempts[a].job.intent.target, branch)
        ELSE ~IsPrefix(attempts[a].job.intent.target, branch) /\ Drained(a)
  <2>1. branch \in Commit
    BY <1>1 DEF TypeOK
  <2>2. CASE status = "CONFIRMED"
    BY <1>2, <1>3, <2>1, <2>2, PrefixLength DEF Reconcile, Shows
  <2>3. CASE status = "ABORTED"
    <3>1. /\ branch = attempts[a].job.intent.expected
          /\ attempts[a].job.intent.expected # attempts[a].job.intent.target /\ Drained(a)
      BY <1>2, <1>3, <2>3 DEF Abort, Abortable
    <3>2. Change(a, attempts[a].job.intent.phase, branch, attempts[a].job.intent.target)
      BY <1>2, <3>1 DEF FenceInv, IntentBound
    <3>3. PICK target \in Commit : target = attempts[a].job.intent.target
      BY <1>2 DEF Intent
    <3>4. \E e \in Entry : target = Append(branch, e)
      BY <1>2, <3>2, <3>3, ChangeIs
    <3>5. Len(target) = Len(branch) + 1 /\ Len(branch) \in Nat
      BY <2>1, <3>4, AppendOne
    <3>6. ~IsPrefix(target, branch)
      BY <2>1, <3>5, PrefixLength
    <3> QED BY <2>3, <3>1, <3>3, <3>6
  <2> QED BY <2>2, <2>3
<1> QED BY <1>1, <1>2, <1>4, <1>7, <1>8, <1>9, ResolveInv

\* While no intent is in flight nothing that is still asked for can move the branch.
LEMMA NothingPending ==
  ASSUME FenceInv, Steady, branch' = branch, \A c \in Attempt : ~InFlight(c),
         NEW b \in Attempt, NEW expected \in Commit, NEW target, Live(b, expected, target)
  PROVE  Live(b, expected, target)'
<1>1. expected # branch /\ Intended(b) /\ Behind(expected)
  BY DEF Live, Pending
<1>2. Intended(b)' /\ Behind(expected)'
  BY <1>1, BehindKept DEF Steady, Kept, Intended
<1> QED BY <1>1, <1>2 DEF Live

LEMMA AdmitInv ==
  ASSUME FenceInv, NEW w \in Worker, Admit(w)
  PROVE  FenceInv'
<1>1. /\ TypeOK /\ At(w, "admit") /\ ~At(w, "idle") /\ Goto(w, "send")
      /\ UNCHANGED <<head, views, branch, requests>>
      /\ HeadPart /\ WirePart /\ \A v \in Worker : WorkerBound(v)
  BY Parts DEF Admit, At
<1>2. PICK a \in Attempt : a = worker[w].attempt
  BY <1>1, WorkerIs
<1>3. /\ HasJob(a) /\ attempts[a].job \in Job /\ Mine(w) = attempts[a] /\ WorkerBound(w) /\ a # None
      /\ worker[w] \in WorkerRecord /\ worker[w].phase \in Phases
  BY <1>1, <1>2, WorkerIs, NoneAssumption DEF WorkerBound, Placed, At
<1>4. PICK phase, expected, target :
        /\ phase = worker[w].phase /\ expected = worker[w].expected /\ target = worker[w].target
  OBVIOUS
<1>5. /\ expected \in Commit /\ target \in Commit /\ phase \in Phases /\ Behind(expected)
      /\ Change(a, phase, expected, target)
  <2>1. /\ expected \in Commit /\ target \in Commit /\ Behind(expected)
        /\ \/ Change(a, phase, expected, target)
           \/ phase = "stage" /\ Intended(a)
    BY <1>1, <1>2, <1>3, <1>4 DEF WorkerBound, AdmitBound
  <2>2. ASSUME phase = "stage", Intended(a) PROVE FALSE
    <3>1. attempts[a].job.intent # None /\ attempts[a].job.intent.phase \in Phases
      BY <2>2, RecordAssumption DEF Intended, Intent
    <3>2. attempts[a].job.intent.phase = "advertisement"
      BY <1>3, <1>4, <2>2, <3>1 DEF Admit, Admissible, SamePhase, Phases
    <3>3. Holds(w)
      BY <1>2, <1>3 DEF Admit, Admissible, Guard, Holds, Mine
    <3> QED BY <1>2, <1>3, <1>4, <2>2, <3>2, <3>3 DEF WorkerBound, PhaseHeld
  <2> QED BY <1>3, <1>4, <2>1, <2>2
<1>6. PICK intent : intent = [phase |-> phase, expected |-> expected, target |-> target,
                              status |-> "IN_FLIGHT", fence |-> worker[w].fence]
  OBVIOUS
<1>7. /\ intent \in Intent /\ intent.phase = phase /\ intent.expected = expected
      /\ intent.target = target /\ intent.status = "IN_FLIGHT"
  BY <1>3, <1>5, <1>6 DEF Intent, WorkerRecord
<1>8. PICK job : job = [attempts[a].job EXCEPT !.intent = intent]
  OBVIOUS
<1>9. SetJob(a, job)
  BY <1>2, <1>3, <1>4, <1>6, <1>8 DEF Admit
<1>10. /\ job \in Job /\ job.owner = attempts[a].job.owner /\ job.fence = attempts[a].job.fence
       /\ job.expected = attempts[a].job.expected /\ job.intent = intent
  BY <1>3, <1>7, <1>8 DEF Job
<1>11. /\ Writes(a) /\ HasJob(a)' /\ attempts'[a].job = job
       /\ \A b \in Attempt : Kept(b) /\ SameCore(b)
  BY <1>1, <1>3, <1>7, <1>9, <1>10, JobIs
<1>12. /\ Moves(w) /\ worker'[w].step = "send"
       /\ worker'[w].attempt = a /\ worker'[w].fence = worker[w].fence
       /\ worker'[w].phase = phase /\ worker'[w].expected = expected /\ worker'[w].target = target
  BY <1>1, <1>2, <1>4, GotoIs DEF Steps
<1>13. /\ attempts' \in [Attempt -> AttemptRecord] /\ worker' \in [Worker -> WorkerRecord]
       /\ \A b \in Attempt : b # a => attempts'[b] = attempts[b]
       /\ \A v \in Worker : v # w => worker'[v] = worker[v]
  BY <1>1, <1>11, <1>12, WritesIs, MovesTyped, OthersSame
<1>14. Steady
  BY <1>1, <1>11, <1>13 DEF Steady, Extended, TypeOK
<1>15. Still
  BY <1>1, <1>11 DEF Still
<1>16. HeadPart'
  BY <1>1, <1>14, <1>15, StillHead
<1>17. \A b \in Attempt : ~InFlight(b)
  BY DEF Admit, Admissible, Available
<1>18. Intended(a)' /\ InFlight(a)' /\ \A b \in Attempt : b # a => ~InFlight(b)'
  <2>1. Intended(a)'
    BY <1>7, <1>10, <1>11 DEF Intended
  <2>2. InFlight(a)'
    BY <1>7, <1>10, <1>11, <1>14, <2>1, IntentWillBe DEF Steady
  <2> QED BY <1>13, <1>17, <2>1, <2>2 DEF InFlight, IntentOf, HasJob
<1>19. Change(a, phase, expected, target)'
  BY <1>3, <1>5, <1>14, ChangeKept
<1>20. \A b \in Attempt : IntentBound(b)'
  <2>1. IntentBound(a)'
    <3>1. phase = "advertisement" => Beyond(a)
      BY <1>2, <1>3, <1>4 DEF WorkerBound, Placed
    <3>2. Beyond(a) => Beyond(a)'
      BY <1>3, <1>11 DEF Kept
    <3> QED BY <1>7, <1>10, <1>11, <1>19, <3>1, <3>2 DEF IntentBound
  <2>2. ASSUME NEW b \in Attempt, b # a PROVE IntentBound(b)'
    <3>1. IntentBound(b) /\ attempts'[b] = attempts[b]
      BY <1>1, <1>13, <2>2 DEF WirePart
    <3>2. Drained(b) => Drained(b)'
      BY <1>1, <1>12, <1>13, <2>2 DEF Drained, At
    <3> QED BY <1>1, <3>1, <3>2
            DEF IntentBound, Intended, HasJob, Change, Published, Beyond, Staged, Advert
  <2> QED BY <2>1, <2>2
<1>21. ASSUME NEW r \in requests' PROVE RequestBound(r)'
  <2>1. /\ r \in requests /\ RequestBound(r) /\ r.attempt \in Attempt
        /\ Live(r.attempt, r.expected, r.target) /\ HasJob(r.attempt) /\ r.expected \in Commit
    BY <1>1 DEF WirePart, RequestBound, TypeOK, Live, Intended
  <2>2. PICK p \in Phases : Change(r.attempt, p, r.expected, r.target)
    BY <2>1 DEF RequestBound
  <2>3. Change(r.attempt, p, r.expected, r.target)'
    BY <1>14, <2>1, <2>2, ChangeKept
  <2>4. Live(r.attempt, r.expected, r.target)'
    BY <1>1, <1>14, <1>17, <2>1, NothingPending
  <2> QED BY <2>3, <2>4 DEF RequestBound
<1>22. BranchBound'
  <2> SUFFICES ASSUME NEW i \in 1 .. Len(branch)
               PROVE  /\ Intended(branch[i].attempt)'
                      /\ branch[i] \in {Staged(branch[i].attempt), Advert(branch[i].attempt)}'
    BY <1>1 DEF BranchBound
  <2>1. branch[i] \in Entry
    BY <1>1, ElementOfSeq DEF TypeOK, Commit
  <2>2. PICK b \in Attempt : b = branch[i].attempt
    BY <2>1 DEF Entry
  <2>3. Intended(b) /\ HasJob(b) /\ branch[i] \in {Staged(b), Advert(b)}
    BY <1>1, <2>2 DEF WirePart, BranchBound, Intended
  <2>4. Intended(b)' /\ Staged(b)' = Staged(b) /\ Advert(b)' = Advert(b)
    BY <1>14, <2>3 DEF Staged, Advert, Steady, Kept
  <2> QED BY <1>1, <2>2, <2>3, <2>4
<1>23. WorkerBound(w)'
  <2>1. Placed(w)'
    BY <1>1, <1>2, <1>3, <1>4, <1>11, <1>12 DEF WorkerBound, Placed, At, Kept
  <2>2. PhaseHeld(w)'
    BY <1>7, <1>10, <1>11, <1>12 DEF PhaseHeld
  <2>3. Live(a, expected, target)'
    BY <1>1, <1>5, <1>7, <1>10, <1>11, <1>18 DEF Live, Pending, Behind
  <2>4. SendBound(w)'
    BY <1>5, <1>12, <1>19, <2>3 DEF SendBound
  <2>5. AdmitBound(w)' /\ ConfirmBound(w)' /\ TargetBound(w)' /\ AcceptBound(w)'
    BY <1>12 DEF AdmitBound, ConfirmBound, TargetBound, AcceptBound, At
  <2> QED BY <2>1, <2>2, <2>4, <2>5 DEF WorkerBound
<1>24. ASSUME NEW v \in Worker, v # w PROVE WorkerBound(v)'
  <2>1. worker'[v] = worker[v] /\ WorkerBound(v)
    BY <1>1, <1>13, <1>24
  <2>2. PhaseHeld(v)'
    <3>1. CASE worker[v].attempt = a
      <4>1. attempts[a].job.owner = w
        BY <1>3 DEF Admit, Admissible, Guard, Mine
      <4> QED BY <1>10, <1>11, <1>24, <2>1, <3>1, <4>1 DEF PhaseHeld, Holds, Mine
    <3>2. CASE worker[v].attempt # a
      <4>1. CASE worker[v].attempt \in Attempt
        BY <1>13, <2>1, <3>2, <4>1 DEF WorkerBound, PhaseHeld, Holds, Mine, Intended, HasJob
      <4>2. CASE worker[v].attempt = None
        BY <2>1, <4>2, RecordAssumption DEF WorkerBound, Placed, PhaseHeld, Phases
      <4> QED BY <1>1, <4>1, <4>2 DEF TypeOK, WorkerRecord
    <3> QED BY <3>1, <3>2
  <2>3. At(v, "send") => Live(worker[v].attempt, worker[v].expected, worker[v].target)'
    <3> SUFFICES ASSUME At(v, "send")
                 PROVE  Live(worker[v].attempt, worker[v].expected, worker[v].target)'
      OBVIOUS
    <3>1. PICK b, e, t : b = worker[v].attempt /\ e = worker[v].expected /\ t = worker[v].target
      OBVIOUS
    <3>2. b \in Attempt /\ e \in Commit /\ Live(b, e, t)
      BY <2>1, <3>1, WorkerIs DEF WorkerBound, SendBound, At
    <3>3. Live(b, e, t)'
      BY <1>1, <1>14, <1>17, <3>2, NothingPending
    <3> QED BY <2>1, <3>1, <3>3
  <2> QED BY <1>14, <2>1, <2>2, <2>3, WorkerKept
<1>25. OneInFlight'
  BY <1>18 DEF OneInFlight
<1> QED BY <1>14, <1>16, <1>20, <1>21, <1>22, <1>23, <1>24, <1>25 DEF FenceInv, HeadPart, Steady

-----------------------------------------------------------------------------
(* The branch moves.                                                       *)

\* The branch moves by the change of the unresolved intent.
LEMMA ApplyInv ==
  ASSUME FenceInv, NEW a \in Attempt, NEW phase, NEW expected, NEW target,
         Change(a, phase, expected, target), Live(a, expected, target),
         Apply(expected, target), UNCHANGED <<head, views, attempts>>,
         requests' \subseteq requests, worker' \in [Worker -> WorkerRecord],
         \A v \in Worker : (WorkerBound(v)' /\ ~At(v, "send")') \/ worker'[v] = worker[v]
  PROVE  FenceInv'
<1>1. TypeOK /\ HeadPart /\ WirePart /\ \A v \in Worker : WorkerBound(v)
  BY Parts
<1>2. /\ HasJob(a) /\ Intended(a) /\ attempts[a].job.intent.status = "IN_FLIGHT"
      /\ branch = expected /\ branch' = target
  BY <1>1, IntentIs DEF Live, Pending, Intended, Apply
<1>3. PICK x \in Entry : branch' = Append(branch, x) /\ x \in {Staged(a), Advert(a)}
  BY <1>2, ChangeIs
<1>4. /\ branch \in Commit /\ branch' \in Commit
      /\ Len(branch) \in Nat /\ Len(branch') = Len(branch) + 1
      /\ branch'[Len(branch) + 1] = x /\ Last(branch') = x /\ x.attempt = a
      /\ \A i \in 1 .. Len(branch) : branch'[i] = branch[i]
  BY <1>1, <1>3, AppendOne DEF TypeOK, Staged, Advert
<1>5. Steady
  <2>1. \A b \in Attempt : Kept(b)
    BY DEF Kept, HasJob, Intended, Beyond, Published
  <2>2. TypeOK'
    BY <1>1, <1>4 DEF TypeOK
  <2> QED BY <1>1, <1>3, <2>1, <2>2 DEF Steady, Extended
<1>6. Still /\ SameLeases
  BY DEF Still, SameCore, SameLeases, HasJob, Intended
<1>7. HeadPart'
  BY <1>1, <1>5, <1>6, StillHead
<1>8. ASSUME NEW b \in Attempt, NEW e \in Commit, NEW t, Live(b, e, t)
      PROVE  Live(b, e, t)'
  <2>1. Intended(b)' /\ Behind(e)' /\ branch' # e
    BY <1>4, <1>5, <1>8, BehindKept DEF Live, Intended, HasJob
  <2> QED BY <2>1 DEF Live
<1>9. \A b \in Attempt : Drained(b) => Drained(b)'
  BY DEF Drained, At
<1>10. ASSUME NEW b \in Attempt PROVE IntentBound(b)'
  <2> SUFFICES ASSUME Intended(b) PROVE IntentBound(b)'
    BY DEF IntentBound, Intended, HasJob
  <2>1. PICK intent \in Intent : intent = attempts[b].job.intent
    BY DEF Intended
  <2>2. /\ HasJob(b) /\ Change(b, intent.phase, intent.expected, intent.target)
        /\ intent.phase = "advertisement" => Beyond(b)
        /\ intent.status = "CONFIRMED" => IsPrefix(intent.target, branch)
        /\ intent.status = "ABORTED" => ~IsPrefix(intent.target, branch) /\ Drained(b)
    BY <1>1, <2>1 DEF WirePart, IntentBound, Intended
  <2>3. /\ intent.expected \in Commit /\ intent.target \in Commit
        /\ \E y \in Entry : intent.target = Append(intent.expected, y) /\ y \in {Staged(b), Advert(b)}
    BY <2>2, ChangeIs
  <2>4. intent.status = "CONFIRMED" => IsPrefix(intent.target, branch')
    BY <1>5, <2>2, <2>3, HistoryKept
  <2>5. intent.status = "ABORTED" => ~IsPrefix(intent.target, branch')
    <3> SUFFICES ASSUME intent.status = "ABORTED" PROVE ~IsPrefix(intent.target, branch')
      OBVIOUS
    <3>1. b # a
      BY <1>2, <2>1
    <3>2. Last(intent.target).attempt = b
      BY <2>3, AppendOne DEF Staged, Advert
    <3>3. intent.target # branch'
      BY <1>4, <3>1, <3>2
    <3> QED BY <1>3, <1>4, <2>2, <2>3, <3>3, AppendHistory
  <2> QED BY <1>9, <2>1, <2>2, <2>4, <2>5
          DEF IntentBound, Change, Beyond, Published, Staged, Advert
<1>11. ASSUME NEW r \in requests' PROVE RequestBound(r)'
  <2>1. /\ r \in requests /\ RequestBound(r) /\ r.attempt \in Attempt /\ r.expected \in Commit
        /\ Live(r.attempt, r.expected, r.target)
    BY <1>1 DEF WirePart, RequestBound, TypeOK
  <2>2. Live(r.attempt, r.expected, r.target)'
    BY <1>8, <2>1
  <2> QED BY <2>1, <2>2 DEF RequestBound, Change, Published, Staged, Advert
<1>12. BranchBound'
  <2> SUFFICES ASSUME NEW i \in 1 .. Len(branch')
               PROVE  /\ Intended(branch'[i].attempt)
                      /\ branch'[i] \in {Staged(branch'[i].attempt), Advert(branch'[i].attempt)}
    BY DEF BranchBound, Intended, HasJob, Staged, Advert
  <2>1. CASE i = Len(branch) + 1
    BY <1>2, <1>3, <1>4, <2>1
  <2>2. CASE i # Len(branch) + 1
    <3>1. i \in 1 .. Len(branch)
      BY <1>4, <2>2
    <3> QED BY <1>1, <1>4, <3>1 DEF WirePart, BranchBound
  <2> QED BY <2>1, <2>2
<1>13. OneInFlight'
  BY <1>1 DEF WirePart, OneInFlight, InFlight, IntentOf, HasJob
<1>14. ASSUME NEW v \in Worker PROVE WorkerBound(v)'
  <2>1. CASE worker'[v] = worker[v]
    <3>1. PhaseHeld(v)'
      BY <1>1, <1>5, <1>6, <2>1, HeldKept
    <3>2. At(v, "send") => Live(worker[v].attempt, worker[v].expected, worker[v].target)'
      <4> SUFFICES ASSUME At(v, "send")
                   PROVE  Live(worker[v].attempt, worker[v].expected, worker[v].target)'
        OBVIOUS
      <4>1. PICK b, e, t : b = worker[v].attempt /\ e = worker[v].expected /\ t = worker[v].target
        OBVIOUS
      <4>2. b \in Attempt /\ e \in Commit /\ Live(b, e, t)
        BY <1>1, <4>1, WorkerIs DEF WorkerBound, SendBound, At
      <4>3. Live(b, e, t)'
        BY <1>8, <4>2
      <4> QED BY <2>1, <4>1, <4>3
    <3> QED BY <1>1, <1>5, <2>1, <3>1, <3>2, WorkerKept
  <2> QED BY <2>1
<1> QED BY <1>5, <1>7, <1>10, <1>11, <1>12, <1>13, <1>14 DEF FenceInv, HeadPart, Steady

LEMMA ArriveInv ==
  ASSUME FenceInv, NEW r \in requests, Arrive(r)
  PROVE  FenceInv'
<1>1. /\ TypeOK /\ RequestBound(r) /\ r.attempt \in Attempt
      /\ \A v \in Worker : worker'[v] = worker[v]
      /\ worker' \in [Worker -> WorkerRecord]
      /\ Apply(r.expected, r.target) /\ requests' \subseteq requests
      /\ UNCHANGED <<head, views, attempts>>
  BY DEF FenceInv, TypeOK, Arrive
<1>2. PICK phase \in Phases : Change(r.attempt, phase, r.expected, r.target)
  BY <1>1 DEF RequestBound
<1>3. Live(r.attempt, r.expected, r.target)
  BY <1>1 DEF RequestBound
<1> QED BY <1>1, <1>2, <1>3, ApplyInv

\* The request of a worker that gives up stays under way.
LEMMA GiveUpInv ==
  ASSUME FenceInv, NEW w \in Worker, At(w, "send"),
         requests' = requests \cup {[attempt |-> worker[w].attempt, expected |-> worker[w].expected,
                                     target |-> worker[w].target]},
         worker' = [worker EXCEPT ![w] = Idle(@.fence, @.attempt)],
         UNCHANGED <<head, views, attempts, branch>>
  PROVE  FenceInv'
<1>1. TypeOK /\ HeadPart /\ WirePart /\ (\A v \in Worker : WorkerBound(v)) /\ ~At(w, "idle")
  BY Parts DEF At
<1>2. PICK a, phase, expected, target :
        /\ a = worker[w].attempt /\ phase = worker[w].phase
        /\ expected = worker[w].expected /\ target = worker[w].target
  OBVIOUS
<1>3. /\ a \in Attempt /\ HasJob(a) /\ phase \in Phases
      /\ expected \in Commit /\ target \in Commit
      /\ Change(a, phase, expected, target) /\ Live(a, expected, target)
  BY <1>1, <1>2, WorkerIs DEF WorkerBound, Placed, SendBound, At
<1>4. PICK r : r = [attempt |-> a, expected |-> expected, target |-> target]
  OBVIOUS
<1>5. requests' = requests \cup {r} /\ r \in [attempt : Attempt, expected : Commit, target : Commit]
      /\ r.attempt = a /\ r.expected = expected /\ r.target = target
  BY <1>2, <1>3, <1>4
<1>6. /\ Moves(w) /\ worker'[w].step = "idle" /\ worker'[w].phase = None
      /\ worker'[w].attempt = worker[w].attempt
  BY <1>1, IdleIs
<1>7. /\ worker' \in [Worker -> WorkerRecord]
      /\ \A v \in Worker : v # w => worker'[v] = worker[v]
  BY <1>1, <1>6, MovesTyped, OthersSame
<1>8. Steady
  <2>1. \A b \in Attempt : Kept(b)
    BY DEF Kept, HasJob, Intended, Beyond, Published
  <2>2. TypeOK'
    BY <1>1, <1>5, <1>7 DEF TypeOK
  <2> QED BY <1>1, <2>1, <2>2 DEF Steady, Extended
<1>9. Still /\ SameLeases
  BY DEF Still, SameCore, SameLeases, HasJob, Intended
<1>10. HeadPart'
  BY <1>1, <1>8, <1>9, StillHead
<1>11. \A b, e, t : Live(b, e, t)' <=> Live(b, e, t)
  BY DEF Live, Intended, HasJob, Behind, Pending, InFlight, IntentOf
<1>12. \A b, p, e, t : Change(b, p, e, t)' <=> Change(b, p, e, t)
  BY DEF Change, Published, Staged, Advert
<1>13. ASSUME NEW s \in requests' PROVE RequestBound(s)'
  <2>1. \E p \in Phases : Change(s.attempt, p, s.expected, s.target)
    BY <1>1, <1>3, <1>5 DEF WirePart, RequestBound
  <2>2. Live(s.attempt, s.expected, s.target)
    BY <1>1, <1>3, <1>5 DEF WirePart, RequestBound
  <2> QED BY <1>11, <1>12, <2>1, <2>2 DEF RequestBound
<1>14. ASSUME NEW b \in Attempt PROVE IntentBound(b)'
  <2>1. IntentBound(b)
    BY <1>1 DEF WirePart
  <2>2. Drained(b) => Drained(b)'
    <3> SUFFICES ASSUME Drained(b) PROVE Drained(b)'
      OBVIOUS
    <3>1. a # b
      BY <1>2 DEF Drained, At
    <3>2. \A s \in requests' : s.attempt # b
      BY <1>5, <3>1 DEF Drained
    <3>3. \A v \in Worker : ~(worker'[v].step = "send" /\ worker'[v].attempt = b)
      BY <1>6, <1>7 DEF Drained
    <3> QED BY <3>2, <3>3 DEF Drained
  <2> QED BY <1>12, <2>1, <2>2 DEF IntentBound, Intended, HasJob, Beyond
<1>15. BranchBound'
  BY <1>1 DEF WirePart, BranchBound, Intended, HasJob, Staged, Advert
<1>16. OneInFlight'
  BY <1>1 DEF WirePart, OneInFlight, InFlight, IntentOf, HasJob
<1>17. ASSUME NEW v \in Worker PROVE WorkerBound(v)'
  <2>1. CASE v = w
    <3>1. WorkerBound(w)'
      BY <1>2, <1>3, <1>6, IdleBound DEF HasJob
    <3> QED BY <2>1, <3>1
  <2>2. CASE v # w
    <3>1. worker'[v] = worker[v] /\ WorkerBound(v)
      BY <1>1, <1>7, <2>2
    <3>2. PhaseHeld(v)'
      BY <1>8, <1>9, <3>1, HeldKept
    <3>3. At(v, "send") => Live(worker[v].attempt, worker[v].expected, worker[v].target)'
      <4> SUFFICES ASSUME At(v, "send")
                   PROVE  Live(worker[v].attempt, worker[v].expected, worker[v].target)'
        OBVIOUS
      <4>1. PICK b, e, t : b = worker[v].attempt /\ e = worker[v].expected /\ t = worker[v].target
        OBVIOUS
      <4>2. Live(b, e, t)'
        BY <1>11, <3>1, <4>1 DEF WorkerBound, SendBound
      <4> QED BY <3>1, <4>1, <4>2
    <3> QED BY <1>8, <3>1, <3>2, <3>3, WorkerKept
  <2> QED BY <2>1, <2>2
<1> QED BY <1>8, <1>10, <1>13, <1>14, <1>15, <1>16, <1>17 DEF FenceInv, HeadPart, Steady

LEMMA SendInv ==
  ASSUME FenceInv, NEW w \in Worker, Send(w)
  PROVE  FenceInv'
<1>1. /\ TypeOK /\ At(w, "send") /\ ~At(w, "idle") /\ UNCHANGED <<head, views, attempts>>
      /\ WorkerBound(w)
  BY DEF Send, At, FenceInv
<1>2. PICK a, phase, expected, target :
        /\ a = worker[w].attempt /\ phase = worker[w].phase
        /\ expected = worker[w].expected /\ target = worker[w].target
  OBVIOUS
<1>3. /\ a \in Attempt /\ a # None /\ HasJob(a) /\ phase \in Phases
      /\ expected \in Commit /\ target \in Commit
      /\ Change(a, phase, expected, target) /\ Live(a, expected, target)
  BY <1>1, <1>2, WorkerIs DEF WorkerBound, Placed, SendBound, At
<1>4. CASE Apply(expected, target) /\ UNCHANGED requests /\ Goto(w, "observe")
  <2>1. /\ Moves(w) /\ worker'[w].step = "observe"
        /\ worker'[w].attempt = a /\ worker'[w].fence = worker[w].fence
        /\ worker'[w].phase = phase /\ worker'[w].target = target
    BY <1>1, <1>2, <1>4, GotoIs DEF Steps
  <2>2. Placed(w)'
    BY <1>1, <1>2, <1>3, <2>1 DEF WorkerBound, Placed, At, HasJob, Beyond, Published
  <2>3. PhaseHeld(w)'
    BY <1>1, <1>2, <2>1 DEF WorkerBound, PhaseHeld, Intended, HasJob, Holds, Mine
  <2>4. TargetBound(w)'
    BY <1>1, <1>3, <2>1 DEF TargetBound, Change, Staged
  <2>5. AdmitBound(w)' /\ SendBound(w)' /\ ConfirmBound(w)' /\ AcceptBound(w)' /\ ~At(w, "send")'
    BY <2>1 DEF AdmitBound, SendBound, ConfirmBound, AcceptBound, At
  <2>6. WorkerBound(w)' /\ ~At(w, "send")'
    BY <2>2, <2>3, <2>4, <2>5 DEF WorkerBound
  <2>7. /\ worker' \in [Worker -> WorkerRecord]
        /\ \A v \in Worker : v # w => worker'[v] = worker[v]
    BY <1>1, <2>1, MovesTyped, OthersSame
  <2> QED BY <1>1, <1>3, <1>4, <2>6, <2>7, ApplyInv
<1>5. CASE /\ Apply(expected, target) /\ UNCHANGED requests
           /\ worker' = [worker EXCEPT ![w] = Idle(@.fence, @.attempt)]
  <2>1. /\ Moves(w) /\ worker'[w].step = "idle" /\ worker'[w].phase = None
        /\ worker'[w].attempt = worker[w].attempt
    BY <1>1, <1>5, IdleIs
  <2>2. WorkerBound(w)' /\ ~At(w, "send")'
    BY <1>1, <1>2, <1>3, <2>1, IdleBound DEF HasJob, At
  <2>3. /\ worker' \in [Worker -> WorkerRecord]
        /\ \A v \in Worker : v # w => worker'[v] = worker[v]
    BY <1>1, <2>1, MovesTyped, OthersSame
  <2> QED BY <1>1, <1>3, <1>5, <2>2, <2>3, ApplyInv
<1>6. CASE /\ requests' = requests \cup {[attempt |-> worker[w].attempt,
                                          expected |-> worker[w].expected,
                                          target |-> worker[w].target]}
           /\ worker' = [worker EXCEPT ![w] = Idle(@.fence, @.attempt)]
           /\ UNCHANGED branch
  BY <1>1, <1>6, GiveUpInv
<1> QED BY <1>2, <1>4, <1>5, <1>6 DEF Send

-----------------------------------------------------------------------------
(* The invariant.                                                          *)

LEMMA InitInv ==
  ASSUME Init
  PROVE  FenceInv
<1>1. PICK d \in Past : /\ head = [digest |-> d, generation |-> IF d = None THEN 0 ELSE 1,
                                   last_verified |-> d]
                        /\ views = {d} \ {None}
  BY DEF Init
<1>2. /\ attempts = [a \in Attempt |-> Absent] /\ branch = <<>> /\ requests = {}
      /\ worker = [w \in Worker |-> Idle(0, None)]
  BY DEF Init
<1>3. d \in Digest \cup {None}
  BY PastAssumption
<1>4. /\ head \in [digest : Digest \cup {None}, generation : Nat, last_verified : Digest \cup {None}]
      /\ views \subseteq Digest
      /\ head.digest = d /\ head.last_verified = d
      /\ head.generation = IF d = None THEN 0 ELSE 1
  BY <1>1, <1>3
<1>5. Absent \in AttemptRecord /\ Idle(0, None) \in WorkerRecord
  BY DEF Absent, AttemptRecord, Idle, WorkerRecord, Steps
<1>6. <<>> \in Commit /\ Len(<<>>) = 0
  BY EmptySeq DEF Commit
<1>7. TypeOK
  BY <1>2, <1>4, <1>5, <1>6 DEF TypeOK
<1>8. \A a \in Attempt : /\ attempts[a].state = "ABSENT" /\ attempts[a].proofs = {}
                         /\ attempts[a].base = 0 /\ ~HasJob(a)
  BY <1>2 DEF Absent, HasJob
<1>9. HeadBound
  BY <1>1, <1>4, <1>8 DEF HeadBound
<1>10. \A a \in Attempt : AttemptBound(a) /\ PublishedBound(a) /\ IntentBound(a)
  BY <1>8 DEF AttemptBound, PublishedBound, IntentBound, Published, Intended
<1>11. OneInFlight
  BY <1>7, <1>8, IntentIs DEF OneInFlight, Intended
<1>12. BranchBound
  BY <1>2, <1>6 DEF BranchBound
<1>13. ASSUME NEW w \in Worker PROVE WorkerBound(w)
  <2>1. worker[w].step = "idle" /\ worker[w].phase = None /\ worker[w].attempt = None
    BY <1>2 DEF Idle
  <2>2. None # "stage" /\ None # "advertisement"
    BY RecordAssumption DEF Phases
  <2> QED BY <2>1, <2>2
          DEF WorkerBound, Placed, PhaseHeld, AdmitBound, SendBound, ConfirmBound, TargetBound,
              AcceptBound, At
<1> QED BY <1>2, <1>7, <1>9, <1>10, <1>11, <1>12, <1>13 DEF FenceInv

LEMMA StutterInv ==
  ASSUME FenceInv, UNCHANGED vars
  PROVE  FenceInv'
<1>1. /\ UNCHANGED <<head, views, attempts, branch, requests>> /\ worker' = worker
      /\ TypeOK /\ HeadPart /\ \A v \in Worker : WorkerBound(v)
  BY Parts DEF vars
<1>2. TypeOK'
  BY <1>1 DEF TypeOK
<1>3. Steady
  BY <1>1, <1>2 DEF Steady, Extended, Kept, HasJob, Intended, Beyond, Published
<1>4. Quiet /\ Still /\ SameLeases
  BY <1>1 DEF Quiet, Still, SameLeases, SameCore, HasJob, Intended, At
<1>5. HeadPart'
  BY <1>1, <1>3, <1>4, StillHead
<1>6. \A v \in Worker : worker'[v] = worker[v] /\ PhaseHeld(v)'
  BY <1>1, <1>3, <1>4, HeldKept
<1> QED BY <1>3, <1>4, <1>5, <1>6, QuietInv

LEMMA RunInv ==
  ASSUME FenceInv, NEW w \in Worker, Run(w)
  PROVE  FenceInv'
BY BeginInv, CheckInv, ObserveInv, ConfirmInv, ResumeInv, EnterInv, PriorInv, BuildInv, AdmitInv,
   SendInv, IdentifyInv, VerifyInv, AcceptStagedInv, CheckLeaseInv, PublishInv,
   AcceptAdvertisedInv, CompleteInv
DEF Run

LEMMA NextInv ==
  ASSUME FenceInv, [Next]_vars
  PROVE  FenceInv'
<1>1. CASE UNCHANGED vars
  BY <1>1, StutterInv
<1>2. ASSUME NEW a \in Attempt,
             \/ \E result \in Digest : Prepare(a, result)
             \/ \E p \in Attempt : Adopt(a, p)
             \/ Enqueue(a) \/ LeaseEnds(a) \/ Expire(a) \/ Fail(a) \/ Reconcile(a) \/ Abort(a)
      PROVE  FenceInv'
  BY <1>2, PrepareInv, AdoptInv, EnqueueInv, LeaseEndsInv, ExpireInv, FailInv, ReconcileInv
<1>3. ASSUME NEW w \in Worker,
             (\E a \in Attempt : Claim(w, a)) \/ Rerun(w) \/ Stop(w) \/ Run(w)
      PROVE  FenceInv'
  BY <1>3, ClaimInv, RerunInv, StopInv, RunInv
<1>4. ASSUME NEW r \in requests, Arrive(r) \/ Lose(r)
      PROVE  FenceInv'
  BY <1>4, ArriveInv, LoseInv
<1> QED BY <1>1, <1>2, <1>3, <1>4 DEF Next

\* In every reachable state an attempt's job, intent, request and phase fit the
\* branch and the head (Outbox, Coordinator._run_branch, FencedPublisher).
THEOREM FenceInvariant == Spec => []FenceInv
BY InitInv, NextInv, PTL DEF Spec

-----------------------------------------------------------------------------
(* What follows from it.                                                   *)

\* Every variable keeps its type: no step of a run, a request or an operator
\* writes a record the ledger could not hold (attempts and jobs, intents).
THEOREM FenceTypeCorrect == Spec => []TypeOK
<1>1. FenceInv => TypeOK
  BY DEF FenceInv
<1> QED BY <1>1, FenceInvariant, PTL

\* A confirmed intent is in the branch's history and an aborted one never gets
\* there (FencedPublisher.reconcile, abort_noncommit).
THEOREM IntentsTrue == Spec => []IntentTruth
<1>1. ASSUME FenceInv PROVE IntentTruth
  <2>1. ASSUME NEW a \in Attempt, IntentOf(a) # None
        PROVE  /\ IntentOf(a).status = "CONFIRMED" => IsPrefix(IntentOf(a).target, branch)
               /\ IntentOf(a).status = "ABORTED" => ~IsPrefix(IntentOf(a).target, branch)
    <3>1. Intended(a) /\ IntentOf(a) = attempts[a].job.intent
      BY <1>1, <2>1, IntentIs DEF FenceInv
    <3> QED BY <1>1, <3>1 DEF FenceInv, IntentBound
  <2> QED BY <2>1 DEF IntentTruth
<1> QED BY <1>1, FenceInvariant, PTL

\* The requests that can still move the branch, sent or about to be sent, are
\* those of one unresolved intent (FencedPublisher._available, _admit, _cas).
THEOREM OneWriter == Spec => []SoleWriter
<1>1. ASSUME FenceInv PROVE SoleWriter
  <2>1. \A a, b \in Attempt : InFlight(a) /\ InFlight(b) => a = b
    BY <1>1 DEF FenceInv, OneInFlight
  <2>2. ASSUME NEW r \in requests, r.expected = branch PROVE InFlight(r.attempt)
    BY <1>1, <2>2 DEF FenceInv, RequestBound, Live, Pending
  <2>3. ASSUME NEW w \in Worker, At(w, "send"), worker[w].expected = branch
        PROVE  InFlight(worker[w].attempt)
    BY <1>1, <2>3 DEF FenceInv, WorkerBound, SendBound, Live, Pending
  <2> QED BY <2>1, <2>2, <2>3 DEF SoleWriter
<1> QED BY <1>1, FenceInvariant, PTL

\* The advertisement of a verified publication is on the branch and follows the
\* commit that was verified before it (advertise_immutable, post_verified).
THEOREM VerifiedAdvertised == Spec => []VerifiedIsAdvertised
<1>1. FenceInv => VerifiedIsAdvertised
  BY DEF FenceInv, AttemptBound, VerifiedIsAdvertised
<1> QED BY <1>1, FenceInvariant, PTL

\* Whatever moves the branch is the change of an unresolved intent.
LEMMA MoverIs ==
  ASSUME FenceInv, Next, branch' # branch
  PROVE  \E a \in Attempt, phase \in Phases : \E expected, target :
           /\ Change(a, phase, expected, target) /\ Live(a, expected, target)
           /\ Apply(expected, target)
<1>1. CASE \E r \in requests : Arrive(r)
  <2>1. PICK r \in requests : Apply(r.expected, r.target)
    BY <1>1 DEF Arrive
  <2>2. RequestBound(r) /\ r.attempt \in Attempt
    BY DEF FenceInv, TypeOK
  <2> QED BY <2>1, <2>2 DEF RequestBound
<1>2. CASE \E w \in Worker : Send(w)
  <2>1. PICK w \in Worker : Send(w)
    BY <1>2
  <2>2. At(w, "send") /\ Apply(worker[w].expected, worker[w].target)
    BY <2>1 DEF Send
  <2>3. worker[w].attempt \in Attempt /\ WorkerBound(w) /\ worker[w].phase \in Phases
    BY <2>2, WorkerIs DEF At, WorkerBound, Placed
  <2> QED BY <2>2, <2>3 DEF WorkerBound, SendBound
<1>3. (\E r \in requests : Arrive(r)) \/ \E w \in Worker : Send(w)
  BY ZenonT(40) DEF Next, Run, Prepare, Adopt, Enqueue, LeaseEnds, Expire, Fail, Reconcile, Abort, Claim,
         Rerun, Stop, Lose, Begin, Check, Observe, Confirm, Resume, Enter, Prior, Build, Admit,
         Identify, Verify, AcceptStaged, CheckLease, Publish, PublishAgain, AcceptAdvertised,
         Complete
<1> QED BY <1>1, <1>2, <1>3

\* An advertisement reaches the branch only while the head is the publication it
\* advertises, however late its request is (advertise_immutable, _admit, _cas).
THEOREM AdvertisedCurrent == Spec => AdvertisedIsCurrent
<1>1. ASSUME FenceInv, Next, NEW a \in Attempt, branch' # branch,
             Last(branch') = [kind |-> "advertisement", attempt |-> a,
                              generation |-> attempts[a].base + 1]
      PROVE  head.digest = attempts[a].result /\ head.generation = attempts[a].base + 1
  <2>0. PICK b \in Attempt, phase \in Phases : \E expected, target :
          /\ Change(b, phase, expected, target) /\ Live(b, expected, target)
          /\ Apply(expected, target)
    BY <1>1, MoverIs
  <2>1. PICK expected, target :
          /\ Change(b, phase, expected, target) /\ Live(b, expected, target)
          /\ Apply(expected, target)
    BY <2>0
  <2>2. HasJob(b) /\ branch = expected /\ branch' = target
    BY <2>1 DEF Live, Intended, Apply
  <2>3. /\ expected \in Commit
        /\ Last(Append(expected, Staged(b))) = Staged(b)
        /\ Last(Append(expected, Advert(b))) = Advert(b)
    <3>1. attempts[b].base \in Nat
      BY <1>1 DEF FenceInv, TypeOK, AttemptRecord
    <3>2. Staged(b) \in Entry /\ Advert(b) \in Entry
      BY <3>1 DEF Staged, Advert, Entry, Phases
    <3>3. expected \in Commit
      BY <1>1, <2>1, <2>2, ChangeIs
    <3> QED BY <3>2, <3>3, AppendOne
  <2>4. phase # "stage"
    <3>1. phase = "stage" => Last(branch') = Staged(b)
      BY <2>1, <2>2, <2>3 DEF Change
    <3> QED BY <1>1, <3>1 DEF Staged
  <2>5. Published(b) /\ branch = attempts[b].commit /\ Last(branch') = Advert(b)
    BY <2>1, <2>2, <2>3, <2>4 DEF Change
  <2>6. b = a
    BY <1>1, <2>5 DEF Advert
  <2>7. ~(head.generation > attempts[a].base + 1) /\ attempts[a].base < head.generation
        /\ (head.generation = attempts[a].base + 1 => head.digest = attempts[a].result)
    <3>1. Len(branch) \in Nat
      BY <2>2, <2>3, LenProperties DEF Commit
    <3> QED BY <1>1, <2>5, <2>6, <3>1 DEF FenceInv, PublishedBound
  <2>8. head.generation \in Nat /\ attempts[a].base \in Nat
    BY <1>1 DEF FenceInv, TypeOK, AttemptRecord
  <2> QED BY <2>7, <2>8
<1>2. ASSUME FenceInv, [Next]_vars
      PROVE  [\A a \in Attempt :
                (branch' # branch /\ Last(branch') = [kind |-> "advertisement", attempt |-> a,
                                                      generation |-> attempts[a].base + 1])
                  => head.digest = attempts[a].result /\ head.generation = attempts[a].base + 1]_vars
  BY <1>1, <1>2
<1> QED BY <1>2, FenceInvariant, PTL DEF Spec, AdvertisedIsCurrent

=============================================================================
