------------------------ MODULE RemoteChannels_proofs ------------------------
(***************************************************************************)
(* Proofs about the remote channels, for any components, releases and      *)
(* requests, any number of snapshots, runs, failures and validations, and  *)
(* any dwell: what stable serves was served by beta, a promotion takes what*)
(* beta serves at that moment and has dwelled, a selection moves one group *)
(* and an orchestrated publication adds its component to the beta just     *)
(* before it, although a run may be repeated long after its first jobs;    *)
(* and stable implements ChannelHistory.                                   *)
(***************************************************************************)
EXTENDS RemoteChannels, WellFoundedInduction, TLAPS

-----------------------------------------------------------------------------
(* The inductive invariant.                                                *)

\* What beta served at some time.
FromBeta(content) ==
  \A c \in Component : content[c] > 0 =>
    \E r \in Run : /\ site.history["beta"][r] # None
                   /\ site.snapshots[site.history["beta"][r].snapshot][c] = content[c]

\* A channel serves the publication that its history has under its run, and the
\* snapshot of every publication stays stored.
HistoryInv ==
  /\ site.channel["beta"] # None
  /\ \A c \in Channel : site.channel[c] # None =>
       site.history[c][site.channel[c].run] = site.channel[c]
  /\ \A c \in Channel, r \in Run : site.history[c][r] # None =>
       /\ site.history[c][r].run = r
       /\ site.snapshots[site.history[c][r].snapshot] # None

\* Every publication of stable, the channel's or one to return to, is of beta.
StableInv ==
  \A r \in Run : site.history["stable"][r] # None =>
    FromBeta(site.snapshots[site.history["stable"][r].snapshot])

\* A publication of stable is on the record, and is of an attempt of its run that
\* has ended.
FiledInv ==
  \A r \in Run : site.history["stable"][r] # None =>
    /\ r <= Len(runs)
    /\ \E p \in site.promotions : p.run = r
    /\ site.history["stable"][r].signing <= runs[r].attempt
    /\ lock = r => site.history["stable"][r].signing < runs[r].attempt

\* The publication of beta that evidence v is about.
Tested(v) == site.history["beta"][validations[v].beta_run]

EvidenceInv ==
  \A v \in DOMAIN validations :
    Tested(v) # None /\ Tested(v).snapshot = validations[v].snapshot

\* What the jobs of a promotion have established.
PromoteBound(run) ==
  /\ run.validation \in DOMAIN validations
  /\ run.snapshot = validations[run.validation].snapshot
  /\ run.job \in {"sign", "publish"} => clock - Tested(run.validation).at >= Dwell
  /\ run.job = "publish" =>
       /\ run.artifact # None
       /\ run.artifact.snapshot = run.snapshot
       /\ run.artifact.store = Tested(run.validation).store
       /\ run.artifact.at - Tested(run.validation).at >= Dwell

\* What a selection composed, and that it is still so while nothing was
\* committed since.
SelectBound(r, run) ==
  /\ run.group # None
  /\ run.job \in {"compose", "validate", "publish"}
  /\ run.job # "compose" =>
       /\ run.content # None /\ run.artifact # None
       /\ run.base # None /\ run.base <= tip
       /\ FromBeta(run.content)
       /\ run.previous # None => site.snapshots[run.previous.snapshot] # None
       /\ run.job = "publish" /\ run.previous # None =>
            \A c \in Component : run.content[c] >= site.snapshots[run.previous.snapshot][c]
       /\ tip = run.base =>
            /\ run.content = Composed(run.group) /\ run.content # Served(site, "stable")
            /\ Served(site, "beta")[run.group] > 0
            /\ run.previous = site.channel["stable"]
            /\ site.history["stable"][r] # run.artifact

\* The candidate of a request.
Merged(q) == CandidateOf(orch[q].parent, orch[q].component, orch[q].version)

Chosen(q) == orch[q].queued # None \/ orch[q].child # None

\* A run of the orchestrator carries what its request said, and keeps saying.
RequestBound(run) ==
  LET q == run.request IN
  /\ q \in Request /\ Chosen(q)
  /\ run.kind \in {"snapshot", "beta"} /\ run.snapshot = orch[q].snapshot
  /\ run.kind = "snapshot" => run.base = orch[q].storage /\ run.content = Merged(q)
  /\ run.kind = "beta" => orch[q].head # 0 /\ run.base = orch[q].head

RunBound(r, run) ==
  /\ run.artifact # None => run.artifact.run = r /\ run.artifact.signing <= run.attempt
  /\ run.kind = "snapshot" => run.snapshot # None /\ run.content # None
  /\ run.kind = "beta" =>
       /\ run.snapshot # None
       /\ run.job = "publish" => run.artifact # None /\ run.artifact.snapshot = run.snapshot
  /\ run.kind = "promote" => PromoteBound(run)
  /\ run.kind = "select" => SelectBound(r, run)
  /\ run.kind = "rollback" => run.target # None
  /\ run.request # None => RequestBound(run)

\* A request builds on the beta of the storage it saw, which is still there until
\* somebody commits: the request's own snapshot first, then its beta.
RequestInv(q) ==
  LET o == orch[q] IN
  /\ o.stage = "idle" => o = Idle
  /\ o.stage = "ready" => o.queued = None /\ o.child = None
  /\ o.stage \in {"ready", "snapshot"} => o.head = 0 /\ o.queued # "beta"
  /\ o.stage # "idle" =>
       /\ o.parent # None /\ site.snapshots[o.parent] # None
       /\ o.snapshot # None /\ o.component # None
       /\ o.storage <= tip /\ (tip = o.storage => site.channel["beta"].snapshot = o.parent)
  /\ o.queued = "beta" => o.head # 0
  /\ Chosen(q) => o.stage # "idle" /\ o.version > site.snapshots[o.parent][o.component]
  /\ o.child # None => o.child <= Len(runs) /\ runs[o.child].request = q
  /\ o.head # 0 =>
       /\ Chosen(q)
       /\ o.head <= tip
       /\ site.snapshots[o.snapshot] = Merged(q)
       /\ tip = o.head => site.channel["beta"].snapshot = o.parent

\* The commit of a request's snapshot adds the candidate and nothing else.
AuthorInv ==
  /\ author <= Len(runs)
  /\ LET q == runs[author].request IN
     runs[author].kind = "snapshot" /\ q # None =>
       /\ tip = orch[q].storage + 1
       /\ site.snapshots[orch[q].snapshot] = Merged(q)
       /\ site.channel["beta"].snapshot = orch[q].parent

\* A run is repeated at the cost of one of the faults.
AttemptInv == \A r \in 1 .. Len(runs) : runs[r].attempt <= faults + 1

ChannelInv ==
  /\ TypeOK /\ AttemptInv
  /\ HistoryInv /\ StableInv /\ FiledInv /\ EvidenceInv
  /\ \A r \in 1 .. Len(runs) : RunBound(r, runs[r])
  /\ \A q \in Request : RequestInv(q)
  /\ AuthorInv

\* What a step leaves as it was: stored bytes, the history, what a run is and
\* what a request chose.
Grows ==
  /\ \A s \in Snapshot : site.snapshots[s] # None => site'.snapshots[s] = site.snapshots[s]
  /\ \A c \in Channel, r \in Run :
       site.history[c][r] # None => site'.history[c][r] = site.history[c][r]

RunsKept ==
  /\ Len(runs) <= Len(runs')
  /\ \A r \in 1 .. Len(runs) :
       runs'[r].kind = runs[r].kind /\ runs'[r].request = runs[r].request

RequestsKept ==
  \A q \in Request : Chosen(q) =>
    /\ Chosen(q)'
    /\ orch'[q].parent = orch[q].parent /\ orch'[q].snapshot = orch[q].snapshot
    /\ orch'[q].component = orch[q].component /\ orch'[q].version = orch[q].version
    /\ orch'[q].storage = orch[q].storage
    /\ orch[q].head # 0 => orch'[q].head = orch[q].head

Steady ==
  /\ TypeOK'
  /\ Grows /\ RunsKept /\ RequestsKept
  /\ (tip' = tip /\ site' = site) \/ tip' = tip + 1
  /\ Len(validations) <= Len(validations')
  /\ \A v \in DOMAIN validations : validations'[v] = validations[v]
  /\ clock' >= clock

-----------------------------------------------------------------------------
(* Types.                                                                  *)

LEMMA Numbers ==
  ASSUME Constants
  PROVE  /\ Dwell \in Nat /\ MaxSnapshot \in Nat /\ MaxRun \in Nat /\ MaxFault \in Nat
         /\ MaxValidation \in Nat /\ MaxVersion \in Nat /\ MaxClock \in Nat
         /\ MaxSnapshot > 0 /\ MaxRun > 1 /\ MaxValidation > 0 /\ Dwell <= MaxClock
         /\ Snapshot \subseteq Nat /\ Run \subseteq Nat
         /\ None \notin Nat /\ None \notin Request /\ None \notin Component
         /\ None \notin Content /\ None \notin Publication
         /\ None # "snapshot" /\ None # "beta"
         /\ None \notin Snapshot /\ None \notin Run
BY DEF Constants, Snapshot, Run

LEMMA SiteTyped ==
  ASSUME Constants, NEW tree \in Site
  PROVE  /\ \A s \in Snapshot : tree.snapshots[s] \in Content \cup {None}
         /\ \A c \in Channel : tree.channel[c] \in Publication \cup {None}
         /\ \A c \in Channel, r \in Run : tree.history[c][r] \in Publication \cup {None}
         /\ "beta" \in Channel /\ "stable" \in Channel
BY DEF Site, Channel

LEMMA PublicationTyped ==
  ASSUME Constants, NEW p \in Publication
  PROVE  /\ p.run \in Run /\ p.snapshot \in Snapshot /\ p.store \in Run
         /\ p.at \in Nat /\ p.at <= MaxClock /\ p.signing \in Nat
         /\ p.run \in Nat /\ p # None
BY Numbers DEF Publication

LEMMA ServedTyped ==
  ASSUME Constants, HistoryInv, site \in Site, NEW c \in Channel
  PROVE  /\ Served(site, c) \in Content
         /\ site.channel[c] # None =>
              /\ site.channel[c] \in Publication
              /\ Served(site, c) = site.snapshots[site.channel[c].snapshot]
              /\ site.snapshots[site.channel[c].snapshot] # None
<1>1. CASE site.channel[c] = None
  BY <1>1, Numbers DEF Served, Content
<1>2. CASE site.channel[c] # None
  <2>1. site.channel[c] \in Publication
    BY <1>2, SiteTyped
  <2>2. site.channel[c].snapshot \in Snapshot /\ site.channel[c].run \in Run
    BY <2>1, PublicationTyped
  <2>3. site.snapshots[site.channel[c].snapshot] # None
    BY <1>2, <2>2 DEF HistoryInv
  <2>4. QED
    BY <1>2, <2>1, <2>2, <2>3, SiteTyped DEF Served
<1>3. QED
  BY <1>1, <1>2

LEMMA RecordTyped ==
  ASSUME Constants, NEW run \in RunRecord
  PROVE  /\ run.artifact \in Publication \cup {None} /\ run.previous \in Publication \cup {None}
         /\ run.content \in Content \cup {None}
         /\ run.snapshot \in Snapshot \cup {None} /\ run.target \in Run \cup {None}
         /\ run.group \in Component \cup {None} /\ run.base \in Nat \cup {None}
         /\ run.request \in Request \cup {None} /\ run.channel \in Channel
         /\ run.validation \in Nat /\ run.validation <= MaxValidation
         /\ run.attempt \in Nat /\ 0 < run.attempt /\ run.attempt <= MaxFault + 1
<1>1. /\ run.artifact \in Publication \cup {None} /\ run.previous \in Publication \cup {None}
      /\ run.content \in Content \cup {None}
      /\ run.snapshot \in Snapshot \cup {None} /\ run.target \in Run \cup {None}
      /\ run.group \in Component \cup {None} /\ run.base \in Nat \cup {None}
      /\ run.request \in Request \cup {None} /\ run.channel \in Channel
  BY DEF RunRecord
<1>2. run.validation \in 0 .. MaxValidation /\ run.attempt \in 1 .. MaxFault + 1
  BY DEF RunRecord
<1>3. QED
  BY <1>1, <1>2, Numbers

LEMMA RunTyped ==
  ASSUME Constants, TypeOK, NEW r \in 1 .. Len(runs)
  PROVE  runs[r] \in RunRecord /\ r \in Run /\ Len(runs) \in Nat
BY Numbers DEF TypeOK, Run

LEMMA RequestTyped ==
  ASSUME Constants, orch \in [Request -> Request0], NEW q \in Request
  PROVE  /\ orch[q] \in Request0
         /\ orch[q].storage \in Nat /\ orch[q].head \in Nat /\ orch[q].version \in 0 .. MaxVersion
         /\ orch[q].parent \in Snapshot \cup {None} /\ orch[q].snapshot \in Snapshot \cup {None}
         /\ orch[q].component \in Component \cup {None} /\ orch[q].child \in Run \cup {None}
BY DEF Request0

\* The candidate of a request can be stored.
LEMMA MergedTyped ==
  ASSUME Constants, site \in Site, orch \in [Request -> Request0], NEW q \in Request,
         orch[q].parent # None, site.snapshots[orch[q].parent] # None
  PROVE  Merged(q) \in Content /\ Merged(q) # None
<1>1. site.snapshots[orch[q].parent] \in Content /\ orch[q].version \in 0 .. MaxVersion
  BY RequestTyped, SiteTyped
<1>2. Merged(q) \in Content
  BY <1>1 DEF Merged, CandidateOf, Content
<1>3. QED
  BY <1>2, Numbers

-----------------------------------------------------------------------------
(* What a step that keeps what was stored preserves.                       *)

LEMMA BetaStored ==
  ASSUME Constants, site \in Site, HistoryInv, NEW c \in Channel, NEW r \in Run,
         site.history[c][r] # None
  PROVE  /\ site.history[c][r] \in Publication /\ site.history[c][r].snapshot \in Snapshot
         /\ site.history[c][r].run = r
         /\ site.snapshots[site.history[c][r].snapshot] \in Content
<1>1. site.history[c][r] \in Publication
  BY SiteTyped
<1>2. site.history[c][r].snapshot \in Snapshot
  BY <1>1, PublicationTyped
<1>3. site.snapshots[site.history[c][r].snapshot] # None /\ site.history[c][r].run = r
  BY DEF HistoryInv
<1>4. QED
  BY <1>1, <1>2, <1>3, SiteTyped

LEMMA FromBetaKept ==
  ASSUME Constants, site \in Site, HistoryInv, Grows, NEW content, FromBeta(content)
  PROVE  FromBeta(content)'
<1> SUFFICES ASSUME NEW c \in Component, content[c] > 0
             PROVE  \E r \in Run : /\ site'.history["beta"][r] # None
                                   /\ site'.snapshots[site'.history["beta"][r].snapshot][c] = content[c]
  BY DEF FromBeta
<1>1. PICK r \in Run : /\ site.history["beta"][r] # None
                       /\ site.snapshots[site.history["beta"][r].snapshot][c] = content[c]
  BY DEF FromBeta
<1>2. "beta" \in Channel
  BY DEF Channel
<1>3. site'.history["beta"][r] = site.history["beta"][r]
  BY <1>1, <1>2 DEF Grows
<1>4. site.history["beta"][r].snapshot \in Snapshot
      /\ site.snapshots[site.history["beta"][r].snapshot] \in Content
  BY <1>1, <1>2, BetaStored
<1>5. site'.snapshots[site.history["beta"][r].snapshot] = site.snapshots[site.history["beta"][r].snapshot]
  BY <1>4, Numbers DEF Grows
<1>6. QED
  BY <1>1, <1>3, <1>5

\* The publication an evidence is about.
LEMMA TestedTyped ==
  ASSUME Constants, TypeOK, EvidenceInv, NEW v \in DOMAIN validations
  PROVE  /\ Tested(v) \in Publication /\ Tested(v) # None
         /\ validations[v].beta_run \in Run
<1>1. validations[v].beta_run \in Run
  <2>1. validations[v] \in Evidence
    BY DEF TypeOK
  <2>2. QED
    BY <2>1 DEF Evidence
<1>2. Tested(v) # None
  BY DEF EvidenceInv
<1>3. QED
  BY <1>1, <1>2, SiteTyped DEF TypeOK, Tested

LEMMA TestedKept ==
  ASSUME Constants, TypeOK, EvidenceInv, Steady, NEW v \in DOMAIN validations
  PROVE  /\ v \in DOMAIN validations' /\ validations'[v] = validations[v]
         /\ Tested(v)' = Tested(v)
<1>1. v \in DOMAIN validations'
  <2>1. validations \in Seq(Evidence) /\ validations' \in Seq(Evidence)
        /\ Len(validations) <= Len(validations')
    BY DEF TypeOK, Steady
  <2>2. QED
    BY <2>1
<1>2. validations'[v] = validations[v]
  BY DEF Steady
<1>3. validations[v].beta_run \in Run /\ Tested(v) # None /\ "beta" \in Channel
  BY TestedTyped DEF Channel
<1>4. Tested(v)' = Tested(v)
  BY <1>2, <1>3 DEF Steady, Grows, Tested
<1>5. QED
  BY <1>1, <1>2, <1>4

LEMMA EvidenceKept ==
  ASSUME Constants, TypeOK, EvidenceInv, Steady, UNCHANGED validations
  PROVE  EvidenceInv'
BY TestedKept DEF EvidenceInv

LEMMA PromoteKept ==
  ASSUME Constants, TypeOK, EvidenceInv, Steady, NEW run, PromoteBound(run)
  PROVE  PromoteBound(run)'
<1> DEFINE v == run.validation
<1>1. v \in DOMAIN validations
  BY DEF PromoteBound
<1>2. /\ v \in DOMAIN validations' /\ validations'[v] = validations[v]
      /\ Tested(v)' = Tested(v)
  BY <1>1, TestedKept
<1>3. Tested(v).at \in Nat
  BY <1>1, TestedTyped, PublicationTyped
<1>4. clock \in Nat /\ clock' \in Nat /\ clock <= clock' /\ Dwell \in Nat
  BY Numbers DEF TypeOK, Steady
<1>5. clock - Tested(v).at >= Dwell => clock' - Tested(v)'.at >= Dwell
  BY <1>2, <1>3, <1>4
<1>6. QED
  BY <1>2, <1>5 DEF PromoteBound

LEMMA SelectKept ==
  ASSUME Constants, TypeOK, HistoryInv, Steady, NEW r \in Nat, NEW run \in RunRecord,
         SelectBound(r, run)
  PROVE  SelectBound(r, run)'
<1> SUFFICES ASSUME run.job # "compose" PROVE SelectBound(r, run)'
  BY DEF SelectBound
<1>1. /\ run.group # None /\ run.job \in {"compose", "validate", "publish"}
      /\ run.content # None /\ run.artifact # None
      /\ run.base # None /\ run.base <= tip
      /\ run.base \in Nat /\ tip \in Nat
  BY RecordTyped DEF SelectBound, TypeOK
<1>2. FromBeta(run.content)'
  <2>1. FromBeta(run.content)
    BY DEF SelectBound
  <2>2. QED
    BY <2>1, FromBetaKept DEF TypeOK, Steady
<1>3. ASSUME run.previous # None
      PROVE  /\ site.snapshots[run.previous.snapshot] # None
             /\ site'.snapshots[run.previous.snapshot] = site.snapshots[run.previous.snapshot]
  <2>1. site.snapshots[run.previous.snapshot] # None
    BY <1>3 DEF SelectBound
  <2>2. run.previous.snapshot \in Snapshot
    BY <1>3, RecordTyped, PublicationTyped
  <2>3. QED
    BY <2>1, <2>2 DEF Steady, Grows
<1>4. CASE tip' = tip /\ site' = site
  <2>1. tip = run.base =>
            /\ run.content = Composed(run.group) /\ run.content # Served(site, "stable")
            /\ Served(site, "beta")[run.group] > 0
            /\ run.previous = site.channel["stable"]
            /\ site.history["stable"][r] # run.artifact
    BY DEF SelectBound
  <2>2. tip' = run.base =>
            /\ run.content = Composed(run.group)' /\ run.content # Served(site, "stable")'
            /\ Served(site, "beta")'[run.group] > 0
            /\ run.previous = site'.channel["stable"]
            /\ site'.history["stable"][r] # run.artifact
    BY <1>4, <2>1 DEF Composed, Served
  <2>3. run.base <= tip'
    BY <1>1, <1>4
  <2>4. QED
    BY <1>1, <1>2, <1>3, <2>2, <2>3 DEF SelectBound
<1>5. CASE tip' = tip + 1
  <2>1. run.base <= tip' /\ tip' # run.base
    BY <1>1, <1>5
  <2>2. QED
    BY <1>1, <1>2, <1>3, <2>1 DEF SelectBound
<1>6. QED
  BY <1>4, <1>5 DEF Steady

LEMMA RequestBoundKept ==
  ASSUME Constants, TypeOK, Steady, NEW run, RequestBound(run),
         \A q \in Request : RequestInv(q)
  PROVE  RequestBound(run)'
<1> DEFINE q == run.request
<1>1. /\ q \in Request /\ Chosen(q)
      /\ run.kind \in {"snapshot", "beta"} /\ run.snapshot = orch[q].snapshot
      /\ run.kind = "snapshot" => run.base = orch[q].storage /\ run.content = Merged(q)
      /\ run.kind = "beta" => orch[q].head # 0 /\ run.base = orch[q].head
  BY DEF RequestBound
<1>2. orch[q].parent # None /\ site.snapshots[orch[q].parent] # None
  BY <1>1 DEF RequestInv
<1>3. orch[q].parent \in Snapshot
  BY <1>1, <1>2, RequestTyped DEF TypeOK
<1>4. /\ Chosen(q)' /\ orch'[q].snapshot = orch[q].snapshot
      /\ orch'[q].storage = orch[q].storage
      /\ orch'[q].parent = orch[q].parent /\ orch'[q].component = orch[q].component
      /\ orch'[q].version = orch[q].version
      /\ orch[q].head # 0 => orch'[q].head = orch[q].head
  BY <1>1 DEF Steady, RequestsKept
<1>5. Merged(q)' = Merged(q)
  BY <1>2, <1>3, <1>4 DEF Merged, CandidateOf, Steady, Grows
<1>6. QED
  BY <1>1, <1>4, <1>5 DEF RequestBound

LEMMA RunKept ==
  ASSUME Constants, TypeOK, HistoryInv, EvidenceInv, Steady,
         \A q \in Request : RequestInv(q),
         NEW r \in 1 .. Len(runs'), RunBound(r, runs'[r])
  PROVE  RunBound(r, runs[r])'
<1>1. r \in Nat /\ runs'[r] \in RunRecord
  BY DEF Steady, TypeOK
<1>2. PICK run : run = runs'[r]
  OBVIOUS
<1>3. run \in RunRecord /\ RunBound(r, run)
  BY <1>1, <1>2
<1>4. RunBound(r, run)'
  <2>1. run.kind = "promote" => PromoteBound(run)'
    BY <1>3, PromoteKept DEF RunBound
  <2>2. run.kind = "select" => SelectBound(r, run)'
    BY <1>1, <1>3, SelectKept DEF RunBound
  <2>3. run.request # None => RequestBound(run)'
    BY <1>3, RequestBoundKept DEF RunBound
  <2>4. QED
    BY <1>3, <2>1, <2>2, <2>3 DEF RunBound
<1>5. QED
  BY <1>2, <1>4 DEF RunBound, PromoteBound, SelectBound, RequestBound

LEMMA RequestKept ==
  ASSUME Constants, TypeOK, Steady, NEW q \in Request, RequestInv(q), orch'[q] = orch[q]
  PROVE  RequestInv(q)'
<1> DEFINE o == orch[q]
<1>1. /\ o.storage \in Nat /\ o.head \in Nat /\ tip \in Nat
      /\ o.parent \in Snapshot \cup {None} /\ o.snapshot \in Snapshot \cup {None}
      /\ o.child \in Run \cup {None}
  BY RequestTyped DEF TypeOK
<1>2. Chosen(q)' <=> Chosen(q)
  BY DEF Chosen
<1>3. ASSUME o.stage # "idle"
      PROVE  /\ o.parent # None /\ site.snapshots[o.parent] # None
             /\ site'.snapshots[o.parent] = site.snapshots[o.parent]
             /\ o.snapshot # None /\ o.component # None
             /\ o.storage <= tip' /\ (tip' = o.storage => site'.channel["beta"].snapshot = o.parent)
  <2>1. /\ o.parent # None /\ site.snapshots[o.parent] # None
        /\ o.snapshot # None /\ o.component # None
        /\ o.storage <= tip /\ (tip = o.storage => site.channel["beta"].snapshot = o.parent)
    BY <1>3 DEF RequestInv
  <2>2. site'.snapshots[o.parent] = site.snapshots[o.parent]
    BY <1>1, <2>1 DEF Steady, Grows
  <2>3. o.storage <= tip' /\ (tip' = o.storage => site'.channel["beta"].snapshot = o.parent)
    BY <1>1, <2>1 DEF Steady
  <2>4. QED
    BY <2>1, <2>2, <2>3
<1>4. Chosen(q) => o.stage # "idle" /\ o.version > site'.snapshots[o.parent][o.component]
  BY <1>3 DEF RequestInv
<1>5. o.child # None => o.child <= Len(runs') /\ runs'[o.child].request = q
  <2>1. SUFFICES ASSUME o.child # None
                 PROVE  o.child <= Len(runs') /\ runs'[o.child].request = q
    OBVIOUS
  <2>2. o.child \in 1 .. Len(runs) /\ runs[o.child].request = q
    BY <1>1, <2>1 DEF RequestInv, Run
  <2>3. Len(runs) \in Nat /\ Len(runs') \in Nat
    BY DEF TypeOK, Steady
  <2>4. QED
    BY <2>2, <2>3 DEF Steady, RunsKept
<1>6. ASSUME o.head # 0
      PROVE  /\ Chosen(q) /\ o.head <= tip' /\ site'.snapshots[o.snapshot] = Merged(q)'
             /\ tip' = o.head => site'.channel["beta"].snapshot = o.parent
  <2>1. /\ Chosen(q) /\ o.stage # "idle" /\ o.head <= tip /\ site.snapshots[o.snapshot] = Merged(q)
        /\ tip = o.head => site.channel["beta"].snapshot = o.parent
    BY <1>6 DEF RequestInv
  <2>2. Merged(q) # None
    BY <1>3, <2>1, MergedTyped DEF TypeOK
  <2>3. site'.snapshots[o.snapshot] = site.snapshots[o.snapshot]
    BY <1>1, <1>3, <2>1, <2>2 DEF Steady, Grows
  <2>4. Merged(q)' = Merged(q)
    BY <1>3, <2>1 DEF Merged, CandidateOf
  <2>5. o.head <= tip' /\ (tip' = o.head => site'.channel["beta"].snapshot = o.parent)
    BY <1>1, <2>1 DEF Steady
  <2>6. QED
    BY <2>1, <2>3, <2>4, <2>5
<1>7. /\ o.stage = "idle" => o = Idle
      /\ o.stage = "ready" => o.queued = None /\ o.child = None
      /\ o.stage \in {"ready", "snapshot"} => o.head = 0 /\ o.queued # "beta"
      /\ o.queued = "beta" => o.head # 0
  BY DEF RequestInv
<1>8. QED
  BY <1>2, <1>3, <1>4, <1>5, <1>6, <1>7 DEF RequestInv

LEMMA AuthorKept ==
  ASSUME Constants, TypeOK, Steady, AuthorInv, \A r \in 1 .. Len(runs) : RunBound(r, runs[r]),
         \A q \in Request : RequestInv(q), UNCHANGED <<site, tip, author>>
  PROVE  AuthorInv'
<1> DEFINE q == runs[author].request
<1>1. author \in 1 .. Len(runs) /\ Len(runs) \in Nat /\ Len(runs') \in Nat
  BY Numbers DEF TypeOK, AuthorInv, Run, Steady
<1>2. /\ runs'[author].kind = runs[author].kind /\ runs'[author].request = q
      /\ author <= Len(runs')
  BY <1>1 DEF Steady, RunsKept
<1>3. ASSUME runs[author].kind = "snapshot", q # None
      PROVE  /\ tip' = orch'[q].storage + 1
             /\ site'.snapshots[orch'[q].snapshot] = Merged(q)'
             /\ site'.channel["beta"].snapshot = orch'[q].parent
  <2>1. q \in Request /\ Chosen(q)
    BY <1>1, <1>3 DEF RunBound, RequestBound
  <2>2. /\ orch'[q].parent = orch[q].parent /\ orch'[q].snapshot = orch[q].snapshot
        /\ orch'[q].component = orch[q].component /\ orch'[q].version = orch[q].version
        /\ orch'[q].storage = orch[q].storage
    BY <2>1 DEF Steady, RequestsKept
  <2>3. Merged(q)' = Merged(q)
    BY <1>2, <2>2 DEF Merged, CandidateOf
  <2>4. QED
    BY <1>2, <1>3, <2>2, <2>3 DEF AuthorInv
<1>4. QED
  BY <1>2, <1>3 DEF AuthorInv

LEMMA FiledKept ==
  ASSUME Constants, TypeOK, Steady, FiledInv, UNCHANGED site,
         \A r \in 1 .. Len(runs) :
           /\ runs'[r].attempt >= runs[r].attempt
           /\ lock' = r => lock = r \/ runs'[r].attempt > runs[r].attempt
  PROVE  FiledInv'
<1> SUFFICES ASSUME NEW r \in Run, site.history["stable"][r] # None
             PROVE  /\ r <= Len(runs')
                    /\ \E p \in site.promotions : p.run = r
                    /\ site.history["stable"][r].signing <= runs'[r].attempt
                    /\ lock' = r => site.history["stable"][r].signing < runs'[r].attempt
  BY DEF FiledInv
<1>1. /\ r <= Len(runs) /\ \E p \in site.promotions : p.run = r
      /\ site.history["stable"][r].signing <= runs[r].attempt
      /\ lock = r => site.history["stable"][r].signing < runs[r].attempt
  BY DEF FiledInv
<1>2. r \in 1 .. Len(runs) /\ Len(runs) \in Nat /\ Len(runs') \in Nat
  <2>1. runs \in Seq(RunRecord) /\ runs' \in Seq(RunRecord)
    BY DEF TypeOK, Steady
  <2>2. Len(runs) \in Nat /\ Len(runs') \in Nat
    BY <2>1
  <2>3. QED
    BY <1>1, <2>2 DEF Run
<1>3. runs[r].attempt \in Nat /\ runs'[r].attempt \in Nat
  <2>1. r \in 1 .. Len(runs')
    BY <1>2 DEF Steady, RunsKept
  <2>2. runs[r] \in RunRecord /\ runs'[r] \in RunRecord
    BY <1>2, <2>1 DEF TypeOK, Steady
  <2>3. QED
    BY <2>2, RecordTyped
<1>4. site.history["stable"][r].signing \in Nat
  BY SiteTyped, PublicationTyped DEF TypeOK
<1>5. r <= Len(runs')
  BY <1>2 DEF Steady, RunsKept
<1>6. QED
  BY <1>1, <1>2, <1>3, <1>4, <1>5

\* A step that leaves the storage alone.
LEMMA CalmInv ==
  ASSUME Constants, ChannelInv, Steady, UNCHANGED <<site, tip, author>>, AttemptInv',
         EvidenceInv',
         \A r \in 1 .. Len(runs) :
           /\ runs'[r].attempt >= runs[r].attempt
           /\ lock' = r => lock = r \/ runs'[r].attempt > runs[r].attempt,
         \A r \in 1 .. Len(runs') : RunBound(r, runs'[r]),
         \A q \in Request : RequestInv(q)'
  PROVE  ChannelInv'
<1>1. HistoryInv' /\ StableInv'
  <2>1. HistoryInv /\ StableInv
    BY DEF ChannelInv
  <2>2. HistoryInv'
    BY <2>1 DEF HistoryInv
  <2>3. StableInv'
    BY <2>1 DEF StableInv, FromBeta
  <2>4. QED
    BY <2>2, <2>3
<1>2. FiledInv'
  BY FiledKept DEF ChannelInv
<1>3. AuthorInv'
  BY AuthorKept DEF ChannelInv
<1>4. \A r \in 1 .. Len(runs') : RunBound(r, runs[r])'
  BY RunKept DEF ChannelInv
<1>5. QED
  BY <1>1, <1>2, <1>3, <1>4 DEF ChannelInv, Steady

-----------------------------------------------------------------------------
(* Steps of one run.                                                       *)

LEMMA OneRun ==
  ASSUME Constants, TypeOK, NEW r \in 1 .. Len(runs), NEW run \in RunRecord,
         runs' = [runs EXCEPT ![r] = run]
  PROVE  /\ runs' \in Seq(RunRecord) /\ Len(runs') = Len(runs) /\ runs'[r] = run
         /\ \A x \in 1 .. Len(runs) : x # r => runs'[x] = runs[x]
BY DEF TypeOK

\* The locked run goes on, or ends.
LEMMA StatusTyped ==
  ASSUME Constants, TypeOK, NEW r \in 1 .. Len(runs), NEW run \in RunRecord,
         runs' = [runs EXCEPT ![r] = run], lock \in {r, None},
         lock' \in {r, None}, run.status = "in_progress" <=> lock' = r
  PROVE  /\ lock' \in 1 .. Len(runs') \cup {None}
         /\ \A x \in 1 .. Len(runs') : runs'[x].status = "in_progress" <=> lock' = x
<1>1. /\ Len(runs') = Len(runs) /\ runs'[r] = run
      /\ \A x \in 1 .. Len(runs) : x # r => runs'[x] = runs[x]
  BY OneRun
<1>2. \A x \in 1 .. Len(runs) : x # None
  BY Numbers
<1>3. \A x \in 1 .. Len(runs) : runs[x].status = "in_progress" <=> lock = x
  BY DEF TypeOK
<1>4. QED
  BY <1>1, <1>2, <1>3

\* A job that leaves the storage as it is, a failure, a re-run.
LEMMA JobInv ==
  ASSUME Constants, ChannelInv, NEW r \in 1 .. Len(runs), NEW run \in RunRecord,
         runs' = [runs EXCEPT ![r] = run],
         run.kind = runs[r].kind, run.request = runs[r].request,
         UNCHANGED <<site, tip, author, validations, orch, clock>>,
         faults' \in 0 .. MaxFault, faults <= faults',
         lock \in {r, None}, lock' \in {r, None}, run.status = "in_progress" <=> lock' = r,
         \/ run.attempt = runs[r].attempt /\ (lock' = r => lock = r)
         \/ run.attempt = runs[r].attempt + 1 /\ faults' = faults + 1,
         RunBound(r, run)
  PROVE  ChannelInv'
<1>0. TypeOK /\ AttemptInv /\ EvidenceInv /\ \A q \in Request : RequestInv(q)
  BY DEF ChannelInv
<1>1. /\ runs' \in Seq(RunRecord) /\ Len(runs') = Len(runs) /\ runs'[r] = run
      /\ \A x \in 1 .. Len(runs) : x # r => runs'[x] = runs[x]
  BY <1>0, OneRun
<1>2. TypeOK'
  <2>1. /\ lock' \in 1 .. Len(runs') \cup {None}
        /\ \A x \in 1 .. Len(runs') : runs'[x].status = "in_progress" <=> lock' = x
    BY <1>0, StatusTyped
  <2>2. QED
    BY <1>0, <1>1, <2>1 DEF TypeOK
<1>3. RunsKept
  BY <1>0, <1>1 DEF RunsKept, TypeOK
<1>4. Steady
  BY <1>0, <1>2, <1>3 DEF Steady, Grows, RequestsKept, Chosen, TypeOK
<1>5. \A x \in 1 .. Len(runs) : runs[x].attempt \in Nat
  BY <1>0, RunTyped, RecordTyped
<1>6. \A x \in 1 .. Len(runs) :
        /\ runs'[x].attempt >= runs[x].attempt
        /\ lock' = x => lock = x \/ runs'[x].attempt > runs[x].attempt
  BY <1>1, <1>5, Numbers
<1>7. AttemptInv'
  <2>1. faults \in Nat /\ faults' \in Nat
    BY <1>0 DEF TypeOK
  <2>2. QED
    BY <1>0, <1>1, <1>5, <2>1 DEF AttemptInv
<1>8. EvidenceInv'
  BY <1>0, <1>4, EvidenceKept
<1>9. \A x \in 1 .. Len(runs') : RunBound(x, runs'[x])
  BY <1>1 DEF ChannelInv
<1>10. \A q \in Request : RequestInv(q)'
  BY <1>0, <1>4, RequestKept
<1>11. QED
  BY <1>4, <1>6, <1>7, <1>8, <1>9, <1>10, CalmInv

\* What a push leaves of the record of its run.
LEMMA PushedRun ==
  ASSUME Constants, ChannelInv, NEW r \in 1 .. Len(runs), lock = r, NEW tree \in Site, Push(r, tree)
  PROVE  /\ site' = tree /\ tip' = tip + 1 /\ author' = r /\ lock' = None
         /\ UNCHANGED <<validations, orch, clock>>
         /\ faults' \in 0 .. MaxFault /\ faults <= faults' /\ TypeOK' /\ RunsKept
         /\ \A x \in 1 .. Len(runs) : runs'[x].attempt = runs[x].attempt /\ (RunBound(x, runs'[x]))
<1>0. TypeOK /\ \A x \in 1 .. Len(runs) : RunBound(x, runs[x])
  BY DEF ChannelInv
<1>1. /\ site' = tree /\ tip' = tip + 1 /\ author' = r /\ lock' = None
      /\ UNCHANGED <<validations, orch, clock>>
  BY DEF Push
<1>2. faults' \in 0 .. MaxFault /\ faults <= faults'
  BY <1>0, Numbers DEF Push, Fault, TypeOK
<1>3. PICK s \in {"success", "failure"} : runs' = [runs EXCEPT ![r].status = s]
  BY DEF Push
<1> DEFINE run == [runs[r] EXCEPT !.status = s]
<1>4. run \in RunRecord /\ runs' = [runs EXCEPT ![r] = run] /\ run.status = s
  <2>1. runs[r] \in RunRecord
    BY <1>0, RunTyped
  <2>2. QED
    BY <1>3, <2>1 DEF RunRecord
<1>5. /\ runs' \in Seq(RunRecord) /\ Len(runs') = Len(runs) /\ runs'[r] = run
      /\ \A x \in 1 .. Len(runs) : x # r => runs'[x] = runs[x]
  BY <1>0, <1>4, OneRun
<1>6. /\ lock' \in 1 .. Len(runs') \cup {None}
      /\ \A x \in 1 .. Len(runs') : runs'[x].status = "in_progress" <=> lock' = x
  <2>1. run.status # "in_progress" /\ lock' # r
    BY <1>1, <1>4, Numbers
  <2>2. QED
    BY <1>0, <1>1, <1>4, <2>1, StatusTyped
<1>7. TypeOK'
  <2>1. tip' \in Nat /\ author' \in Run
    BY <1>0, <1>1, RunTyped DEF TypeOK
  <2>2. QED
    BY <1>0, <1>1, <1>2, <1>5, <1>6, <2>1 DEF TypeOK
<1>8. /\ run.kind = runs[r].kind /\ run.request = runs[r].request /\ run.attempt = runs[r].attempt
      /\ run.artifact = runs[r].artifact /\ run.snapshot = runs[r].snapshot
      /\ run.content = runs[r].content /\ run.base = runs[r].base /\ run.job = runs[r].job
      /\ run.validation = runs[r].validation /\ run.group = runs[r].group
      /\ run.previous = runs[r].previous /\ run.target = runs[r].target
  <2>1. runs[r] \in RunRecord
    BY <1>0, RunTyped
  <2>2. QED
    BY <2>1 DEF RunRecord
<1>9. RunBound(r, run)
  <2>1. RunBound(r, runs[r])
    BY <1>0
  <2> HIDE DEF run
  <2>2. QED
    BY <1>8, <2>1 DEF RunBound, PromoteBound, SelectBound, RequestBound
<1> HIDE DEF run
<1>10. RunsKept
  BY <1>0, <1>5, <1>8 DEF RunsKept, TypeOK
<1>11. QED
  BY <1>0, <1>1, <1>2, <1>5, <1>7, <1>8, <1>9, <1>10

\* The commit is the snapshot of request q.
AddsCandidate(q) ==
  /\ tip = orch[q].storage
  /\ site'.snapshots[orch[q].snapshot] = Merged(q)'
  /\ site'.channel["beta"].snapshot = orch[q].parent

LEMMA PushInv ==
  ASSUME Constants, ChannelInv, NEW r \in 1 .. Len(runs), lock = r, NEW tree \in Site, Push(r, tree),
         Grows, HistoryInv', StableInv',
         \A x \in Run : site'.history["stable"][x] # None =>
           /\ \E p \in site'.promotions : p.run = x
           /\ \/ site'.history["stable"][x] = site.history["stable"][x]
              \/ x = r /\ site'.history["stable"][x].signing <= runs[r].attempt,
         runs[r].kind = "snapshot" /\ runs[r].request # None => AddsCandidate(runs[r].request)
  PROVE  ChannelInv'
<1>0. /\ TypeOK /\ AttemptInv /\ EvidenceInv /\ HistoryInv /\ FiledInv
      /\ \A q \in Request : RequestInv(q)
  BY DEF ChannelInv
<1>1. /\ site' = tree /\ tip' = tip + 1 /\ author' = r /\ lock' = None
      /\ UNCHANGED <<validations, orch, clock>>
      /\ faults' \in 0 .. MaxFault /\ faults <= faults' /\ TypeOK' /\ RunsKept
      /\ \A x \in 1 .. Len(runs) : runs'[x].attempt = runs[x].attempt /\ RunBound(x, runs'[x])
  BY PushedRun
<1>2. Len(runs') = Len(runs)
  BY <1>0 DEF Push, TypeOK
<1>3. Steady
  BY <1>0, <1>1 DEF Steady, RequestsKept, Chosen, TypeOK
<1>4. \A x \in 1 .. Len(runs') : RunBound(x, runs[x])'
  BY <1>0, <1>1, <1>2, <1>3, RunKept
<1>5. \A q \in Request : RequestInv(q)'
  BY <1>0, <1>1, <1>3, RequestKept
<1>6. EvidenceInv'
  BY <1>0, <1>1, <1>3, EvidenceKept
<1>7. AttemptInv'
  <2>1. \A x \in 1 .. Len(runs) : runs[x].attempt \in Nat
    BY <1>0, RunTyped, RecordTyped
  <2>2. faults \in Nat /\ faults' \in Nat
    BY <1>0, <1>1 DEF TypeOK
  <2>3. \A x \in 1 .. Len(runs) : runs[x].attempt <= faults + 1
    BY <1>0 DEF AttemptInv
  <2>4. ASSUME NEW x \in 1 .. Len(runs) PROVE runs'[x].attempt <= faults' + 1
    <3>1. faults <= faults' /\ runs'[x].attempt = runs[x].attempt
      BY <1>1
    <3>2. QED
      BY <2>1, <2>2, <2>3, <3>1
  <2>5. QED
    BY <1>2, <2>4 DEF AttemptInv
<1>8. AuthorInv'
  <2>1. r <= Len(runs') /\ runs'[r].kind = runs[r].kind /\ runs'[r].request = runs[r].request
    BY <1>0, <1>1, <1>2, RunTyped DEF RunsKept
  <2>2. QED
    BY <1>1, <2>1 DEF AuthorInv, AddsCandidate
<1>9. FiledInv'
  <2> SUFFICES ASSUME NEW x \in Run, site'.history["stable"][x] # None
               PROVE  /\ x <= Len(runs')
                      /\ site'.history["stable"][x].signing <= runs'[x].attempt
                      /\ ~(lock' = x)
    BY DEF FiledInv
  <2>1. lock' # x
    BY <1>1, Numbers
  <2>2. CASE site'.history["stable"][x] = site.history["stable"][x]
    <3>1. x <= Len(runs) /\ site.history["stable"][x].signing <= runs[x].attempt
      BY <1>0, <2>2 DEF FiledInv
    <3>2. x \in 1 .. Len(runs)
      BY <1>0, <3>1, Numbers DEF Run, TypeOK
    <3>3. QED
      BY <1>1, <1>2, <2>1, <2>2, <3>1, <3>2
  <2>3. CASE x = r /\ site'.history["stable"][x].signing <= runs[r].attempt
    BY <1>0, <1>1, <1>2, <2>1, <2>3, RunTyped
  <2>4. QED
    BY <2>2, <2>3
<1>10. QED
  BY <1>1, <1>4, <1>5, <1>6, <1>7, <1>8, <1>9 DEF ChannelInv

-----------------------------------------------------------------------------
(* Commits.                                                                *)

\* The commit stages publication p on channel c.
Stages(c, p) ==
  /\ c \in Channel /\ p \in Publication
  /\ site.history[c][p.run] \in {None, p}
  /\ site'.history = [site.history EXCEPT ![c][p.run] = p]
  /\ site'.channel = [site.channel EXCEPT ![c] = p]
  /\ \A s \in Snapshot : site.snapshots[s] # None => site'.snapshots[s] = site.snapshots[s]
  /\ site'.snapshots[p.snapshot] # None

LEMMA StagesChanges ==
  ASSUME Constants, site \in Site, site' \in Site, NEW c, NEW p, Stages(c, p)
  PROVE  /\ Grows
         /\ p.run \in Run /\ site'.history[c][p.run] = p /\ site'.channel[c] = p
         /\ \A d \in Channel, x \in Run :
              ~(d = c /\ x = p.run) => site'.history[d][x] = site.history[d][x]
         /\ \A d \in Channel : d # c => site'.channel[d] = site.channel[d]
<1>1. c \in Channel /\ p.run \in Run
  BY PublicationTyped DEF Stages
<1>2. /\ site.history \in [Channel -> [Run -> Publication \cup {None}]]
      /\ site.channel \in [Channel -> Publication \cup {None}]
  BY DEF Site
<1>3. /\ site'.history[c][p.run] = p /\ site'.channel[c] = p
      /\ \A d \in Channel, x \in Run :
           ~(d = c /\ x = p.run) => site'.history[d][x] = site.history[d][x]
      /\ \A d \in Channel : d # c => site'.channel[d] = site.channel[d]
  BY <1>1, <1>2 DEF Stages
<1>4. Grows
  BY <1>1, <1>3 DEF Grows, Stages
<1>5. QED
  BY <1>1, <1>3, <1>4

LEMMA StagesHistory ==
  ASSUME Constants, site \in Site, site' \in Site, HistoryInv, NEW c, NEW p, Stages(c, p)
  PROVE  HistoryInv'
<1>1. /\ Grows
      /\ p.run \in Run /\ site'.history[c][p.run] = p /\ site'.channel[c] = p
      /\ \A d \in Channel, x \in Run :
           ~(d = c /\ x = p.run) => site'.history[d][x] = site.history[d][x]
      /\ \A d \in Channel : d # c => site'.channel[d] = site.channel[d]
  BY StagesChanges
<1>2. p # None /\ "beta" \in Channel /\ c \in Channel
  BY PublicationTyped DEF Stages, Channel
<1>3. site'.channel["beta"] # None
  BY <1>1, <1>2 DEF HistoryInv
<1>4. ASSUME NEW d \in Channel, site'.channel[d] # None
      PROVE  site'.history[d][site'.channel[d].run] = site'.channel[d]
  <2>1. CASE d = c
    BY <1>1, <2>1
  <2>2. CASE d # c
    <3>1. site.channel[d] # None /\ site'.channel[d] = site.channel[d]
      BY <1>1, <1>4, <2>2
    <3>2. site.channel[d].run \in Run
      BY <3>1, SiteTyped, PublicationTyped
    <3>3. QED
      BY <1>1, <2>2, <3>1, <3>2 DEF HistoryInv
  <2>3. QED
    BY <2>1, <2>2
<1>5. ASSUME NEW d \in Channel, NEW x \in Run, site'.history[d][x] # None
      PROVE  /\ site'.history[d][x].run = x
             /\ site'.snapshots[site'.history[d][x].snapshot] # None
  <2>1. CASE d = c /\ x = p.run
    BY <1>1, <2>1 DEF Stages
  <2>2. CASE ~(d = c /\ x = p.run)
    <3>1. site'.history[d][x] = site.history[d][x]
      BY <1>1, <2>2
    <3>2. /\ site.history[d][x].snapshot \in Snapshot /\ site.history[d][x].run = x
          /\ site.snapshots[site.history[d][x].snapshot] # None
      BY <1>5, <3>1, BetaStored, Numbers
    <3>3. QED
      BY <1>1, <3>1, <3>2 DEF Grows
  <2>3. QED
    BY <2>1, <2>2
<1>6. QED
  BY <1>3, <1>4, <1>5 DEF HistoryInv

LEMMA StableKept ==
  ASSUME Constants, site \in Site, HistoryInv, StableInv, Grows,
         NEW r \in Run, site.history["stable"][r] # None
  PROVE  FromBeta(site.snapshots[site.history["stable"][r].snapshot])'
<1>1. /\ site.history["stable"][r].snapshot \in Snapshot
      /\ site.snapshots[site.history["stable"][r].snapshot] # None
      /\ site'.history["stable"][r] = site.history["stable"][r]
  BY BetaStored, Numbers DEF Channel, Grows
<1>2. site'.snapshots[site'.history["stable"][r].snapshot]
        = site.snapshots[site.history["stable"][r].snapshot]
  BY <1>1 DEF Grows
<1>3. PICK content : content = site.snapshots[site.history["stable"][r].snapshot]
  OBVIOUS
<1>4. FromBeta(content)
  BY <1>3 DEF StableInv
<1>5. FromBeta(content)'
  BY <1>4, FromBetaKept
<1>6. content = site'.snapshots[site'.history["stable"][r].snapshot]
  BY <1>2, <1>3
<1>7. \A c \in Component : content[c] > 0 =>
        \E x \in Run : /\ site'.history["beta"][x] # None
                       /\ site'.snapshots[site'.history["beta"][x].snapshot][c] = content[c]
  BY <1>5 DEF FromBeta
<1>8. QED
  BY <1>6, <1>7 DEF FromBeta

LEMMA StagesStable ==
  ASSUME Constants, site \in Site, site' \in Site, HistoryInv, StableInv, NEW c, NEW p, Stages(c, p),
         c = "stable" => FromBeta(site'.snapshots[p.snapshot])
  PROVE  StableInv'
<1>1. /\ Grows
      /\ p.run \in Run /\ site'.history[c][p.run] = p
      /\ \A d \in Channel, x \in Run :
           ~(d = c /\ x = p.run) => site'.history[d][x] = site.history[d][x]
      /\ "stable" \in Channel
  BY StagesChanges DEF Channel
<1> SUFFICES ASSUME NEW x \in Run, site'.history["stable"][x] # None
             PROVE  FromBeta(site.snapshots[site.history["stable"][x].snapshot])'
  BY DEF StableInv
<1>2. CASE c = "stable" /\ x = p.run
  <2>1. PICK content : content = site'.snapshots[p.snapshot]
    OBVIOUS
  <2>2. FromBeta(content)'
    BY <1>1, <1>2, <2>1, FromBetaKept
  <2>3. site'.snapshots[site'.history["stable"][x].snapshot] = content
    BY <1>1, <1>2, <2>1
  <2>4. \A d \in Component : content[d] > 0 =>
          \E y \in Run : /\ site'.history["beta"][y] # None
                         /\ site'.snapshots[site'.history["beta"][y].snapshot][d] = content[d]
    BY <2>2 DEF FromBeta
  <2>5. QED
    BY <2>3, <2>4 DEF FromBeta
<1>3. CASE ~(c = "stable" /\ x = p.run)
  <2>1. site.history["stable"][x] # None
    BY <1>1, <1>3
  <2>2. QED
    BY <1>1, <2>1, StableKept
<1>4. QED
  BY <1>2, <1>3

\* A snapshot is added and no channel changes.
LEMMA StoresHistory ==
  ASSUME Constants, site \in Site, HistoryInv, StableInv, Grows,
         site'.channel = site.channel, site'.history = site.history
  PROVE  HistoryInv' /\ StableInv'
<1>1. ASSUME NEW c \in Channel, NEW r \in Run, site'.history[c][r] # None
      PROVE  /\ site'.history[c][r].run = r
             /\ site'.snapshots[site'.history[c][r].snapshot] # None
  <2>1. /\ site.history[c][r].snapshot \in Snapshot /\ site.history[c][r].run = r
        /\ site.snapshots[site.history[c][r].snapshot] # None
    BY <1>1, BetaStored, Numbers
  <2>2. QED
    BY <2>1 DEF Grows
<1>2. HistoryInv'
  BY <1>1 DEF HistoryInv
<1>3. StableInv'
  BY StableKept DEF StableInv
<1>4. QED
  BY <1>2, <1>3

-----------------------------------------------------------------------------
(* The jobs.                                                               *)

LEMMA Parts ==
  ASSUME ChannelInv
  PROVE  /\ TypeOK /\ AttemptInv /\ HistoryInv /\ StableInv /\ FiledInv /\ EvidenceInv /\ AuthorInv
         /\ site \in Site /\ runs \in Seq(RunRecord) /\ Len(runs) \in Nat
         /\ \A r \in 1 .. Len(runs) : RunBound(r, runs[r])
         /\ \A q \in Request : RequestInv(q)
BY DEF ChannelInv, TypeOK

\* A record again, with another status, attempt and job.
Again(run, s, a, job) == [run EXCEPT !.status = s, !.attempt = a, !.job = job]

Statuses == {"in_progress", "success", "failure"}
Attempts == 1 .. MaxFault + 1
Jobs == {"verify", "compose", "validate", "sign", "publish"}

LEMMA AgainTyped ==
  ASSUME NEW run \in RunRecord, NEW s \in Statuses, NEW a \in Attempts, NEW job \in Jobs
  PROVE  Again(run, s, a, job) \in RunRecord
<1>1. PICK new : new = Again(run, s, a, job)
  OBVIOUS
<1>2. new \in RunRecord
  BY <1>1 DEF RunRecord, Again, Statuses, Attempts, Jobs
<1>3. QED
  BY <1>1, <1>2

LEMMA StatusOnly ==
  ASSUME Constants, ChannelInv, NEW r \in 1 .. Len(runs),
         NEW s \in {"in_progress", "success", "failure"}, NEW a \in 1 .. MaxFault + 1,
         NEW job \in {runs[r].job, FirstJob(runs[r].kind)},
         runs[r].attempt <= a,
         NEW run, run = Again(runs[r], s, a, job)
  PROVE  /\ run \in RunRecord /\ run.status = s /\ run.attempt = a
         /\ run.kind = runs[r].kind /\ run.request = runs[r].request
         /\ RunBound(r, run)
<1>1. runs[r] \in RunRecord /\ RunBound(r, runs[r])
  BY Parts, RunTyped
<1>2. /\ runs[r].kind \in {"snapshot", "beta", "promote", "select", "rollback"}
      /\ runs[r].job \in {"verify", "compose", "validate", "sign", "publish"}
  BY <1>1 DEF RunRecord
<1>3. /\ FirstJob(runs[r].kind) \in {"verify", "compose", "validate", "sign", "publish"}
      /\ runs[r].kind = "promote" => FirstJob(runs[r].kind) = "verify"
      /\ runs[r].kind = "select" => FirstJob(runs[r].kind) = "compose"
      /\ runs[r].kind = "beta" => FirstJob(runs[r].kind) = "sign"
  BY <1>2 DEF FirstJob
<1>4. /\ run \in RunRecord /\ run.status = s /\ run.attempt = a /\ run.job = job
      /\ run.kind = runs[r].kind /\ run.request = runs[r].request
      /\ run.artifact = runs[r].artifact /\ run.snapshot = runs[r].snapshot
      /\ run.content = runs[r].content /\ run.base = runs[r].base
      /\ run.validation = runs[r].validation /\ run.group = runs[r].group
      /\ run.previous = runs[r].previous /\ run.target = runs[r].target
  <2>1. job \in {"verify", "compose", "validate", "sign", "publish"}
    BY <1>2, <1>3
  <2>2. PICK old : old = runs[r]
    OBVIOUS
  <2>3. old \in RunRecord /\ run = Again(old, s, a, job)
    BY <1>1, <2>2
  <2>4. run \in RunRecord
    <3>1. s \in Statuses /\ a \in Attempts /\ job \in Jobs
      BY <2>1 DEF Statuses, Attempts, Jobs
    <3>2. QED
      BY <2>3, <3>1, AgainTyped
  <2>5. run.status = s /\ run.attempt = a /\ run.job = job
    BY <2>3 DEF RunRecord, Again
  <2>6. /\ run.kind = old.kind /\ run.request = old.request
        /\ run.artifact = old.artifact /\ run.snapshot = old.snapshot
        /\ run.content = old.content /\ run.base = old.base
    BY <2>3 DEF RunRecord, Again
  <2>7. /\ run.validation = old.validation /\ run.group = old.group
        /\ run.previous = old.previous /\ run.target = old.target
    BY <2>3 DEF RunRecord, Again
  <2>8. QED
    BY <2>2, <2>4, <2>5, <2>6, <2>7
<1>5. runs[r].artifact # None => runs[r].artifact.signing <= a
  <2>1. ASSUME runs[r].artifact # None PROVE runs[r].artifact.signing <= a
    <3>1. runs[r].artifact \in Publication /\ runs[r].attempt \in Nat
      BY <1>1, <2>1, RecordTyped
    <3>2. runs[r].artifact.signing \in Nat /\ runs[r].artifact.signing <= runs[r].attempt
      BY <1>1, <2>1, <3>1, PublicationTyped DEF RunBound
    <3>3. QED
      BY <3>1, <3>2, Numbers
  <2>2. QED
    BY <2>1
<1>6. RunBound(r, run)
  BY <1>1, <1>3, <1>4, <1>5 DEF RunBound, PromoteBound, SelectBound, RequestBound
<1>7. QED
  BY <1>4, <1>6

LEMMA QuietInv ==
  ASSUME Constants, ChannelInv, NEW r \in 1 .. Len(runs), lock = r, Quiet(r)
  PROVE  ChannelInv'
<1>1. runs[r] \in RunRecord /\ runs[r].attempt \in 1 .. MaxFault + 1
  BY Parts, RunTyped DEF RunRecord
<1>2. PICK run : run = Again(runs[r], "success", runs[r].attempt, runs[r].job)
  OBVIOUS
<1>3. /\ run \in RunRecord /\ run.status = "success" /\ run.attempt = runs[r].attempt
      /\ run.kind = runs[r].kind /\ run.request = runs[r].request
      /\ RunBound(r, run)
  BY <1>1, <1>2, StatusOnly
<1>4. runs' = [runs EXCEPT ![r] = run]
  <2>1. run = [runs[r] EXCEPT !.status = "success"]
    BY <1>1, <1>2 DEF RunRecord, Again
  <2>2. QED
    BY <2>1 DEF Quiet
<1>5. lock = r /\ lock' = None /\ lock' # r /\ UNCHANGED <<site, tip, author, validations, orch, clock>>
  BY Numbers DEF Quiet
<1>6. faults' \in 0 .. MaxFault /\ faults <= faults'
  BY Parts, Numbers DEF TypeOK, Quiet, Fault
<1>7. QED
  BY <1>3, <1>4, <1>5, <1>6, JobInv

LEMMA FailInv ==
  ASSUME Constants, ChannelInv, NEW r \in 1 .. Len(runs), Fail(r)
  PROVE  ChannelInv'
<1>1. runs[r] \in RunRecord /\ runs[r].attempt \in 1 .. MaxFault + 1
  BY Parts, RunTyped DEF RunRecord
<1>2. PICK run : run = Again(runs[r], "failure", runs[r].attempt, runs[r].job)
  OBVIOUS
<1>3. /\ run \in RunRecord /\ run.status = "failure" /\ run.attempt = runs[r].attempt
      /\ run.kind = runs[r].kind /\ run.request = runs[r].request
      /\ RunBound(r, run)
  BY <1>1, <1>2, StatusOnly
<1>4. runs' = [runs EXCEPT ![r] = run]
  <2>1. run = [runs[r] EXCEPT !.status = "failure"]
    BY <1>1, <1>2 DEF RunRecord, Again
  <2>2. QED
    BY <2>1 DEF Fail
<1>5. lock = r /\ lock' = None /\ lock' # r /\ UNCHANGED <<site, tip, author, validations, orch, clock>>
  BY Numbers DEF Fail
<1>6. faults' \in 0 .. MaxFault /\ faults <= faults'
  BY Parts, Numbers DEF TypeOK, Fail, Fault
<1>7. QED
  BY <1>3, <1>4, <1>5, <1>6, JobInv

LEMMA ReRunInv ==
  ASSUME Constants, ChannelInv, NEW r \in 1 .. Len(runs), ReRun(r)
  PROVE  ChannelInv'
<1> DEFINE again(job) == Again(runs[r], "in_progress", runs[r].attempt + 1, job)
<1>1. /\ runs[r] \in RunRecord /\ runs[r].attempt \in Nat /\ runs[r].attempt <= faults + 1
      /\ runs[r].attempt > 0 /\ faults \in Nat
  BY Parts, RunTyped, RecordTyped DEF AttemptInv, TypeOK
<1>2. faults' \in 0 .. MaxFault /\ faults <= faults' /\ faults' = faults + 1
  <2>1. faults < MaxFault /\ faults' = faults + 1
    BY DEF ReRun, Fault
  <2>2. QED
    BY <1>1, <2>1, Numbers
<1>3. runs[r].attempt + 1 \in 1 .. MaxFault + 1
  BY <1>1, <1>2, Numbers
<1>4. PICK job \in {runs[r].job, FirstJob(runs[r].kind)} : runs' = [runs EXCEPT ![r] = again(job)]
  <2>1. \/ runs' = [runs EXCEPT ![r].status = "in_progress", ![r].attempt = @ + 1]
        \/ runs' = [runs EXCEPT ![r].status = "in_progress", ![r].attempt = @ + 1,
                                ![r].job = FirstJob(runs[r].kind)]
    BY DEF ReRun
  <2>2. [runs EXCEPT ![r].status = "in_progress", ![r].attempt = @ + 1]
          = [runs EXCEPT ![r] = again(runs[r].job)]
    BY <1>1, Parts DEF RunRecord, Again
  <2>3. [runs EXCEPT ![r].status = "in_progress", ![r].attempt = @ + 1,
                     ![r].job = FirstJob(runs[r].kind)]
          = [runs EXCEPT ![r] = again(FirstJob(runs[r].kind))]
    BY <1>1, Parts DEF RunRecord, Again
  <2>4. QED
    BY <2>1, <2>2, <2>3
<1>5. PICK run : run = again(job)
  OBVIOUS
<1>6. /\ run \in RunRecord /\ run.status = "in_progress" /\ run.attempt = runs[r].attempt + 1
      /\ run.kind = runs[r].kind /\ run.request = runs[r].request
      /\ RunBound(r, run)
  BY <1>1, <1>3, <1>4, <1>5, StatusOnly
<1>7. lock = None /\ lock' = r /\ UNCHANGED <<site, tip, author, validations, orch, clock>>
  BY DEF ReRun
<1>8. QED
  BY <1>2, <1>4, <1>5, <1>6, <1>7, JobInv

\* The locked run is handed on to its next job.
LEMMA HandOnInv ==
  ASSUME Constants, ChannelInv, NEW r \in 1 .. Len(runs), lock = r, NEW run \in RunRecord,
         HandOn(r, run), run.kind = runs[r].kind, run.request = runs[r].request,
         run.attempt = runs[r].attempt, run.status = runs[r].status, RunBound(r, run)
  PROVE  ChannelInv'
<1>1. run.status = "in_progress"
  BY Parts DEF TypeOK
<1>2. /\ runs' = [runs EXCEPT ![r] = run]
      /\ UNCHANGED <<site, tip, author, lock, validations, orch, clock, faults>>
  BY DEF HandOn
<1>3. faults' \in 0 .. MaxFault /\ faults <= faults'
  BY <1>2, Parts DEF TypeOK
<1>4. QED
  BY <1>1, <1>2, <1>3, JobInv

LEMMA SignedTyped ==
  ASSUME Constants, ChannelInv, NEW r \in 1 .. Len(runs), NEW s \in Snapshot, NEW t \in Run
  PROVE  LET p == Signed(r, s, t) IN
         /\ p \in Publication /\ p # None
         /\ p.run = r /\ p.snapshot = s /\ p.store = t /\ p.at = clock /\ p.signing = runs[r].attempt
<1>1. r \in Run /\ clock \in 0 .. MaxClock /\ runs[r] \in RunRecord
  BY Parts, RunTyped DEF TypeOK
<1>2. runs[r].attempt \in 1 .. MaxFault + 1
  BY <1>1 DEF RunRecord
<1>3. PICK attempt : attempt = runs[r].attempt
  OBVIOUS
<1>4. Signed(r, s, t) = [run |-> r, snapshot |-> s, store |-> t, at |-> clock, signing |-> attempt]
  BY <1>3 DEF Signed
<1>5. Signed(r, s, t) \in Publication
  BY <1>1, <1>2, <1>3, <1>4 DEF Publication
<1>6. QED
  BY <1>3, <1>4, <1>5, Numbers

LEMMA SignBetaInv ==
  ASSUME Constants, ChannelInv, NEW r \in 1 .. Len(runs), SignBeta(r)
  PROVE  ChannelInv'
<1>1. PICK old : old = runs[r]
  OBVIOUS
<1>2. old \in RunRecord /\ RunBound(r, old) /\ old.kind = "beta" /\ lock = r
  BY <1>1, Parts, RunTyped DEF SignBeta, Job
<1>3. old.snapshot \in Snapshot /\ old.snapshot # None /\ r \in Run
  BY <1>2, Parts, RunTyped, RecordTyped DEF RunBound
<1>4. PICK p : p = Signed(r, old.snapshot, r)
  OBVIOUS
<1>5. p \in Publication /\ p # None /\ p.run = r /\ p.snapshot = old.snapshot /\ p.signing = old.attempt
  BY <1>1, <1>3, <1>4, SignedTyped
<1>6. PICK run : run = [old EXCEPT !.artifact = p, !.job = "publish"]
  OBVIOUS
<1>7. run \in RunRecord
  BY <1>2, <1>5, <1>6 DEF RunRecord
<1>8. /\ run.kind = "beta" /\ run.request = old.request /\ run.attempt = old.attempt
      /\ run.status = old.status /\ run.artifact = p /\ run.snapshot = old.snapshot
      /\ run.base = old.base
  BY <1>2, <1>6 DEF RunRecord
<1>9. old.attempt \in Nat
  BY <1>2, RecordTyped
<1>10. RunBound(r, run)
  BY <1>2, <1>3, <1>5, <1>8, <1>9 DEF RunBound, RequestBound
<1>11. HandOn(r, run)
  BY <1>1, <1>4, <1>6 DEF SignBeta
<1>12. QED
  BY <1>1, <1>2, <1>7, <1>8, <1>10, <1>11, HandOnInv

\* The evidence of a promotion is about the publication that beta serves.
LEMMA CurrentIsTested ==
  ASSUME Constants, ChannelInv, NEW r \in 1 .. Len(runs), runs[r].kind = "promote", ForCurrentBeta(r)
  PROVE  /\ runs[r].validation \in DOMAIN validations
         /\ site.channel["beta"] = Tested(runs[r].validation)
         /\ site.channel["beta"] \in Publication
         /\ site.channel["beta"].snapshot = runs[r].snapshot
<1>1. PromoteBound(runs[r]) /\ HistoryInv /\ site \in Site
  BY Parts DEF RunBound
<1>2. "beta" \in Channel /\ site.channel["beta"] \in Publication
  BY <1>1, SiteTyped DEF HistoryInv, Channel
<1>3. site.channel["beta"] = site.history["beta"][site.channel["beta"].run]
  BY <1>1, <1>2 DEF HistoryInv
<1>4. QED
  BY <1>1, <1>2, <1>3 DEF ForCurrentBeta, PromoteBound, Tested

LEMMA VerifyPolicyInv ==
  ASSUME Constants, ChannelInv, NEW r \in 1 .. Len(runs), VerifyPolicy(r)
  PROVE  ChannelInv'
<1>1. PICK old : old = runs[r]
  OBVIOUS
<1>2. old \in RunRecord /\ RunBound(r, old) /\ old.kind = "promote" /\ lock = r
  BY <1>1, Parts, RunTyped DEF VerifyPolicy, Job
<1>3. PICK run : run = [old EXCEPT !.job = "sign"]
  OBVIOUS
<1>4. run \in RunRecord
  BY <1>2, <1>3 DEF RunRecord
<1>5. /\ run.kind = "promote" /\ run.request = old.request /\ run.attempt = old.attempt
      /\ run.status = old.status /\ run.artifact = old.artifact /\ run.snapshot = old.snapshot
      /\ run.validation = old.validation /\ run.job = "sign"
  BY <1>2, <1>3 DEF RunRecord
<1>6. clock - Tested(old.validation).at >= Dwell
  BY <1>1, <1>2, CurrentIsTested DEF VerifyPolicy
<1>7. RunBound(r, run)
  BY <1>2, <1>5, <1>6 DEF RunBound, RequestBound, PromoteBound
<1>8. HandOn(r, run)
  BY <1>1, <1>3 DEF VerifyPolicy
<1>9. QED
  BY <1>1, <1>2, <1>4, <1>5, <1>7, <1>8, HandOnInv

LEMMA SignStableInv ==
  ASSUME Constants, ChannelInv, NEW r \in 1 .. Len(runs), SignStable(r)
  PROVE  ChannelInv'
<1>1. PICK old : old = runs[r]
  OBVIOUS
<1>2. old \in RunRecord /\ RunBound(r, old) /\ old.kind = "promote" /\ old.job = "sign" /\ lock = r
  BY <1>1, Parts, RunTyped DEF SignStable, Job
<1>3. /\ site.channel["beta"] = Tested(old.validation) /\ site.channel["beta"] \in Publication
      /\ site.channel["beta"].snapshot = old.snapshot
  BY <1>1, <1>2, CurrentIsTested DEF SignStable
<1>4. PICK p : p = Signed(r, old.snapshot, site.channel["beta"].store)
  OBVIOUS
<1>5. /\ p \in Publication /\ p # None /\ p.run = r /\ p.snapshot = old.snapshot
      /\ p.signing = old.attempt /\ p.at = clock /\ p.store = Tested(old.validation).store
  BY <1>1, <1>3, <1>4, SignedTyped, PublicationTyped
<1>6. PICK run : run = [old EXCEPT !.artifact = p, !.job = "publish"]
  OBVIOUS
<1>7. run \in RunRecord
  BY <1>2, <1>5, <1>6 DEF RunRecord
<1>8. /\ run.kind = "promote" /\ run.request = old.request /\ run.attempt = old.attempt
      /\ run.status = old.status /\ run.artifact = p /\ run.snapshot = old.snapshot
      /\ run.validation = old.validation /\ run.job = "publish"
  BY <1>2, <1>6 DEF RunRecord
<1>9. clock - Tested(old.validation).at >= Dwell /\ old.attempt \in Nat
  BY <1>2, RecordTyped DEF RunBound, PromoteBound
<1>10. RunBound(r, run)
  BY <1>2, <1>5, <1>8, <1>9 DEF RunBound, RequestBound, PromoteBound
<1>11. HandOn(r, run)
  BY <1>1, <1>4, <1>6 DEF SignStable
<1>12. QED
  BY <1>1, <1>2, <1>7, <1>8, <1>10, <1>11, HandOnInv

\* What a channel serves was served by beta.
LEMMA ServedFromBeta ==
  ASSUME Constants, ChannelInv, NEW c \in Channel
  PROVE  FromBeta(Served(site, c))
<1>1. HistoryInv /\ StableInv /\ site \in Site /\ "beta" \in Channel
  BY Parts DEF Channel
<1>2. CASE site.channel[c] = None
  <2>1. \A k \in Component : Served(site, c)[k] = 0
    BY <1>2 DEF Served
  <2>2. PICK content : content = Served(site, c)
    OBVIOUS
  <2>3. QED
    BY <2>1, <2>2 DEF FromBeta
<1>3. CASE site.channel[c] # None
  <2>1. /\ site.channel[c] \in Publication
        /\ Served(site, c) = site.snapshots[site.channel[c].snapshot]
        /\ site.channel[c] = site.history[c][site.channel[c].run]
        /\ site.channel[c].run \in Run
    BY <1>1, <1>3, ServedTyped, PublicationTyped DEF HistoryInv
  <2>2. CASE c = "stable"
    BY <1>1, <1>3, <2>1, <2>2 DEF StableInv
  <2>3. CASE c = "beta"
    BY <1>3, <2>1, <2>3 DEF FromBeta
  <2>4. QED
    BY <2>2, <2>3 DEF Channel
<1>4. QED
  BY <1>2, <1>3

\* Bounded sets of numbers have a least and a greatest element.
LEMMA LeastNumber ==
  ASSUME NEW S \in SUBSET Nat, S # {}
  PROVE  \E n \in S : \A m \in S : n <= m
<1>1. PICK R : R = OpToRel(<, Nat)
  OBVIOUS
<1>2. IsWellFoundedOn(R, Nat)
  BY <1>1, NatLessThanWellFounded
<1>3. PICK n \in S : \A m \in S : ~ (<<m, n>> \in R)
  BY <1>2, WFMin
<1>4. \A m, k \in Nat : m < k => <<m, k>> \in R
  BY <1>1 DEF OpToRel
<1>5. ASSUME NEW m \in S PROVE n <= m
  <2>1. m \in Nat /\ n \in Nat /\ ~ (<<m, n>> \in R)
    BY <1>3
  <2>2. ~ (m < n)
    BY <1>4, <2>1
  <2>3. QED
    BY <2>1, <2>2
<1>6. QED
  BY <1>5

LEMMA GreatestNumber ==
  ASSUME NEW N \in Nat, NEW S \in SUBSET (1 .. N), S # {}
  PROVE  \E n \in S : \A m \in S : n >= m
<1> DEFINE T == {N - s : s \in S}
<1>1. \A s \in S : s \in Nat /\ N - s \in Nat
  OBVIOUS
<1>2. T \in SUBSET Nat /\ T # {}
  BY <1>1
<1>3. PICK k \in T : \A m \in T : k <= m
  BY <1>2, LeastNumber
<1>4. PICK n \in S : k = N - n
  OBVIOUS
<1>5. ASSUME NEW m \in S PROVE n >= m
  <2>1. N - m \in T
    OBVIOUS
  <2>2. k <= N - m
    BY <1>3, <2>1
  <2>3. QED
    BY <1>1, <1>4, <2>2
<1>6. QED
  BY <1>4, <1>5

LEMMA LeastFree ==
  ASSUME Constants, NEW free \in SUBSET Snapshot, free # {}
  PROVE  Min(free) \in free
<1>1. free \in SUBSET Nat
  BY Numbers
<1>2. \E n \in free : \A m \in free : n <= m
  BY <1>1, LeastNumber
<1>3. QED
  BY <1>2 DEF Min

LEMMA ComposedTyped ==
  ASSUME Constants, ChannelInv, NEW g \in Component
  PROVE  /\ Composed(g) \in Content /\ Composed(g) # None
         /\ FromBeta(Composed(g))
         /\ Composed(g)[g] = Served(site, "beta")[g]
         /\ \A k \in Component : k # g => Composed(g)[k] = Served(site, "stable")[k]
<1>1. PICK stable, beta : stable = Served(site, "stable") /\ beta = Served(site, "beta")
  OBVIOUS
<1>2. stable \in Content /\ beta \in Content
  BY <1>1, Parts, ServedTyped DEF Channel
<1>3. PICK content : content = [stable EXCEPT ![g] = beta[g]]
  OBVIOUS
<1>4. content \in Content
  BY <1>2, <1>3 DEF Content
<1>5. content[g] = beta[g] /\ \A k \in Component : k # g => content[k] = stable[k]
  BY <1>2, <1>3 DEF Content
<1>6. FromBeta(stable) /\ FromBeta(beta)
  BY <1>1, ServedFromBeta DEF Channel
<1>7. FromBeta(content)
  BY <1>5, <1>6 DEF FromBeta
<1>8. Composed(g) = content
  BY <1>1, <1>3 DEF Composed
<1>9. QED
  BY <1>1, <1>4, <1>5, <1>7, <1>8, Numbers

LEMMA ComposeInv ==
  ASSUME Constants, ChannelInv, NEW r \in 1 .. Len(runs), Compose(r)
  PROVE  ChannelInv'
<1>1. PICK old : old = runs[r]
  OBVIOUS
<1>2. old \in RunRecord /\ RunBound(r, old) /\ old.kind = "select" /\ lock = r /\ r \in Run
  BY <1>1, Parts, RunTyped DEF Compose, Job
<1> DEFINE g == old.group
           free == Snapshot \ Stored(site)
<1>3. g \in Component /\ Served(site, "beta")[g] > 0
  BY <1>1, <1>2, RecordTyped DEF RunBound, SelectBound, Compose
<1>4. CASE Composed(g) = Served(site, "stable")
  <2>1. Quiet(r)
    BY <1>1, <1>4 DEF Compose
  <2>2. QED
    BY <1>2, <2>1, QuietInv
<1>5. CASE Composed(g) # Served(site, "stable")
  <2>1. free # {} /\ free \in SUBSET Snapshot
    BY <1>1, <1>5 DEF Compose
  <2>2. PICK p : p = Signed(r, Min(free), r)
    OBVIOUS
  <2>3. p \in Publication /\ p # None /\ p.run = r /\ p.signing = old.attempt
    BY <1>1, <1>2, <2>1, <2>2, LeastFree, SignedTyped
  <2>4. PICK content, previous : content = Composed(g) /\ previous = site.channel["stable"]
    OBVIOUS
  <2>5. /\ content \in Content /\ content # None /\ FromBeta(content)
        /\ previous \in Publication \cup {None} /\ tip \in Nat /\ tip # None
    BY <1>3, <2>4, ComposedTyped, SiteTyped, Parts, Numbers DEF TypeOK
  <2>6. PICK run : run = [old EXCEPT !.content = content, !.artifact = p, !.previous = previous,
                                     !.base = tip, !.job = "validate"]
    OBVIOUS
  <2>7. run \in RunRecord
    BY <1>2, <2>3, <2>5, <2>6 DEF RunRecord
  <2>8. /\ run.kind = "select" /\ run.request = old.request /\ run.attempt = old.attempt
        /\ run.status = old.status /\ run.artifact = p /\ run.content = content
        /\ run.previous = previous /\ run.base = tip /\ run.job = "validate"
        /\ run.group = g
    BY <1>2, <2>6 DEF RunRecord
  <2>9. previous # None => site.snapshots[previous.snapshot] # None
    BY <2>4, Parts, ServedTyped DEF Channel
  <2>10. site.history["stable"][r] # p
    <3>1. SUFFICES ASSUME site.history["stable"][r] = p PROVE FALSE
      OBVIOUS
    <3>2. p.signing < runs[r].attempt
      BY <1>2, <2>3, <3>1, Parts DEF FiledInv
    <3>3. old.attempt \in Nat
      BY <1>2, RecordTyped
    <3>4. QED
      BY <1>1, <2>3, <3>2, <3>3
  <2>11. SelectBound(r, run)
    <3>1. /\ run.group # None /\ run.group = g /\ g # None
          /\ run.job \in {"compose", "validate", "publish"} /\ run.job # "publish"
      BY <1>3, <2>8, Numbers
    <3>2. run.base <= tip
      BY <2>5, <2>8
    <3>3. /\ run.content = Composed(run.group) /\ run.content # Served(site, "stable")
          /\ Served(site, "beta")[run.group] > 0
          /\ run.previous = site.channel["stable"]
          /\ site.history["stable"][r] # run.artifact
      BY <1>3, <1>5, <2>4, <2>8, <2>10
    <3>4. QED
      BY <2>3, <2>5, <2>8, <2>9, <3>1, <3>2, <3>3 DEF SelectBound
  <2>12. RunBound(r, run)
    <3>1. old.attempt \in Nat
      BY <1>2, RecordTyped
    <3>2. QED
      BY <1>2, <2>3, <2>8, <2>11, <3>1 DEF RunBound, RequestBound
  <2>13. HandOn(r, run)
    BY <1>1, <1>5, <2>2, <2>4, <2>6 DEF Compose
  <2>14. QED
    BY <1>1, <1>2, <2>7, <2>8, <2>12, <2>13, HandOnInv
<1>6. QED
  BY <1>4, <1>5

LEMMA ValidateUpgradeInv ==
  ASSUME Constants, ChannelInv, NEW r \in 1 .. Len(runs), ValidateUpgrade(r)
  PROVE  ChannelInv'
<1>1. PICK old : old = runs[r]
  OBVIOUS
<1>2. /\ old \in RunRecord /\ RunBound(r, old) /\ old.kind = "select" /\ old.job = "validate"
      /\ lock = r
  BY <1>1, Parts, RunTyped DEF ValidateUpgrade, Job
<1>3. PICK run : run = [old EXCEPT !.job = "publish"]
  OBVIOUS
<1>4. run \in RunRecord
  BY <1>2, <1>3 DEF RunRecord
<1>5. /\ run.kind = "select" /\ run.request = old.request /\ run.attempt = old.attempt
      /\ run.status = old.status /\ run.artifact = old.artifact /\ run.content = old.content
      /\ run.previous = old.previous /\ run.base = old.base /\ run.job = "publish"
      /\ run.group = old.group
  BY <1>2, <1>3 DEF RunRecord
<1>6. old.previous # None =>
        \A c \in Component : old.content[c] >= site.snapshots[old.previous.snapshot][c]
  BY <1>1 DEF ValidateUpgrade
<1>7. SelectBound(r, run)
  <2>1. SelectBound(r, old)
    BY <1>2 DEF RunBound
  <2>2. QED
    BY <1>2, <1>5, <1>6, <2>1 DEF SelectBound
<1>8. RunBound(r, run)
  BY <1>2, <1>5, <1>7 DEF RunBound, RequestBound
<1>9. HandOn(r, run)
  BY <1>1, <1>3 DEF ValidateUpgrade
<1>10. QED
  BY <1>1, <1>2, <1>4, <1>5, <1>8, <1>9, HandOnInv

-----------------------------------------------------------------------------
(* The jobs that push.                                                     *)

LEMMA PublishSnapshotInv ==
  ASSUME Constants, ChannelInv, NEW r \in 1 .. Len(runs), PublishSnapshot(r)
  PROVE  ChannelInv'
<1>1. PICK run : run = runs[r]
  OBVIOUS
<1>2. run \in RunRecord /\ RunBound(r, run) /\ run.kind = "snapshot" /\ lock = r
  BY <1>1, Parts, RunTyped DEF PublishSnapshot, Job
<1>3. PICK s, content : s = run.snapshot /\ content = run.content
  OBVIOUS
<1>4. s \in Snapshot /\ content \in Content /\ content # None
  BY <1>2, <1>3, RecordTyped DEF RunBound
<1>5. PICK tree : tree = [site EXCEPT !.snapshots[s] = content]
  OBVIOUS
<1>6. /\ tree \in Site /\ tree.channel = site.channel /\ tree.history = site.history
      /\ tree.snapshots[s] = content
      /\ \A t \in Snapshot : t # s => tree.snapshots[t] = site.snapshots[t]
  BY <1>4, <1>5, Parts DEF Site
<1>7. site.snapshots[s] \in {None, content} /\ StorageUnchanged(r)
      /\ (Push(r, tree) \/ Quiet(r))
  BY <1>1, <1>3, <1>5 DEF PublishSnapshot, MayStore
<1>8. CASE Quiet(r)
  BY <1>2, <1>8, QuietInv
<1>9. CASE Push(r, tree)
  <2>1. site' = tree /\ UNCHANGED orch
    BY <1>9 DEF Push
  <2>2. Grows
    BY <1>6, <1>7, <2>1 DEF Grows
  <2>3. HistoryInv' /\ StableInv'
    BY <1>6, <2>1, <2>2, Parts, StoresHistory
  <2>4. \A x \in Run : site'.history["stable"][x] # None =>
          /\ \E p \in site'.promotions : p.run = x
          /\ site'.history["stable"][x] = site.history["stable"][x]
    <3>1. tree.promotions = site.promotions
      BY <1>5, Parts DEF Site
    <3>2. QED
      BY <1>6, <2>1, <3>1, Parts DEF FiledInv
  <2>5. ASSUME run.request # None
        PROVE  AddsCandidate(run.request)
    <3>1. PICK q : q = run.request
      OBVIOUS
    <3>2. /\ q \in Request /\ Chosen(q) /\ s = orch[q].snapshot
          /\ run.base = orch[q].storage /\ content = Merged(q)
      BY <1>2, <1>3, <2>5, <3>1 DEF RunBound, RequestBound
    <3>3. orch[q].storage # None
      BY <3>2, RequestTyped, Numbers, Parts DEF TypeOK
    <3>4. tip = orch[q].storage
      BY <1>1, <1>7, <3>2, <3>3 DEF StorageUnchanged
    <3>5. /\ orch[q].parent # None /\ site.snapshots[orch[q].parent] # None
          /\ site.channel["beta"].snapshot = orch[q].parent
      BY <3>2, <3>4, Parts DEF RequestInv
    <3>6. orch[q].parent \in Snapshot
      BY <3>2, <3>5, RequestTyped, Parts DEF TypeOK
    <3>7. Merged(q)' = Merged(q)
      BY <2>1, <2>2, <3>5, <3>6 DEF Merged, CandidateOf, Grows
    <3>8. QED
      BY <1>6, <2>1, <3>1, <3>2, <3>4, <3>5, <3>7 DEF AddsCandidate
  <2>6. QED
    BY <1>1, <1>2, <1>6, <1>9, <2>2, <2>3, <2>4, <2>5, PushInv
<1>10. QED
  BY <1>7, <1>8, <1>9

\* The fields of a staged tree.
LEMMA StagedFields ==
  ASSUME Constants, NEW tree \in Site, NEW c \in Channel, NEW p \in Publication
  PROVE  /\ Staged(tree, c, p) \in Site
         /\ Staged(tree, c, p).snapshots = tree.snapshots
         /\ Staged(tree, c, p).channel = [tree.channel EXCEPT ![c] = p]
         /\ Staged(tree, c, p).history = [tree.history EXCEPT ![c][p.run] = p]
         /\ Staged(tree, c, p).promotions = tree.promotions
         /\ Staged(tree, c, p).rollbacks = tree.rollbacks
<1>1. p.run \in Run
  BY PublicationTyped
<1>2. PICK new : new = Staged(tree, c, p)
  OBVIOUS
<1>3. /\ new.snapshots = tree.snapshots
      /\ new.channel = [tree.channel EXCEPT ![c] = p]
      /\ new.history = [tree.history EXCEPT ![c][p.run] = p]
      /\ new.promotions = tree.promotions /\ new.rollbacks = tree.rollbacks
  BY <1>2 DEF Staged, Site
<1>4. new \in Site
  BY <1>1, <1>2 DEF Staged, Site
<1>5. QED
  BY <1>2, <1>3, <1>4

LEMMA PublishBetaInv ==
  ASSUME Constants, ChannelInv, NEW r \in 1 .. Len(runs), PublishBeta(r)
  PROVE  ChannelInv'
<1>1. PICK run, p : run = runs[r] /\ p = run.artifact
  OBVIOUS
<1>2. /\ run \in RunRecord /\ RunBound(r, run) /\ run.kind = "beta" /\ run.job = "publish"
      /\ lock = r /\ site \in Site /\ "beta" \in Channel
  BY <1>1, Parts, RunTyped DEF PublishBeta, Job, Channel
<1>3. p \in Publication /\ p.run = r
  BY <1>1, <1>2, RecordTyped DEF RunBound
<1>4. PICK tree : tree = Staged(site, "beta", p)
  OBVIOUS
<1>5. /\ tree \in Site /\ tree.snapshots = site.snapshots
      /\ tree.channel = [site.channel EXCEPT !["beta"] = p]
      /\ tree.history = [site.history EXCEPT !["beta"][p.run] = p]
      /\ tree.promotions = site.promotions
  BY <1>2, <1>3, <1>4, StagedFields
<1>6. /\ site.snapshots[p.snapshot] # None /\ site.history["beta"][p.run] \in {None, p}
      /\ Push(r, tree) \/ Quiet(r)
  BY <1>1, <1>4 DEF PublishBeta, MayStage, MayKeep
<1>7. CASE Quiet(r)
  BY <1>2, <1>7, QuietInv
<1>8. CASE Push(r, tree)
  <2>1. site' = tree
    BY <1>8 DEF Push
  <2>2. Stages("beta", p)
    BY <1>2, <1>3, <1>5, <1>6, <2>1 DEF Stages
  <2>3. /\ Grows
        /\ \A x \in Run : site'.history["stable"][x] = site.history["stable"][x]
    BY <1>2, <1>5, <2>1, <2>2, StagesChanges DEF Channel
  <2>4. HistoryInv' /\ StableInv'
    BY <1>2, <1>5, <2>1, <2>2, Parts, StagesHistory, StagesStable
  <2>5. \A x \in Run : site'.history["stable"][x] # None =>
          /\ \E y \in site'.promotions : y.run = x
          /\ site'.history["stable"][x] = site.history["stable"][x]
    BY <1>5, <2>1, <2>3, Parts DEF FiledInv
  <2>6. QED
    BY <1>1, <1>2, <1>5, <1>8, <2>3, <2>4, <2>5, PushInv
<1>9. QED
  BY <1>6, <1>7, <1>8

LEMMA PublishStableInv ==
  ASSUME Constants, ChannelInv, NEW r \in 1 .. Len(runs), PublishStable(r)
  PROVE  ChannelInv'
<1>1. PICK run, p : run = runs[r] /\ p = run.artifact
  OBVIOUS
<1>2. /\ run \in RunRecord /\ RunBound(r, run) /\ run.kind = "promote" /\ run.job = "publish"
      /\ lock = r /\ site \in Site /\ "stable" \in Channel /\ r \in Run
  BY <1>1, Parts, RunTyped DEF PublishStable, Job, Channel
<1>3. /\ p \in Publication /\ p.run = r /\ p.snapshot = run.snapshot
      /\ p.signing <= run.attempt
  BY <1>1, <1>2, RecordTyped DEF RunBound, PromoteBound
<1>4. PICK staged : staged = Staged(site, "stable", p)
  OBVIOUS
<1>5. /\ staged \in Site /\ staged.snapshots = site.snapshots
      /\ staged.channel = [site.channel EXCEPT !["stable"] = p]
      /\ staged.history = [site.history EXCEPT !["stable"][p.run] = p]
      /\ staged.promotions = site.promotions
  BY <1>2, <1>3, <1>4, StagedFields
<1>6. PICK tree : tree = [staged EXCEPT !.promotions =
                            @ \cup {[run |-> r, validation |-> run.validation]}]
  OBVIOUS
<1>7. run.validation \in 0 .. MaxValidation
  BY <1>2 DEF RunRecord
<1>8. /\ tree \in Site /\ tree.snapshots = site.snapshots
      /\ tree.channel = [site.channel EXCEPT !["stable"] = p]
      /\ tree.history = [site.history EXCEPT !["stable"][p.run] = p]
      /\ site.promotions \subseteq tree.promotions
      /\ \E y \in tree.promotions : y.run = r
  <2>1. /\ tree.snapshots = staged.snapshots /\ tree.channel = staged.channel
        /\ tree.history = staged.history
        /\ tree.promotions = staged.promotions \cup {[run |-> r, validation |-> run.validation]}
    BY <1>5, <1>6 DEF Site
  <2>2. PICK P : P = staged.promotions \cup {[run |-> r, validation |-> run.validation]}
    OBVIOUS
  <2>3. P \in SUBSET [run : Run, validation : 0 .. MaxValidation]
    BY <1>2, <1>5, <1>7, <2>2 DEF Site
  <2>4. tree \in Site
    BY <1>5, <1>6, <2>2, <2>3 DEF Site
  <2>5. site.promotions \subseteq P /\ \E y \in P : y.run = r
    <3>1. PICK y : y = [run |-> r, validation |-> run.validation]
      OBVIOUS
    <3>2. y \in P /\ site.promotions \subseteq P
      BY <1>5, <2>2, <3>1
    <3>3. y.run = r
      BY <3>1
    <3>4. QED
      BY <3>2, <3>3
  <2>6. QED
    BY <1>5, <2>1, <2>2, <2>4, <2>5
<1>9. /\ site.snapshots[p.snapshot] # None /\ site.history["stable"][p.run] \in {None, p}
      /\ Push(r, tree)
  BY <1>1, <1>4, <1>6 DEF PublishStable, MayStage, MayKeep
<1>10. site' = tree
  BY <1>9 DEF Push
<1>11. Stages("stable", p)
  BY <1>2, <1>3, <1>8, <1>9, <1>10 DEF Stages
<1>12. /\ Grows
       /\ \A x \in Run : x # r => site'.history["stable"][x] = site.history["stable"][x]
       /\ site'.history["stable"][r] = p
  BY <1>2, <1>3, <1>8, <1>10, <1>11, StagesChanges
<1>13. FromBeta(site'.snapshots[p.snapshot])
  <2>1. /\ site.channel["beta"] \in Publication /\ site.channel["beta"].snapshot = p.snapshot
    BY <1>1, <1>2, <1>3, CurrentIsTested DEF PublishStable
  <2>2. Served(site, "beta") = site.snapshots[p.snapshot]
    BY <2>1, Numbers DEF Served
  <2>3. FromBeta(Served(site, "beta"))
    BY ServedFromBeta DEF Channel
  <2>4. QED
    BY <1>8, <1>10, <2>2, <2>3
<1>14. HistoryInv' /\ StableInv'
  BY <1>2, <1>8, <1>10, <1>11, <1>13, Parts, StagesHistory, StagesStable
<1>15. \A x \in Run : site'.history["stable"][x] # None =>
         /\ \E y \in site'.promotions : y.run = x
         /\ \/ site'.history["stable"][x] = site.history["stable"][x]
            \/ x = r /\ site'.history["stable"][x].signing <= runs[r].attempt
  BY <1>1, <1>3, <1>8, <1>10, <1>12, Parts DEF FiledInv
<1>16. QED
  BY <1>1, <1>2, <1>8, <1>9, <1>12, <1>14, <1>15, PushInv

\* What a selection finds when it publishes on its base.
LEMMA OnBase ==
  ASSUME Constants, ChannelInv, NEW r \in 1 .. Len(runs), PublishSelection(r)
  PROVE  /\ lock = r /\ runs[r].kind = "select" /\ r \in Run /\ runs[r] \in RunRecord
         /\ runs[r].artifact \in Publication /\ runs[r].artifact.run = r
         /\ runs[r].artifact.signing <= runs[r].attempt
         /\ runs[r].content \in Content /\ runs[r].content # None
         /\ FromBeta(runs[r].content)
         /\ runs[r].group \in Component
         /\ runs[r].content = Composed(runs[r].group)
         /\ runs[r].content # Served(site, "stable")
         /\ Served(site, "beta")[runs[r].group] > 0
         /\ runs[r].previous = site.channel["stable"]
         /\ site.channel["stable"] # None =>
              \A c \in Component : runs[r].content[c] >= Served(site, "stable")[c]
         /\ site.history["stable"][r] = None
         /\ site.snapshots[runs[r].artifact.snapshot] = None
<1>1. PICK run : run = runs[r]
  OBVIOUS
<1>2. /\ run \in RunRecord /\ RunBound(r, run) /\ run.kind = "select" /\ run.job = "publish"
      /\ lock = r /\ r \in Run
  BY <1>1, Parts, RunTyped DEF PublishSelection, Job
<1>3. SelectBound(r, run) /\ tip = run.base
  BY <1>1, <1>2 DEF RunBound, PublishSelection, OnItsBase
<1>4. /\ run.content # None /\ run.artifact # None /\ run.group # None
      /\ FromBeta(run.content)
      /\ run.content = Composed(run.group) /\ run.content # Served(site, "stable")
      /\ Served(site, "beta")[run.group] > 0
      /\ run.previous = site.channel["stable"]
      /\ site.history["stable"][r] # run.artifact
      /\ run.previous # None =>
           \A c \in Component : run.content[c] >= site.snapshots[run.previous.snapshot][c]
  BY <1>2, <1>3 DEF SelectBound
<1>5. /\ run.artifact \in Publication /\ run.artifact.run = r
      /\ run.artifact.signing <= run.attempt
      /\ run.content \in Content /\ run.group \in Component
  BY <1>2, <1>4, RecordTyped DEF RunBound
<1>6. /\ site.history["stable"][r] = None
      /\ site.snapshots[run.artifact.snapshot] = None
  BY <1>1, <1>4, <1>5 DEF PublishSelection, MayKeep
<1>7. site.channel["stable"] # None => Served(site, "stable") = site.snapshots[run.previous.snapshot]
  BY <1>4 DEF Served
<1>8. QED
  BY <1>1, <1>2, <1>4, <1>5, <1>6, <1>7

LEMMA PublishSelectionInv ==
  ASSUME Constants, ChannelInv, NEW r \in 1 .. Len(runs), PublishSelection(r)
  PROVE  ChannelInv'
<1>1. PICK run, p, s : run = runs[r] /\ p = run.artifact /\ s = p.snapshot
  OBVIOUS
<1>2. /\ run \in RunRecord /\ lock = r /\ r \in Run /\ run.kind = "select"
      /\ p \in Publication /\ p.run = r /\ p.signing <= run.attempt /\ s \in Snapshot
      /\ run.content \in Content /\ run.content # None /\ FromBeta(run.content)
      /\ site.history["stable"][p.run] = None /\ site.snapshots[s] = None
      /\ site \in Site /\ "stable" \in Channel
  BY <1>1, OnBase, PublicationTyped, Parts DEF Channel
<1>3. PICK stored : stored = [site EXCEPT !.snapshots[s] = run.content]
  OBVIOUS
<1>4. /\ stored \in Site /\ stored.channel = site.channel /\ stored.history = site.history
      /\ stored.promotions = site.promotions
      /\ stored.snapshots[s] = run.content
      /\ \A t \in Snapshot : t # s => stored.snapshots[t] = site.snapshots[t]
  BY <1>2, <1>3 DEF Site
<1>5. PICK staged : staged = Staged(stored, "stable", p)
  OBVIOUS
<1>6. /\ staged \in Site /\ staged.snapshots = stored.snapshots
      /\ staged.channel = [site.channel EXCEPT !["stable"] = p]
      /\ staged.history = [site.history EXCEPT !["stable"][p.run] = p]
      /\ staged.promotions = site.promotions
  BY <1>2, <1>4, <1>5, StagedFields
<1>7. PICK tree : tree = [staged EXCEPT !.promotions = @ \cup {[run |-> r, validation |-> 0]}]
  OBVIOUS
<1>8. /\ tree \in Site /\ tree.snapshots = stored.snapshots
      /\ tree.channel = [site.channel EXCEPT !["stable"] = p]
      /\ tree.history = [site.history EXCEPT !["stable"][p.run] = p]
      /\ site.promotions \subseteq tree.promotions
      /\ \E y \in tree.promotions : y.run = r
  <2>1. /\ tree.snapshots = staged.snapshots /\ tree.channel = staged.channel
        /\ tree.history = staged.history
        /\ tree.promotions = staged.promotions \cup {[run |-> r, validation |-> 0]}
    BY <1>6, <1>7 DEF Site
  <2>2. PICK P : P = staged.promotions \cup {[run |-> r, validation |-> 0]}
    OBVIOUS
  <2>3. P \in SUBSET [run : Run, validation : 0 .. MaxValidation]
    BY <1>2, <1>6, <2>2, Numbers DEF Site
  <2>4. tree \in Site
    BY <1>6, <1>7, <2>2, <2>3 DEF Site
  <2>5. site.promotions \subseteq P /\ \E y \in P : y.run = r
    <3>1. PICK y : y = [run |-> r, validation |-> 0]
      OBVIOUS
    <3>2. y \in P /\ site.promotions \subseteq P
      BY <1>6, <2>2, <3>1
    <3>3. y.run = r
      BY <3>1
    <3>4. QED
      BY <3>2, <3>3
  <2>6. QED
    BY <1>6, <2>1, <2>2, <2>4, <2>5
<1>9. Push(r, tree)
  BY <1>1, <1>3, <1>5, <1>7 DEF PublishSelection
<1>10. site' = tree
  BY <1>9 DEF Push
<1>11. /\ \A t \in Snapshot : site.snapshots[t] # None => site'.snapshots[t] = site.snapshots[t]
       /\ site'.snapshots[p.snapshot] = run.content
  BY <1>1, <1>2, <1>4, <1>8, <1>10
<1>12. Stages("stable", p)
  BY <1>2, <1>8, <1>10, <1>11 DEF Stages
<1>13. /\ Grows
       /\ \A x \in Run : x # r => site'.history["stable"][x] = site.history["stable"][x]
       /\ site'.history["stable"][r] = p
  BY <1>2, <1>8, <1>10, <1>12, StagesChanges
<1>14. HistoryInv' /\ StableInv'
  BY <1>2, <1>8, <1>10, <1>11, <1>12, Parts, StagesHistory, StagesStable
<1>15. \A x \in Run : site'.history["stable"][x] # None =>
         /\ \E y \in site'.promotions : y.run = x
         /\ \/ site'.history["stable"][x] = site.history["stable"][x]
            \/ x = r /\ site'.history["stable"][x].signing <= runs[r].attempt
  BY <1>1, <1>2, <1>8, <1>10, <1>13, Parts DEF FiledInv
<1>16. QED
  BY <1>1, <1>2, <1>8, <1>9, <1>13, <1>14, <1>15, PushInv

\* A rollback stages a publication that the history has.
LEMMA RollBackTree ==
  ASSUME Constants, ChannelInv, NEW r \in 1 .. Len(runs), RollBack(r)
  PROVE  LET c == runs[r].channel
             target == site.history[c][runs[r].target] IN
         /\ lock = r /\ runs[r].kind = "rollback" /\ r \in Run
         /\ c \in Channel /\ runs[r].target \in Run
         /\ target \in Publication /\ target.run = runs[r].target
         /\ site.channel[c] \in Publication /\ site.channel[c].run # target.run
         /\ Unrecorded(r, c)
         /\ \E tree \in Site :
              /\ Push(r, tree)
              /\ tree.snapshots = site.snapshots /\ tree.promotions = site.promotions
              /\ tree.channel = [site.channel EXCEPT ![c] = target]
              /\ tree.history = [site.history EXCEPT ![c][target.run] = target]
              /\ tree.rollbacks = site.rollbacks \cup
                   {[run |-> r, channel |-> c, from |-> site.channel[c].run, to |-> target.run]}
         /\ site.snapshots[target.snapshot] # None
<1>1. PICK run, c : run = runs[r] /\ c = run.channel
  OBVIOUS
<1>2. /\ run \in RunRecord /\ RunBound(r, run) /\ run.kind = "rollback" /\ lock = r /\ r \in Run
      /\ site \in Site /\ c \in Channel
  BY <1>1, Parts, RunTyped, RecordTyped DEF RollBack, Job
<1>3. run.target \in Run
  BY <1>2, RecordTyped DEF RunBound
<1>4. PICK target, current : target = site.history[c][run.target] /\ current = site.channel[c]
  OBVIOUS
<1>5. current # None /\ target # None /\ current.run # target.run /\ Unrecorded(r, c)
  BY <1>1, <1>4 DEF RollBack
<1>6. /\ target \in Publication /\ target.run = run.target /\ current \in Publication
      /\ current.run \in Run /\ site.snapshots[target.snapshot] # None
  BY <1>2, <1>3, <1>4, <1>5, Parts, SiteTyped, PublicationTyped DEF HistoryInv
<1>7. PICK staged : staged = Staged(site, c, target)
  OBVIOUS
<1>8. /\ staged \in Site /\ staged.snapshots = site.snapshots
      /\ staged.channel = [site.channel EXCEPT ![c] = target]
      /\ staged.history = [site.history EXCEPT ![c][target.run] = target]
      /\ staged.promotions = site.promotions /\ staged.rollbacks = site.rollbacks
  BY <1>2, <1>6, <1>7, StagedFields
<1>9. PICK R : R = site.rollbacks \cup
                 {[run |-> r, channel |-> c, from |-> current.run, to |-> target.run]}
  OBVIOUS
<1>10. R \in SUBSET [run : Run, channel : Channel, from : Run, to : Run]
  BY <1>2, <1>3, <1>6, <1>9 DEF Site
<1>11. PICK tree : tree = [staged EXCEPT !.rollbacks = R]
  OBVIOUS
<1>12. /\ tree \in Site /\ tree.snapshots = staged.snapshots /\ tree.channel = staged.channel
       /\ tree.history = staged.history /\ tree.promotions = staged.promotions
       /\ tree.rollbacks = R
  BY <1>8, <1>10, <1>11 DEF Site
<1>13. Push(r, tree)
  <2>1. Push(r, [staged EXCEPT !.rollbacks = @ \cup
                   {[run |-> r, channel |-> c, from |-> current.run, to |-> target.run]}])
    BY <1>1, <1>4, <1>7 DEF RollBack
  <2>2. QED
    BY <1>8, <1>9, <1>11, <2>1 DEF Site
<1>14. \E t \in Site :
              /\ Push(r, t)
              /\ t.snapshots = site.snapshots /\ t.promotions = site.promotions
              /\ t.channel = [site.channel EXCEPT ![c] = target]
              /\ t.history = [site.history EXCEPT ![c][target.run] = target]
              /\ t.rollbacks = R
  BY <1>8, <1>12, <1>13
<1>15. QED
  BY <1>1, <1>2, <1>3, <1>4, <1>5, <1>6, <1>9, <1>14

LEMMA RollBackInv ==
  ASSUME Constants, ChannelInv, NEW r \in 1 .. Len(runs), RollBack(r)
  PROVE  ChannelInv'
<1>1. PICK c, target : c = runs[r].channel /\ target = site.history[c][runs[r].target]
  OBVIOUS
<1>2. /\ lock = r /\ runs[r].kind = "rollback" /\ c \in Channel /\ target \in Publication
      /\ site.snapshots[target.snapshot] # None /\ target.run = runs[r].target
      /\ site.history[c][target.run] = target /\ site \in Site
  BY <1>1, RollBackTree, Parts
<1>3. PICK tree \in Site :
        /\ Push(r, tree)
        /\ tree.snapshots = site.snapshots /\ tree.promotions = site.promotions
        /\ tree.channel = [site.channel EXCEPT ![c] = target]
        /\ tree.history = [site.history EXCEPT ![c][target.run] = target]
  BY <1>1, RollBackTree
<1>4. site' = tree
  BY <1>3 DEF Push
<1>5. Stages(c, target)
  BY <1>2, <1>3, <1>4 DEF Stages
<1>6. /\ Grows /\ target.run \in Run
      /\ \A x \in Run : site'.history["stable"][x] = site.history["stable"][x]
  BY <1>2, <1>4, <1>5, StagesChanges DEF Channel
<1>7. c = "stable" => FromBeta(site'.snapshots[target.snapshot])
  BY <1>2, <1>3, <1>4, <1>6, PublicationTyped, Numbers, Parts DEF StableInv
<1>8. HistoryInv' /\ StableInv'
  BY <1>2, <1>4, <1>5, <1>7, Parts, StagesHistory, StagesStable
<1>9. \A x \in Run : site'.history["stable"][x] # None =>
        /\ \E y \in site'.promotions : y.run = x
        /\ site'.history["stable"][x] = site.history["stable"][x]
  BY <1>3, <1>4, <1>6, Parts DEF FiledInv
<1>10. QED
  BY <1>2, <1>3, <1>6, <1>8, <1>9, PushInv

-----------------------------------------------------------------------------
(* New runs.                                                               *)

LEMMA BeginSteady ==
  ASSUME Constants, ChannelInv, NEW run \in RunRecord, Begin(run), run.status = "in_progress",
         orch' \in [Request -> Request0], RequestsKept
  PROVE  /\ Steady /\ UNCHANGED <<site, tip, author, validations, faults>>
         /\ lock' = Len(runs) + 1
         /\ Len(runs') = Len(runs) + 1 /\ runs'[Len(runs) + 1] = run
         /\ \A x \in 1 .. Len(runs) : runs'[x] = runs[x]
<1>1. /\ runs' = Append(runs, run) /\ lock = None /\ lock' = Len(runs) + 1
      /\ UNCHANGED <<site, tip, author, validations, clock, faults>> /\ Len(runs) < MaxRun
  BY DEF Begin
<1>2. TypeOK /\ runs \in Seq(RunRecord) /\ Len(runs) \in Nat
  BY Parts
<1>3. /\ runs' \in Seq(RunRecord) /\ Len(runs') = Len(runs) + 1 /\ runs'[Len(runs) + 1] = run
      /\ \A x \in 1 .. Len(runs) : runs'[x] = runs[x]
  BY <1>1, <1>2
<1>4. \A x \in 1 .. Len(runs') : runs'[x].status = "in_progress" <=> lock' = x
  <2>1. \A x \in 1 .. Len(runs) : runs[x].status # "in_progress"
    BY <1>1, <1>2, Numbers DEF TypeOK
  <2>2. QED
    BY <1>1, <1>2, <1>3, <2>1
<1>5. TypeOK'
  <2>1. Len(runs') <= MaxRun /\ lock' \in 1 .. Len(runs')
    BY <1>1, <1>2, <1>3, Numbers
  <2>2. QED
    BY <1>1, <1>2, <1>3, <1>4, <2>1 DEF TypeOK
<1>6. RunsKept
  BY <1>2, <1>3 DEF RunsKept
<1>7. Steady
  BY <1>1, <1>2, <1>5, <1>6 DEF Steady, Grows, TypeOK
<1>8. QED
  BY <1>1, <1>3, <1>7

LEMMA BeginInv ==
  ASSUME Constants, ChannelInv, NEW run \in RunRecord, Begin(run), run.status = "in_progress",
         run.attempt = 1, RunBound(Len(runs) + 1, run),
         orch' \in [Request -> Request0], RequestsKept, \A q \in Request : RequestInv(q)'
  PROVE  ChannelInv'
<1>1. /\ Steady /\ UNCHANGED <<site, tip, author, validations, faults>>
      /\ lock' = Len(runs) + 1
      /\ Len(runs') = Len(runs) + 1 /\ runs'[Len(runs) + 1] = run
      /\ \A x \in 1 .. Len(runs) : runs'[x] = runs[x]
  BY BeginSteady
<1>2. Len(runs) \in Nat /\ TypeOK /\ AttemptInv /\ EvidenceInv
  BY Parts
<1>3. \A x \in 1 .. Len(runs) : runs[x].attempt \in Nat
  BY <1>2, RunTyped, RecordTyped
<1>4. \A x \in 1 .. Len(runs) :
        /\ runs'[x].attempt >= runs[x].attempt
        /\ lock' = x => lock = x \/ runs'[x].attempt > runs[x].attempt
  BY <1>1, <1>2, <1>3
<1>5. AttemptInv'
  <2>1. faults' = faults /\ faults \in Nat /\ \A x \in 1 .. Len(runs) : runs[x].attempt <= faults + 1
    BY <1>1, <1>2 DEF AttemptInv, TypeOK
  <2>2. runs'[Len(runs) + 1].attempt = 1
    BY <1>1
  <2>3. ASSUME NEW x \in 1 .. Len(runs') PROVE runs'[x].attempt <= faults' + 1
    <3>1. x \in 1 .. Len(runs) \/ x = Len(runs) + 1
      BY <1>1, <1>2
    <3>2. QED
      BY <1>1, <2>1, <2>2, <3>1
  <2>4. QED
    BY <2>3 DEF AttemptInv
<1>6. EvidenceInv'
  BY <1>1, <1>2, EvidenceKept
<1>7. \A x \in 1 .. Len(runs') : RunBound(x, runs'[x])
  BY <1>1, <1>2, Parts
<1>8. QED
  BY <1>1, <1>4, <1>5, <1>6, <1>7, CalmInv

\* A run that an operator dispatches.
LEMMA DispatchInv ==
  ASSUME Constants, ChannelInv, NEW run \in RunRecord, Begin(run), run.status = "in_progress",
         run.attempt = 1, RunBound(Len(runs) + 1, run), UNCHANGED orch
  PROVE  ChannelInv'
<1>1. TypeOK /\ \A q \in Request : RequestInv(q)
  BY Parts
<1>2. orch' \in [Request -> Request0] /\ RequestsKept
  BY <1>1 DEF TypeOK, RequestsKept, Chosen
<1>3. Steady
  BY <1>2, BeginSteady
<1>4. \A q \in Request : RequestInv(q)'
  BY <1>1, <1>3, RequestKept
<1>5. QED
  BY <1>2, <1>4, BeginInv

\* A new run, before its inputs are set.
LEMMA NewRunTyped ==
  ASSUME Constants, NEW kind \in {"snapshot", "beta", "promote", "select", "rollback"}
  PROVE  /\ NewRun(kind) \in RunRecord
         /\ NewRun(kind).kind = kind /\ NewRun(kind).request = None
         /\ NewRun(kind).artifact = None /\ NewRun(kind).job = FirstJob(kind)
         /\ NewRun(kind).attempt = 1 /\ NewRun(kind).status = "in_progress"
         /\ FirstJob(kind) \in {"verify", "compose", "sign", "publish"}
         /\ kind = "promote" => FirstJob(kind) = "verify"
         /\ kind = "select" => FirstJob(kind) = "compose"
         /\ kind = "beta" => FirstJob(kind) = "sign"
<1>1. /\ FirstJob(kind) \in {"verify", "compose", "sign", "publish"}
      /\ kind = "promote" => FirstJob(kind) = "verify"
      /\ kind = "select" => FirstJob(kind) = "compose"
      /\ kind = "beta" => FirstJob(kind) = "sign"
  BY DEF FirstJob
<1>2. PICK job : job = FirstJob(kind)
  OBVIOUS
<1>3. PICK run : run = NewRun(kind)
  OBVIOUS
<1>4. 1 \in 1 .. MaxFault + 1 /\ 0 \in 0 .. MaxValidation
  BY Numbers
<1>5. /\ run.kind = kind /\ run.request = None /\ run.artifact = None /\ run.job = job
      /\ run.attempt = 1 /\ run.status = "in_progress"
  BY <1>2, <1>3 DEF NewRun
<1>6. run \in RunRecord
  BY <1>1, <1>2, <1>3, <1>4 DEF NewRun, RunRecord, Channel
<1>7. QED
  BY <1>1, <1>2, <1>3, <1>5, <1>6

LEMMA DispatchSnapshotInv ==
  ASSUME Constants, ChannelInv, NEW s \in Snapshot, NEW parent \in Stored(site),
         NEW c \in Component, NEW v \in 1 .. MaxVersion, DispatchSnapshot(s, parent, c, v)
  PROVE  ChannelInv'
<1>1. PICK new : new = NewRun("snapshot")
  OBVIOUS
<1>2. PICK content : content = CandidateOf(parent, c, v)
  OBVIOUS
<1>3. content \in Content /\ content # None
  <2>1. site.snapshots[parent] \in Content
    BY Parts, SiteTyped DEF Stored
  <2>2. content \in Content
    BY <1>2, <2>1, Numbers DEF CandidateOf, Content
  <2>3. QED
    BY <2>2, Numbers
<1>4. PICK run : run = [new EXCEPT !.snapshot = s, !.content = content]
  OBVIOUS
<1>5. /\ new \in RunRecord /\ new.kind = "snapshot" /\ new.request = None
      /\ new.artifact = None /\ new.attempt = 1 /\ new.status = "in_progress"
  BY <1>1, NewRunTyped
<1>6. /\ run \in RunRecord /\ run.kind = "snapshot" /\ run.request = None
      /\ run.artifact = None /\ run.attempt = 1 /\ run.status = "in_progress"
      /\ run.snapshot = s /\ run.content = content
  BY <1>3, <1>4, <1>5 DEF RunRecord
<1>7. RunBound(Len(runs) + 1, run)
  BY <1>3, <1>6, Numbers DEF RunBound
<1>8. Begin(run) /\ UNCHANGED orch
  BY <1>1, <1>2, <1>4 DEF DispatchSnapshot
<1>9. QED
  BY <1>6, <1>7, <1>8, DispatchInv

LEMMA DispatchBetaInv ==
  ASSUME Constants, ChannelInv, NEW s \in Stored(site), DispatchBeta(s)
  PROVE  ChannelInv'
<1>1. PICK new : new = NewRun("beta")
  OBVIOUS
<1>2. PICK run : run = [new EXCEPT !.snapshot = s]
  OBVIOUS
<1>3. s \in Snapshot
  BY DEF Stored
<1>4. /\ new \in RunRecord /\ new.kind = "beta" /\ new.request = None /\ new.job = "sign"
      /\ new.artifact = None /\ new.attempt = 1 /\ new.status = "in_progress"
  BY <1>1, NewRunTyped
<1>5. /\ run \in RunRecord /\ run.kind = "beta" /\ run.request = None /\ run.job = "sign"
      /\ run.artifact = None /\ run.attempt = 1 /\ run.status = "in_progress"
      /\ run.snapshot = s
  BY <1>2, <1>3, <1>4 DEF RunRecord
<1>6. RunBound(Len(runs) + 1, run)
  BY <1>3, <1>5, Numbers DEF RunBound
<1>7. Begin(run) /\ UNCHANGED orch
  BY <1>1, <1>2 DEF DispatchBeta
<1>8. QED
  BY <1>5, <1>6, <1>7, DispatchInv

LEMMA DispatchPromotionInv ==
  ASSUME Constants, ChannelInv, NEW v \in 1 .. Len(validations), DispatchPromotion(v)
  PROVE  ChannelInv'
<1>1. PICK new : new = NewRun("promote")
  OBVIOUS
<1>2. PICK run, s : /\ s = validations[v].snapshot
                    /\ run = [new EXCEPT !.validation = v, !.snapshot = s]
  OBVIOUS
<1>3. s \in Snapshot /\ v \in 0 .. MaxValidation /\ v \in DOMAIN validations
  <2>1. validations \in Seq(Evidence) /\ Len(validations) <= MaxValidation
    BY Parts DEF TypeOK
  <2>2. validations[v] \in Evidence /\ Len(validations) \in Nat /\ v \in DOMAIN validations
    BY <2>1
  <2>3. s \in Snapshot
    BY <1>2, <2>2 DEF Evidence
  <2>4. QED
    BY <2>1, <2>2, <2>3, Numbers
<1>4. /\ new \in RunRecord /\ new.kind = "promote" /\ new.request = None /\ new.job = "verify"
      /\ new.artifact = None /\ new.attempt = 1 /\ new.status = "in_progress"
  BY <1>1, NewRunTyped
<1>5. /\ run \in RunRecord /\ run.kind = "promote" /\ run.request = None /\ run.job = "verify"
      /\ run.artifact = None /\ run.attempt = 1 /\ run.status = "in_progress"
      /\ run.snapshot = s /\ run.validation = v
  <2>1. PICK half : half = [new EXCEPT !.validation = v]
    OBVIOUS
  <2>2. half \in RunRecord
    BY <1>3, <1>4, <2>1 DEF RunRecord
  <2>3. run = [half EXCEPT !.snapshot = s]
    BY <1>2, <2>1
  <2>4. run \in RunRecord
    BY <1>3, <2>2, <2>3 DEF RunRecord
  <2>5. /\ run.kind = new.kind /\ run.request = new.request /\ run.job = new.job
        /\ run.artifact = new.artifact /\ run.attempt = new.attempt /\ run.status = new.status
        /\ run.snapshot = s /\ run.validation = v
    BY <1>2, <1>4 DEF RunRecord
  <2>6. QED
    BY <1>4, <2>4, <2>5
<1>6. RunBound(Len(runs) + 1, run)
  BY <1>2, <1>3, <1>5 DEF RunBound, PromoteBound
<1>7. Begin(run) /\ UNCHANGED orch
  BY <1>1, <1>2 DEF DispatchPromotion
<1>8. QED
  BY <1>5, <1>6, <1>7, DispatchInv

LEMMA DispatchSelectionInv ==
  ASSUME Constants, ChannelInv, NEW g \in Component, DispatchSelection(g)
  PROVE  ChannelInv'
<1>1. PICK new : new = NewRun("select")
  OBVIOUS
<1>2. PICK run, s, t : /\ s = site.channel["beta"].snapshot /\ t = site.channel["beta"].run
                       /\ run = [new EXCEPT !.group = g, !.snapshot = s, !.target = t]
  OBVIOUS
<1>3. s \in Snapshot /\ t \in Run
  <2>1. site.channel["beta"] \in Publication
    BY Parts, SiteTyped DEF HistoryInv
  <2>2. QED
    BY <1>2, <2>1, PublicationTyped
<1>4. /\ new \in RunRecord /\ new.kind = "select" /\ new.request = None /\ new.job = "compose"
      /\ new.artifact = None /\ new.attempt = 1 /\ new.status = "in_progress"
  BY <1>1, NewRunTyped
<1>5. /\ run \in RunRecord /\ run.kind = "select" /\ run.request = None /\ run.job = "compose"
      /\ run.artifact = None /\ run.attempt = 1 /\ run.status = "in_progress" /\ run.group = g
  <2>1. PICK first, half : /\ first = [new EXCEPT !.group = g]
                           /\ half = [first EXCEPT !.snapshot = s]
    OBVIOUS
  <2>2. first \in RunRecord
    BY <1>4, <2>1 DEF RunRecord
  <2>3. half \in RunRecord
    <3>1. half = [first EXCEPT !.snapshot = s] /\ s \in Snapshot \cup {None}
      BY <1>3, <2>1
    <3>2. QED
      BY <2>2, <3>1 DEF RunRecord
  <2>4. run = [half EXCEPT !.target = t]
    BY <1>2, <2>1
  <2>5. run \in RunRecord
    BY <1>3, <2>3, <2>4 DEF RunRecord
  <2>6. /\ first.kind = new.kind /\ first.request = new.request /\ first.job = new.job
        /\ first.artifact = new.artifact /\ first.attempt = new.attempt
        /\ first.status = new.status /\ first.group = g
    BY <1>4, <2>1 DEF RunRecord
  <2>7. /\ half.kind = first.kind /\ half.request = first.request /\ half.job = first.job
        /\ half.artifact = first.artifact /\ half.attempt = first.attempt
        /\ half.status = first.status /\ half.group = first.group
    BY <2>1, <2>2 DEF RunRecord
  <2>8. /\ run.kind = half.kind /\ run.request = half.request /\ run.job = half.job
        /\ run.artifact = half.artifact /\ run.attempt = half.attempt
        /\ run.status = half.status /\ run.group = half.group
    BY <2>3, <2>4 DEF RunRecord
  <2>9. QED
    BY <1>4, <2>5, <2>6, <2>7, <2>8
<1>6. RunBound(Len(runs) + 1, run)
  BY <1>5, Numbers DEF RunBound, SelectBound
<1>7. Begin(run) /\ UNCHANGED orch
  BY <1>1, <1>2 DEF DispatchSelection
<1>8. QED
  BY <1>5, <1>6, <1>7, DispatchInv

LEMMA DispatchRollbackInv ==
  ASSUME Constants, ChannelInv, NEW c \in Channel, NEW t \in Run, DispatchRollback(c, t)
  PROVE  ChannelInv'
<1>1. PICK new : new = NewRun("rollback")
  OBVIOUS
<1>2. PICK run : run = [new EXCEPT !.channel = c, !.target = t]
  OBVIOUS
<1>3. /\ new \in RunRecord /\ new.kind = "rollback" /\ new.request = None
      /\ new.artifact = None /\ new.attempt = 1 /\ new.status = "in_progress"
  BY <1>1, NewRunTyped
<1>4. /\ run \in RunRecord /\ run.kind = "rollback" /\ run.request = None
      /\ run.artifact = None /\ run.attempt = 1 /\ run.status = "in_progress" /\ run.target = t
  BY <1>2, <1>3 DEF RunRecord
<1>5. RunBound(Len(runs) + 1, run)
  BY <1>4, Numbers DEF RunBound
<1>6. Begin(run) /\ UNCHANGED orch
  BY <1>1, <1>2 DEF DispatchRollback
<1>7. QED
  BY <1>4, <1>5, <1>6, DispatchInv

LEMMA ValidateInv ==
  ASSUME Constants, ChannelInv, Validate
  PROVE  ChannelInv'
<1>1. PICK beta : beta = site.channel["beta"]
  OBVIOUS
<1>2. PICK evidence : evidence = [snapshot |-> beta.snapshot, beta_run |-> beta.run,
                                  beta_started_at |-> beta.at]
  OBVIOUS
<1>3. /\ beta \in Publication /\ beta # None /\ site.history["beta"][beta.run] = beta
  BY <1>1, Parts, SiteTyped DEF HistoryInv
<1>4. evidence \in Evidence /\ evidence.beta_run = beta.run /\ evidence.snapshot = beta.snapshot
  <2>1. beta.snapshot \in Snapshot /\ beta.run \in Run /\ beta.at \in 0 .. MaxClock
    BY <1>3 DEF Publication
  <2>2. QED
    BY <1>2, <2>1 DEF Evidence
<1>5. /\ validations' = Append(validations, evidence) /\ Len(validations) < MaxValidation
      /\ UNCHANGED <<site, tip, author, runs, lock, orch, clock, faults>>
  BY <1>1, <1>2 DEF Validate
<1>6. TypeOK /\ AttemptInv /\ EvidenceInv /\ \A q \in Request : RequestInv(q)
  BY Parts
<1>7. /\ validations' \in Seq(Evidence) /\ Len(validations') = Len(validations) + 1
      /\ validations'[Len(validations) + 1] = evidence
      /\ \A v \in 1 .. Len(validations) : validations'[v] = validations[v]
      /\ DOMAIN validations = 1 .. Len(validations) /\ Len(validations) \in Nat
      /\ DOMAIN validations' = 1 .. Len(validations) + 1
  BY <1>4, <1>5, <1>6 DEF TypeOK
<1>8. TypeOK'
  <2>1. Len(validations') <= MaxValidation
    BY <1>5, <1>7, Numbers
  <2>2. QED
    BY <1>5, <1>6, <1>7, <2>1 DEF TypeOK
<1>9. Steady
  BY <1>5, <1>6, <1>7, <1>8 DEF Steady, Grows, RunsKept, RequestsKept, Chosen, TypeOK
<1>10. EvidenceInv'
  <2> SUFFICES ASSUME NEW v \in DOMAIN validations'
               PROVE  Tested(v)' # None /\ Tested(v)'.snapshot = validations'[v].snapshot
    BY DEF EvidenceInv
  <2>1. CASE v = Len(validations) + 1
    BY <1>3, <1>4, <1>5, <1>7, <2>1 DEF Tested
  <2>2. CASE v # Len(validations) + 1
    <3>1. v \in DOMAIN validations
      BY <1>7, <2>2
    <3>2. QED
      BY <1>6, <1>9, <3>1, TestedKept DEF EvidenceInv
  <2>3. QED
    BY <2>1, <2>2
<1>11. \A q \in Request : RequestInv(q)'
  BY <1>5, <1>6, <1>9, RequestKept
<1>12. \A x \in 1 .. Len(runs) :
         /\ runs'[x].attempt >= runs[x].attempt
         /\ lock' = x => lock = x \/ runs'[x].attempt > runs[x].attempt
  BY <1>5, <1>6, RunTyped, RecordTyped
<1>13. AttemptInv'
  BY <1>5, <1>6 DEF AttemptInv
<1>14. \A x \in 1 .. Len(runs') : RunBound(x, runs'[x])
  BY <1>5, Parts
<1>15. QED
  BY <1>5, <1>9, <1>10, <1>11, <1>12, <1>13, <1>14, CalmInv

LEMMA TickInv ==
  ASSUME Constants, ChannelInv, Tick
  PROVE  ChannelInv'
<1>1. /\ clock < MaxClock /\ clock' = clock + 1
      /\ UNCHANGED <<site, tip, author, runs, lock, validations, orch, faults>>
  BY DEF Tick
<1>2. TypeOK /\ AttemptInv /\ EvidenceInv /\ \A q \in Request : RequestInv(q)
  BY Parts
<1>3. clock' \in 0 .. MaxClock /\ clock' >= clock
  BY <1>1, <1>2, Numbers DEF TypeOK
<1>4. TypeOK'
  BY <1>1, <1>2, <1>3 DEF TypeOK
<1>5. Steady
  BY <1>1, <1>2, <1>3, <1>4 DEF Steady, Grows, RunsKept, RequestsKept, Chosen, TypeOK
<1>6. EvidenceInv'
  BY <1>1, <1>2, <1>5, EvidenceKept
<1>7. \A q \in Request : RequestInv(q)'
  BY <1>1, <1>2, <1>5, RequestKept
<1>8. \A x \in 1 .. Len(runs) :
         /\ runs'[x].attempt >= runs[x].attempt
         /\ lock' = x => lock = x \/ runs'[x].attempt > runs[x].attempt
  BY <1>1, <1>2, RunTyped, RecordTyped
<1>9. AttemptInv'
  BY <1>1, <1>2 DEF AttemptInv
<1>10. \A x \in 1 .. Len(runs') : RunBound(x, runs'[x])
  BY <1>1, Parts
<1>11. QED
  BY <1>1, <1>5, <1>6, <1>7, <1>8, <1>9, <1>10, CalmInv

-----------------------------------------------------------------------------
(* The orchestrator.                                                       *)

\* Request q moves on and nothing else does.
LEMMA OrchInv ==
  ASSUME Constants, ChannelInv, NEW q \in Request, NEW o \in Request0,
         orch' = [orch EXCEPT ![q] = o],
         UNCHANGED <<site, tip, author, runs, lock, validations, clock>>,
         faults' \in 0 .. MaxFault, faults <= faults',
         Chosen(q) =>
           /\ o.queued # None \/ o.child # None
           /\ o.parent = orch[q].parent /\ o.snapshot = orch[q].snapshot
           /\ o.component = orch[q].component /\ o.version = orch[q].version
           /\ o.storage = orch[q].storage
           /\ orch[q].head # 0 => o.head = orch[q].head,
         RequestInv(q)'
  PROVE  ChannelInv'
<1>1. TypeOK /\ AttemptInv /\ EvidenceInv /\ \A p \in Request : RequestInv(p)
  BY Parts
<1>2. orch'[q] = o /\ \A p \in Request : p # q => orch'[p] = orch[p]
  BY <1>1 DEF TypeOK
<1>3. TypeOK'
  <2>1. orch' \in [Request -> Request0]
    BY <1>1 DEF TypeOK
  <2>2. QED
    BY <1>1, <2>1 DEF TypeOK
<1>4. RequestsKept
  BY <1>2 DEF RequestsKept, Chosen
<1>5. Steady
  BY <1>1, <1>3, <1>4 DEF Steady, Grows, RunsKept, TypeOK
<1>6. \A p \in Request : RequestInv(p)'
  BY <1>1, <1>2, <1>5, RequestKept
<1>7. \A x \in 1 .. Len(runs) :
        /\ runs'[x].attempt >= runs[x].attempt
        /\ lock' = x => lock = x \/ runs'[x].attempt > runs[x].attempt
  BY <1>1, RunTyped, RecordTyped
<1>8. AttemptInv'
  <2>1. faults \in Nat /\ faults' \in Nat
    BY <1>1 DEF TypeOK
  <2>2. \A x \in 1 .. Len(runs) : runs[x].attempt \in Nat
    BY <1>1, RunTyped, RecordTyped
  <2>3. QED
    BY <1>1, <2>1, <2>2 DEF AttemptInv
<1>9. EvidenceInv'
  BY <1>1, <1>5, EvidenceKept
<1>10. \A x \in 1 .. Len(runs') : RunBound(x, runs'[x])
  BY Parts
<1>11. QED
  BY <1>5, <1>6, <1>7, <1>8, <1>9, <1>10, CalmInv

\* The number that a request reserves is a new one.
LEMMA AllocatedTyped ==
  ASSUME Constants, ChannelInv, Allocated <= MaxSnapshot
  PROVE  Allocated \in Snapshot
<1>1. site.channel["beta"] # None /\ "beta" \in Channel
  BY Parts DEF HistoryInv, Channel
<1>2. site.channel["beta"].snapshot \in Snapshot
      /\ site.snapshots[site.channel["beta"].snapshot] # None
  BY <1>1, Parts, ServedTyped, PublicationTyped
<1>3. PICK S : S = Stored(site)
  OBVIOUS
<1>4. S # {} /\ S \in SUBSET (1 .. MaxSnapshot)
  BY <1>2, <1>3 DEF Stored, Snapshot
<1>5. \E n \in S : \A m \in S : n >= m
  BY <1>4, GreatestNumber, Numbers
<1>6. Max(S) \in S
  BY <1>5 DEF Max
<1>7. QED
  BY <1>3, <1>4, <1>6, Numbers DEF Allocated, Snapshot

LEMMA PreflightInv ==
  ASSUME Constants, ChannelInv, NEW q \in Request, NEW c \in Component, NEW v \in 1 .. MaxVersion,
         Preflight(q, c, v)
  PROVE  ChannelInv'
<1>1. PICK beta, a : beta = site.channel["beta"] /\ a = Allocated
  OBVIOUS
<1>2. PICK o : o = [Idle EXCEPT !.stage = "ready", !.storage = tip,
                      !.parent = beta.snapshot, !.snapshot = a,
                      !.component = c, !.version = v]
  OBVIOUS
<1>3. /\ TypeOK /\ RequestInv(q) /\ tip \in Nat /\ a \in Snapshot
  BY <1>1, Parts, AllocatedTyped DEF Preflight, TypeOK
<1>4. beta.snapshot \in Snapshot /\ site.snapshots[beta.snapshot] # None
  <2>1. site.channel["beta"] # None /\ "beta" \in Channel
    BY Parts DEF HistoryInv, Channel
  <2>2. QED
    BY <1>1, <2>1, Parts, ServedTyped, PublicationTyped
<1>5. /\ o.stage = "ready" /\ o.queued = None /\ o.storage = tip /\ o.head = 0
      /\ o.parent = beta.snapshot /\ o.snapshot = a /\ o.component = c /\ o.version = v
      /\ o.child = None
  BY <1>2 DEF Idle
<1>6. o \in Request0
  <2>1. v \in 0 .. MaxVersion
    BY Numbers
  <2>2. QED
    BY <1>2, <1>3, <1>4, <2>1 DEF Idle, Request0
<1>7. /\ orch' = [orch EXCEPT ![q] = o]
      /\ UNCHANGED <<site, tip, author, runs, lock, validations, clock, faults>>
  BY <1>1, <1>2 DEF Preflight
<1>8. ~ Chosen(q)
  BY <1>3 DEF Chosen, Preflight, RequestInv, Idle
<1>9. orch'[q] = o
  BY <1>3, <1>7 DEF TypeOK
<1>10. RequestInv(q)'
  <2>1. a # None /\ beta.snapshot # None /\ c # None /\ tip <= tip /\ None # "beta"
    BY <1>3, <1>4, Numbers
  <2>2. QED
    BY <1>1, <1>4, <1>5, <1>7, <1>9, <2>1 DEF RequestInv, Chosen
<1>11. faults' \in 0 .. MaxFault /\ faults <= faults'
  BY <1>3, <1>7 DEF TypeOK
<1>12. QED
  BY <1>6, <1>7, <1>8, <1>10, <1>11, OrchInv

\* What a request keeps while its stage moves on.
Onward(o, new) ==
  /\ new.parent = o.parent /\ new.snapshot = o.snapshot /\ new.component = o.component
  /\ new.version = o.version /\ new.storage = o.storage /\ new.child = o.child

LEMMA OnwardInv ==
  ASSUME Constants, ChannelInv, NEW q \in Request, NEW o \in Request0,
         orch' = [orch EXCEPT ![q] = o],
         UNCHANGED <<site, tip, author, runs, lock, validations, clock>>,
         faults' \in 0 .. MaxFault, faults <= faults',
         orch[q].stage # "idle", Onward(orch[q], o), o.stage \notin {"idle", "ready"},
         Chosen(q) => o.queued # None \/ o.child # None,
         o.queued # None \/ o.child # None =>
            o.version > site.snapshots[o.parent][o.component],
         o.stage = "snapshot" => o.head = 0 /\ o.queued # "beta",
         o.queued = "beta" => o.head # 0,
         \/ o.head = orch[q].head
         \/ /\ orch[q].head = 0
            /\ o.queued # None \/ o.child # None
            /\ o.head <= tip
            /\ site.snapshots[o.snapshot] = Merged(q)
            /\ tip = o.head => site.channel["beta"].snapshot = o.parent
  PROVE  ChannelInv'
<1>1. TypeOK /\ RequestInv(q)
  BY Parts
<1>2. orch'[q] = o
  BY <1>1 DEF TypeOK
<1>3. /\ o.parent = orch[q].parent /\ o.snapshot = orch[q].snapshot
      /\ o.component = orch[q].component /\ o.version = orch[q].version
      /\ o.storage = orch[q].storage /\ o.child = orch[q].child
  BY DEF Onward
<1>4. /\ Merged(q)' = Merged(q)
      /\ Chosen(q)' <=> o.queued # None \/ o.child # None
  BY <1>2, <1>3 DEF Merged, CandidateOf, Chosen
<1>5. /\ o.parent # None /\ site.snapshots[o.parent] # None
      /\ o.snapshot # None /\ o.component # None
      /\ o.storage <= tip /\ (tip = o.storage => site.channel["beta"].snapshot = o.parent)
      /\ o.child # None => o.child <= Len(runs) /\ runs[o.child].request = q
  BY <1>1, <1>3 DEF RequestInv
<1>6. o.head # 0 =>
        /\ o.queued # None \/ o.child # None
        /\ o.head <= tip /\ site.snapshots[o.snapshot] = Merged(q)
        /\ tip = o.head => site.channel["beta"].snapshot = o.parent
  <2>1. CASE o.head = orch[q].head
    BY <1>1, <1>3, <2>1 DEF RequestInv
  <2>2. CASE o.head # orch[q].head
    BY <2>2
  <2>3. QED
    BY <2>1, <2>2
<1>7. RequestInv(q)'
  BY <1>2, <1>3, <1>4, <1>5, <1>6 DEF RequestInv
<1>8. orch[q].head # 0 => o.head = orch[q].head
  OBVIOUS
<1>9. QED
  BY <1>3, <1>7, <1>8, OrchInv

LEMMA DispatchCandidateInv ==
  ASSUME Constants, ChannelInv, NEW q \in Request, DispatchCandidate(q)
  PROVE  ChannelInv'
<1>1. PICK old, o : old = orch[q] /\ o = [old EXCEPT !.stage = "snapshot", !.queued = "snapshot"]
  OBVIOUS
<1>2. TypeOK /\ RequestInv(q) /\ old \in Request0
  BY <1>1, Parts, RequestTyped DEF TypeOK
<1>3. /\ o.stage = "snapshot" /\ o.queued = "snapshot" /\ o.head = old.head /\ Onward(old, o)
      /\ o \in Request0
  BY <1>1, <1>2 DEF Request0, Onward
<1>4. old.stage = "ready" /\ old.head = 0
  BY <1>1, <1>2 DEF DispatchCandidate, RequestInv
<1>5. /\ orch' = [orch EXCEPT ![q] = o]
      /\ UNCHANGED <<site, tip, author, runs, lock, validations, clock, faults>>
  BY <1>1 DEF DispatchCandidate
<1>6. o.version > site.snapshots[o.parent][o.component]
  BY <1>1, <1>3 DEF DispatchCandidate, Onward
<1>7. faults' \in 0 .. MaxFault /\ faults <= faults'
  BY <1>2, <1>5 DEF TypeOK
<1>8. QED
  BY <1>1, <1>3, <1>4, <1>5, <1>6, <1>7, Numbers, OnwardInv

LEMMA DispatchRemoteBetaInv ==
  ASSUME Constants, ChannelInv, NEW q \in Request, DispatchRemoteBeta(q)
  PROVE  ChannelInv'
<1>1. PICK old, o : old = orch[q]
                    /\ o = [old EXCEPT !.stage = "beta", !.queued = "beta", !.head = tip]
  OBVIOUS
<1>2. TypeOK /\ RequestInv(q) /\ AuthorInv /\ old \in Request0 /\ tip \in Nat
  BY <1>1, Parts, RequestTyped DEF TypeOK
<1>3. /\ o.stage = "beta" /\ o.queued = "beta" /\ o.head = tip /\ Onward(old, o)
      /\ o \in Request0
  BY <1>1, <1>2 DEF Request0, Onward
<1>4. /\ old.stage = "snapshot" /\ old.child # None /\ tip = old.storage + 1
      /\ author = old.child
  BY <1>1 DEF DispatchRemoteBeta, ChildSucceeded
<1>5. /\ old.head = 0 /\ old.child <= Len(runs) /\ runs[old.child].request = q
  BY <1>1, <1>2, <1>4 DEF RequestInv
<1>6. old.child \in 1 .. Len(runs)
  BY <1>1, <1>2, <1>4, <1>5, RequestTyped, Parts DEF TypeOK, Run
<1>7. runs[old.child].kind = "snapshot"
  <2>1. RequestBound(runs[old.child])
    BY <1>5, <1>6, Parts, Numbers DEF RunBound
  <2>2. QED
    BY <1>1, <1>5, <2>1 DEF RequestBound
<1>8. /\ site.snapshots[old.snapshot] = Merged(q) /\ site.channel["beta"].snapshot = old.parent
  BY <1>1, <1>2, <1>4, <1>5, <1>7, Numbers DEF AuthorInv
<1>9. old.storage \in Nat
  BY <1>1, <1>2, RequestTyped DEF TypeOK
<1>10. /\ orch' = [orch EXCEPT ![q] = o]
       /\ UNCHANGED <<site, tip, author, runs, lock, validations, clock, faults>>
  BY <1>1 DEF DispatchRemoteBeta
<1>11. old.version > site.snapshots[old.parent][old.component]
  BY <1>1, <1>2, <1>4 DEF RequestInv, Chosen
<1>12. faults' \in 0 .. MaxFault /\ faults <= faults'
  BY <1>2, <1>10 DEF TypeOK
<1>13. /\ o.version > site.snapshots[o.parent][o.component]
       /\ o.head # 0 /\ o.head <= tip
       /\ site.snapshots[o.snapshot] = Merged(q) /\ site.channel["beta"].snapshot = o.parent
  BY <1>2, <1>3, <1>4, <1>8, <1>9, <1>11 DEF Onward
<1>14. QED
  BY <1>1, <1>3, <1>4, <1>5, <1>10, <1>12, <1>13, Numbers, OnwardInv

\* The request ends.
LEMMA EndInv ==
  ASSUME Constants, ChannelInv, NEW q \in Request, NEW stage \in {"success", "failure"},
         orch' = [orch EXCEPT ![q].stage = stage], orch[q].stage # "idle",
         UNCHANGED <<site, tip, author, runs, lock, validations, clock>>,
         faults' \in 0 .. MaxFault, faults <= faults'
  PROVE  ChannelInv'
<1>1. PICK old, o : old = orch[q] /\ o = [old EXCEPT !.stage = stage]
  OBVIOUS
<1>2. TypeOK /\ RequestInv(q) /\ old \in Request0
  BY <1>1, Parts, RequestTyped DEF TypeOK
<1>3. /\ o.stage = stage /\ o.queued = old.queued /\ o.head = old.head /\ Onward(old, o)
      /\ o \in Request0
  BY <1>1, <1>2 DEF Request0, Onward
<1>4. orch' = [orch EXCEPT ![q] = o]
  BY <1>1
<1>5. /\ o.queued # None \/ o.child # None => o.version > site.snapshots[o.parent][o.component]
      /\ Chosen(q) => o.queued # None \/ o.child # None
      /\ o.queued = "beta" => o.head # 0
  BY <1>1, <1>2, <1>3 DEF RequestInv, Chosen, Onward
<1>6. QED
  BY <1>1, <1>3, <1>4, <1>5, OnwardInv

LEMMA ReportInv ==
  ASSUME Constants, ChannelInv, NEW q \in Request, Report(q)
  PROVE  ChannelInv'
<1>1. faults' \in 0 .. MaxFault /\ faults <= faults'
  BY Parts DEF TypeOK, Report
<1>2. QED
  BY <1>1, EndInv DEF Report

LEMMA GiveUpInv ==
  ASSUME Constants, ChannelInv, NEW q \in Request, GiveUp(q)
  PROVE  ChannelInv'
<1>1. faults' \in 0 .. MaxFault /\ faults <= faults'
  BY Parts, Numbers DEF TypeOK, GiveUp, Fault
<1>2. QED
  BY <1>1, EndInv DEF GiveUp, Active

LEMMA StartChildInv ==
  ASSUME Constants, ChannelInv, NEW q \in Request, StartChild(q)
  PROVE  ChannelInv'
<1>1. PICK old : old = orch[q]
  OBVIOUS
<1>2. TypeOK /\ RequestInv(q) /\ old \in Request0 /\ site \in Site /\ Len(runs) \in Nat
  BY <1>1, Parts, RequestTyped DEF TypeOK
<1>3. /\ old.queued \in {"snapshot", "beta"} /\ old.stage \notin {"idle", "ready"}
      /\ Len(runs) < MaxRun
  <2>1. old.queued # None
    BY <1>1 DEF StartChild
  <2>2. old.queued \in {None, "snapshot", "beta"}
    BY <1>2 DEF Request0
  <2>3. old.stage \notin {"idle", "ready"}
    BY <1>1, <1>2, <2>1 DEF RequestInv, Idle
  <2>4. QED
    BY <2>1, <2>2, <2>3 DEF StartChild, Begin
<1>4. PICK kind : kind = old.queued
  OBVIOUS
<1>5. PICK base : base = IF kind = "snapshot" THEN old.storage ELSE old.head
  OBVIOUS
<1>6. PICK content : content = IF kind = "snapshot" THEN Merged(q) ELSE None
  OBVIOUS
<1>7. PICK new : new = NewRun(kind)
  OBVIOUS
<1>8. PICK run : run = [new EXCEPT !.request = q, !.snapshot = old.snapshot,
                                   !.base = base, !.content = content]
  OBVIOUS
<1>9. /\ old.parent # None /\ site.snapshots[old.parent] # None
      /\ old.snapshot # None /\ old.snapshot \in Snapshot
      /\ old.storage \in Nat /\ old.head \in Nat
  BY <1>1, <1>2, <1>3, RequestTyped DEF RequestInv, TypeOK
<1>10. Merged(q) \in Content /\ Merged(q) # None
  BY <1>1, <1>2, <1>9, MergedTyped DEF TypeOK
<1>11. base \in Nat /\ content \in Content \cup {None}
  BY <1>5, <1>6, <1>9, <1>10
<1>12. /\ new \in RunRecord /\ new.kind = kind /\ new.artifact = None /\ new.attempt = 1
       /\ new.status = "in_progress" /\ new.job = FirstJob(kind)
       /\ kind = "beta" => new.job = "sign"
  BY <1>3, <1>4, <1>7, NewRunTyped
<1>13. /\ run \in RunRecord /\ run.kind = kind /\ run.artifact = None /\ run.attempt = 1
       /\ run.status = "in_progress" /\ run.job = new.job
       /\ run.request = q /\ run.snapshot = old.snapshot /\ run.base = base /\ run.content = content
  <2>1. /\ q \in Request \cup {None} /\ old.snapshot \in Snapshot \cup {None}
        /\ base \in Nat \cup {None}
    BY <1>9, <1>11
  <2>2. run \in RunRecord
    <3>1. PICK half : half = [new EXCEPT !.request = q, !.snapshot = old.snapshot]
      OBVIOUS
    <3>2. half \in RunRecord
      <4>1. old.snapshot \in Snapshot \cup {None} /\ q \in Request \cup {None} /\ new \in RunRecord
        BY <1>12, <2>1
      <4>2. QED
        BY <3>1, <4>1 DEF RunRecord
    <3>3. run = [half EXCEPT !.base = base, !.content = content]
      BY <1>8, <3>1
    <3>4. QED
      BY <1>11, <2>1, <3>2, <3>3 DEF RunRecord
  <2>3. /\ run.kind = new.kind /\ run.artifact = new.artifact /\ run.attempt = new.attempt
        /\ run.status = new.status /\ run.job = new.job
        /\ run.request = q /\ run.snapshot = old.snapshot /\ run.base = base /\ run.content = content
    BY <1>8, <1>12 DEF RunRecord
  <2>4. QED
    BY <1>12, <2>2, <2>3
<1>14. Begin(run)
  BY <1>1, <1>4, <1>5, <1>6, <1>7, <1>8 DEF StartChild, Merged
<1>15. RunBound(Len(runs) + 1, run)
  <2>1. RequestBound(run)
    BY <1>1, <1>2, <1>3, <1>4, <1>5, <1>6, <1>13, Numbers DEF RequestBound, Chosen, RequestInv
  <2>2. QED
    BY <1>3, <1>4, <1>6, <1>9, <1>10, <1>12, <1>13, <2>1 DEF RunBound
<1>16. PICK child : child = Len(runs) + 1
  OBVIOUS
<1>17. PICK o : o = [old EXCEPT !.queued = None, !.child = child]
  OBVIOUS
<1>18. child \in Run /\ child # None
  BY <1>2, <1>3, <1>16, Numbers DEF Run
<1>19. o \in Request0 /\ o.queued = None /\ o.child = child /\ o.stage = old.stage
       /\ o.parent = old.parent /\ o.snapshot = old.snapshot /\ o.component = old.component
       /\ o.version = old.version /\ o.storage = old.storage /\ o.head = old.head
  BY <1>2, <1>17, <1>18 DEF Request0
<1>20. orch' = [orch EXCEPT ![q] = o]
  BY <1>1, <1>16, <1>17 DEF StartChild
<1>21. orch' \in [Request -> Request0] /\ orch'[q] = o /\ \A p \in Request : p # q => orch'[p] = orch[p]
  BY <1>2, <1>19, <1>20 DEF TypeOK
<1>22. RequestsKept
  BY <1>1, <1>18, <1>19, <1>21 DEF RequestsKept, Chosen
<1>23. /\ Steady /\ UNCHANGED <<site, tip, author, validations, faults>>
       /\ Len(runs') = child /\ runs'[child] = run
  BY <1>13, <1>14, <1>16, <1>21, <1>22, BeginSteady
<1>24. RequestInv(q)'
  <2>1. Merged(q)' = Merged(q) /\ Chosen(q)' /\ Chosen(q)
    BY <1>1, <1>3, <1>18, <1>19, <1>21, <1>23, Numbers DEF Merged, CandidateOf, Chosen
  <2>2. child <= Len(runs') /\ runs'[child].request = q
    BY <1>13, <1>16, <1>2, <1>23
  <2>3. /\ old.snapshot # None /\ old.component # None
        /\ old.storage <= tip /\ (tip = old.storage => site.channel["beta"].snapshot = old.parent)
        /\ old.version > site.snapshots[old.parent][old.component]
        /\ old.stage = "snapshot" => old.head = 0
        /\ old.head # 0 =>
             /\ old.head <= tip /\ site.snapshots[old.snapshot] = Merged(q)
             /\ tip = old.head => site.channel["beta"].snapshot = old.parent
    BY <1>1, <1>2, <1>3, <2>1 DEF RequestInv
  <2>4. QED
    BY <1>3, <1>9, <1>19, <1>21, <1>23, <2>1, <2>2, <2>3, Numbers DEF RequestInv
<1>25. \A p \in Request : RequestInv(p)'
  <2>1. \A p \in Request : p # q => RequestInv(p)'
    BY <1>2, <1>21, <1>23, Parts, RequestKept
  <2>2. QED
    BY <1>24, <2>1
<1>26. QED
  BY <1>13, <1>14, <1>15, <1>21, <1>22, <1>25, BeginInv

-----------------------------------------------------------------------------
(* The first state.                                                        *)

LEMMA FirstTyped ==
  ASSUME Constants
  PROVE  /\ FirstBeta \in Publication /\ FirstBeta # None
         /\ FirstBeta.run = 1 /\ FirstBeta.snapshot = 1 /\ FirstBeta.store = 1
         /\ FirstBeta.at = 0 /\ FirstBeta.signing = 1
         /\ FirstStable \in Publication /\ FirstStable # None
         /\ FirstStable.run = 2 /\ FirstStable.snapshot = 1 /\ FirstStable.store = 1
         /\ FirstStable.at = Dwell /\ FirstStable.signing = 1
         /\ 1 \in Run /\ 2 \in Run /\ 1 \in Snapshot
<1>1. /\ 1 \in Run /\ 2 \in Run /\ 1 \in Snapshot /\ 0 \in 0 .. MaxClock /\ Dwell \in 0 .. MaxClock
      /\ 1 \in 1 .. MaxFault + 1
  BY Numbers DEF Run, Snapshot
<1>2. FirstBeta \in Publication
  BY <1>1 DEF FirstBeta, Publication
<1>3. /\ FirstBeta.run = 1 /\ FirstBeta.snapshot = 1 /\ FirstBeta.store = 1
      /\ FirstBeta.at = 0 /\ FirstBeta.signing = 1
  BY DEF FirstBeta
<1>4. PICK beta, stable : beta = FirstBeta /\ stable = [beta EXCEPT !.run = 2, !.at = Dwell]
  OBVIOUS
<1>5. /\ stable \in Publication /\ stable.run = 2 /\ stable.at = Dwell
      /\ stable.snapshot = beta.snapshot /\ stable.store = beta.store /\ stable.signing = beta.signing
  BY <1>1, <1>2, <1>4 DEF Publication
<1>6. stable = FirstStable
  BY <1>4 DEF FirstStable
<1>7. QED
  BY <1>1, <1>2, <1>3, <1>4, <1>5, <1>6, Numbers

LEMMA FirstRunsTyped ==
  ASSUME Constants, NEW stable \in {None, FirstStable}
  PROVE  LET first == FirstRuns(stable) IN
         /\ first \in Seq(RunRecord) /\ Len(first) = 2 /\ DOMAIN first = {1, 2}
         /\ \A r \in {1, 2} : first[r].request = None /\ first[r].attempt = 1
                              /\ first[r].status # "in_progress"
         /\ first[1].kind = "beta" /\ first[1].snapshot = 1 /\ first[1].artifact = FirstBeta
         /\ stable = None => /\ first[2].kind = "beta" /\ first[2].snapshot \in Snapshot
                             /\ first[2].job = "sign" /\ first[2].artifact = None
         /\ stable # None => /\ first[2].kind = "promote" /\ first[2].snapshot = 1
                             /\ first[2].validation = 1 /\ first[2].artifact = stable
<1>1. PICK beta, promote : beta = NewRun("beta") /\ promote = NewRun("promote")
  OBVIOUS
<1>2. /\ beta \in RunRecord /\ beta.kind = "beta" /\ beta.request = None /\ beta.job = "sign"
      /\ beta.attempt = 1 /\ beta.artifact = None
      /\ promote \in RunRecord /\ promote.kind = "promote" /\ promote.request = None
      /\ promote.attempt = 1
  BY <1>1, NewRunTyped
<1>3. PICK one : one = [beta EXCEPT !.snapshot = 1, !.artifact = FirstBeta,
                                    !.job = "publish", !.status = "success"]
  OBVIOUS
<1>4. /\ one \in RunRecord /\ one.request = None /\ one.attempt = 1 /\ one.status # "in_progress"
      /\ one.kind = "beta" /\ one.snapshot = 1 /\ one.artifact = FirstBeta
  <2>1. PICK half : half = [beta EXCEPT !.snapshot = 1, !.artifact = FirstBeta]
    OBVIOUS
  <2>2. PICK part : part = [beta EXCEPT !.snapshot = 1]
    OBVIOUS
  <2>3. part \in RunRecord
    BY <1>2, <2>2, FirstTyped DEF RunRecord
  <2>4. half = [part EXCEPT !.artifact = FirstBeta]
    BY <2>1, <2>2
  <2>5. half \in RunRecord
    BY <2>3, <2>4, FirstTyped DEF RunRecord
  <2>6. one = [half EXCEPT !.job = "publish", !.status = "success"]
    BY <1>3, <2>1
  <2>7. one \in RunRecord
    BY <2>5, <2>6 DEF RunRecord
  <2>8. /\ one.kind = beta.kind /\ one.request = beta.request /\ one.attempt = beta.attempt
        /\ one.status = "success" /\ one.snapshot = 1 /\ one.artifact = FirstBeta
    BY <1>2, <1>3 DEF RunRecord
  <2>9. QED
    BY <1>2, <2>7, <2>8
<1>5. PICK last : last = Len(Initial)
  OBVIOUS
<1>6. last \in Snapshot /\ 1 \in 0 .. MaxValidation
  BY <1>5, Numbers DEF Constants
<1>7. PICK failed : failed = [beta EXCEPT !.snapshot = last, !.status = "failure"]
  OBVIOUS
<1>8. /\ failed \in RunRecord /\ failed.request = None /\ failed.attempt = 1
      /\ failed.status # "in_progress" /\ failed.kind = "beta" /\ failed.snapshot = last
      /\ failed.job = "sign" /\ failed.artifact = None
  <2>1. PICK half : half = [beta EXCEPT !.snapshot = last]
    OBVIOUS
  <2>2. half \in RunRecord
    BY <1>2, <1>6, <2>1 DEF RunRecord
  <2>3. failed = [half EXCEPT !.status = "failure"]
    BY <1>7, <2>1
  <2>4. failed \in RunRecord
    BY <2>2, <2>3 DEF RunRecord
  <2>5. /\ failed.kind = beta.kind /\ failed.request = beta.request
        /\ failed.attempt = beta.attempt /\ failed.job = beta.job
        /\ failed.artifact = beta.artifact /\ failed.status = "failure" /\ failed.snapshot = last
    BY <1>2, <1>7 DEF RunRecord
  <2>6. QED
    BY <1>2, <2>4, <2>5
<1>9. PICK promoted : promoted = [promote EXCEPT !.snapshot = 1, !.validation = 1,
                                   !.status = "success", !.artifact = stable, !.job = "publish"]
  OBVIOUS
<1>10. stable \in Publication \cup {None}
  BY FirstTyped
<1>11. /\ promoted \in RunRecord /\ promoted.request = None /\ promoted.attempt = 1
       /\ promoted.status # "in_progress" /\ promoted.kind = "promote" /\ promoted.snapshot = 1
       /\ promoted.validation = 1 /\ promoted.artifact = stable
  <2>1. PICK half : half = [promote EXCEPT !.snapshot = 1, !.validation = 1]
    OBVIOUS
  <2>2. /\ half \in RunRecord /\ half.request = None /\ half.attempt = 1 /\ half.kind = "promote"
        /\ half.snapshot = 1 /\ half.validation = 1
    <3>1. PICK part : part = [promote EXCEPT !.snapshot = 1]
      OBVIOUS
    <3>2. part \in RunRecord
      BY <1>2, <3>1, FirstTyped DEF RunRecord
    <3>3. half = [part EXCEPT !.validation = 1]
      BY <2>1, <3>1
    <3>4. half \in RunRecord
      BY <1>6, <3>2, <3>3 DEF RunRecord
    <3>5. /\ half.request = promote.request /\ half.attempt = promote.attempt
          /\ half.kind = promote.kind /\ half.snapshot = 1 /\ half.validation = 1
      BY <1>2, <2>1 DEF RunRecord
    <3>6. QED
      BY <1>2, <3>4, <3>5
  <2>3. promoted = [half EXCEPT !.status = "success", !.artifact = stable, !.job = "publish"]
    BY <1>9, <2>1
  <2>4. promoted \in RunRecord
    <3>1. PICK most : most = [half EXCEPT !.status = "success", !.job = "publish"]
      OBVIOUS
    <3>2. most \in RunRecord
      <4>1. half \in RunRecord
        BY <2>2
      <4>2. QED
        BY <3>1, <4>1 DEF RunRecord
    <3>3. promoted = [most EXCEPT !.artifact = stable]
      BY <2>2, <2>3, <3>1 DEF RunRecord
    <3>4. QED
      BY <1>10, <3>2, <3>3 DEF RunRecord
  <2>5. /\ promoted.request = half.request /\ promoted.attempt = half.attempt
        /\ promoted.kind = half.kind /\ promoted.snapshot = half.snapshot
        /\ promoted.validation = half.validation
        /\ promoted.status = "success" /\ promoted.artifact = stable
    BY <2>2, <2>3 DEF RunRecord
  <2>6. QED
    BY <2>2, <2>4, <2>5
<1>12. PICK two : two = IF stable = None THEN failed ELSE promoted
  OBVIOUS
<1>13. FirstRuns(stable) = <<one, two>>
  BY <1>1, <1>3, <1>5, <1>7, <1>9, <1>12 DEF FirstRuns
<1>14. PICK first : first = <<one, two>>
  OBVIOUS
<1>15. /\ first \in Seq(RunRecord) /\ Len(first) = 2 /\ DOMAIN first = {1, 2}
       /\ first[1] = one /\ first[2] = two
  BY <1>4, <1>8, <1>11, <1>12, <1>14
<1>16. two.request = None /\ two.attempt = 1 /\ two.status # "in_progress"
  BY <1>8, <1>11, <1>12
<1>17. QED
  BY <1>4, <1>6, <1>8, <1>11, <1>12, <1>13, <1>14, <1>15, <1>16

LEMMA InitInv ==
  ASSUME Constants, Init
  PROVE  ChannelInv
<1>1. PICK stable \in {None, FirstStable} :
        /\ site = [snapshots |-> [s \in Snapshot |-> IF s <= Len(Initial) THEN Initial[s] ELSE None],
                   channel |-> [beta |-> FirstBeta, stable |-> stable],
                   history |-> [beta |-> [r \in Run |-> IF r = 1 THEN FirstBeta ELSE None],
                                stable |-> [r \in Run |-> IF r = 2 THEN stable ELSE None]],
                   promotions |-> IF stable = None THEN {} ELSE {[run |-> 2, validation |-> 1]},
                   rollbacks |-> {}]
        /\ tip = 2 /\ author = (IF stable = None THEN 1 ELSE 2)
        /\ runs = FirstRuns(stable)
        /\ lock = None
        /\ validations = <<[snapshot |-> 1, beta_run |-> 1, beta_started_at |-> 0]>>
        /\ orch = [q \in Request |-> Idle]
        /\ clock = IF stable = None THEN 0 ELSE Dwell
        /\ faults = 0
  BY DEF Init
<1>2. /\ runs \in Seq(RunRecord) /\ Len(runs) = 2 /\ DOMAIN runs = {1, 2}
      /\ \A r \in {1, 2} : runs[r].request = None /\ runs[r].attempt = 1
                           /\ runs[r].status # "in_progress"
      /\ runs[1].kind = "beta" /\ runs[1].snapshot = 1 /\ runs[1].artifact = FirstBeta
      /\ stable = None => /\ runs[2].kind = "beta" /\ runs[2].snapshot \in Snapshot
                          /\ runs[2].job = "sign" /\ runs[2].artifact = None
      /\ stable # None => /\ runs[2].kind = "promote" /\ runs[2].snapshot = 1
                          /\ runs[2].validation = 1 /\ runs[2].artifact = stable
  BY <1>1, FirstRunsTyped
<1>3. /\ site.snapshots = [s \in Snapshot |-> IF s <= Len(Initial) THEN Initial[s] ELSE None]
      /\ site.channel = [beta |-> FirstBeta, stable |-> stable]
      /\ site.history = [beta |-> [r \in Run |-> IF r = 1 THEN FirstBeta ELSE None],
                         stable |-> [r \in Run |-> IF r = 2 THEN stable ELSE None]]
      /\ site.promotions = (IF stable = None THEN {} ELSE {[run |-> 2, validation |-> 1]})
      /\ site.rollbacks = {}
      /\ site.channel["beta"] = FirstBeta /\ site.channel["stable"] = stable
  BY <1>1
<1>4. /\ \A r \in Run : site.history["beta"][r] = IF r = 1 THEN FirstBeta ELSE None
      /\ \A r \in Run : site.history["stable"][r] = IF r = 2 THEN stable ELSE None
  BY <1>3
<1>5. site.snapshots[1] \in Content /\ site.snapshots[1] # None
  <2>1. Initial \in Seq(Content) /\ Len(Initial) \in 1 .. MaxSnapshot
    BY DEF Constants, Snapshot
  <2>2. Initial[1] \in Content /\ 1 <= Len(Initial)
    BY <2>1, Numbers
  <2>3. QED
    BY <1>3, <2>2, FirstTyped, Numbers
<1>6. site \in Site
  <2>1. [s \in Snapshot |-> IF s <= Len(Initial) THEN Initial[s] ELSE None]
          \in [Snapshot -> Content \cup {None}]
    <3>1. \A s \in Snapshot : s <= Len(Initial) => Initial[s] \in Content
      <4>1. Initial \in Seq(Content) /\ Len(Initial) \in Nat
        BY DEF Constants
      <4>2. \A s \in Snapshot : s <= Len(Initial) => s \in 1 .. Len(Initial)
        BY <4>1, Numbers DEF Snapshot
      <4>3. QED
        BY <4>1, <4>2
    <3>2. QED
      BY <3>1
  <2>2. stable \in Publication \cup {None} /\ FirstBeta \in Publication
    BY FirstTyped
  <2>3. [beta |-> FirstBeta, stable |-> stable] \in [Channel -> Publication \cup {None}]
    BY <2>2 DEF Channel
  <2>4. PICK B, S : /\ B = [r \in Run |-> IF r = 1 THEN FirstBeta ELSE None]
                    /\ S = [r \in Run |-> IF r = 2 THEN stable ELSE None]
    OBVIOUS
  <2>5. B \in [Run -> Publication \cup {None}] /\ S \in [Run -> Publication \cup {None}]
    BY <2>2, <2>4
  <2>6. [beta |-> B, stable |-> S] \in [Channel -> [Run -> Publication \cup {None}]]
    BY <2>5 DEF Channel
  <2>7. PICK P : P = IF stable = None THEN {} ELSE {[run |-> 2, validation |-> 1]}
    OBVIOUS
  <2>8. P \in SUBSET [run : Run, validation : 0 .. MaxValidation]
    <3>1. 1 \in 0 .. MaxValidation /\ 2 \in Run
      BY FirstTyped, Numbers
    <3>2. QED
      BY <2>7, <3>1
  <2>9. {} \in SUBSET [run : Run, channel : Channel, from : Run, to : Run]
    OBVIOUS
  <2>10. PICK sn : sn = [s \in Snapshot |-> IF s <= Len(Initial) THEN Initial[s] ELSE None]
    OBVIOUS
  <2>11. PICK ch : ch = [beta |-> FirstBeta, stable |-> stable]
    OBVIOUS
  <2>12. PICK hi : hi = [beta |-> B, stable |-> S]
    OBVIOUS
  <2>13. site = [snapshots |-> sn, channel |-> ch, history |-> hi, promotions |-> P, rollbacks |-> {}]
    BY <1>1, <2>4, <2>7, <2>10, <2>11, <2>12
  <2>14. /\ sn \in [Snapshot -> Content \cup {None}] /\ ch \in [Channel -> Publication \cup {None}]
         /\ hi \in [Channel -> [Run -> Publication \cup {None}]]
    BY <2>1, <2>3, <2>6, <2>10, <2>11, <2>12
  <2>15. QED
    BY <2>8, <2>9, <2>13, <2>14 DEF Site
<1>7. /\ validations \in Seq(Evidence) /\ Len(validations) = 1 /\ DOMAIN validations = {1}
      /\ validations[1].snapshot = 1 /\ validations[1].beta_run = 1
  <2>1. PICK e : e = [snapshot |-> 1, beta_run |-> 1, beta_started_at |-> 0]
    OBVIOUS
  <2>2. e \in Evidence /\ e.snapshot = 1 /\ e.beta_run = 1
    BY <2>1, FirstTyped, Numbers DEF Evidence
  <2>3. validations = <<e>>
    BY <1>1, <2>1
  <2>4. QED
    BY <2>2, <2>3
<1>8. Idle \in Request0
  BY Numbers DEF Idle, Request0
<1>9. TypeOK
  <2>1. tip \in Nat /\ author \in Run /\ Len(runs) <= MaxRun /\ lock \in {None}
    BY <1>1, <1>2, FirstTyped, Numbers
  <2>2. \A r \in 1 .. Len(runs) : r \in {1, 2} /\ lock # r
    BY <1>1, <1>2, Numbers
  <2>3. clock \in 0 .. MaxClock /\ faults \in 0 .. MaxFault /\ Len(validations) <= MaxValidation
    BY <1>1, <1>7, Numbers
  <2>4. orch \in [Request -> Request0]
    BY <1>1, <1>8
  <2>5. QED
    BY <1>2, <1>6, <1>7, <2>1, <2>2, <2>3, <2>4 DEF TypeOK
<1>10. HistoryInv
  <2>1. \A c \in Channel : c = "beta" \/ c = "stable"
    BY DEF Channel
  <2>2. /\ site.history["beta"][1] = FirstBeta
        /\ stable # None => site.history["stable"][2] = stable /\ stable = FirstStable
    BY <1>4, FirstTyped
  <2>3. \A c \in Channel, r \in Run : site.history[c][r] # None =>
          /\ site.history[c][r].run = r
          /\ site.history[c][r].snapshot = 1
    BY <1>4, <2>1, <2>2, FirstTyped
  <2>4. site.channel["beta"] # None
    BY <1>3, FirstTyped
  <2>5. \A c \in Channel : site.channel[c] # None =>
          site.history[c][site.channel[c].run] = site.channel[c]
    BY <1>3, <2>1, <2>2, FirstTyped
  <2>6. QED
    BY <1>5, <2>3, <2>4, <2>5 DEF HistoryInv
<1>11. StableInv
  <2>1. FromBeta(site.snapshots[1])
    BY <1>4, FirstTyped DEF FromBeta
  <2>2. \A r \in Run : site.history["stable"][r] # None => site.history["stable"][r].snapshot = 1
    BY <1>4, FirstTyped
  <2>3. QED
    BY <2>1, <2>2 DEF StableInv
<1>12. FiledInv
  <2> SUFFICES ASSUME NEW r \in Run, site.history["stable"][r] # None
               PROVE  /\ r <= Len(runs)
                      /\ \E p \in site.promotions : p.run = r
                      /\ site.history["stable"][r].signing <= runs[r].attempt
                      /\ ~ (lock = r)
    BY DEF FiledInv
  <2>1. r = 2 /\ stable # None /\ site.history["stable"][r] = FirstStable
    BY <1>4
  <2>2. \E p \in site.promotions : p.run = r
    <3>1. PICK p : p = [run |-> 2, validation |-> 1]
      OBVIOUS
    <3>2. p \in site.promotions /\ p.run = 2
      BY <1>3, <2>1, <3>1
    <3>3. QED
      BY <2>1, <3>2
  <2>3. QED
    BY <1>1, <1>2, <2>1, <2>2, FirstTyped, Numbers
<1>13. Tested(1) = FirstBeta
  BY <1>4, <1>7, FirstTyped DEF Tested
<1>14. EvidenceInv
  BY <1>7, <1>13, FirstTyped DEF EvidenceInv
<1>15. \A r \in 1 .. Len(runs) : RunBound(r, runs[r])
  <2>1. RunBound(1, runs[1])
    BY <1>2, FirstTyped, Numbers DEF RunBound
  <2>2. CASE stable = None
    <3>1. RunBound(2, runs[2])
      BY <1>2, <2>2, Numbers DEF RunBound
    <3>2. QED
      BY <1>2, <2>1, <3>1
  <2>3. CASE stable # None
    <3>1. stable = FirstStable /\ clock = Dwell
      BY <1>1, <2>3
    <3>2. PromoteBound(runs[2])
      BY <1>2, <1>7, <1>13, <2>3, <3>1, FirstTyped, Numbers DEF PromoteBound
    <3>3. RunBound(2, runs[2])
      BY <1>2, <2>3, <3>1, <3>2, FirstTyped DEF RunBound
    <3>4. QED
      BY <1>2, <2>1, <3>3
  <2>4. QED
    BY <2>2, <2>3
<1>16. \A q \in Request : RequestInv(q)
  BY <1>1, Numbers DEF RequestInv, Idle, Chosen
<1>17. AuthorInv
  BY <1>1, <1>2 DEF AuthorInv
<1>18. AttemptInv
  BY <1>1, <1>2 DEF AttemptInv
<1>19. QED
  BY <1>9, <1>10, <1>11, <1>12, <1>14, <1>15, <1>16, <1>17, <1>18 DEF ChannelInv

-----------------------------------------------------------------------------
(* Every step.                                                             *)

LEMMA StutterInv ==
  ASSUME Constants, ChannelInv, UNCHANGED vars
  PROVE  ChannelInv'
<1>1. UNCHANGED <<site, tip, author, runs, lock, validations, orch, clock, faults>>
  BY DEF vars
<1>2. TypeOK /\ AttemptInv /\ EvidenceInv /\ \A q \in Request : RequestInv(q)
  BY Parts
<1>3. TypeOK' /\ AttemptInv'
  BY <1>1, <1>2 DEF TypeOK, AttemptInv
<1>4. Steady
  BY <1>1, <1>2, <1>3 DEF Steady, Grows, RunsKept, RequestsKept, Chosen, TypeOK
<1>5. EvidenceInv'
  BY <1>1, <1>2, <1>4, EvidenceKept
<1>6. \A q \in Request : RequestInv(q)'
  BY <1>1, <1>2, <1>4, RequestKept
<1>7. \A x \in 1 .. Len(runs) :
        /\ runs'[x].attempt >= runs[x].attempt
        /\ lock' = x => lock = x \/ runs'[x].attempt > runs[x].attempt
  BY <1>1, <1>2, RunTyped, RecordTyped
<1>8. \A x \in 1 .. Len(runs') : RunBound(x, runs'[x])
  BY <1>1, Parts
<1>9. QED
  BY <1>1, <1>3, <1>4, <1>5, <1>6, <1>7, <1>8, CalmInv

LEMMA DispatchesInv ==
  ASSUME Constants, ChannelInv, Dispatch
  PROVE  ChannelInv'
<1>1. ASSUME NEW s \in Snapshot, NEW parent \in Stored(site), NEW n \in Release,
             DispatchSnapshot(s, parent, n.component, n.version)
      PROVE  ChannelInv'
  <2>1. n.component \in Component /\ n.version \in 1 .. MaxVersion
    BY DEF Constants
  <2>2. QED
    BY <1>1, <2>1, DispatchSnapshotInv
<1>2. ASSUME NEW c \in Channel, NEW t \in Run, DispatchRollback(c, t)
      PROVE  ChannelInv'
  BY <1>2, DispatchRollbackInv
<1>3. QED
  BY <1>1, <1>2, DispatchBetaInv, DispatchPromotionInv, DispatchSelectionInv DEF Dispatch

LEMMA WorkInv ==
  ASSUME Constants, ChannelInv, NEW r \in 1 .. Len(runs), Work(r)
  PROVE  ChannelInv'
BY PublishSnapshotInv, SignBetaInv, PublishBetaInv, VerifyPolicyInv, SignStableInv, PublishStableInv,
   ComposeInv, ValidateUpgradeInv, PublishSelectionInv, RollBackInv, FailInv, ReRunInv DEF Work

LEMMA OrchestrateInv ==
  ASSUME Constants, ChannelInv, NEW q \in Request, Orchestrate(q)
  PROVE  ChannelInv'
<1>1. ASSUME NEW n \in Release, Preflight(q, n.component, n.version)
      PROVE  ChannelInv'
  <2>1. n.component \in Component /\ n.version \in 1 .. MaxVersion
    BY DEF Constants
  <2>2. QED
    BY <1>1, <2>1, PreflightInv
<1>2. QED
  BY <1>1, DispatchCandidateInv, StartChildInv, DispatchRemoteBetaInv, ReportInv, GiveUpInv
     DEF Orchestrate

\* The invariant of the branch, its runs and the orchestrator.
THEOREM ChannelInvariant == Spec => []ChannelInv
<1>1. Init => ChannelInv
  BY ConstantsAssumption, InitInv
<1>2. ChannelInv /\ [Next]_vars => ChannelInv'
  BY ConstantsAssumption, StutterInv, DispatchesInv, WorkInv, OrchestrateInv, ValidateInv,
     TickInv DEF Next
<1>3. QED
  BY <1>1, <1>2, PTL DEF Spec

-----------------------------------------------------------------------------
(* What each commit does.                                                  *)

LEMMA SnapshotCommit ==
  ASSUME Constants, ChannelInv, NEW r \in 1 .. Len(runs), PublishSnapshot(r)
  PROVE  /\ lock = r /\ runs[r].kind = "snapshot"
         /\ site'.channel = site.channel /\ site'.history = site.history
         /\ site'.rollbacks = site.rollbacks
<1>1. PICK s, content : s = runs[r].snapshot /\ content = runs[r].content
  OBVIOUS
<1>2. PICK tree : tree = [site EXCEPT !.snapshots[s] = content]
  OBVIOUS
<1>3. tree.channel = site.channel /\ tree.history = site.history /\ tree.rollbacks = site.rollbacks
  BY <1>2, Parts DEF Site
<1>4. Push(r, tree) \/ Quiet(r)
  BY <1>1, <1>2 DEF PublishSnapshot
<1>5. site' \in {site, tree}
  BY <1>4 DEF Push, Quiet
<1>6. QED
  BY <1>3, <1>5 DEF PublishSnapshot, Job

LEMMA BetaCommit ==
  ASSUME Constants, ChannelInv, NEW r \in 1 .. Len(runs), PublishBeta(r)
  PROVE  LET p == runs[r].artifact IN
         /\ lock = r /\ runs[r].kind = "beta" /\ StorageUnchanged(r)
         /\ p \in Publication /\ p.snapshot = runs[r].snapshot
         /\ site'.snapshots = site.snapshots /\ site'.rollbacks = site.rollbacks
         /\ site'.channel["stable"] = site.channel["stable"]
         /\ site'.history["stable"] = site.history["stable"]
         /\ site' = site \/ site'.channel["beta"] = p
<1>1. PICK run, p : run = runs[r] /\ p = run.artifact
  OBVIOUS
<1>2. /\ run \in RunRecord /\ RunBound(r, run) /\ run.kind = "beta" /\ run.job = "publish"
      /\ lock = r /\ site \in Site /\ "beta" \in Channel /\ "stable" \in Channel
  BY <1>1, Parts, RunTyped DEF PublishBeta, Job, Channel
<1>3. p \in Publication /\ p.snapshot = run.snapshot
  BY <1>1, <1>2, RecordTyped DEF RunBound
<1>4. PICK tree : tree = Staged(site, "beta", p)
  OBVIOUS
<1>5. /\ tree.snapshots = site.snapshots
      /\ tree.channel = [site.channel EXCEPT !["beta"] = p]
      /\ tree.history = [site.history EXCEPT !["beta"][p.run] = p]
      /\ tree.rollbacks = site.rollbacks
  BY <1>2, <1>3, <1>4, StagedFields
<1>6. /\ tree.channel["stable"] = site.channel["stable"] /\ tree.channel["beta"] = p
      /\ tree.history["stable"] = site.history["stable"]
  <2>1. /\ site.history \in [Channel -> [Run -> Publication \cup {None}]]
        /\ site.channel \in [Channel -> Publication \cup {None}]
    BY <1>2 DEF Site
  <2>2. QED
    BY <1>2, <1>5, <2>1
<1>7. StorageUnchanged(r) /\ (Push(r, tree) \/ Quiet(r))
  BY <1>1, <1>4 DEF PublishBeta
<1>8. site' \in {site, tree}
  BY <1>7 DEF Push, Quiet
<1>9. QED
  BY <1>1, <1>2, <1>3, <1>5, <1>6, <1>7, <1>8

LEMMA StableCommit ==
  ASSUME Constants, ChannelInv, NEW r \in 1 .. Len(runs), PublishStable(r)
  PROVE  LET p == runs[r].artifact IN
         /\ lock = r /\ runs[r].kind = "promote" /\ ForCurrentBeta(r)
         /\ runs[r].job = "publish" /\ p \in Publication /\ p.run = r /\ r \in Run
         /\ site.history["stable"][r] = None
         /\ site'.channel["stable"] = p
         /\ site'.history["stable"] = [site.history["stable"] EXCEPT ![r] = p]
         /\ site'.rollbacks = site.rollbacks
<1>1. PICK run, p : run = runs[r] /\ p = run.artifact
  OBVIOUS
<1>2. /\ run \in RunRecord /\ RunBound(r, run) /\ run.kind = "promote" /\ run.job = "publish"
      /\ lock = r /\ site \in Site /\ "stable" \in Channel /\ r \in Run
  BY <1>1, Parts, RunTyped DEF PublishStable, Job, Channel
<1>3. p \in Publication /\ p.run = r
  BY <1>1, <1>2, RecordTyped DEF RunBound, PromoteBound
<1>4. PICK staged : staged = Staged(site, "stable", p)
  OBVIOUS
<1>5. /\ staged \in Site
      /\ staged.channel = [site.channel EXCEPT !["stable"] = p]
      /\ staged.history = [site.history EXCEPT !["stable"][p.run] = p]
      /\ staged.rollbacks = site.rollbacks
  BY <1>2, <1>3, <1>4, StagedFields
<1>6. PICK tree : tree = [staged EXCEPT !.promotions =
                            @ \cup {[run |-> r, validation |-> run.validation]}]
  OBVIOUS
<1>7. /\ tree.channel = staged.channel /\ tree.history = staged.history
      /\ tree.rollbacks = staged.rollbacks
  BY <1>5, <1>6 DEF Site
<1>8. Push(r, tree) /\ ForCurrentBeta(r) /\ Unfiled(r)
  BY <1>1, <1>4, <1>6 DEF PublishStable
<1>9. site' = tree
  BY <1>8 DEF Push
<1>10. site.history["stable"][r] = None
  BY <1>2, <1>8, Parts DEF Unfiled, FiledInv
<1>11. /\ site'.channel["stable"] = p
       /\ site'.history["stable"] = [site.history["stable"] EXCEPT ![r] = p]
  <2>1. /\ site.history \in [Channel -> [Run -> Publication \cup {None}]]
        /\ site.channel \in [Channel -> Publication \cup {None}]
    BY <1>2 DEF Site
  <2>2. QED
    BY <1>2, <1>3, <1>5, <1>7, <1>9, <2>1
<1>12. QED
  BY <1>1, <1>2, <1>3, <1>5, <1>7, <1>8, <1>9, <1>10, <1>11

LEMMA SelectionCommit ==
  ASSUME Constants, ChannelInv, NEW r \in 1 .. Len(runs), PublishSelection(r)
  PROVE  LET p == runs[r].artifact IN
         /\ site'.snapshots[p.snapshot] = runs[r].content
         /\ site'.channel["stable"] = p
         /\ site'.history["stable"] = [site.history["stable"] EXCEPT ![r] = p]
         /\ site'.rollbacks = site.rollbacks
<1>1. PICK run, p, s : run = runs[r] /\ p = run.artifact /\ s = p.snapshot
  OBVIOUS
<1>2. /\ run \in RunRecord /\ r \in Run /\ p \in Publication /\ p.run = r /\ s \in Snapshot
      /\ run.content \in Content /\ site \in Site /\ "stable" \in Channel
  BY <1>1, OnBase, PublicationTyped, Parts DEF Channel
<1>3. PICK stored : stored = [site EXCEPT !.snapshots[s] = run.content]
  OBVIOUS
<1>4. /\ stored \in Site /\ stored.channel = site.channel /\ stored.history = site.history
      /\ stored.rollbacks = site.rollbacks /\ stored.snapshots[s] = run.content
  BY <1>2, <1>3 DEF Site
<1>5. PICK staged : staged = Staged(stored, "stable", p)
  OBVIOUS
<1>6. /\ staged \in Site /\ staged.snapshots = stored.snapshots
      /\ staged.channel = [site.channel EXCEPT !["stable"] = p]
      /\ staged.history = [site.history EXCEPT !["stable"][p.run] = p]
      /\ staged.rollbacks = site.rollbacks
  BY <1>2, <1>4, <1>5, StagedFields
<1>7. PICK tree : tree = [staged EXCEPT !.promotions = @ \cup {[run |-> r, validation |-> 0]}]
  OBVIOUS
<1>8. /\ tree.channel = staged.channel /\ tree.history = staged.history
      /\ tree.rollbacks = staged.rollbacks /\ tree.snapshots = staged.snapshots
  BY <1>6, <1>7 DEF Site
<1>9. Push(r, tree)
  BY <1>1, <1>3, <1>5, <1>7 DEF PublishSelection
<1>10. site' = tree
  BY <1>9 DEF Push
<1>11. /\ site'.channel["stable"] = p
       /\ site'.history["stable"] = [site.history["stable"] EXCEPT ![r] = p]
  <2>1. /\ site.history \in [Channel -> [Run -> Publication \cup {None}]]
        /\ site.channel \in [Channel -> Publication \cup {None}]
    BY <1>2 DEF Site
  <2>2. QED
    BY <1>2, <1>6, <1>8, <1>10, <2>1
<1>12. QED
  BY <1>1, <1>4, <1>6, <1>8, <1>10, <1>11

\* Only these jobs change the branch.
LEMMA Commits ==
  ASSUME Constants, ChannelInv, Next, site' # site
  PROVE  \E r \in 1 .. Len(runs) :
           \/ PublishSnapshot(r) /\ lock = r /\ runs[r].kind = "snapshot"
           \/ PublishBeta(r) /\ lock = r /\ runs[r].kind = "beta"
           \/ PublishStable(r) /\ lock = r /\ runs[r].kind = "promote"
           \/ PublishSelection(r) /\ lock = r /\ runs[r].kind = "select"
           \/ RollBack(r) /\ lock = r /\ runs[r].kind = "rollback"
<1>1. ~ Dispatch /\ ~ Validate /\ ~ Tick
  BY DEF Dispatch, DispatchSnapshot, DispatchBeta, DispatchPromotion, DispatchSelection,
         DispatchRollback, Begin, Validate, Tick
<1>2. \A q \in Request : ~ Orchestrate(q)
  BY DEF Orchestrate, Preflight, DispatchCandidate, StartChild, DispatchRemoteBeta, Report, GiveUp,
         Begin
<1>3. PICK r \in 1 .. Len(runs) : Work(r)
  BY <1>1, <1>2 DEF Next
<1>4. ~ Quiet(r) /\ \A run : ~ HandOn(r, run)
  BY DEF Quiet, HandOn
<1>5. /\ ~ SignBeta(r) /\ ~ VerifyPolicy(r) /\ ~ SignStable(r) /\ ~ ValidateUpgrade(r)
      /\ ~ Compose(r) /\ ~ Fail(r) /\ ~ ReRun(r)
  BY <1>4 DEF SignBeta, VerifyPolicy, SignStable, ValidateUpgrade, Compose, Fail, ReRun
<1>6. \/ PublishSnapshot(r) \/ PublishBeta(r) \/ PublishStable(r) \/ PublishSelection(r) \/ RollBack(r)
  BY <1>3, <1>5 DEF Work
<1>7. QED
  BY <1>6 DEF PublishSnapshot, PublishBeta, PublishStable, PublishSelection, RollBack, Job

-----------------------------------------------------------------------------
(* The properties.                                                         *)

\* Every reachable state is well typed.
THEOREM RemoteChannelsTypeCorrect == Spec => []TypeOK
<1>1. ChannelInv => TypeOK
  BY DEF ChannelInv
<1>2. QED
  BY <1>1, ChannelInvariant, PTL

\* Whatever stable serves was served by beta at some time.
THEOREM StableServesBeta == Spec => []StableFromBeta
<1>1. ChannelInv => StableFromBeta
  <2> SUFFICES ASSUME ChannelInv PROVE StableFromBeta
    OBVIOUS
  <2>1. FromBeta(Served(site, "stable"))
    BY ConstantsAssumption, ServedFromBeta DEF Channel
  <2>2. QED
    BY <2>1 DEF FromBeta, StableFromBeta
<1>2. QED
  BY <1>1, ChannelInvariant, PTL

LEMMA PromotionStep ==
  ASSUME Constants, ChannelInv, [Next]_vars, NEW r \in 1 .. Len(runs), Writes(r, "promote")
  PROVE  LET stable == site'.channel["stable"]
             beta == site.channel["beta"] IN
         /\ stable.snapshot = beta.snapshot /\ stable.store = beta.store
         /\ stable.at - beta.at >= Dwell
<1>1. site' # site /\ lock = r /\ runs[r].kind = "promote"
  BY DEF Writes
<1>2. Next
  BY <1>1 DEF vars
<1>3. PublishStable(r)
  BY <1>1, <1>2, Commits
<1>4. /\ ForCurrentBeta(r) /\ runs[r].job = "publish" /\ site'.channel["stable"] = runs[r].artifact
  BY <1>3, StableCommit
<1>5. PromoteBound(runs[r])
  BY <1>1, Parts DEF RunBound
<1>6. QED
  BY <1>1, <1>4, <1>5, CurrentIsTested DEF PromoteBound

\* A promotion moves stable to what beta serves at that moment and has dwelled.
THEOREM PromotionsAreCurrent == Spec => PromotesCurrentBeta
<1>1. ASSUME ChannelInv, [Next]_vars
      PROVE  [\A r \in 1 .. Len(runs) : Writes(r, "promote") =>
                LET stable == site'.channel["stable"]
                    beta == site.channel["beta"] IN
                /\ stable.snapshot = beta.snapshot /\ stable.store = beta.store
                /\ stable.at - beta.at >= Dwell]_vars
  BY ConstantsAssumption, <1>1, PromotionStep
<1>2. QED
  BY <1>1, ChannelInvariant, PTL DEF Spec, PromotesCurrentBeta

LEMMA SelectionStep ==
  ASSUME Constants, ChannelInv, [Next]_vars, NEW r \in 1 .. Len(runs), Writes(r, "select")
  PROVE  /\ Served(site', "stable") =
              [Served(site, "stable") EXCEPT ![runs[r].group] = Served(site, "beta")[runs[r].group]]
         /\ Served(site', "stable")[runs[r].group] > Served(site, "stable")[runs[r].group]
<1>1. site' # site /\ lock = r /\ runs[r].kind = "select"
  BY DEF Writes
<1>2. Next
  BY <1>1 DEF vars
<1>3. PublishSelection(r)
  BY <1>1, <1>2, Commits
<1>4. PICK g, content, p : g = runs[r].group /\ content = runs[r].content /\ p = runs[r].artifact
  OBVIOUS
<1>5. /\ p \in Publication /\ content \in Content /\ g \in Component
      /\ content = Composed(g) /\ content # Served(site, "stable") /\ Served(site, "beta")[g] > 0
      /\ site.channel["stable"] # None =>
           \A c \in Component : content[c] >= Served(site, "stable")[c]
  BY <1>3, <1>4, OnBase
<1>6. site'.snapshots[p.snapshot] = content /\ site'.channel["stable"] = p
  BY <1>3, <1>4, SelectionCommit
<1>7. Served(site', "stable") = content
  BY <1>5, <1>6, PublicationTyped DEF Served
<1>8. Served(site, "stable") \in Content
  BY Parts, ServedTyped DEF Channel
<1>9. /\ content = [Served(site, "stable") EXCEPT ![g] = Served(site, "beta")[g]]
      /\ content[g] = Served(site, "beta")[g]
  BY <1>5, <1>8 DEF Composed, Content
<1>10. content[g] # Served(site, "stable")[g]
  BY <1>5, <1>8, <1>9 DEF Content
<1>11. content[g] \in Nat /\ Served(site, "stable")[g] \in Nat
  BY <1>5, <1>8, Numbers DEF Content
<1>12. content[g] > Served(site, "stable")[g]
  <2>1. CASE site.channel["stable"] = None
    BY <1>5, <1>9, <2>1 DEF Served
  <2>2. CASE site.channel["stable"] # None
    BY <1>5, <1>10, <1>11, <2>2
  <2>3. QED
    BY <2>1, <2>2
<1>13. QED
  BY <1>4, <1>7, <1>9, <1>12

\* The promotion of one group moves that group of stable to a newer release of beta.
THEOREM SelectionsMoveOneGroup == Spec => SelectionMovesOneGroup
<1>1. ASSUME ChannelInv, [Next]_vars
      PROVE  [\A r \in 1 .. Len(runs) : Writes(r, "select") =>
                /\ Served(site', "stable") = [Served(site, "stable") EXCEPT
                                                ![runs[r].group] = Served(site, "beta")[runs[r].group]]
                /\ Served(site', "stable")[runs[r].group] > Served(site, "stable")[runs[r].group]]_vars
  BY ConstantsAssumption, <1>1, SelectionStep
<1>2. QED
  BY <1>1, ChannelInvariant, PTL DEF Spec, SelectionMovesOneGroup

LEMMA OrchestratedStep ==
  ASSUME Constants, ChannelInv, [Next]_vars, NEW r \in 1 .. Len(runs), Writes(r, "beta"),
         runs[r].request # None
  PROVE  LET o == orch[runs[r].request] IN
         /\ Served(site', "beta") = [Served(site, "beta") EXCEPT ![o.component] = o.version]
         /\ o.version > Served(site, "beta")[o.component]
<1>1. site' # site /\ lock = r /\ runs[r].kind = "beta"
  BY DEF Writes
<1>2. Next
  BY <1>1 DEF vars
<1>3. PublishBeta(r)
  BY <1>1, <1>2, Commits
<1>4. PICK q, p : q = runs[r].request /\ p = runs[r].artifact
  OBVIOUS
<1>5. /\ StorageUnchanged(r) /\ p \in Publication /\ p.snapshot = runs[r].snapshot
      /\ site'.snapshots = site.snapshots /\ site'.channel["beta"] = p
  BY <1>1, <1>3, <1>4, BetaCommit
<1>6. /\ q \in Request /\ Chosen(q) /\ runs[r].snapshot = orch[q].snapshot
      /\ orch[q].head # 0 /\ runs[r].base = orch[q].head
  BY <1>1, <1>4, Parts DEF RunBound, RequestBound
<1>7. orch[q].head \in Nat
  BY <1>6, RequestTyped, Parts DEF TypeOK
<1>8. tip = orch[q].head
  BY <1>5, <1>6, <1>7, Numbers DEF StorageUnchanged
<1>9. /\ site.snapshots[orch[q].snapshot] = Merged(q)
      /\ site.channel["beta"].snapshot = orch[q].parent
      /\ orch[q].version > site.snapshots[orch[q].parent][orch[q].component]
  BY <1>6, <1>8, Parts DEF RequestInv
<1>10. Served(site, "beta") = site.snapshots[orch[q].parent]
  BY <1>9, Parts DEF HistoryInv, Served
<1>11. Served(site', "beta") = Merged(q)
  BY <1>5, <1>6, <1>9, PublicationTyped DEF Served
<1>12. QED
  BY <1>4, <1>9, <1>10, <1>11 DEF Merged, CandidateOf

\* An orchestrated publication adds its component to the beta just before.
THEOREM OrchestratedAddsToBeta == Spec => OrchestratedOnBeta
<1>1. ASSUME ChannelInv, [Next]_vars
      PROVE  [\A r \in 1 .. Len(runs) : (Writes(r, "beta") /\ runs[r].request # None) =>
                LET o == orch[runs[r].request] IN
                /\ Served(site', "beta") = [Served(site, "beta") EXCEPT ![o.component] = o.version]
                /\ o.version > Served(site, "beta")[o.component]]_vars
  BY ConstantsAssumption, <1>1, OrchestratedStep
<1>2. QED
  BY <1>1, ChannelInvariant, PTL DEF Spec, OrchestratedOnBeta

-----------------------------------------------------------------------------
(* Stable is a channel with a history.                                     *)

\* The record of stable's returns.
Returns(rollbacks) == {[run |-> e.run, from |-> e.from, to |-> e.to] :
                         e \in {d \in rollbacks : d.channel = "stable"}}

LEMMA ReturnsKept ==
  ASSUME NEW old, NEW all, NEW e, all = old \cup {e}, e.channel # "stable"
  PROVE  Returns(all) = Returns(old)
<1>1. {d \in all : d.channel = "stable"} = {d \in old : d.channel = "stable"}
  OBVIOUS
<1>2. QED
  BY <1>1 DEF Returns

LEMMA ReturnsGrow ==
  ASSUME NEW old, NEW all, NEW e, all = old \cup {e}, e.channel = "stable"
  PROVE  Returns(all) = Returns(old) \cup {[run |-> e.run, from |-> e.from, to |-> e.to]}
<1>1. {d \in all : d.channel = "stable"} = {d \in old : d.channel = "stable"} \cup {e}
  OBVIOUS
<1>2. QED
  BY <1>1 DEF Returns

LEMMA StableInit ==
  ASSUME Constants, Init
  PROVE  StableChannel!Init
<1>1. PICK stable \in {None, FirstStable} :
        /\ site.channel["stable"] = stable
        /\ site.history["stable"] = [r \in Run |-> IF r = 2 THEN stable ELSE None]
        /\ site.rollbacks = {}
  <2>1. PICK stable \in {None, FirstStable} :
          site = [snapshots |-> [s \in Snapshot |-> IF s <= Len(Initial) THEN Initial[s] ELSE None],
                  channel |-> [beta |-> FirstBeta, stable |-> stable],
                  history |-> [beta |-> [r \in Run |-> IF r = 1 THEN FirstBeta ELSE None],
                               stable |-> [r \in Run |-> IF r = 2 THEN stable ELSE None]],
                  promotions |-> IF stable = None THEN {} ELSE {[run |-> 2, validation |-> 1]},
                  rollbacks |-> {}]
    BY DEF Init
  <2>2. QED
    BY <2>1
<1>2. stable \in Publication \cup {None}
  BY FirstTyped
<1>3. [r \in Run |-> IF r = 2 THEN stable ELSE None]
        = [r \in Run |-> IF stable = None THEN None ELSE IF r = stable.run THEN stable ELSE None]
  BY FirstTyped
<1>4. {[run |-> e.run, from |-> e.from, to |-> e.to] : e \in {d \in site.rollbacks : d.channel = "stable"}} = {}
  BY <1>1
<1>5. QED
  BY <1>1, <1>2, <1>3, <1>4 DEF StableChannel!Init

LEMMA StablePublished ==
  ASSUME Constants, NEW r \in Run, NEW p \in Publication, p.run = r,
         site.history["stable"][r] = None, site'.channel["stable"] = p,
         site'.history["stable"] = [site.history["stable"] EXCEPT ![r] = p],
         site'.rollbacks = site.rollbacks
  PROVE  StableChannel!Next
<1>1. StableChannel!Publish(r)
  BY DEF StableChannel!Publish
<1>2. QED
  BY <1>1 DEF StableChannel!Next

LEMMA StableStep ==
  ASSUME Constants, ChannelInv, [Next]_vars
  PROVE  [StableChannel!Next]_StableChannel!vars
<1>1. CASE site' = site
  BY <1>1 DEF StableChannel!vars
<1>2. CASE site' # site
  <2>1. Next
    BY <1>2 DEF vars
  <2>2. PICK r \in 1 .. Len(runs) : \/ PublishSnapshot(r) \/ PublishBeta(r) \/ PublishStable(r)
                                    \/ PublishSelection(r) \/ RollBack(r)
    BY <1>2, <2>1, Commits
  <2>3. CASE PublishSnapshot(r)
    BY <2>3, SnapshotCommit DEF StableChannel!vars
  <2>4. CASE PublishBeta(r)
    BY <2>4, BetaCommit DEF StableChannel!vars
  <2>5. CASE PublishStable(r)
    BY <2>5, StableCommit, StablePublished
  <2>6. CASE PublishSelection(r)
    BY <2>6, OnBase, SelectionCommit, StablePublished
  <2>7. CASE RollBack(r)
    <3>1. PICK c, target : c = runs[r].channel /\ target = site.history[c][runs[r].target]
      OBVIOUS
    <3>2. /\ r \in Run /\ c \in Channel /\ runs[r].target \in Run
          /\ target \in Publication /\ target.run = runs[r].target
          /\ site.channel[c] \in Publication /\ site.channel[c].run # target.run
          /\ Unrecorded(r, c) /\ site \in Site
      BY <2>7, <3>1, RollBackTree, Parts
    <3>3. PICK tree \in Site :
            /\ Push(r, tree)
            /\ tree.channel = [site.channel EXCEPT ![c] = target]
            /\ tree.history = [site.history EXCEPT ![c][target.run] = target]
            /\ tree.rollbacks = site.rollbacks \cup
                 {[run |-> r, channel |-> c, from |-> site.channel[c].run, to |-> target.run]}
      BY <2>7, <3>1, RollBackTree
    <3>4. site' = tree
      BY <3>3 DEF Push
    <3>5. /\ site.history \in [Channel -> [Run -> Publication \cup {None}]]
          /\ site.channel \in [Channel -> Publication \cup {None}]
          /\ "stable" \in Channel
      BY <3>2 DEF Site, Channel
    <3>6. site'.history = site.history
      <4>1. site.history[c] \in [Run -> Publication \cup {None}]
        BY <3>2, <3>5
      <4>2. [site.history[c] EXCEPT ![target.run] = target] = site.history[c]
        BY <3>1, <3>2, <4>1
      <4>3. [site.history EXCEPT ![c][target.run] = target]
              = [site.history EXCEPT ![c] = [site.history[c] EXCEPT ![target.run] = target]]
        BY <3>2, <3>5
      <4>4. site'.history = [site.history EXCEPT ![c] = site.history[c]]
        BY <3>3, <3>4, <4>2, <4>3
      <4>5. QED
        BY <3>2, <3>5, <4>4
    <3>7. PICK from, to : from = site.channel[c].run /\ to = target.run
      OBVIOUS
    <3>8. from \in Run /\ to \in Run
      BY <3>2, <3>7, PublicationTyped
    <3>9. PICK e, old, all :
            /\ e = [run |-> r, channel |-> c, from |-> from, to |-> to]
            /\ old = site.rollbacks /\ all = site'.rollbacks
      OBVIOUS
    <3>10. all = old \cup {e} /\ e.run = r /\ e.channel = c /\ e.from = from /\ e.to = to
      <4>1. all = old \cup {[run |-> r, channel |-> c, from |-> from, to |-> to]}
        BY <3>3, <3>4, <3>7, <3>9
      <4>2. e.run = r /\ e.channel = c /\ e.from = from /\ e.to = to
        BY <3>9
      <4>3. QED
        BY <3>9, <4>1, <4>2
    <3>11. CASE c = "stable"
      <4>1. site'.channel["stable"] = target
        BY <3>3, <3>4, <3>5, <3>11
      <4>2. site.history["stable"][from] = site.channel["stable"]
        BY <3>2, <3>5, <3>7, <3>11, Parts, PublicationTyped DEF HistoryInv
      <4>3. site.history["stable"][to] = target /\ target # None /\ from # to
        BY <3>1, <3>2, <3>7, <3>11, PublicationTyped
      <4>4. \A d \in Returns(site.rollbacks) : d.run # r
        <5>1. \A d \in site.rollbacks : d.channel = "stable" => d.run # r
          BY <3>2, <3>11 DEF Unrecorded
        <5>2. ASSUME NEW f \in Returns(site.rollbacks) PROVE f.run # r
          <6>1. PICK d \in site.rollbacks :
                  d.channel = "stable" /\ f = [run |-> d.run, from |-> d.from, to |-> d.to]
            BY DEF Returns
          <6>2. f.run = d.run
            BY <6>1
          <6>3. QED
            BY <5>1, <6>1, <6>2
        <5>3. QED
          BY <5>2
      <4>5. Returns(all) = Returns(old) \cup {[run |-> e.run, from |-> e.from, to |-> e.to]}
        BY <3>11, <3>10, ReturnsGrow
      <4>6. Returns(site'.rollbacks) = Returns(site.rollbacks) \cup {[run |-> r, from |-> from, to |-> to]}
        BY <3>9, <3>10, <4>5
      <4>7. StableChannel!Return(r, from, to)
        BY <3>6, <4>1, <4>2, <4>3, <4>4, <4>6 DEF StableChannel!Return, Returns
      <4>8. QED
        BY <3>2, <3>8, <4>7 DEF StableChannel!Next
    <3>12. CASE c # "stable"
      <4>1. site'.channel["stable"] = site.channel["stable"]
        BY <3>3, <3>4, <3>5, <3>12
      <4>2. Returns(all) = Returns(old)
        BY <3>12, <3>10, ReturnsKept
      <4>3. QED
        BY <3>6, <3>9, <4>1, <4>2 DEF StableChannel!vars, Returns
    <3>13. QED
      BY <3>11, <3>12
  <2>8. QED
    BY <2>2, <2>3, <2>4, <2>5, <2>6, <2>7
<1>3. QED
  BY <1>1, <1>2

\* Stable implements the channel with a history that only returns on the record.
THEOREM StableIsAChannel == Spec => ImplementsStableChannel
<1>1. Init => StableChannel!Init
  BY ConstantsAssumption, StableInit
<1>2. ChannelInv /\ [Next]_vars => [StableChannel!Next]_StableChannel!vars
  BY ConstantsAssumption, StableStep
<1>3. QED
  BY <1>1, <1>2, ChannelInvariant, PTL DEF Spec, ImplementsStableChannel, StableChannel!Spec
=============================================================================
