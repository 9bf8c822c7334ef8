---------------------- MODULE PublicationBackend_proofs ----------------------
(***************************************************************************)
(* Proofs about the publication state machine, for every number of         *)
(* attempts, digests and tokens and every duration: it keeps its types,    *)
(* never reuses or rewrites a generation, marks only the newest verified   *)
(* one, never forks the authority over a first publication nor loses the   *)
(* way out of it, and implements the abstract head of StableHead.          *)
(***************************************************************************)
EXTENDS PublicationBackend, TLAPS

\* What most operations do: they move one existing attempt along, touching
\* neither its identity nor the head and the views.
Quiet(a, r) ==
  /\ a \in Attempt
  /\ Exists(a)
  /\ r \in AttemptRecord
  /\ attempts' = [attempts EXCEPT ![a] = r]
  /\ r.operation = attempts[a].operation
  /\ r.previous = attempts[a].previous
  /\ r.result = attempts[a].result
  /\ r.base = attempts[a].base
  /\ r.state # "ABSENT"
  /\ ("PUBLISHED" \in r.proofs) <=> Reached(a, "PUBLISHED")
  /\ ("POST_VERIFIED" \in r.proofs) <=> Reached(a, "POST_VERIFIED")
  /\ r.state \in Stages => r.state \in r.proofs
  /\ "AUTHORIZED" \in r.proofs => r.authorization \in Authorization
  /\ UNCHANGED <<head, views>>

\* A quiet step keeps the invariant.
LEMMA QuietStep ==
  ASSUME BackendInv, NEW a, NEW r, Quiet(a, r),
         consumed' \subseteq ({"jwt-jti"} \X Token) \cup ({"first-resume-parent"} \X Attempt),
         remotes' \subseteq RemoteVerification,
         clock' \in Nat
  PROVE  BackendInv'
<1> USE DEF BackendInv
<1>1. attempts' \in [Attempt -> AttemptRecord] /\ attempts'[a] = r
      /\ \A b \in Attempt : b # a => attempts'[b] = attempts[b]
  BY DEF Quiet, TypeOK
<1>2. TypeOK'
  BY <1>1 DEF Quiet, TypeOK
<1>3. \A b \in Attempt : /\ attempts'[b].operation = attempts[b].operation
                         /\ attempts'[b].previous = attempts[b].previous
                         /\ attempts'[b].result = attempts[b].result
                         /\ attempts'[b].base = attempts[b].base
                         /\ Exists(b)' <=> Exists(b)
                         /\ Reached(b, "PUBLISHED")' <=> Reached(b, "PUBLISHED")
                         /\ Reached(b, "POST_VERIFIED")' <=> Reached(b, "POST_VERIFIED")
  BY <1>1 DEF Quiet, Exists, Reached
<1>4. RecordComplete'
  <2> SUFFICES ASSUME NEW b \in Attempt
               PROVE  LET s == attempts'[b]
                      IN /\ s.state = "ABSENT" => s.proofs = {}
                         /\ s.state # "ABSENT" => s.result \in Digest
                         /\ s.state \in Stages => s.state \in s.proofs
                         /\ "AUTHORIZED" \in s.proofs => s.authorization \in Authorization
                         /\ "POST_VERIFIED" \in s.proofs => "PUBLISHED" \in s.proofs
    BY DEF RecordComplete
  <2>1. CASE b = a
    BY <2>1, <1>1 DEF Quiet, RecordComplete, Exists, Reached
  <2>2. CASE b # a
    BY <2>2, <1>1 DEF RecordComplete
  <2> QED BY <2>1, <2>2
<1>5. BaseBehindHead'
  BY <1>3 DEF Quiet, BaseBehindHead
<1>6. BaseIsCurrent'
  BY <1>3 DEF Quiet, BaseIsCurrent
<1>7. GenerationOwned'
  <2>1. \A g : Advertised(g)' = Advertised(g)
    BY <1>3 DEF Advertised
  <2> QED BY <2>1, <1>3 DEF Quiet, GenerationOwned, Advertised
<1>8. ViewsRest'
  <2>1. \A d \in Digest : views[d] \in Attempt \cup {None}
    BY DEF TypeOK
  <2> QED BY <2>1, <1>3, NoneAssumption DEF Quiet, ViewsRest
<1> QED BY <1>2, <1>4, <1>5, <1>6, <1>7, <1>8

\* Moving a record to a stage keeps its other fields.
LEMMA MoveRecord ==
  ASSUME NEW r \in AttemptRecord, NEW stage \in Stages
  PROVE  LET m == [r EXCEPT !.state = stage, !.proofs = @ \cup {stage}]
         IN /\ m \in AttemptRecord
            /\ m.state = stage /\ m.proofs = r.proofs \cup {stage}
            /\ m.operation = r.operation /\ m.previous = r.previous
            /\ m.result = r.result /\ m.base = r.base
            /\ m.authorization = r.authorization
BY ZenonT(40) DEF AttemptRecord

\* Recording a failure keeps everything but the state.
LEMMA FailRecord ==
  ASSUME NEW r \in AttemptRecord, NEW stage \in Stages \cup {"PROPOSED"}
  PROVE  LET m == [r EXCEPT !.failure = stage, !.state = "FAILED"]
         IN /\ m \in AttemptRecord
            /\ m.state = "FAILED" /\ m.proofs = r.proofs
            /\ m.operation = r.operation /\ m.previous = r.previous
            /\ m.result = r.result /\ m.base = r.base
            /\ m.authorization = r.authorization
BY ZenonT(40) DEF AttemptRecord

\* What a publication does to the head.
LEMMA AdvertiseHead ==
  ASSUME NEW h \in [digest : Digest \cup {None}, generation : Nat,
                    last_verified : Digest \cup {None}],
         NEW d \in Digest, NEW g \in Nat
  PROVE  LET n == [h EXCEPT !.digest = d, !.generation = g]
         IN /\ n \in [digest : Digest \cup {None}, generation : Nat,
                      last_verified : Digest \cup {None}]
            /\ n.digest = d /\ n.generation = g /\ n.last_verified = h.last_verified
OBVIOUS

\* No stage is entered from an attempt that does not exist.
LEMMA PredecessorExists == \A stage \in Stages : Predecessor[stage] \in Stages \cup {"PROPOSED"}
BY DEF Predecessor, Stages

\* A transition that neither publishes nor post-verifies is quiet.
LEMMA TransitionQuiet ==
  ASSUME BackendInv,
         NEW a \in Attempt,
         NEW stage \in Stages \ {"PUBLISHED", "POST_VERIFIED"},
         NEW r \in AttemptRecord,
         Transition(a, stage, r),
         r.operation = attempts[a].operation,
         r.previous = attempts[a].previous,
         r.result = attempts[a].result,
         r.base = attempts[a].base,
         r.proofs = attempts[a].proofs,
         r.authorization = attempts[a].authorization \/ r.authorization \in Authorization,
         stage = "AUTHORIZED" => r.authorization \in Authorization,
         UNCHANGED <<head, views>>
  PROVE  Quiet(a, [r EXCEPT !.state = stage, !.proofs = @ \cup {stage}])
<1> DEFINE s == [r EXCEPT !.state = stage, !.proofs = @ \cup {stage}]
<1>1. s \in AttemptRecord
  BY MoveRecord
<1>2. /\ s.state = stage
      /\ s.proofs = r.proofs \cup {stage}
      /\ s.operation = r.operation
      /\ s.previous = r.previous
      /\ s.result = r.result
      /\ s.base = r.base
      /\ s.authorization = r.authorization
  BY MoveRecord
<1>3. stage # "ABSENT" /\ attempts[a].state \in Stages \cup {"PROPOSED"}
  BY PredecessorExists DEF Transition, Stages
<1>4. Exists(a)
  BY <1>3 DEF Exists, Stages
<1>5. "AUTHORIZED" \in s.proofs => s.authorization \in Authorization
  BY <1>2 DEF BackendInv, RecordComplete
<1> QED
  BY <1>1, <1>2, <1>3, <1>4, <1>5 DEF Quiet, Transition, Reached

\* Each quiet operation of Backend keeps the invariant.
LEMMA QuietActions ==
  ASSUME BackendInv, NEW a \in Attempt,
         \/ \E evidence \in Evidences : Verified(a, evidence)
         \/ Composed(a)
         \/ \E b \in Attempt : Tested(a, attempts[b].evidence)
         \/ AwaitingApproval(a)
         \/ \E approval \in Approvals(a, attempts[a].evidence) : Authorized(a, approval)
         \/ \E publication \in Envelopes : Signed(a, publication) \/ Staged(a, publication)
         \/ \E remote \in remotes : RemotelyVerified(a, remote)
         \/ Fail(a)
  PROVE  BackendInv'
<1>1. /\ attempts[a] \in AttemptRecord
      /\ clock \in Nat
      /\ consumed \subseteq ({"jwt-jti"} \X Token) \cup ({"first-resume-parent"} \X Attempt)
      /\ remotes \subseteq RemoteVerification
  BY DEF BackendInv, TypeOK
<1>2. ASSUME NEW evidence \in Evidences, Verified(a, evidence) PROVE BackendInv'
  <2>1. evidence \in Nat
    BY <1>1, <1>2, TimeAssumption DEF Evidences
  <2> DEFINE r == [attempts[a] EXCEPT !.evidence = evidence]
  <2>2. /\ r \in AttemptRecord
        /\ r.operation = attempts[a].operation /\ r.previous = attempts[a].previous
        /\ r.result = attempts[a].result /\ r.base = attempts[a].base
        /\ r.proofs = attempts[a].proofs /\ r.authorization = attempts[a].authorization
    BY <1>1, <2>1 DEF AttemptRecord
  <2>3. \E s : Quiet(a, s)
    BY <1>2, <2>2, TransitionQuiet DEF Verified, Stages
  <2> QED BY <1>1, <1>2, <2>3, QuietStep DEF Verified
<1>3. ASSUME Composed(a) PROVE BackendInv'
  <2>1. \E s : Quiet(a, s)
    BY <1>1, <1>3, TransitionQuiet DEF Composed, Stages
  <2> QED BY <1>1, <1>3, <2>1, QuietStep DEF Composed
<1>4. ASSUME NEW b \in Attempt, Tested(a, attempts[b].evidence) PROVE BackendInv'
  <2>1. \E s : Quiet(a, s)
    BY <1>1, <1>4, TransitionQuiet DEF Tested, Stages
  <2> QED BY <1>1, <1>4, <2>1, QuietStep DEF Tested
<1>5. ASSUME AwaitingApproval(a) PROVE BackendInv'
  <2>1. \E s : Quiet(a, s)
    BY <1>1, <1>5, TransitionQuiet DEF AwaitingApproval, Stages
  <2> QED BY <1>1, <1>5, <2>1, QuietStep DEF AwaitingApproval
<1>6. ASSUME NEW approval \in Approvals(a, attempts[a].evidence), Authorized(a, approval)
      PROVE BackendInv'
  <2>1. approval \in Authorization
    BY <1>1, <1>6, TimeAssumption DEF Approvals, Authorization, AttemptRecord
  <2> DEFINE r == [attempts[a] EXCEPT !.authorization = approval]
  <2>2. /\ r \in AttemptRecord
        /\ r.operation = attempts[a].operation /\ r.previous = attempts[a].previous
        /\ r.result = attempts[a].result /\ r.base = attempts[a].base
        /\ r.proofs = attempts[a].proofs /\ r.authorization = approval
    BY <1>1, <2>1 DEF AttemptRecord
  <2>3. \E s : Quiet(a, s)
    BY <1>6, <2>1, <2>2, TransitionQuiet DEF Authorized, Stages
  <2>4. consumed' \subseteq ({"jwt-jti"} \X Token) \cup ({"first-resume-parent"} \X Attempt)
    BY <1>1, <1>6, <2>1 DEF Authorized, Authorization
  <2> QED BY <1>1, <1>6, <2>3, <2>4, QuietStep DEF Authorized
<1>7. ASSUME NEW publication \in Envelopes, Signed(a, publication) PROVE BackendInv'
  <2> DEFINE r == [attempts[a] EXCEPT !.publication = publication]
  <2>1. publication \in Authorization \cup {None}
    BY <1>1, <1>7 DEF Signed, AttemptRecord
  <2>2. /\ r \in AttemptRecord
        /\ r.operation = attempts[a].operation /\ r.previous = attempts[a].previous
        /\ r.result = attempts[a].result /\ r.base = attempts[a].base
        /\ r.proofs = attempts[a].proofs /\ r.authorization = attempts[a].authorization
    BY <1>1, <2>1 DEF AttemptRecord
  <2>3. \E s : Quiet(a, s)
    BY <1>7, <2>2, TransitionQuiet DEF Signed, Stages
  <2> QED BY <1>1, <1>7, <2>3, QuietStep DEF Signed
<1>8. ASSUME NEW publication \in Envelopes, Staged(a, publication) PROVE BackendInv'
  <2>1. \E s : Quiet(a, s)
    BY <1>1, <1>8, TransitionQuiet DEF Staged, Stages
  <2> QED BY <1>1, <1>8, <2>1, QuietStep DEF Staged
<1>9. ASSUME NEW remote \in remotes, RemotelyVerified(a, remote) PROVE BackendInv'
  <2> DEFINE r == [attempts[a] EXCEPT !.pre = remote]
  <2>1. remote \in RemoteVerification
    BY <1>1
  <2>2. /\ r \in AttemptRecord
        /\ r.operation = attempts[a].operation /\ r.previous = attempts[a].previous
        /\ r.result = attempts[a].result /\ r.base = attempts[a].base
        /\ r.proofs = attempts[a].proofs /\ r.authorization = attempts[a].authorization
    BY <1>1, <2>1 DEF AttemptRecord
  <2>3. \E s : Quiet(a, s)
    BY <1>9, <2>2, TransitionQuiet DEF RemotelyVerified, Stages
  <2> QED BY <1>1, <1>9, <2>3, QuietStep DEF RemotelyVerified
<1>10. ASSUME Fail(a) PROVE BackendInv'
  <2> DEFINE r == [attempts[a] EXCEPT !.failure = attempts[a].state, !.state = "FAILED"]
  <2>1. attempts' = [attempts EXCEPT ![a] = r]
    BY <1>10 DEF Fail
  <2>2. /\ r \in AttemptRecord /\ r.state = "FAILED"
        /\ r.operation = attempts[a].operation /\ r.previous = attempts[a].previous
        /\ r.result = attempts[a].result /\ r.base = attempts[a].base
        /\ r.proofs = attempts[a].proofs /\ r.authorization = attempts[a].authorization
    <3>1. attempts[a].state \in Stages \cup {"PROPOSED"}
      BY <1>1, <1>10 DEF Fail, AttemptRecord
    <3> QED BY <1>1, <3>1, FailRecord
  <2>3. "AUTHORIZED" \in r.proofs => r.authorization \in Authorization
    BY <2>2 DEF BackendInv, RecordComplete
  <2>4. Quiet(a, r)
    BY <1>10, <2>1, <2>2, <2>3 DEF Quiet, Fail, Exists, Reached, Stages
  <2> QED BY <1>1, <1>10, <2>4, QuietStep DEF Fail
<1> QED BY <1>2, <1>3, <1>4, <1>5, <1>6, <1>7, <1>8, <1>9, <1>10

\* A new attempt starts from the current generation and, to promote, from a
\* verified head.
LEMMA CreateStep ==
  ASSUME BackendInv, NEW a \in Attempt,
         NEW operation \in {"promote", "recover"},
         NEW previous \in Digest \cup {None}, NEW result \in Digest,
         Create(a, operation, previous, result)
  PROVE  BackendInv'
<1> USE DEF BackendInv
<1> DEFINE r == [Absent EXCEPT !.state = "PROPOSED", !.operation = operation,
                               !.previous = previous, !.result = result,
                               !.base = head.generation]
<1>1. /\ r \in AttemptRecord /\ r.state = "PROPOSED" /\ r.operation = operation
      /\ r.previous = previous /\ r.result = result /\ r.base = head.generation
      /\ r.proofs = {}
  BY DEF Absent, AttemptRecord, Operations, TypeOK
<1>2. /\ attempts' = [attempts EXCEPT ![a] = r]
      /\ previous = head.digest
      /\ operation = "promote" => head.digest = head.last_verified
      /\ operation = "recover" => views[result] # None
      /\ UNCHANGED <<head, consumed, views, remotes, clock>>
      /\ attempts[a].state = "ABSENT"
  BY DEF Create, Exists
<1>3. /\ attempts' \in [Attempt -> AttemptRecord] /\ attempts'[a] = r
      /\ \A b \in Attempt : b # a => attempts'[b] = attempts[b]
  BY <1>1, <1>2 DEF TypeOK
<1>4. /\ ~Reached(a, "PUBLISHED") /\ ~Reached(a, "PUBLISHED")'
      /\ ~Reached(a, "POST_VERIFIED")
      /\ \A b \in Attempt, stage \in Stages : Reached(b, stage)' <=> Reached(b, stage)
  BY <1>1, <1>2, <1>3 DEF Reached, RecordComplete
<1>5. TypeOK'
  BY <1>2, <1>3 DEF TypeOK
<1>6. RecordComplete'
  BY <1>1, <1>3 DEF RecordComplete, Stages
<1>7. BaseBehindHead'
  BY <1>1, <1>2, <1>3, <1>4 DEF BaseBehindHead, Stages, TypeOK
<1>8. BaseIsCurrent'
  BY <1>1, <1>2, <1>3 DEF BaseIsCurrent, Exists
<1>9. \A g : Advertised(g)' = Advertised(g)
  BY <1>3, <1>4 DEF Advertised, Stages
<1>10. GenerationOwned'
  BY <1>2, <1>3, <1>4, <1>9 DEF GenerationOwned, Advertised, Stages
<1>11. ViewsRest'
  <2>1. \A d \in Digest : views[d] \in Attempt \cup {None}
    BY DEF TypeOK
  <2>2. \A d \in Digest : views[d] # None => views[d] # a
    BY <1>4 DEF ViewsRest
  <2> QED BY <1>1, <1>2, <1>3, <1>4, <2>1, <2>2 DEF ViewsRest, Exists, Stages
<1> QED BY <1>5, <1>6, <1>7, <1>8, <1>10, <1>11

\* Publication takes the next generation, or adopts the one it resumes.
LEMMA PublishStep ==
  ASSUME BackendInv, NEW a \in Attempt, Publish(a)
  PROVE  BackendInv'
<1> USE DEF BackendInv
<1> DEFINE r == [attempts[a] EXCEPT !.state = "PUBLISHED", !.proofs = @ \cup {"PUBLISHED"}]
<1>0. /\ attempts[a] \in AttemptRecord
      /\ head.generation \in Nat
      /\ \A b \in Attempt : attempts[b].base \in Nat
      /\ head \in [digest : Digest \cup {None}, generation : Nat,
                    last_verified : Digest \cup {None}]
  BY DEF TypeOK, AttemptRecord
<1>1. /\ attempts' = [attempts EXCEPT ![a] = r]
      /\ attempts[a].state = "REMOTE_VERIFIED"
      /\ head' = Advertise(attempts[a])
      /\ UNCHANGED <<consumed, views, remotes, clock>>
      /\ ~Reached(a, "PUBLISHED")
  BY DEF Publish, Transition, Predecessor, Reached
<1>2. /\ r \in AttemptRecord /\ r.state = "PUBLISHED"
      /\ r.operation = attempts[a].operation /\ r.previous = attempts[a].previous
      /\ r.result = attempts[a].result /\ r.base = attempts[a].base
      /\ r.proofs = attempts[a].proofs \cup {"PUBLISHED"}
      /\ r.authorization = attempts[a].authorization
  BY <1>0, MoveRecord DEF Stages
<1>3. /\ attempts' \in [Attempt -> AttemptRecord] /\ attempts'[a] = r
      /\ \A b \in Attempt : b # a => attempts'[b] = attempts[b]
  BY <1>1, <1>2 DEF TypeOK
<1>4. attempts[a].result \in Digest
  BY <1>1 DEF RecordComplete
<1>5. /\ \A b \in Attempt : Reached(b, "PUBLISHED")' <=> (Reached(b, "PUBLISHED") \/ b = a)
      /\ \A b \in Attempt : Reached(b, "POST_VERIFIED")' <=> Reached(b, "POST_VERIFIED")
      /\ \A b \in Attempt : /\ attempts'[b].operation = attempts[b].operation
                            /\ attempts'[b].previous = attempts[b].previous
                            /\ attempts'[b].result = attempts[b].result
                            /\ attempts'[b].base = attempts[b].base
                            /\ Exists(b)' <=> Exists(b)
  BY <1>1, <1>2, <1>3 DEF Reached, Exists
<1>6. /\ head'.last_verified = head.last_verified
      /\ head'.digest = attempts[a].result
      /\ head'.generation = attempts[a].base + 1
      /\ \/ /\ head.generation = attempts[a].base
            /\ head'.generation = head.generation + 1
         \/ head' = head
  <2>1. attempts[a].operation = "resume-first" =>
          /\ head.digest = attempts[a].result
          /\ head.generation = attempts[a].base + 1
    BY DEF Publish, UnverifiedFirst
  <2>2. attempts[a].operation # "resume-first" => head.generation = attempts[a].base
    BY DEF Publish, AtBase
  <2>3. CASE attempts[a].operation = "resume-first"
    <3>1. head' = [head EXCEPT !.digest = head.digest, !.generation = head.generation]
      BY <1>1, <2>1, <2>3 DEF Advertise
    <3>2. head' = head
      BY <1>0, <3>1
    <3> QED BY <2>1, <2>3, <3>2
  <2>4. CASE attempts[a].operation # "resume-first"
    <3>1. head' = [head EXCEPT !.digest = attempts[a].result, !.generation = head.generation + 1]
      BY <1>1, <2>4 DEF Advertise
    <3>2. head.generation + 1 \in Nat
      BY <1>0
    <3>3. /\ head'.digest = attempts[a].result
          /\ head'.generation = head.generation + 1
          /\ head'.last_verified = head.last_verified
      BY <1>0, <1>4, <3>1, <3>2, AdvertiseHead
    <3> QED BY <2>2, <2>4, <3>3
  <2> QED BY <2>3, <2>4
<1>7. TypeOK'
  <2>1. head' \in [digest : Digest \cup {None}, generation : Nat,
                   last_verified : Digest \cup {None}]
    <3> DEFINE g == IF attempts[a].operation = "resume-first" THEN head.generation
                                                            ELSE head.generation + 1
    <3>1. g \in Nat
      BY <1>0
    <3>2. head' = [head EXCEPT !.digest = attempts[a].result, !.generation = g]
      BY <1>1 DEF Advertise
    <3> HIDE DEF g
    <3> QED BY <1>0, <1>4, <3>1, <3>2, AdvertiseHead
  <2> QED BY <1>1, <1>3, <2>1 DEF TypeOK
<1>8. RecordComplete'
  <2> SUFFICES ASSUME NEW b \in Attempt
               PROVE  LET s == attempts'[b]
                      IN /\ s.state = "ABSENT" => s.proofs = {}
                         /\ s.state # "ABSENT" => s.result \in Digest
                         /\ s.state \in Stages => s.state \in s.proofs
                         /\ "AUTHORIZED" \in s.proofs => s.authorization \in Authorization
                         /\ "POST_VERIFIED" \in s.proofs => "PUBLISHED" \in s.proofs
    BY DEF RecordComplete
  <2> HIDE DEF r
  <2>1. CASE b = a
    BY <1>2, <1>3, <1>4, <2>1 DEF RecordComplete
  <2>2. CASE b # a
    BY <1>3, <2>2 DEF RecordComplete
  <2> QED BY <2>1, <2>2
<1>9. BaseBehindHead'
  BY <1>0, <1>5, <1>6 DEF BaseBehindHead
<1>10. BaseIsCurrent'
  BY <1>0, <1>5, <1>6 DEF BaseIsCurrent, BaseBehindHead
<1>11. GenerationOwned'
  <2>1. \A g : Advertised(g)' = IF g = attempts[a].base + 1 THEN Advertised(g) \cup {a}
                                                          ELSE Advertised(g)
    BY <1>0, <1>5 DEF Advertised
  <2>2. \A g \in 1 .. head'.generation : Advertised(g)' # {}
    <3> SUFFICES ASSUME NEW g \in 1 .. head'.generation PROVE Advertised(g)' # {}
      OBVIOUS
    <3>1. CASE g = attempts[a].base + 1
      BY <2>1, <3>1
    <3>2. CASE g # attempts[a].base + 1
      <4>1. g \in 1 .. head.generation
        BY <1>0, <1>6, <3>2
      <4> QED BY <2>1, <3>2, <4>1 DEF GenerationOwned
    <3> QED BY <3>1, <3>2
  <2>3. ASSUME NEW b \in Attempt, Reached(b, "PUBLISHED"), attempts[b].base = attempts[a].base
        PROVE  attempts[b].result = attempts[a].result
    <3>1. attempts[b].base + 1 <= head.generation
      BY <2>3 DEF BaseBehindHead
    <3>2. head' = head /\ b \in Advertised(head.generation)
      BY <1>0, <1>6, <2>3, <3>1 DEF Advertised
    <3> QED BY <1>6, <3>2 DEF GenerationOwned
  <2>4. ASSUME NEW b \in Attempt, NEW c \in Attempt, Reached(b, "PUBLISHED")',
               Reached(c, "PUBLISHED")', attempts'[b].base = attempts'[c].base
        PROVE  attempts'[b].result = attempts'[c].result
    BY <1>5, <2>3, <2>4 DEF GenerationOwned
  <2>5. ASSUME NEW b \in Advertised(head.generation)' PROVE attempts'[b].result = head'.digest
    BY <1>0, <1>5, <1>6, <2>4, <2>5 DEF Advertised
  <2> QED BY <2>2, <2>4, <2>5 DEF GenerationOwned
<1>12. ViewsRest'
  <2>1. \A d \in Digest : views[d] \in Attempt \cup {None}
    BY DEF TypeOK
  <2> QED BY <1>1, <1>5, <1>6, <2>1, NoneAssumption DEF ViewsRest
<1> QED BY <1>7, <1>8, <1>9, <1>10, <1>11, <1>12

\* Post-verification moves only the marker, onto the digest of the head.
LEMMA PostVerifiedStep ==
  ASSUME BackendInv, NEW a \in Attempt, NEW remote \in remotes, PostVerified(a, remote)
  PROVE  BackendInv'
<1> USE DEF BackendInv
<1> DEFINE q == [attempts[a] EXCEPT !.post = remote]
           r == [q EXCEPT !.state = "POST_VERIFIED", !.proofs = @ \cup {"POST_VERIFIED"}]
<1>0. /\ attempts[a] \in AttemptRecord
      /\ remote \in RemoteVerification
      /\ head \in [digest : Digest \cup {None}, generation : Nat,
                    last_verified : Digest \cup {None}]
      /\ views \in [Digest -> Attempt \cup {None}]
  BY DEF TypeOK
<1>1. /\ attempts' = [attempts EXCEPT ![a] = r]
      /\ attempts[a].state = "PUBLISHED"
      /\ head' = [head EXCEPT !.last_verified = head.digest]
      /\ views' = [views EXCEPT ![head.digest] = IF @ = None THEN a ELSE @]
      /\ UNCHANGED <<consumed, remotes, clock>>
      /\ head.digest = remote.result
      /\ remote.result = attempts[a].result
  BY DEF PostVerified, Transition, Predecessor, StillAdvertised, RemoteBinds
<1>2. /\ q \in AttemptRecord /\ q.proofs = attempts[a].proofs
      /\ q.operation = attempts[a].operation /\ q.previous = attempts[a].previous
      /\ q.result = attempts[a].result /\ q.base = attempts[a].base
      /\ q.authorization = attempts[a].authorization
  BY <1>0 DEF AttemptRecord
<1> HIDE DEF q
<1>3. /\ r \in AttemptRecord /\ r.state = "POST_VERIFIED"
      /\ r.operation = attempts[a].operation /\ r.previous = attempts[a].previous
      /\ r.result = attempts[a].result /\ r.base = attempts[a].base
      /\ r.proofs = attempts[a].proofs \cup {"POST_VERIFIED"}
      /\ r.authorization = attempts[a].authorization
  BY <1>2, MoveRecord DEF Stages
<1> HIDE DEF r
<1>4. /\ attempts' \in [Attempt -> AttemptRecord] /\ attempts'[a] = r
      /\ \A b \in Attempt : b # a => attempts'[b] = attempts[b]
  BY <1>1, <1>3 DEF TypeOK
<1>5. /\ attempts[a].result \in Digest
      /\ "PUBLISHED" \in attempts[a].proofs
  BY <1>1 DEF RecordComplete, Stages
<1>6. /\ \A b \in Attempt : Reached(b, "PUBLISHED")' <=> Reached(b, "PUBLISHED")
      /\ \A b \in Attempt : Reached(b, "POST_VERIFIED")' <=> (Reached(b, "POST_VERIFIED") \/ b = a)
      /\ \A b \in Attempt : /\ attempts'[b].operation = attempts[b].operation
                            /\ attempts'[b].previous = attempts[b].previous
                            /\ attempts'[b].result = attempts[b].result
                            /\ attempts'[b].base = attempts[b].base
                            /\ Exists(b)' <=> Exists(b)
  BY <1>1, <1>3, <1>4 DEF Reached, Exists
<1>7. /\ head' \in [digest : Digest \cup {None}, generation : Nat,
                    last_verified : Digest \cup {None}]
      /\ head'.digest = head.digest
      /\ head'.generation = head.generation
      /\ head'.last_verified = head.digest
  BY <1>0, <1>1
<1>8. /\ views' \in [Digest -> Attempt \cup {None}]
      /\ \A d \in Digest : views[d] # None => views'[d] = views[d]
      /\ \A d \in Digest : views'[d] # views[d] => d = head.digest /\ views'[d] = a
      /\ views'[head.digest] # None
  BY <1>0, <1>1, <1>5, NoneAssumption
<1>9. TypeOK'
  BY <1>1, <1>4, <1>7, <1>8 DEF TypeOK
<1>10. RecordComplete'
  <2> SUFFICES ASSUME NEW b \in Attempt
               PROVE  LET s == attempts'[b]
                      IN /\ s.state = "ABSENT" => s.proofs = {}
                         /\ s.state # "ABSENT" => s.result \in Digest
                         /\ s.state \in Stages => s.state \in s.proofs
                         /\ "AUTHORIZED" \in s.proofs => s.authorization \in Authorization
                         /\ "POST_VERIFIED" \in s.proofs => "PUBLISHED" \in s.proofs
    BY DEF RecordComplete
  <2>1. CASE b = a
    BY <1>3, <1>4, <1>5, <2>1 DEF RecordComplete
  <2>2. CASE b # a
    BY <1>4, <2>2 DEF RecordComplete
  <2> QED BY <2>1, <2>2
<1>11. BaseBehindHead'
  BY <1>6, <1>7 DEF BaseBehindHead
<1>12. BaseIsCurrent'
  BY <1>6, <1>7 DEF BaseIsCurrent
<1>13. GenerationOwned'
  <2>1. \A g : Advertised(g)' = Advertised(g)
    BY <1>6 DEF Advertised
  <2> QED BY <2>1, <1>6, <1>7 DEF GenerationOwned, Advertised
<1>14. ViewsRest'
  <2>1. ASSUME NEW d \in Digest, views'[d] # None
        PROVE  (Reached(views[d], "POST_VERIFIED") /\ attempts[views[d]].result = d)'
    <3>1. CASE views'[d] = views[d]
      <4>1. views[d] \in Attempt /\ views[d] # None
        BY <1>0, <2>1, <3>1
      <4>2. "POST_VERIFIED" \in attempts[views[d]].proofs /\ attempts[views[d]].result = d
        BY <4>1 DEF ViewsRest, Reached
      <4>3. "POST_VERIFIED" \in attempts'[views[d]].proofs /\ attempts'[views[d]].result = d
        BY <1>6, <4>1, <4>2 DEF Reached
      <4> QED BY <3>1, <4>3 DEF Reached
    <3>2. CASE views'[d] # views[d]
      <4>1. views'[d] = a /\ d = attempts[a].result
        BY <1>1, <1>8, <3>2
      <4>2. "POST_VERIFIED" \in attempts'[a].proofs /\ attempts'[a].result = d
        BY <1>6, <4>1 DEF Reached
      <4> QED BY <4>1, <4>2 DEF Reached
    <3> QED BY <3>1, <3>2
  <2>2. ASSUME NEW b \in Attempt, Exists(b)', attempts'[b].operation = "recover"
        PROVE  views'[attempts'[b].result] # None
    <3>1. Exists(b) /\ attempts[b].operation = "recover"
      BY <1>6, <2>2
    <3>2. views[attempts[b].result] # None /\ attempts[b].result \in Digest
      BY <3>1 DEF ViewsRest, Exists, RecordComplete
    <3> QED BY <1>6, <1>8, <3>2
  <2> QED BY <1>7, <1>8, <2>1, <2>2 DEF ViewsRest
<1> QED BY <1>9, <1>10, <1>11, <1>12, <1>13, <1>14

\* A child adopts an intent without touching the head.
LEMMA ReauthorizeStep ==
  ASSUME BackendInv, NEW a \in Attempt, NEW p \in Attempt, NEW evidence \in Evidences,
         NEW approval \in Approvals(a, evidence), ReauthorizeFirst(a, p, evidence, approval)
  PROVE  BackendInv'
<1> USE DEF BackendInv
<1> DEFINE r == [Absent EXCEPT !.state = "AUTHORIZED", !.operation = "resume-first",
                      !.previous = attempts[p].previous, !.result = attempts[p].result,
                      !.base = attempts[p].base, !.predecessor = p,
                      !.proofs = {"VERIFIED", "COMPOSED", "TESTED", "AWAITING_APPROVAL",
                                  "AUTHORIZED", "REAUTHORIZED"},
                      !.evidence = evidence, !.authorization = approval]
<1>0. /\ attempts[p] \in AttemptRecord
      /\ clock \in Nat
  BY DEF TypeOK
<1>1. evidence \in Nat /\ approval \in Authorization
  BY <1>0, TimeAssumption DEF Evidences, Approvals, Authorization
<1>2. /\ attempts' = [attempts EXCEPT ![a] = r]
      /\ attempts[a].state = "ABSENT"
      /\ consumed' = consumed \cup {<<"jwt-jti", approval.jti>>, <<"first-resume-parent", p>>}
      /\ UNCHANGED <<head, views, remotes, clock>>
      /\ attempts[p].state # "ABSENT"
  BY DEF ReauthorizeFirst, Exists, ResumeBinding
<1>3. /\ attempts[p].previous \in Digest \cup {None}
      /\ attempts[p].result \in Digest
      /\ attempts[p].base \in Nat
      /\ attempts[p].base <= head.generation
  BY <1>0, <1>2 DEF AttemptRecord, RecordComplete, BaseBehindHead
<1>4. /\ r \in AttemptRecord /\ r.state = "AUTHORIZED" /\ r.operation = "resume-first"
      /\ r.result = attempts[p].result /\ r.base = attempts[p].base
      /\ r.proofs = {"VERIFIED", "COMPOSED", "TESTED", "AWAITING_APPROVAL",
                     "AUTHORIZED", "REAUTHORIZED"}
      /\ r.authorization = approval
  BY <1>1, <1>3 DEF Absent, AttemptRecord, Operations, Stages
<1> HIDE DEF r
<1>5. /\ attempts' \in [Attempt -> AttemptRecord] /\ attempts'[a] = r
      /\ \A b \in Attempt : b # a => attempts'[b] = attempts[b]
  BY <1>2, <1>4 DEF TypeOK
<1>6. /\ ~Reached(a, "POST_VERIFIED")
      /\ ~Reached(a, "PUBLISHED")'
      /\ \A b \in Attempt : Reached(b, "PUBLISHED")' <=> Reached(b, "PUBLISHED")
      /\ \A b \in Attempt : Reached(b, "POST_VERIFIED")' <=> Reached(b, "POST_VERIFIED")
      /\ \A b \in Attempt : b # a => Exists(b)' = Exists(b)
  BY <1>2, <1>4, <1>5 DEF Reached, RecordComplete, Exists
<1>7. TypeOK'
  <2>1. approval.jti \in Token
    BY <1>1 DEF Authorization
  <2> QED BY <1>2, <1>5, <2>1 DEF TypeOK
<1>8. RecordComplete'
  BY <1>1, <1>3, <1>4, <1>5 DEF RecordComplete
<1>9. BaseBehindHead'
  BY <1>2, <1>3, <1>4, <1>5, <1>6 DEF BaseBehindHead
<1>10. BaseIsCurrent'
  BY <1>2, <1>4, <1>5, <1>6 DEF BaseIsCurrent
<1>11. GenerationOwned'
  <2>1. \A g : Advertised(g)' = Advertised(g)
    BY <1>5, <1>6 DEF Advertised
  <2> QED BY <1>2, <1>5, <1>6, <2>1 DEF GenerationOwned, Advertised
<1>12. ViewsRest'
  <2>1. \A d \in Digest : views[d] \in Attempt \cup {None}
    BY DEF TypeOK
  <2>2. \A d \in Digest : views[d] # None => views[d] # a
    BY <1>6 DEF ViewsRest
  <2> QED BY <1>2, <1>4, <1>5, <1>6, <2>1, <2>2 DEF ViewsRest
<1> QED BY <1>7, <1>8, <1>9, <1>10, <1>11, <1>12

\* Observing and waiting change nothing the invariant is about but their types.
LEMMA EnvironmentStep ==
  ASSUME BackendInv, (\E a \in Attempt, phase \in {"pre", "post"} : VerifyRemote(a, phase)) \/ Tick
  PROVE  BackendInv'
<1> USE DEF BackendInv
<1>1. UNCHANGED <<head, attempts, consumed, views>>
  BY DEF VerifyRemote, Tick
<1>2. remotes' \subseteq RemoteVerification /\ clock' \in Nat
  <2>1. CASE Tick
    BY <2>1 DEF Tick, TypeOK
  <2>2. ASSUME NEW a \in Attempt, NEW phase \in {"pre", "post"}, VerifyRemote(a, phase)
        PROVE  remotes' \subseteq RemoteVerification /\ clock' \in Nat
    <3>1. /\ attempts[a].authorization \in Authorization
          /\ attempts[a].result \in Digest
          /\ head.generation \in Nat /\ clock \in Nat
      BY <2>2 DEF VerifyRemote, Reached, RecordComplete, TypeOK
    <3> DEFINE x == [phase |-> phase, publication |-> attempts[a].authorization,
                     result |-> attempts[a].result, at |-> clock,
                     generation |-> IF phase = "post" THEN head.generation ELSE 0]
    <3>2. x \in RemoteVerification
      BY <3>1 DEF RemoteVerification
    <3>3. clock' = clock /\ \E held \in SUBSET remotes : remotes' = held \cup {x}
      BY <2>2 DEF VerifyRemote
    <3> HIDE DEF x
    <3> QED BY <3>1, <3>2, <3>3 DEF TypeOK
  <2> QED BY <2>1, <2>2
<1>3. TypeOK'
  BY <1>1, <1>2 DEF TypeOK
<1>4. RecordComplete' /\ BaseBehindHead' /\ BaseIsCurrent' /\ GenerationOwned' /\ ViewsRest'
  BY <1>1 DEF RecordComplete, BaseBehindHead, BaseIsCurrent, GenerationOwned, ViewsRest,
              Reached, Exists, Advertised
<1> QED BY <1>3, <1>4

\* The invariant holds in every reachable state: it holds initially and every
\* operation, observation and tick keeps it.
THEOREM BackendInvariant == Spec => []BackendInv
<1>1. Init => BackendInv
  <2> SUFFICES ASSUME Init PROVE BackendInv
    OBVIOUS
  <2>1. /\ Absent \in AttemptRecord /\ Absent.state = "ABSENT" /\ Absent.proofs = {}
        /\ Absent.base = 0
    BY DEF Absent, AttemptRecord, Operations
  <2>2. /\ \A a \in Attempt : attempts[a] = Absent
        /\ head.generation = 0 /\ head.digest = None /\ head.last_verified = None
        /\ \A d \in Digest : views[d] = None
    BY DEF Init
  <2>3. TypeOK
    BY <2>1 DEF Init, TypeOK
  <2>4. RecordComplete /\ BaseBehindHead /\ BaseIsCurrent
    BY <2>1, <2>2 DEF RecordComplete, BaseBehindHead, BaseIsCurrent, Exists, Reached, Stages
  <2>5. GenerationOwned
    BY <2>1, <2>2 DEF GenerationOwned, Reached, Advertised
  <2>6. ViewsRest
    BY <2>1, <2>2 DEF ViewsRest, Exists
  <2> QED BY <2>3, <2>4, <2>5, <2>6 DEF BackendInv
<1>2. BackendInv /\ [Next]_vars => BackendInv'
  <2> SUFFICES ASSUME BackendInv, [Next]_vars PROVE BackendInv'
    OBVIOUS
  <2>1. CASE UNCHANGED vars
    BY <2>1 DEF vars, BackendInv, TypeOK, RecordComplete, BaseBehindHead, BaseIsCurrent,
                GenerationOwned, ViewsRest, Reached, Exists, Advertised
  <2>2. CASE Next
    BY <2>2, QuietActions, CreateStep, PublishStep, PostVerifiedStep, ReauthorizeStep,
       EnvironmentStep DEF Next
  <2> QED BY <2>1, <2>2
<1> QED BY <1>1, <1>2, PTL DEF Spec

\* The ledger's tables keep their types.
THEOREM TypeCorrect == Spec => []TypeOK
<1>1. BackendInv => TypeOK
  BY DEF BackendInv
<1> QED BY <1>1, BackendInvariant, PTL

\* No generation is ever reused for other bytes, skipped, or taken from its
\* publisher, whatever the attempts, the delays and the number of recoveries.
THEOREM GenerationsOwned == Spec => []GenerationOwned
<1>1. BackendInv => GenerationOwned
  BY DEF BackendInv
<1> QED BY <1>1, BackendInvariant, PTL

-----------------------------------------------------------------------------
(* What lies between the approval of an attempt and the head.              *)

\* The stages of an attempt are entered in order, and what each recorded binds
\* it to the stages before: an approval to its own attempt and evidence, an
\* envelope and both remote verifications to the approval.
ChainBound(r) ==
  /\ \A stage \in Stages : stage \in r.proofs => Predecessor[stage] \in r.proofs \cup {"PROPOSED"}
  /\ "AUTHORIZED" \in r.proofs => r.authorization.expires <= r.evidence
  /\ "SIGNED" \in r.proofs => r.publication = r.authorization
  /\ "REMOTE_VERIFIED" \in r.proofs => r.pre.publication = r.publication
  /\ "POST_VERIFIED" \in r.proofs => /\ r.post.publication = r.publication
                                      /\ r.post.generation = r.base + 1

\* An attempt was authorized again only as the child of a first publication.
ChildBound(r) ==
  /\ r.operation = "resume-first" <=> "REAUTHORIZED" \in r.proofs
  /\ r.operation = "resume-first" => r.previous = None

\* Whatever was verified after its publication has a view.
ViewsComplete ==
  \A a \in Attempt : Reached(a, "POST_VERIFIED") => views[attempts[a].result] # None

\* The head has a digest from its first generation on.
HeadStarted == head.digest = None <=> head.generation = 0

\* The marker is the digest of the newest generation verified after publication.
MarkerNewest ==
  \/ /\ head.last_verified = None
     /\ \A a \in Attempt : ~Reached(a, "POST_VERIFIED")
  \/ \E a \in Attempt :
       /\ Reached(a, "POST_VERIFIED") /\ attempts[a].result = head.last_verified
       /\ \A b \in Attempt : Reached(b, "POST_VERIFIED") => attempts[b].base <= attempts[a].base

ParentConsumed(p) == <<"first-resume-parent", p>> \in consumed

\* The publisher of the first generation and its children form one line: each
\* has one child at most, has expired by then, and only the newest has none.
OneLine ==
  /\ \A a \in FirstIntent : /\ "AUTHORIZED" \in attempts[a].proofs
                            /\ attempts[a].base + 1 <= head.generation
  /\ \A p \in Attempt : ParentConsumed(p) => p \in FirstIntent /\ AuthorityEnded(p)
  /\ \A a, b \in FirstIntent : ~ParentConsumed(a) /\ ~ParentConsumed(b) => a = b

\* A first generation nobody has verified can be resumed from the end of the line.
FirstResumable ==
  head.digest # None /\ head.last_verified = None =>
    \E p \in FirstIntent : ResumeBinding(p) /\ ~ParentConsumed(p)

\* What a reader of the records may rely on beyond BackendInv.
IntentInv ==
  /\ \A a \in Attempt : ChainBound(attempts[a]) /\ ChildBound(attempts[a])
  /\ ViewsComplete /\ HeadStarted /\ MarkerNewest
  /\ OneLine /\ FirstResumable

\* Attempt a moves to a stage: what becomes of its record and of the head.
MovesTo(a, stage) ==
  LET r == attempts[a]
      s == attempts'[a]
  IN /\ r.state = Predecessor[stage] /\ stage \notin r.proofs
     /\ \A b \in Attempt : b # a => attempts'[b] = attempts[b]
     /\ s.state = stage /\ s.proofs = r.proofs \cup {stage}
     /\ s.operation = r.operation /\ s.previous = r.previous
     /\ s.result = r.result /\ s.base = r.base
     /\ stage # "VERIFIED" => s.evidence = r.evidence
     /\ IF stage = "AUTHORIZED" THEN s.authorization.expires <= s.evidence
                                ELSE s.authorization = r.authorization
     /\ s.publication = IF stage = "SIGNED" THEN r.authorization ELSE r.publication
     /\ IF stage = "REMOTE_VERIFIED" THEN s.pre.publication = r.publication ELSE s.pre = r.pre
     /\ IF stage = "POST_VERIFIED" THEN /\ s.post.publication = r.publication
                                        /\ s.post.generation = r.base + 1
                                   ELSE s.post = r.post
     /\ IF stage = "AUTHORIZED" THEN \E jti : consumed' = consumed \cup {<<"jwt-jti", jti>>}
                                ELSE consumed' = consumed
     /\ clock' = clock
     /\ stage # "POST_VERIFIED" => views' = views
     /\ stage = "POST_VERIFIED" =>
          /\ head.digest = r.result /\ head.generation = r.base + 1
          /\ head' = [head EXCEPT !.last_verified = head.digest]
          /\ views' = [views EXCEPT ![head.digest] = IF @ = None THEN a ELSE @]
     /\ stage = "PUBLISHED" =>
          /\ Fresh(r.authorization.expires)
          /\ head'.digest = r.result /\ head'.generation = r.base + 1
          /\ head'.last_verified = head.last_verified
          /\ IF r.operation = "resume-first" THEN UnverifiedFirst(r) /\ head' = head ELSE AtBase(r)
     /\ stage \notin {"PUBLISHED", "POST_VERIFIED"} => head' = head

Failed(a) ==
  LET r == attempts[a]
      s == attempts'[a]
  IN /\ r.state \notin {"ABSENT", "POST_VERIFIED", "FAILED"}
     /\ \A b \in Attempt : b # a => attempts'[b] = attempts[b]
     /\ s = [r EXCEPT !.failure = r.state, !.state = "FAILED"]
     /\ UNCHANGED <<head, consumed, views, clock>>

\* A new attempt on the current generation.
Created(a) ==
  LET s == attempts'[a]
  IN /\ ~Exists(a)
     /\ \A b \in Attempt : b # a => attempts'[b] = attempts[b]
     /\ s.state = "PROPOSED" /\ s.proofs = {}
     /\ s.operation \in {"promote", "recover"} /\ s.result \in Digest
     /\ s.previous = head.digest /\ s.base = head.generation
     /\ UNCHANGED <<head, consumed, views, clock>>

\* A new attempt that adopts the first publication of p.
Adopts(a, p) ==
  LET s == attempts'[a]
      r == attempts[p]
  IN /\ ~Exists(a) /\ a # p
     /\ ResumeBinding(p) /\ AuthorityEnded(p) /\ ~ParentConsumed(p)
     /\ \A b \in Attempt : b # a => attempts'[b] = attempts[b]
     /\ s.state = "AUTHORIZED" /\ s.operation = "resume-first"
     /\ s.proofs = {"VERIFIED", "COMPOSED", "TESTED", "AWAITING_APPROVAL", "AUTHORIZED",
                    "REAUTHORIZED"}
     /\ s.previous = None /\ s.result = r.result /\ s.base = r.base
     /\ s.authorization.expires <= s.evidence
     /\ \E jti : consumed' = consumed \cup {<<"jwt-jti", jti>>, <<"first-resume-parent", p>>}
     /\ UNCHANGED <<head, views, clock>>

\* A transition to a stage, with the record it starts from.
LEMMA TransitionRecord ==
  ASSUME BackendInv, NEW a \in Attempt, NEW stage \in Stages, NEW r \in AttemptRecord,
         Transition(a, stage, r)
  PROVE  LET s == attempts'[a]
         IN /\ attempts[a].state = Predecessor[stage] /\ stage \notin attempts[a].proofs
            /\ \A b \in Attempt : b # a => attempts'[b] = attempts[b]
            /\ s.state = stage /\ s.proofs = r.proofs \cup {stage}
            /\ s.operation = r.operation /\ s.previous = r.previous
            /\ s.result = r.result /\ s.base = r.base /\ s.evidence = r.evidence
            /\ s.authorization = r.authorization /\ s.publication = r.publication
            /\ s.pre = r.pre /\ s.post = r.post
<1> DEFINE m == [r EXCEPT !.state = stage, !.proofs = @ \cup {stage}]
<1>1. attempts' = [attempts EXCEPT ![a] = m]
  BY DEF Transition
<1>2. /\ m.state = stage /\ m.proofs = r.proofs \cup {stage}
      /\ m.operation = r.operation /\ m.previous = r.previous
      /\ m.result = r.result /\ m.base = r.base /\ m.evidence = r.evidence
      /\ m.authorization = r.authorization /\ m.publication = r.publication
      /\ m.pre = r.pre /\ m.post = r.post
  BY DEF AttemptRecord
<1> HIDE DEF m
<1>3. attempts'[a] = m /\ \A b \in Attempt : b # a => attempts'[b] = attempts[b]
  BY <1>1 DEF BackendInv, TypeOK
<1> QED
  BY <1>2, <1>3 DEF Transition

\* The evidence and the approvals a publisher presents are dated, and an approval
\* ends with its evidence at the latest.
LEMMA EvidenceDated ==
  ASSUME clock \in Nat, NEW evidence \in Evidences
  PROVE  evidence \in Nat
<1>1. PICK life \in EvidenceLife : evidence = clock + life
  BY DEF Evidences
<1>2. life \in Nat
  BY <1>1, TimeAssumption
<1> QED BY <1>1, <1>2

LEMMA ApprovalDated ==
  ASSUME clock \in Nat, NEW a \in Attempt, NEW evidence \in Nat,
         NEW approval \in Approvals(a, evidence)
  PROVE  approval \in Authorization /\ approval.expires <= evidence
<1>1. PICK life \in ApprovalLife :
        approval.expires = IF clock + life < evidence THEN clock + life ELSE evidence
  BY DEF Approvals
<1>2. life \in Nat
  BY <1>1, TimeAssumption
<1>3. approval.expires \in Nat /\ approval.expires <= evidence
  BY <1>1, <1>2
<1>4. approval \in [attempt : Attempt, jti : Token, evidence : Nat, expires : Nat]
  <2>1. approval \in [attempt : {a}, jti : Token, evidence : {evidence},
                      expires : {approval.expires}]
    BY DEF Approvals
  <2> QED BY <1>3, <2>1
<1> QED BY <1>3, <1>4 DEF Authorization

\* Each operation on an existing attempt moves it to one stage.
LEMMA OperationMoves ==
  ASSUME BackendInv, NEW a \in Attempt,
         \/ \E evidence \in Evidences : Verified(a, evidence)
         \/ Composed(a)
         \/ \E b \in Attempt : Tested(a, attempts[b].evidence)
         \/ AwaitingApproval(a)
         \/ \E approval \in Approvals(a, attempts[a].evidence) : Authorized(a, approval)
         \/ \E publication \in Envelopes : Signed(a, publication) \/ Staged(a, publication)
         \/ \E remote \in remotes : RemotelyVerified(a, remote)
         \/ Publish(a)
         \/ \E remote \in remotes : PostVerified(a, remote)
  PROVE  \E stage \in Stages : MovesTo(a, stage)
<1>1. attempts[a] \in AttemptRecord /\ clock \in Nat
  BY DEF BackendInv, TypeOK
<1>2. ASSUME NEW evidence \in Evidences, Verified(a, evidence) PROVE MovesTo(a, "VERIFIED")
  <2> DEFINE r == [attempts[a] EXCEPT !.evidence = evidence]
  <2>1. evidence \in Nat
    BY <1>1, <1>2, EvidenceDated
  <2>2. /\ r \in AttemptRecord /\ r.operation = attempts[a].operation
        /\ r.previous = attempts[a].previous /\ r.result = attempts[a].result
        /\ r.base = attempts[a].base /\ r.proofs = attempts[a].proofs
        /\ r.authorization = attempts[a].authorization /\ r.publication = attempts[a].publication
        /\ r.pre = attempts[a].pre /\ r.post = attempts[a].post
    BY <1>1, <2>1 DEF AttemptRecord
  <2>3. Transition(a, "VERIFIED", r) /\ UNCHANGED <<head, consumed, views, remotes, clock>>
    BY <1>2 DEF Verified
  <2> HIDE DEF r
  <2> QED BY <2>2, <2>3, TransitionRecord DEF MovesTo, Stages
<1>3. ASSUME Composed(a) PROVE MovesTo(a, "COMPOSED")
  BY <1>1, <1>3, TransitionRecord DEF MovesTo, Stages, Composed
<1>4. ASSUME NEW b \in Attempt, Tested(a, attempts[b].evidence) PROVE MovesTo(a, "TESTED")
  BY <1>1, <1>4, TransitionRecord DEF MovesTo, Stages, Tested
<1>5. ASSUME AwaitingApproval(a) PROVE MovesTo(a, "AWAITING_APPROVAL")
  BY <1>1, <1>5, TransitionRecord DEF MovesTo, Stages, AwaitingApproval
<1>6. ASSUME NEW approval \in Approvals(a, attempts[a].evidence), Authorized(a, approval)
      PROVE MovesTo(a, "AUTHORIZED")
  <2> DEFINE r == [attempts[a] EXCEPT !.authorization = approval]
  <2>1. attempts[a].evidence \in Nat
    BY <1>1 DEF AttemptRecord
  <2>2. approval \in Authorization /\ approval.expires <= attempts[a].evidence
    BY <1>1, <1>6, <2>1, ApprovalDated
  <2>3. /\ r \in AttemptRecord /\ r.operation = attempts[a].operation
        /\ r.previous = attempts[a].previous /\ r.result = attempts[a].result
        /\ r.base = attempts[a].base /\ r.proofs = attempts[a].proofs
        /\ r.evidence = attempts[a].evidence
        /\ r.authorization = approval /\ r.publication = attempts[a].publication
        /\ r.pre = attempts[a].pre /\ r.post = attempts[a].post
    BY <1>1, <2>2 DEF AttemptRecord
  <2>4. /\ Transition(a, "AUTHORIZED", r) /\ UNCHANGED <<head, views, remotes, clock>>
        /\ consumed' = consumed \cup {<<"jwt-jti", approval.jti>>}
    BY <1>6 DEF Authorized
  <2> HIDE DEF r
  <2> QED BY <2>2, <2>3, <2>4, TransitionRecord, ZenonT(40) DEF MovesTo, Stages
<1>7. ASSUME NEW publication \in Envelopes, Signed(a, publication) PROVE MovesTo(a, "SIGNED")
  <2> DEFINE r == [attempts[a] EXCEPT !.publication = publication]
  <2>1. publication = attempts[a].authorization
    BY <1>7 DEF Signed
  <2>2. /\ r \in AttemptRecord /\ r.operation = attempts[a].operation
        /\ r.previous = attempts[a].previous /\ r.result = attempts[a].result
        /\ r.base = attempts[a].base /\ r.proofs = attempts[a].proofs
        /\ r.evidence = attempts[a].evidence
        /\ r.authorization = attempts[a].authorization /\ r.publication = publication
        /\ r.pre = attempts[a].pre /\ r.post = attempts[a].post
    BY <1>1, <2>1 DEF AttemptRecord
  <2>3. Transition(a, "SIGNED", r) /\ UNCHANGED <<head, consumed, views, remotes, clock>>
    BY <1>7 DEF Signed
  <2> HIDE DEF r
  <2> QED BY <2>1, <2>2, <2>3, TransitionRecord DEF MovesTo, Stages
<1>8. ASSUME NEW publication \in Envelopes, Staged(a, publication) PROVE MovesTo(a, "STAGED")
  BY <1>1, <1>8, TransitionRecord DEF MovesTo, Stages, Staged
<1>9. ASSUME NEW remote \in remotes, RemotelyVerified(a, remote) PROVE MovesTo(a, "REMOTE_VERIFIED")
  <2> DEFINE r == [attempts[a] EXCEPT !.pre = remote]
  <2>1. remote \in RemoteVerification
    BY DEF BackendInv, TypeOK
  <2>2. /\ r \in AttemptRecord /\ r.operation = attempts[a].operation
        /\ r.previous = attempts[a].previous /\ r.result = attempts[a].result
        /\ r.base = attempts[a].base /\ r.proofs = attempts[a].proofs
        /\ r.evidence = attempts[a].evidence
        /\ r.authorization = attempts[a].authorization /\ r.publication = attempts[a].publication
        /\ r.pre = remote /\ r.post = attempts[a].post
    BY <1>1, <2>1 DEF AttemptRecord
  <2>3. /\ Transition(a, "REMOTE_VERIFIED", r) /\ UNCHANGED <<head, consumed, views, remotes, clock>>
        /\ remote.publication = attempts[a].publication
    BY <1>9 DEF RemotelyVerified, RemoteBinds
  <2> HIDE DEF r
  <2> QED BY <2>2, <2>3, TransitionRecord DEF MovesTo, Stages
<1>10. ASSUME Publish(a) PROVE MovesTo(a, "PUBLISHED")
  <2>1. Transition(a, "PUBLISHED", attempts[a]) /\ UNCHANGED <<consumed, views, remotes, clock>>
    BY <1>10 DEF Publish
  <2>2. /\ attempts[a].state = "REMOTE_VERIFIED" /\ Fresh(attempts[a].authorization.expires)
        /\ head' = Advertise(attempts[a])
        /\ IF attempts[a].operation = "resume-first" THEN UnverifiedFirst(attempts[a])
                                                     ELSE AtBase(attempts[a])
    BY <1>10 DEF Publish, Transition, Predecessor
  <2>3. head \in [digest : Digest \cup {None}, generation : Nat, last_verified : Digest \cup {None}]
    BY DEF BackendInv, TypeOK
  <2>4. attempts[a].result \in Digest
    BY <2>2 DEF BackendInv, RecordComplete
  <2>5. /\ head'.digest = attempts[a].result /\ head'.generation = attempts[a].base + 1
        /\ head'.last_verified = head.last_verified
        /\ attempts[a].operation = "resume-first" => head' = head
    <3>1. CASE attempts[a].operation = "resume-first"
      <4>1. head.digest = attempts[a].result /\ head.generation = attempts[a].base + 1
        BY <2>2, <3>1 DEF UnverifiedFirst
      <4>2. head' = [head EXCEPT !.digest = head.digest, !.generation = head.generation]
        BY <2>2, <3>1, <4>1 DEF Advertise
      <4> QED BY <2>3, <4>1, <4>2
    <3>2. CASE attempts[a].operation # "resume-first"
      <4>1. head.generation = attempts[a].base /\ head.generation + 1 \in Nat
        BY <2>2, <2>3, <3>2 DEF AtBase
      <4>2. head' = [head EXCEPT !.digest = attempts[a].result, !.generation = head.generation + 1]
        BY <2>2, <3>2 DEF Advertise
      <4> QED BY <2>3, <2>4, <3>2, <4>1, <4>2, AdvertiseHead
    <3> QED BY <3>1, <3>2
  <2> QED BY <1>1, <2>1, <2>2, <2>5, TransitionRecord DEF MovesTo, Stages
<1>11. ASSUME NEW remote \in remotes, PostVerified(a, remote) PROVE MovesTo(a, "POST_VERIFIED")
  <2> DEFINE r == [attempts[a] EXCEPT !.post = remote]
  <2>1. remote \in RemoteVerification
    BY DEF BackendInv, TypeOK
  <2>2. /\ r \in AttemptRecord /\ r.operation = attempts[a].operation
        /\ r.previous = attempts[a].previous /\ r.result = attempts[a].result
        /\ r.base = attempts[a].base /\ r.proofs = attempts[a].proofs
        /\ r.evidence = attempts[a].evidence
        /\ r.authorization = attempts[a].authorization /\ r.publication = attempts[a].publication
        /\ r.pre = attempts[a].pre /\ r.post = remote
    BY <1>1, <2>1 DEF AttemptRecord
  <2>3. /\ Transition(a, "POST_VERIFIED", r) /\ UNCHANGED <<consumed, remotes, clock>>
        /\ remote.publication = attempts[a].publication
        /\ remote.generation = attempts[a].base + 1
        /\ head.digest = attempts[a].result /\ head.generation = attempts[a].base + 1
        /\ head' = [head EXCEPT !.last_verified = head.digest]
        /\ views' = [views EXCEPT ![head.digest] = IF @ = None THEN a ELSE @]
    BY <1>11 DEF PostVerified, RemoteBinds, StillAdvertised
  <2> HIDE DEF r
  <2> QED BY <2>2, <2>3, TransitionRecord DEF MovesTo, Stages
<1> QED
  BY <1>2, <1>3, <1>4, <1>5, <1>6, <1>7, <1>8, <1>9, <1>10, <1>11 DEF Stages

LEMMA CreateCreates ==
  ASSUME BackendInv, NEW a \in Attempt, NEW operation \in {"promote", "recover"},
         NEW previous \in Digest \cup {None}, NEW result \in Digest,
         Create(a, operation, previous, result)
  PROVE  Created(a)
<1> DEFINE r == [Absent EXCEPT !.state = "PROPOSED", !.operation = operation,
                               !.previous = previous, !.result = result,
                               !.base = head.generation]
<1>1. /\ r.state = "PROPOSED" /\ r.operation = operation /\ r.proofs = {}
      /\ r.previous = previous /\ r.result = result /\ r.base = head.generation
  BY DEF Absent
<1>2. attempts' = [attempts EXCEPT ![a] = r] /\ previous = head.digest
      /\ UNCHANGED <<head, consumed, views, clock>> /\ ~Exists(a)
  BY DEF Create
<1> HIDE DEF r
<1>3. attempts'[a] = r /\ \A b \in Attempt : b # a => attempts'[b] = attempts[b]
  BY <1>2 DEF BackendInv, TypeOK
<1> QED
  BY <1>1, <1>2, <1>3 DEF Created

LEMMA ReauthorizeAdopts ==
  ASSUME BackendInv, NEW a \in Attempt, NEW p \in Attempt, NEW evidence \in Evidences,
         NEW approval \in Approvals(a, evidence), ReauthorizeFirst(a, p, evidence, approval)
  PROVE  Adopts(a, p)
<1> DEFINE r == [Absent EXCEPT !.state = "AUTHORIZED", !.operation = "resume-first",
                      !.previous = attempts[p].previous, !.result = attempts[p].result,
                      !.base = attempts[p].base, !.predecessor = p,
                      !.proofs = {"VERIFIED", "COMPOSED", "TESTED", "AWAITING_APPROVAL",
                                  "AUTHORIZED", "REAUTHORIZED"},
                      !.evidence = evidence, !.authorization = approval]
<1>1. clock \in Nat
  BY DEF BackendInv, TypeOK
<1>2. evidence \in Nat
  BY <1>1, EvidenceDated
<1>3. approval.expires <= evidence
  BY <1>1, <1>2, ApprovalDated
<1>4. /\ r.state = "AUTHORIZED" /\ r.operation = "resume-first"
      /\ r.previous = attempts[p].previous /\ r.result = attempts[p].result
      /\ r.base = attempts[p].base /\ r.evidence = evidence /\ r.authorization = approval
      /\ r.proofs = {"VERIFIED", "COMPOSED", "TESTED", "AWAITING_APPROVAL", "AUTHORIZED",
                     "REAUTHORIZED"}
  BY DEF Absent
<1>5. /\ attempts' = [attempts EXCEPT ![a] = r]
      /\ ~Exists(a) /\ a # p
      /\ ResumeBinding(p) /\ AuthorityEnded(p) /\ Unconsumed("first-resume-parent", p)
      /\ consumed' = consumed \cup {<<"jwt-jti", approval.jti>>, <<"first-resume-parent", p>>}
      /\ UNCHANGED <<head, views, clock>>
  BY DEF ReauthorizeFirst
<1> HIDE DEF r
<1>6. attempts'[a] = r /\ \A b \in Attempt : b # a => attempts'[b] = attempts[b]
  BY <1>5 DEF BackendInv, TypeOK
<1>7. attempts[p].previous = None
  BY <1>5 DEF ResumeBinding
<1> QED
  BY <1>3, <1>4, <1>5, <1>6, <1>7 DEF Adopts, ParentConsumed, Unconsumed

\* The kinds of steps the ledger takes.
LEMMA StepKinds ==
  ASSUME BackendInv, Next
  PROVE  \/ \E a \in Attempt, stage \in Stages : MovesTo(a, stage)
         \/ \E a \in Attempt : Failed(a)
         \/ \E a \in Attempt : Created(a)
         \/ \E a, p \in Attempt : Adopts(a, p)
         \/ UNCHANGED <<head, attempts, consumed, views>> /\ clock' \in Nat /\ clock <= clock'
<1>1. ASSUME NEW a \in Attempt, Fail(a) PROVE Failed(a)
  BY <1>1 DEF Fail, Failed, BackendInv, TypeOK
<1>2. ASSUME NEW a \in Attempt, NEW phase \in {"pre", "post"}, VerifyRemote(a, phase)
      PROVE UNCHANGED <<head, attempts, consumed, views>> /\ clock' \in Nat /\ clock <= clock'
  BY <1>2 DEF VerifyRemote, BackendInv, TypeOK
<1>3. ASSUME Tick
      PROVE UNCHANGED <<head, attempts, consumed, views>> /\ clock' \in Nat /\ clock <= clock'
  BY <1>3 DEF Tick, BackendInv, TypeOK
<1>4. ASSUME NEW a \in Attempt, NEW operation \in {"promote", "recover"},
             NEW previous \in Digest \cup {None}, NEW result \in Digest,
             Create(a, operation, previous, result)
      PROVE Created(a)
  BY <1>4, CreateCreates
<1>5. ASSUME NEW a \in Attempt, NEW p \in Attempt, NEW evidence \in Evidences,
             NEW approval \in Approvals(a, evidence), ReauthorizeFirst(a, p, evidence, approval)
      PROVE Adopts(a, p)
  BY <1>5, ReauthorizeAdopts
<1> QED
  BY <1>1, <1>2, <1>3, <1>4, <1>5, OperationMoves DEF Next

-----------------------------------------------------------------------------
(* Each step keeps what IntentInv says.                                    *)

\* The types the steps below need.
LEMMA RecordTypes ==
  ASSUME BackendInv, NEW b \in Attempt
  PROVE  /\ attempts[b] \in AttemptRecord
         /\ attempts[b].base \in Nat /\ attempts[b].evidence \in Nat
         /\ attempts[b].state # "ABSENT" => attempts[b].result \in Digest
         /\ attempts[b].state = "ABSENT" => attempts[b].proofs = {}
         /\ attempts[b].state \in Stages => attempts[b].state \in attempts[b].proofs
         /\ "AUTHORIZED" \in attempts[b].proofs => attempts[b].authorization.expires \in Nat
         /\ head.generation \in Nat /\ clock \in Nat
         /\ head.digest \in Digest \cup {None} /\ head.last_verified \in Digest \cup {None}
         /\ \A d \in Digest : views[d] \in Attempt \cup {None}
BY DEF BackendInv, TypeOK, AttemptRecord, RecordComplete, Authorization

\* What the order of the stages says of the four that bind something.
LEMMA ChainOrder ==
  ASSUME NEW r, ChainBound(r)
  PROVE  /\ "AUTHORIZED" \in r.proofs => "VERIFIED" \in r.proofs
         /\ "SIGNED" \in r.proofs => "AUTHORIZED" \in r.proofs
         /\ "REMOTE_VERIFIED" \in r.proofs => "SIGNED" \in r.proofs
         /\ "PUBLISHED" \in r.proofs => "REMOTE_VERIFIED" \in r.proofs
         /\ "POST_VERIFIED" \in r.proofs => "PUBLISHED" \in r.proofs
BY DEF ChainBound, Predecessor, Stages

\* Recording a failure changes nothing the invariant reads.
LEMMA FailedRecord ==
  ASSUME BackendInv, NEW a \in Attempt, Failed(a)
  PROVE  LET r == attempts[a]
             s == attempts'[a]
         IN /\ s.state = "FAILED" /\ s.proofs = r.proofs
            /\ s.operation = r.operation /\ s.previous = r.previous
            /\ s.result = r.result /\ s.base = r.base /\ s.evidence = r.evidence
            /\ s.authorization = r.authorization /\ s.publication = r.publication
            /\ s.pre = r.pre /\ s.post = r.post
BY RecordTypes DEF Failed, AttemptRecord

LEMMA RecordsBound ==
  ASSUME BackendInv, IntentInv, Next, NEW b \in Attempt
  PROVE  (ChainBound(attempts[b]) /\ ChildBound(attempts[b]))'
<1> DEFINE r == attempts[b]
           s == attempts'[b]
<1>1. ChainBound(r) /\ ChildBound(r)
  BY DEF IntentInv
<1>2. SUFFICES ChainBound(s) /\ ChildBound(s)
  BY DEF ChainBound, ChildBound
<1>3. ASSUME s = r PROVE ChainBound(s) /\ ChildBound(s)
  BY <1>1, <1>3
<1>4. ASSUME NEW stage \in Stages, MovesTo(b, stage) PROVE ChainBound(s) /\ ChildBound(s)
  <2>1. r.state \in r.proofs \cup {"PROPOSED"} /\ r.state = Predecessor[stage] /\ stage \notin r.proofs
    BY <1>4, RecordTypes, PredecessorExists DEF MovesTo
  <2>2. s.proofs = r.proofs \cup {stage}
    BY <1>4 DEF MovesTo
  <2>3. \A t \in Stages : t \in s.proofs => Predecessor[t] \in s.proofs \cup {"PROPOSED"}
    BY <1>1, <2>1, <2>2 DEF ChainBound
  <2>4. "AUTHORIZED" \in s.proofs => s.authorization.expires <= s.evidence
    <3>1. CASE stage = "AUTHORIZED"
      BY <1>4, <3>1 DEF MovesTo
    <3>2. CASE stage # "AUTHORIZED"
      BY <1>1, <1>4, <2>1, <2>2, <3>2, ChainOrder DEF MovesTo, ChainBound
    <3> QED BY <3>1, <3>2
  <2>5. "SIGNED" \in s.proofs => s.publication = s.authorization
    BY <1>1, <1>4, <2>1, <2>2, ChainOrder DEF MovesTo, ChainBound
  <2>6. "REMOTE_VERIFIED" \in s.proofs => s.pre.publication = s.publication
    BY <1>1, <1>4, <2>1, <2>2, ChainOrder DEF MovesTo, ChainBound
  <2>7. "POST_VERIFIED" \in s.proofs => /\ s.post.publication = s.publication
                                        /\ s.post.generation = s.base + 1
    BY <1>1, <1>4, <2>1, <2>2, ChainOrder DEF MovesTo, ChainBound
  <2>8. ChildBound(s)
    BY <1>1, <1>4, <2>2 DEF MovesTo, ChildBound, Stages
  <2> QED BY <2>3, <2>4, <2>5, <2>6, <2>7, <2>8 DEF ChainBound
<1>5. ASSUME Failed(b) PROVE ChainBound(s) /\ ChildBound(s)
  BY <1>1, <1>5, FailedRecord DEF ChainBound, ChildBound
<1>6. ASSUME Created(b) PROVE ChainBound(s) /\ ChildBound(s)
  BY <1>6 DEF Created, ChainBound, ChildBound
<1>7. ASSUME NEW p \in Attempt, Adopts(b, p) PROVE ChainBound(s) /\ ChildBound(s)
  <2>1. \A t \in Stages : t \in s.proofs => Predecessor[t] \in s.proofs \cup {"PROPOSED"}
    BY <1>7 DEF Adopts, Predecessor, Stages
  <2> QED BY <1>7, <2>1 DEF Adopts, ChainBound, ChildBound
<1>8. ASSUME NEW a \in Attempt, a # b,
             \/ \E stage \in Stages : MovesTo(a, stage)
             \/ Failed(a)
             \/ Created(a)
             \/ \E p \in Attempt : Adopts(a, p)
      PROVE s = r
  BY <1>8 DEF MovesTo, Failed, Created, Adopts
<1>9. CASE UNCHANGED attempts
  BY <1>3, <1>9
<1>10. CASE \E a \in Attempt : \/ \E stage \in Stages : MovesTo(a, stage)
                               \/ Failed(a)
                               \/ Created(a)
                               \/ \E p \in Attempt : Adopts(a, p)
  <2>1. PICK a \in Attempt : \/ \E stage \in Stages : MovesTo(a, stage)
                             \/ Failed(a)
                             \/ Created(a)
                             \/ \E p \in Attempt : Adopts(a, p)
    BY <1>10
  <2>2. CASE a = b
    BY <1>4, <1>5, <1>6, <1>7, <2>1, <2>2
  <2>3. CASE a # b
    BY <1>3, <1>8, <2>1, <2>3
  <2> QED BY <2>2, <2>3
<1> QED
  BY <1>9, <1>10, StepKinds

\* The head, its marker and the views move together.
LEMMA MarkerKept ==
  ASSUME BackendInv, IntentInv, Next
  PROVE  (ViewsComplete /\ HeadStarted /\ MarkerNewest)'
<1>1. ViewsComplete /\ HeadStarted /\ MarkerNewest
  BY DEF IntentInv
<1>2. ASSUME UNCHANGED <<head, views>>,
             \A b \in Attempt : /\ Reached(b, "POST_VERIFIED")' <=> Reached(b, "POST_VERIFIED")
                                /\ Reached(b, "POST_VERIFIED") =>
                                     /\ attempts'[b].result = attempts[b].result
                                     /\ attempts'[b].base = attempts[b].base
      PROVE (ViewsComplete /\ HeadStarted /\ MarkerNewest)'
  BY <1>1, <1>2 DEF ViewsComplete, HeadStarted, MarkerNewest
<1>3. ASSUME NEW a \in Attempt, NEW stage \in Stages \ {"PUBLISHED", "POST_VERIFIED"}, MovesTo(a, stage)
      PROVE (ViewsComplete /\ HeadStarted /\ MarkerNewest)'
  BY <1>2, <1>3 DEF MovesTo, Reached
<1>4. ASSUME NEW a \in Attempt, MovesTo(a, "PUBLISHED")
      PROVE (ViewsComplete /\ HeadStarted /\ MarkerNewest)'
  <2>1. /\ views' = views /\ head'.last_verified = head.last_verified
        /\ head'.digest = attempts[a].result /\ head'.generation = attempts[a].base + 1
        /\ attempts[a].state # "ABSENT"
    BY <1>4 DEF MovesTo, Predecessor
  <2>2. \A b \in Attempt : /\ Reached(b, "POST_VERIFIED")' <=> Reached(b, "POST_VERIFIED")
                           /\ attempts'[b].result = attempts[b].result
                           /\ attempts'[b].base = attempts[b].base
    BY <1>4 DEF MovesTo, Reached
  <2>3. HeadStarted'
    BY <2>1, RecordTypes, NoneAssumption DEF HeadStarted
  <2> QED BY <1>1, <2>1, <2>2, <2>3 DEF ViewsComplete, MarkerNewest
<1>5. ASSUME NEW a \in Attempt, MovesTo(a, "POST_VERIFIED")
      PROVE (ViewsComplete /\ HeadStarted /\ MarkerNewest)'
  <2>1. /\ head.digest = attempts[a].result /\ head.generation = attempts[a].base + 1
        /\ head' = [head EXCEPT !.last_verified = head.digest]
        /\ views' = [views EXCEPT ![head.digest] = IF @ = None THEN a ELSE @]
        /\ attempts[a].state # "ABSENT"
    BY <1>5 DEF MovesTo, Predecessor
  <2>2. \A b \in Attempt : /\ Reached(b, "POST_VERIFIED")' <=> (Reached(b, "POST_VERIFIED") \/ b = a)
                           /\ attempts'[b].result = attempts[b].result
                           /\ attempts'[b].base = attempts[b].base
    BY <1>5 DEF MovesTo, Reached
  <2>3. attempts[a].result \in Digest
    BY <2>1, RecordTypes
  <2>4. head'.digest = head.digest /\ head'.generation = head.generation
        /\ head'.last_verified = head.digest
    BY <2>1 DEF BackendInv, TypeOK
  <2>5. HeadStarted'
    BY <1>1, <2>4 DEF HeadStarted
  <2>6. /\ views'[attempts[a].result] # None
        /\ \A d : views[d] # None => views'[d] # None
    BY <2>1, <2>3, NoneAssumption DEF BackendInv, TypeOK
  <2>7. ViewsComplete'
    BY <1>1, <2>2, <2>6 DEF ViewsComplete
  <2>8. \A b \in Attempt : Reached(b, "POST_VERIFIED") => attempts[b].base <= attempts[a].base
    <3> SUFFICES ASSUME NEW b \in Attempt, Reached(b, "POST_VERIFIED")
                 PROVE  attempts[b].base <= attempts[a].base
      OBVIOUS
    <3>1. attempts[b].base + 1 <= head.generation
      BY DEF BackendInv, RecordComplete, BaseBehindHead, Reached
    <3> QED BY <2>1, <3>1, RecordTypes
  <2>9. MarkerNewest'
    <3>1. attempts[a].base <= attempts[a].base
      BY RecordTypes
    <3> QED BY <2>1, <2>2, <2>4, <2>8, <3>1 DEF MarkerNewest
  <2> QED BY <2>5, <2>7, <2>9
<1>6. ASSUME NEW a \in Attempt, Failed(a) PROVE (ViewsComplete /\ HeadStarted /\ MarkerNewest)'
  BY <1>2, <1>6, FailedRecord DEF Failed, Reached
<1>7. ASSUME NEW a \in Attempt, Created(a) PROVE (ViewsComplete /\ HeadStarted /\ MarkerNewest)'
  <2>1. ~Reached(a, "POST_VERIFIED") /\ ~Reached(a, "POST_VERIFIED")'
    BY <1>7, RecordTypes DEF Created, Exists, Reached
  <2> QED BY <1>2, <1>7, <2>1 DEF Created, Reached
<1>8. ASSUME NEW a \in Attempt, NEW p \in Attempt, Adopts(a, p)
      PROVE (ViewsComplete /\ HeadStarted /\ MarkerNewest)'
  <2>1. ~Reached(a, "POST_VERIFIED") /\ ~Reached(a, "POST_VERIFIED")'
    BY <1>8, RecordTypes DEF Adopts, Exists, Reached
  <2> QED BY <1>2, <1>8, <2>1 DEF Adopts, Reached
<1>9. ASSUME UNCHANGED <<head, attempts, consumed, views>>
      PROVE (ViewsComplete /\ HeadStarted /\ MarkerNewest)'
  BY <1>2, <1>9 DEF Reached
<1> QED
  BY <1>3, <1>4, <1>5, <1>6, <1>7, <1>8, <1>9, StepKinds

\* The line of the first publication is kept by a step that neither joins it nor
\* touches the authorizations on it.
LEMMA LineFrame ==
  ASSUME BackendInv, OneLine, head'.generation \in Nat, clock' \in Nat,
         clock <= clock', head.generation <= head'.generation,
         FirstIntent' = FirstIntent,
         \A a \in FirstIntent : /\ attempts'[a].authorization = attempts[a].authorization
                                /\ attempts[a].proofs \subseteq attempts'[a].proofs
                                /\ attempts'[a].base = attempts[a].base,
         \A p \in Attempt : ParentConsumed(p)' <=> ParentConsumed(p)
  PROVE  OneLine'
<1>1. FirstIntent \subseteq Attempt
  BY DEF FirstIntent
<1>2. \A a \in FirstIntent' : /\ "AUTHORIZED" \in attempts'[a].proofs
                              /\ attempts'[a].base + 1 <= head'.generation
  BY <1>1, RecordTypes DEF OneLine
<1>3. \A p \in Attempt : ParentConsumed(p)' => p \in FirstIntent' /\ AuthorityEnded(p)'
  <2> SUFFICES ASSUME NEW p \in Attempt, ParentConsumed(p)
               PROVE  p \in FirstIntent /\ AuthorityEnded(p)'
    OBVIOUS
  <2>1. p \in FirstIntent /\ AuthorityEnded(p) /\ "AUTHORIZED" \in attempts[p].proofs
    BY DEF OneLine
  <2>2. attempts[p].authorization.expires \in Nat /\ clock \in Nat
    BY <2>1, RecordTypes
  <2> QED BY <2>1, <2>2 DEF AuthorityEnded, Fresh
<1>4. \A a, b \in FirstIntent' : ~ParentConsumed(a)' /\ ~ParentConsumed(b)' => a = b
  BY <1>1 DEF OneLine
<1> QED BY <1>2, <1>3, <1>4 DEF OneLine

\* Only the first publisher and the children it leaves join the line.
LEMMA OneLineKept ==
  ASSUME BackendInv, IntentInv, BackendInv', Next
  PROVE  OneLine'
<1>1. OneLine /\ HeadStarted /\ \A a \in Attempt : ChainBound(attempts[a]) /\ ChildBound(attempts[a])
  BY DEF IntentInv
<1>2. \A a \in FirstIntent : /\ a \in Attempt /\ Exists(a)
                             /\ "AUTHORIZED" \in attempts[a].proofs
                             /\ attempts[a].base + 1 <= head.generation
  BY <1>1, RecordTypes DEF FirstIntent, OneLine, Exists, Reached
<1>3. head'.generation \in Nat /\ head.generation \in Nat /\ clock \in Nat
  BY DEF BackendInv, TypeOK
<1>4. ASSUME NEW a \in Attempt, NEW stage \in Stages \ {"PUBLISHED"}, MovesTo(a, stage)
      PROVE  OneLine'
  <2>1. head'.generation = head.generation /\ clock' = clock
    BY <1>4, <1>3 DEF MovesTo, BackendInv, TypeOK
  <2>2. FirstIntent' = FirstIntent
    BY <1>4 DEF MovesTo, FirstIntent, Reached, Stages
  <2>3. \A b \in FirstIntent : /\ attempts'[b].authorization = attempts[b].authorization
                               /\ attempts[b].proofs \subseteq attempts'[b].proofs
                               /\ attempts'[b].base = attempts[b].base
    BY <1>2, <1>4 DEF MovesTo
  <2>4. \A p \in Attempt : ParentConsumed(p)' <=> ParentConsumed(p)
    BY <1>4 DEF MovesTo, ParentConsumed
  <2> QED BY <1>1, <1>3, <2>1, <2>2, <2>3, <2>4, LineFrame
<1>5. ASSUME NEW a \in Attempt, MovesTo(a, "PUBLISHED") PROVE OneLine'
  <2> DEFINE r == attempts[a]
  <2>1. /\ clock' = clock /\ consumed' = consumed
        /\ head'.generation = r.base + 1
        /\ \A b \in Attempt : b # a => attempts'[b] = attempts[b]
        /\ attempts'[a].proofs = r.proofs \cup {"PUBLISHED"}
        /\ attempts'[a].authorization = r.authorization
        /\ attempts'[a].previous = r.previous /\ attempts'[a].base = r.base
        /\ Fresh(r.authorization.expires)
        /\ IF r.operation = "resume-first" THEN UnverifiedFirst(r) /\ head' = head ELSE AtBase(r)
        /\ r.state = "REMOTE_VERIFIED"
    BY <1>5 DEF MovesTo, Predecessor
  <2>2. "AUTHORIZED" \in r.proofs
    <3>1. "REMOTE_VERIFIED" \in r.proofs
      BY <2>1, RecordTypes DEF Stages
    <3> QED BY <3>1, <1>1, ChainOrder
  <2>3. head.generation <= head'.generation
    BY <2>1, <1>3, RecordTypes DEF AtBase
  <2>4. \A b \in Attempt : /\ attempts'[b].authorization = attempts[b].authorization
                           /\ attempts[b].proofs \subseteq attempts'[b].proofs
                           /\ attempts'[b].base = attempts[b].base
    BY <2>1
  <2>5. \A p \in Attempt : ParentConsumed(p)' <=> ParentConsumed(p)
    BY <2>1 DEF ParentConsumed
  <2>6. CASE FirstIntent' = FirstIntent
    BY <1>1, <1>2, <1>3, <2>1, <2>3, <2>4, <2>5, <2>6, LineFrame
  <2>7. CASE r.operation = "resume-first"
    <3>1. r.previous = None /\ Reached(a, "REAUTHORIZED")
      BY <1>1, <2>7 DEF ChildBound, Reached
    <3>2. FirstIntent' = FirstIntent
      BY <2>1, <3>1 DEF FirstIntent, Reached
    <3> QED BY <2>6, <3>2
  <2>8. CASE r.previous # None
    <3>1. FirstIntent' = FirstIntent
      BY <2>1, <2>8 DEF FirstIntent, Reached
    <3> QED BY <2>6, <3>1
  <2>9. CASE r.operation # "resume-first" /\ r.previous = None
    <3>1. head.generation = 0
      BY <1>1, <2>1, <2>9 DEF AtBase, HeadStarted
    <3>2. FirstIntent = {}
      <4> SUFFICES ASSUME NEW b \in FirstIntent PROVE FALSE
        OBVIOUS
      <4>1. attempts[b].base + 1 <= 0 /\ attempts[b].base \in Nat
        BY <1>2, <3>1, RecordTypes
      <4> QED BY <4>1
    <3>3. FirstIntent' \subseteq {a}
      BY <2>1, <3>2 DEF FirstIntent, Reached
    <3>4. \A p \in Attempt : ~ParentConsumed(p)'
      BY <1>1, <2>5, <3>2 DEF OneLine
    <3>5. "AUTHORIZED" \in attempts'[a].proofs /\ attempts'[a].base + 1 <= head'.generation
      BY <1>3, <2>1, <2>2
    <3> QED BY <3>3, <3>4, <3>5 DEF OneLine
  <2> QED BY <2>7, <2>8, <2>9
<1>6. ASSUME NEW a \in Attempt, Failed(a) PROVE OneLine'
  <2>1. \A b \in Attempt : /\ attempts'[b].authorization = attempts[b].authorization
                           /\ attempts'[b].proofs = attempts[b].proofs
                           /\ attempts'[b].previous = attempts[b].previous
                           /\ attempts'[b].base = attempts[b].base
    BY <1>6, FailedRecord DEF Failed
  <2>2. FirstIntent' = FirstIntent
    BY <2>1 DEF FirstIntent, Reached
  <2>3. head' = head /\ clock' = clock /\ consumed' = consumed
    BY <1>6 DEF Failed
  <2> QED BY <1>1, <1>2, <1>3, <2>1, <2>2, <2>3, LineFrame DEF ParentConsumed
<1>7. ASSUME NEW a \in Attempt, Created(a) PROVE OneLine'
  <2>1. a \notin FirstIntent
    BY <1>2, <1>7 DEF Created
  <2>2. FirstIntent' = FirstIntent
    BY <1>7, <2>1 DEF Created, FirstIntent, Reached
  <2>3. \A b \in FirstIntent : attempts'[b] = attempts[b]
    BY <1>2, <1>7, <2>1 DEF Created
  <2> QED BY <1>1, <1>3, <1>7, <2>2, <2>3, LineFrame DEF Created, ParentConsumed
<1>8. ASSUME NEW a \in Attempt, NEW p \in Attempt, Adopts(a, p) PROVE OneLine'
  <2>1. p \in FirstIntent
    BY <1>1, <1>8 DEF Adopts, ResumeBinding, FirstIntent, ChildBound, Reached
  <2>2. a \notin FirstIntent /\ ~ParentConsumed(a)
    BY <1>1, <1>2, <1>8 DEF Adopts, OneLine
  <2>3. FirstIntent' = FirstIntent \cup {a}
    BY <1>8 DEF Adopts, FirstIntent, Reached
  <2>4. \A b \in FirstIntent : b \in Attempt /\ attempts'[b] = attempts[b]
    BY <1>2, <1>8, <2>2 DEF Adopts
  <2>5. \A b \in Attempt : ParentConsumed(b)' <=> (ParentConsumed(b) \/ b = p)
    BY <1>8 DEF Adopts, ParentConsumed
  <2>6. a # p /\ ~ParentConsumed(p) /\ head' = head /\ clock' = clock /\ AuthorityEnded(p)
    BY <1>8 DEF Adopts
  <2>7. \A b \in FirstIntent' : /\ "AUTHORIZED" \in attempts'[b].proofs
                                /\ attempts'[b].base + 1 <= head'.generation
    BY <1>2, <1>8, <2>1, <2>3, <2>4, <2>6 DEF Adopts
  <2>8. \A b \in Attempt : ParentConsumed(b)' => b \in FirstIntent' /\ AuthorityEnded(b)'
    BY <1>1, <2>1, <2>3, <2>4, <2>5, <2>6 DEF OneLine, AuthorityEnded, Fresh
  <2>9. \A b, c \in FirstIntent' : ~ParentConsumed(b)' /\ ~ParentConsumed(c)' => b = c
    BY <1>1, <2>1, <2>3, <2>4, <2>5, <2>6 DEF OneLine
  <2> QED BY <2>7, <2>8, <2>9 DEF OneLine
<1>9. ASSUME UNCHANGED <<head, attempts, consumed>>, clock' \in Nat, clock <= clock' PROVE OneLine'
  <2>1. FirstIntent' = FirstIntent
    BY <1>9 DEF FirstIntent, Reached
  <2> QED BY <1>1, <1>3, <1>9, <2>1, LineFrame DEF ParentConsumed
<1> QED
  BY <1>4, <1>5, <1>6, <1>7, <1>8, <1>9, StepKinds

\* A first generation that nobody has verified never loses the end of its line.
LEMMA FirstResumableKept ==
  ASSUME BackendInv, IntentInv, BackendInv', Next
  PROVE  FirstResumable'
<1> SUFFICES ASSUME head'.digest # None, head'.last_verified = None
             PROVE  \E p \in FirstIntent' : ResumeBinding(p)' /\ ~ParentConsumed(p)'
  BY DEF FirstResumable
<1>1. /\ OneLine /\ HeadStarted /\ MarkerNewest /\ FirstResumable
      /\ \A a \in Attempt : ChainBound(attempts[a]) /\ ChildBound(attempts[a])
  BY DEF IntentInv
<1>2. \A a \in FirstIntent : /\ a \in Attempt /\ Exists(a)
                             /\ attempts[a].base + 1 <= head.generation
  BY <1>1, RecordTypes DEF FirstIntent, OneLine, Exists, Reached
<1>3. \A p \in Attempt : ResumeBinding(p)' => p \in FirstIntent'
  <2>1. \A p \in Attempt : ChildBound(attempts[p])'
    BY RecordsBound
  <2> QED BY <2>1 DEF ResumeBinding, FirstIntent, ChildBound, Reached
\* While the head stays, so does the end of its line.
<1>4. ASSUME head' = head,
             \A p \in Attempt : ResumeBinding(p) /\ ~ParentConsumed(p) =>
                                  ResumeBinding(p)' /\ ~ParentConsumed(p)'
      PROVE  \E p \in FirstIntent' : ResumeBinding(p)' /\ ~ParentConsumed(p)'
  BY <1>1, <1>2, <1>3, <1>4 DEF FirstResumable
<1>5. ASSUME NEW a \in Attempt, NEW stage \in Stages \ {"PUBLISHED", "POST_VERIFIED"}, MovesTo(a, stage)
      PROVE  \E p \in FirstIntent' : ResumeBinding(p)' /\ ~ParentConsumed(p)'
  <2>1. head' = head /\ \A p \in Attempt : ParentConsumed(p)' <=> ParentConsumed(p)
    BY <1>5 DEF MovesTo, ParentConsumed
  <2>2. ASSUME NEW p \in Attempt, ResumeBinding(p), p # a PROVE ResumeBinding(p)'
    <3>1. attempts'[p] = attempts[p]
      BY <1>5, <2>2 DEF MovesTo
    <3> QED BY <2>1, <2>2, <3>1 DEF ResumeBinding, Reached, UnverifiedFirst
  <2>3. ASSUME ResumeBinding(a) PROVE ResumeBinding(a)'
    <3>1. /\ attempts[a].state = Predecessor[stage]
          /\ attempts'[a].state = stage /\ attempts'[a].operation = attempts[a].operation
          /\ attempts'[a].proofs = attempts[a].proofs \cup {stage}
          /\ attempts'[a].previous = attempts[a].previous
          /\ attempts'[a].result = attempts[a].result /\ attempts'[a].base = attempts[a].base
      BY <1>5 DEF MovesTo
    <3>2. stage \in {"SIGNED", "STAGED", "REMOTE_VERIFIED"}
      BY <1>5, <2>3, <3>1 DEF ResumeBinding, Predecessor, Stages
    <3> QED BY <2>1, <2>3, <3>1, <3>2 DEF ResumeBinding, Reached, UnverifiedFirst
  <2> QED BY <1>4, <2>1, <2>2, <2>3
<1>6. ASSUME NEW a \in Attempt, MovesTo(a, "PUBLISHED")
      PROVE  \E p \in FirstIntent' : ResumeBinding(p)' /\ ~ParentConsumed(p)'
  <2> DEFINE r == attempts[a]
  <2>1. /\ consumed' = consumed
        /\ head'.generation = r.base + 1 /\ head'.digest = r.result
        /\ head'.last_verified = head.last_verified
        /\ \A b \in Attempt : b # a => attempts'[b] = attempts[b]
        /\ attempts'[a].state = "PUBLISHED" /\ attempts'[a].operation = r.operation
        /\ attempts'[a].proofs = r.proofs \cup {"PUBLISHED"}
        /\ attempts'[a].previous = r.previous /\ attempts'[a].base = r.base
        /\ attempts'[a].result = r.result
        /\ IF r.operation = "resume-first" THEN UnverifiedFirst(r) /\ head' = head ELSE AtBase(r)
        /\ r.state = "REMOTE_VERIFIED"
    BY <1>6 DEF MovesTo, Predecessor
  <2>2. \A p \in Attempt : ParentConsumed(p)' <=> ParentConsumed(p)
    BY <2>1 DEF ParentConsumed
  <2>3. CASE r.operation = "resume-first"
    <3>1. ASSUME NEW p \in Attempt, ResumeBinding(p) PROVE ResumeBinding(p)'
      <4>1. CASE p = a
        BY <2>1, <2>3, <3>1, <4>1 DEF ResumeBinding, Reached, UnverifiedFirst
      <4>2. CASE p # a
        BY <2>1, <2>3, <3>1, <4>2 DEF ResumeBinding, Reached, UnverifiedFirst
      <4> QED BY <4>1, <4>2
    <3> QED BY <1>4, <2>1, <2>2, <2>3, <3>1
  <2>4. CASE r.operation # "resume-first" /\ head.digest = None
    <3>1. r.previous = None /\ head.generation = 0 /\ r.base = 0
      BY <1>1, <2>1, <2>4 DEF AtBase, HeadStarted
    <3>2. ~ParentConsumed(a)
      BY <1>1, <1>2, <3>1, RecordTypes DEF OneLine
    <3>3. head' = [digest |-> r.result, generation |-> r.base + 1, last_verified |-> None]
      BY <2>1 DEF BackendInv, TypeOK
    <3>4. ResumeBinding(a)'
      BY <2>1, <2>4, <3>1, <3>3 DEF ResumeBinding, Reached, UnverifiedFirst
    <3> QED BY <1>3, <2>2, <3>2, <3>4
  <2>5. CASE r.operation # "resume-first" /\ head.digest # None
    <3>1. /\ Exists(a) /\ r.base = head.generation /\ r.result \in Digest
          /\ r.operation \in {"promote", "recover"} /\ head.last_verified = None
      BY <2>1, <2>5, RecordTypes DEF Exists, AtBase, AttemptRecord, Operations
    <3>2. r.operation = "recover"
      BY <2>5, <3>1 DEF BackendInv, BaseIsCurrent
    <3>3. views[r.result] \in Attempt /\ Reached(views[r.result], "POST_VERIFIED")
      BY <3>1, <3>2, RecordTypes DEF BackendInv, ViewsRest
    <3>4. \A b \in Attempt : ~Reached(b, "POST_VERIFIED")
      <4> SUFFICES ASSUME NEW b \in Attempt, Reached(b, "POST_VERIFIED"),
                          attempts[b].result = None
                   PROVE  FALSE
        BY <1>1, <3>1 DEF MarkerNewest
      <4> QED BY RecordTypes, NoneAssumption DEF Reached
    <3> QED BY <3>3, <3>4
  <2> QED BY <2>3, <2>4, <2>5
<1>7. ASSUME NEW a \in Attempt, MovesTo(a, "POST_VERIFIED") PROVE FALSE
  <2>1. attempts[a].result \in Digest /\ head.digest = attempts[a].result
    BY <1>7, RecordTypes DEF MovesTo, Predecessor
  <2>2. head'.last_verified = head.digest
    BY <1>7 DEF MovesTo, BackendInv, TypeOK
  <2> QED BY <2>1, <2>2, NoneAssumption
<1>8. ASSUME NEW a \in Attempt, Failed(a)
      PROVE  \E p \in FirstIntent' : ResumeBinding(p)' /\ ~ParentConsumed(p)'
  <2>1. \A b \in Attempt : /\ attempts'[b].previous = attempts[b].previous
                           /\ attempts'[b].proofs = attempts[b].proofs
                           /\ attempts'[b].operation = attempts[b].operation
                           /\ attempts'[b].result = attempts[b].result
                           /\ attempts'[b].base = attempts[b].base
                           /\ attempts'[b].state \in {attempts[b].state, "FAILED"}
    BY <1>8, FailedRecord DEF Failed
  <2>2. head' = head /\ consumed' = consumed
    BY <1>8 DEF Failed
  <2>3. \A p \in Attempt : ResumeBinding(p) => ResumeBinding(p)'
    BY <2>1, <2>2 DEF ResumeBinding, Reached, UnverifiedFirst
  <2> QED BY <1>4, <2>2, <2>3 DEF ParentConsumed
<1>9. ASSUME NEW a \in Attempt, Created(a)
      PROVE  \E p \in FirstIntent' : ResumeBinding(p)' /\ ~ParentConsumed(p)'
  <2>1. /\ head' = head /\ consumed' = consumed /\ attempts[a].state = "ABSENT"
        /\ \A b \in Attempt : b # a => attempts'[b] = attempts[b]
    BY <1>9 DEF Created, Exists
  <2>2. \A p \in Attempt : ResumeBinding(p) => ResumeBinding(p)'
    BY <2>1 DEF ResumeBinding, Reached, UnverifiedFirst
  <2> QED BY <1>4, <2>1, <2>2 DEF ParentConsumed
<1>10. ASSUME NEW a \in Attempt, NEW p \in Attempt, Adopts(a, p)
       PROVE  \E q \in FirstIntent' : ResumeBinding(q)' /\ ~ParentConsumed(q)'
  <2>1. ResumeBinding(a)'
    BY <1>10 DEF Adopts, ResumeBinding, Reached, UnverifiedFirst
  <2>2. ~ParentConsumed(a)
    BY <1>1, <1>2, <1>10 DEF Adopts, OneLine
  <2>3. ~ParentConsumed(a)'
    BY <1>10, <2>2 DEF Adopts, ParentConsumed
  <2> QED BY <1>3, <2>1, <2>3
<1>11. ASSUME UNCHANGED <<head, attempts, consumed>>
       PROVE  \E p \in FirstIntent' : ResumeBinding(p)' /\ ~ParentConsumed(p)'
  BY <1>4, <1>11 DEF ResumeBinding, Reached, UnverifiedFirst, ParentConsumed
<1> QED
  BY <1>5, <1>6, <1>7, <1>8, <1>9, <1>10, <1>11, StepKinds

\* The chain of proofs, the newest verified generation and the line of the first
\* publication hold in every reachable state.
THEOREM IntentInvariant == Spec => [](BackendInv /\ IntentInv)
<1>1. Init => IntentInv
  <2> SUFFICES ASSUME Init PROVE IntentInv
    OBVIOUS
  <2>1. /\ Absent.state = "ABSENT" /\ Absent.proofs = {} /\ Absent.operation = "promote"
    BY DEF Absent
  <2>2. /\ \A a \in Attempt : attempts[a] = Absent
        /\ head.generation = 0 /\ head.digest = None /\ head.last_verified = None
        /\ consumed = {}
    BY DEF Init
  <2>3. \A a \in Attempt : ChainBound(attempts[a]) /\ ChildBound(attempts[a])
    BY <2>1, <2>2 DEF ChainBound, ChildBound
  <2>4. ViewsComplete /\ HeadStarted /\ MarkerNewest
    BY <2>1, <2>2 DEF ViewsComplete, HeadStarted, MarkerNewest, Reached
  <2>5. OneLine /\ FirstResumable
    BY <2>1, <2>2 DEF OneLine, FirstResumable, FirstIntent, ParentConsumed, Reached
  <2> QED BY <2>3, <2>4, <2>5 DEF IntentInv
<1>2. BackendInv /\ BackendInv' /\ IntentInv /\ [Next]_vars => IntentInv'
  <2> SUFFICES ASSUME BackendInv, BackendInv', IntentInv, [Next]_vars PROVE IntentInv'
    OBVIOUS
  <2>1. CASE UNCHANGED vars
    <3>1. FirstIntent' = FirstIntent
      BY <2>1 DEF vars, FirstIntent, Reached
    <3>2. UNCHANGED <<head, attempts, consumed, views, clock>>
      BY <2>1 DEF vars
    <3> QED BY <3>1, <3>2 DEF IntentInv, ChainBound, ChildBound, ViewsComplete, HeadStarted,
                MarkerNewest, OneLine, FirstResumable, ParentConsumed, Reached, AuthorityEnded,
                Fresh, ResumeBinding, UnverifiedFirst
  <2>2. CASE Next
    <3>1. \A a \in Attempt : ChainBound(attempts[a])' /\ ChildBound(attempts[a])'
      BY <2>2, RecordsBound
    <3> QED BY <2>2, <3>1, MarkerKept, OneLineKept, FirstResumableKept DEF IntentInv
  <2> QED BY <2>1, <2>2
<1> QED BY <1>1, <1>2, BackendInvariant, PTL DEF Spec

-----------------------------------------------------------------------------
(* What the invariants say of the ledger.                                  *)

\* A generation lists the result of each of its publishers.
ResultsListed ==
  \A a \in Attempt : Reached(a, "PUBLISHED") =>
    /\ attempts[a].base + 1 \in 1 .. head.generation
    /\ History[attempts[a].base + 1] = attempts[a].result

LEMMA HistoryOf == BackendInv => ResultsListed
<1> SUFFICES ASSUME BackendInv, NEW a \in Attempt, Reached(a, "PUBLISHED")
             PROVE  /\ attempts[a].base + 1 \in 1 .. head.generation
                    /\ History[attempts[a].base + 1] = attempts[a].result
  BY DEF ResultsListed
<1> DEFINE g == attempts[a].base + 1
           b == CHOOSE c \in Advertised(g) : TRUE
<1>1. g \in 1 .. head.generation
  BY RecordTypes DEF BackendInv, BaseBehindHead
<1>2. a \in Advertised(g)
  BY DEF Advertised
<1>3. b \in Advertised(g)
  BY <1>2
<1>4. attempts[b].result = attempts[a].result
  <2>1. /\ b \in Attempt /\ Reached(b, "PUBLISHED") /\ attempts[b].base + 1 = attempts[a].base + 1
    BY <1>3 DEF Advertised
  <2>2. attempts[b].base = attempts[a].base
    BY <2>1, RecordTypes
  <2> QED BY <2>1, <2>2 DEF BackendInv, GenerationOwned
<1>5. History[g] = attempts[b].result
  BY <1>1, <1>2 DEF History
<1> QED BY <1>1, <1>4, <1>5

\* Each generation has a publisher.
LEMMA PublisherOf ==
  BackendInv => \A g \in 1 .. head.generation : \E a \in Attempt :
                  Reached(a, "PUBLISHED") /\ attempts[a].base + 1 = g
BY DEF BackendInv, GenerationOwned, Advertised

\* The newest generation is the head.
LEMMA TipIsHead ==
  ASSUME BackendInv, HeadStarted
  PROVE  Stable!Tip = head.generation /\ Stable!Current = head.digest
<1>1. head.generation \in Nat /\ Stable!Generations = 1 .. head.generation
  BY DEF BackendInv, TypeOK, Stable!Generations, History
<1>2. CASE head.generation = 0
  BY <1>1, <1>2 DEF HeadStarted, Stable!Tip, Stable!Current
<1>3. CASE head.generation > 0
  <2> DEFINE Top(g) == g \in 1 .. head.generation /\ \A h \in 1 .. head.generation : h <= g
  <2>1. Top(head.generation) /\ \A g : Top(g) => g = head.generation
    BY <1>1, <1>3
  <2>2. (CHOOSE g \in 1 .. head.generation : \A h \in 1 .. head.generation : h <= g)
          = head.generation
    BY <2>1
  <2>3. 1 .. head.generation # {}
    BY <1>1, <1>3
  <2>4. Stable!Tip = head.generation
    BY <1>1, <2>2, <2>3 DEF Stable!Tip
  <2>5. PICK a \in Attempt : Reached(a, "PUBLISHED") /\ attempts[a].base + 1 = head.generation
    BY <1>1, <1>3, PublisherOf
  <2>6. History[head.generation] = attempts[a].result
    BY <2>5, HistoryOf DEF ResultsListed
  <2>7. attempts[a].result = head.digest
    BY <2>5 DEF BackendInv, GenerationOwned, Advertised
  <2> QED BY <1>3, <2>4, <2>6, <2>7 DEF Stable!Current
<1> QED BY <1>1, <1>2, <1>3

\* The marker is what the abstract head calls the last confirmed digest.
LEMMA MarkerIsLast ==
  ASSUME BackendInv, IntentInv
  PROVE  head.last_verified = Stable!LastConfirmed
<1>1. MarkerNewest
  BY DEF IntentInv
<1>2. CASE \A a \in Attempt : ~Reached(a, "POST_VERIFIED")
  <2>1. Confirmed = {}
    BY <1>2 DEF Confirmed
  <2> QED BY <1>1, <1>2, <2>1 DEF MarkerNewest, Stable!LastConfirmed
<1>3. ASSUME NEW a \in Attempt, Reached(a, "POST_VERIFIED"),
             attempts[a].result = head.last_verified,
             \A b \in Attempt : Reached(b, "POST_VERIFIED") => attempts[b].base <= attempts[a].base
      PROVE  head.last_verified = Stable!LastConfirmed
  <2> DEFINE g == attempts[a].base + 1
  <2>1. g \in Confirmed /\ Confirmed \subseteq Nat
    BY <1>3, RecordTypes DEF Confirmed
  <2>2. \A i \in Confirmed : i <= g
    BY <1>3, RecordTypes DEF Confirmed
  <2>3. ASSUME NEW h \in Confirmed, \A i \in Confirmed : i <= h PROVE h = g
    <3>1. h \in Nat /\ g \in Nat /\ h <= g /\ g <= h
      BY <2>1, <2>2, <2>3
    <3> QED BY <3>1
  <2>4. (CHOOSE h \in Confirmed : \A i \in Confirmed : i <= h) = g
    <3> HIDE DEF g
    <3> QED BY <2>1, <2>2, <2>3
  <2>5. Reached(a, "PUBLISHED")
    BY <1>3 DEF BackendInv, RecordComplete, Reached
  <2>6. History[g] = attempts[a].result
    BY <2>5, HistoryOf DEF ResultsListed
  <2> QED BY <1>3, <2>1, <2>4, <2>6 DEF Stable!LastConfirmed
<1> QED BY <1>1, <1>2, <1>3 DEF MarkerNewest

\* The verified marker never names anything but the newest verified generation,
\* however many publications and recoveries have moved the head on since.
THEOREM MarkerIsNewest == Spec => []MarkerIsNewestConfirmed
<1>1. BackendInv /\ IntentInv => MarkerIsNewestConfirmed
  BY MarkerIsLast DEF MarkerIsNewestConfirmed
<1> QED BY <1>1, IntentInvariant, PTL

\* Every view was verified before and after its publication, under the one
\* authorization its attempt consumed.
THEOREM ViewsConfirmed == Spec => []ViewsAreConfirmed
<1>1. BackendInv /\ IntentInv => ViewsAreConfirmed
  <2> SUFFICES ASSUME BackendInv, IntentInv PROVE ViewsAreConfirmed
    OBVIOUS
  <2>1. \A d \in Digest : views[d] # None =>
          views[d] \in Attempt /\ Reached(views[d], "POST_VERIFIED") /\ attempts[views[d]].result = d
    BY DEF BackendInv, TypeOK, ViewsRest
  <2>2. \A a \in Attempt : Reached(a, "POST_VERIFIED") => views[attempts[a].result] # None
    BY DEF IntentInv, ViewsComplete
  <2>3. ASSUME NEW a \in Attempt, Reached(a, "POST_VERIFIED")
        PROVE  /\ attempts[a].post.publication = attempts[a].authorization
               /\ attempts[a].pre.publication = attempts[a].authorization
               /\ attempts[a].post.generation = attempts[a].base + 1
    BY <2>3, ChainOrder DEF IntentInv, ChainBound, Reached
  <2> QED BY <2>1, <2>2, <2>3 DEF ViewsAreConfirmed
<1> QED BY <1>1, IntentInvariant, PTL

\* No chain of resumptions, failures and delays leaves two attempts with a live
\* authority over the first publication.
THEOREM AuthorityUnforked == Spec => []AuthorityNotForked
<1>1. IntentInv => AuthorityNotForked
  BY DEF IntentInv, OneLine, AuthorityNotForked, AuthorityEnded, FirstIntent
<1> QED BY <1>1, IntentInvariant, PTL

\* Whatever blocks promotion, the ledger holds the attempt to resume or the view
\* to recover to.
THEOREM AlwaysAWayOut == Spec => []WayOut
<1>1. BackendInv /\ IntentInv => WayOut
  BY DEF BackendInv, IntentInv, ViewsRest, FirstResumable, ParentConsumed, WayOut
<1> QED BY <1>1, IntentInvariant, PTL

\* The head is never swapped on evidence that has expired.
THEOREM PublishedFresh == Spec => PublishedWhileFresh
<1>1. BackendInv /\ IntentInv /\ [Next]_vars =>
        [\A a \in Attempt :
           (Reached(a, "PUBLISHED")' /\ ~Reached(a, "PUBLISHED")) => Fresh(attempts[a].evidence)]_vars
  <2> SUFFICES ASSUME BackendInv, IntentInv, Next, NEW a \in Attempt,
                      Reached(a, "PUBLISHED")', ~Reached(a, "PUBLISHED")
               PROVE  Fresh(attempts[a].evidence)
    OBVIOUS
  <2>1. MovesTo(a, "PUBLISHED")
    <3>1. attempts'[a].proofs # attempts[a].proofs /\ "PUBLISHED" \in attempts'[a].proofs
      BY DEF Reached
    <3>2. ~(UNCHANGED attempts) /\ ~\E b \in Attempt : Failed(b) \/ Created(b)
      <4>1. ASSUME NEW b \in Attempt, Failed(b) PROVE FALSE
        <5>1. attempts'[b].proofs = attempts[b].proofs
          BY <4>1, FailedRecord
        <5>2. \A c \in Attempt : c # b => attempts'[c] = attempts[c]
          BY <4>1 DEF Failed
        <5> QED BY <3>1, <5>1, <5>2
      <4>2. ASSUME NEW b \in Attempt, Created(b) PROVE FALSE
        BY <3>1, <4>2 DEF Created
      <4> QED BY <3>1, <4>1, <4>2
    <3>3. ~\E b, p \in Attempt : Adopts(b, p)
      BY <3>1 DEF Adopts
    <3>4. PICK b \in Attempt, stage \in Stages : MovesTo(b, stage)
      BY <3>2, <3>3, StepKinds
    <3>5. b = a /\ stage = "PUBLISHED"
      BY <3>1, <3>4 DEF MovesTo, Reached
    <3> QED BY <3>4, <3>5
  <2>2. Fresh(attempts[a].authorization.expires) /\ attempts[a].state = "REMOTE_VERIFIED"
    BY <2>1 DEF MovesTo, Predecessor
  <2>3. "AUTHORIZED" \in attempts[a].proofs
    <3>1. "REMOTE_VERIFIED" \in attempts[a].proofs
      BY <2>2, RecordTypes DEF Stages
    <3> QED BY <3>1, ChainOrder DEF IntentInv
  <2>4. attempts[a].authorization.expires <= attempts[a].evidence
    BY <2>3 DEF IntentInv, ChainBound
  <2> QED BY <2>2, <2>3, <2>4, RecordTypes DEF Fresh
<1> QED BY <1>1, IntentInvariant, PTL DEF Spec, PublishedWhileFresh

-----------------------------------------------------------------------------
(* The ledger implements the stable head.                                  *)

\* A step that publishes nothing new keeps the history.
LEMMA HistoryFrame ==
  ASSUME BackendInv, BackendInv', head'.generation = head.generation,
         \A a \in Attempt : Reached(a, "PUBLISHED") =>
           /\ Reached(a, "PUBLISHED")'
           /\ attempts'[a].base = attempts[a].base /\ attempts'[a].result = attempts[a].result
  PROVE  History' = History
<1>1. \A g \in 1 .. head.generation : History'[g] = History[g]
  <2> SUFFICES ASSUME NEW g \in 1 .. head.generation PROVE History'[g] = History[g]
    OBVIOUS
  <2>1. PICK a \in Attempt : Reached(a, "PUBLISHED") /\ attempts[a].base + 1 = g
    BY PublisherOf
  <2>2. History[g] = attempts[a].result
    BY <2>1, HistoryOf DEF ResultsListed
  <2>3. BackendInv' => ResultsListed'
    BY HistoryOf, PTL
  <2> QED BY <2>1, <2>2, <2>3 DEF ResultsListed
<1> QED BY <1>1 DEF History

\* A publication that is not a resumption appends its result.
LEMMA HistoryGrows ==
  ASSUME BackendInv, BackendInv', HeadStarted, NEW a \in Attempt, MovesTo(a, "PUBLISHED"),
         attempts[a].operation # "resume-first"
  PROVE  History' = [g \in 1 .. Stable!Tip + 1 |->
                       IF g = Stable!Tip + 1 THEN attempts[a].result ELSE History[g]]
<1>1. /\ head.generation \in Nat /\ attempts[a].base = head.generation
      /\ head'.generation = head.generation + 1
      /\ \A b \in Attempt : b # a => attempts'[b] = attempts[b]
      /\ Reached(a, "PUBLISHED")' /\ ~Reached(a, "PUBLISHED")
      /\ attempts'[a].base = attempts[a].base /\ attempts'[a].result = attempts[a].result
  BY DEF MovesTo, AtBase, Reached, BackendInv, TypeOK
<1>2. BackendInv' => ResultsListed'
  BY HistoryOf, PTL
<1>3. History'[head.generation + 1] = attempts[a].result
  BY <1>1, <1>2 DEF ResultsListed
<1>4. \A g \in 1 .. head.generation : History'[g] = History[g]
  <2> SUFFICES ASSUME NEW g \in 1 .. head.generation PROVE History'[g] = History[g]
    OBVIOUS
  <2>1. PICK b \in Attempt : Reached(b, "PUBLISHED") /\ attempts[b].base + 1 = g
    BY PublisherOf
  <2>2. History[g] = attempts[b].result /\ b # a
    BY <1>1, <2>1, HistoryOf DEF ResultsListed
  <2>3. Reached(b, "PUBLISHED")' /\ attempts'[b] = attempts[b]
    BY <1>1, <2>1, <2>2 DEF Reached
  <2> QED BY <1>2, <2>1, <2>2, <2>3 DEF ResultsListed
<1>5. Stable!Tip = head.generation
  BY TipIsHead
<1>6. History' = [g \in 1 .. head.generation + 1 |-> History'[g]]
  BY <1>1 DEF History
<1>7. \A g \in 1 .. head.generation + 1 :
        History'[g] = IF g = head.generation + 1 THEN attempts[a].result ELSE History[g]
  BY <1>1, <1>3, <1>4
<1> QED BY <1>5, <1>6, <1>7

\* Nothing but a verification after publication confirms a generation.
LEMMA ConfirmedFrame ==
  ASSUME \A a \in Attempt : Reached(a, "POST_VERIFIED")' <=> Reached(a, "POST_VERIFIED"),
         \A a \in Attempt : Reached(a, "POST_VERIFIED") => attempts'[a].base = attempts[a].base
  PROVE  Confirmed' = Confirmed
BY DEF Confirmed

\* A publication that is not a resumption is a promotion or a recovery.
LEMMA PublicationRefines ==
  ASSUME BackendInv, BackendInv', IntentInv, NEW a \in Attempt, MovesTo(a, "PUBLISHED"),
         attempts[a].operation # "resume-first"
  PROVE  Stable!Next
<1> DEFINE r == attempts[a]
<1>1. /\ r.result \in Digest /\ r.operation \in {"promote", "recover"}
      /\ Exists(a) /\ r.base = head.generation
  BY RecordTypes DEF MovesTo, Predecessor, Exists, AtBase, AttemptRecord, Operations
<1>2. HeadStarted
  BY DEF IntentInv
<1>3. History' = [g \in 1 .. Stable!Tip + 1 |->
                    IF g = Stable!Tip + 1 THEN r.result ELSE History[g]]
  BY <1>2, HistoryGrows
<1>4. Confirmed' = Confirmed
  <2>1. \A b \in Attempt : /\ Reached(b, "POST_VERIFIED")' <=> Reached(b, "POST_VERIFIED")
                           /\ attempts'[b].base = attempts[b].base
    BY DEF MovesTo, Reached
  <2> QED BY <2>1, ConfirmedFrame
<1>5. CASE r.operation = "promote"
  <2>1. head.digest = head.last_verified
    BY <1>1, <1>5 DEF BackendInv, BaseIsCurrent
  <2>2. Stable!Current = Stable!LastConfirmed
    BY <1>2, <2>1, TipIsHead, MarkerIsLast
  <2> QED BY <1>1, <1>3, <1>4, <2>2 DEF Stable!Next, Stable!Promote
<1>6. CASE r.operation = "recover"
  <2>1. PICK v \in Attempt : Reached(v, "POST_VERIFIED") /\ attempts[v].result = r.result
    <3>1. views[r.result] # None /\ views[r.result] \in Attempt
      BY <1>1, <1>6, RecordTypes DEF BackendInv, ViewsRest
    <3> QED BY <1>1, <3>1 DEF BackendInv, ViewsRest
  <2>2. Reached(v, "PUBLISHED")
    BY <2>1 DEF BackendInv, RecordComplete, Reached
  <2>3. attempts[v].base + 1 \in Confirmed /\ History[attempts[v].base + 1] = r.result
    BY <2>1, <2>2, HistoryOf DEF ResultsListed, Confirmed
  <2> QED BY <1>1, <1>3, <1>4, <2>3 DEF Stable!Next, Stable!Recover
<1> QED BY <1>1, <1>5, <1>6

\* A verification after publication confirms the newest generation.
LEMMA VerificationRefines ==
  ASSUME BackendInv, BackendInv', IntentInv, NEW a \in Attempt, MovesTo(a, "POST_VERIFIED")
  PROVE  Stable!Next
<1>1. /\ head.generation = attempts[a].base + 1 /\ head'.generation = head.generation
      /\ \A b \in Attempt : /\ Reached(b, "PUBLISHED")' <=> Reached(b, "PUBLISHED")
                            /\ Reached(b, "POST_VERIFIED")' <=> (Reached(b, "POST_VERIFIED") \/ b = a)
                            /\ attempts'[b].base = attempts[b].base
                            /\ attempts'[b].result = attempts[b].result
  BY DEF MovesTo, Reached, BackendInv, TypeOK
<1>2. History' = History
  BY <1>1, HistoryFrame
<1>3. Stable!Tip = head.generation /\ head.generation > 0
  BY <1>1, TipIsHead, RecordTypes DEF IntentInv
<1>4. Confirmed' = Confirmed \cup {Stable!Tip}
  BY <1>1, <1>3 DEF Confirmed
<1> QED BY <1>2, <1>3, <1>4 DEF Stable!Next, Stable!Confirm

\* The ledger implements the stable head: every operation of every attempt maps
\* to a promotion, a recovery, a confirmation or no step of the abstract head.
THEOREM RefinesStableHead == Spec => ImplementsStableHead
<1>1. Init => Stable!Init
  <2> SUFFICES ASSUME Init PROVE Stable!Init
    OBVIOUS
  <2>1. head.generation = 0 /\ \A a \in Attempt : ~Reached(a, "POST_VERIFIED")
    BY DEF Init, Reached, Absent
  <2>2. Confirmed = {} /\ 1 .. head.generation = {}
    BY <2>1 DEF Confirmed
  <2> QED BY <2>2 DEF Stable!Init, History
<1>2. BackendInv /\ BackendInv' /\ IntentInv /\ [Next]_vars => [Stable!Next]_(Stable!vars)
  <2> SUFFICES ASSUME BackendInv, BackendInv', IntentInv, [Next]_vars
               PROVE  Stable!Next \/ (History' = History /\ Confirmed' = Confirmed)
    BY DEF Stable!vars
  <2>1. ASSUME head'.generation = head.generation,
               \A a \in Attempt : /\ Reached(a, "PUBLISHED") => Reached(a, "PUBLISHED")'
                                  /\ Reached(a, "POST_VERIFIED")' <=> Reached(a, "POST_VERIFIED")
                                  /\ Reached(a, "PUBLISHED") \/ Reached(a, "POST_VERIFIED") =>
                                       /\ attempts'[a].base = attempts[a].base
                                       /\ attempts'[a].result = attempts[a].result
        PROVE  History' = History /\ Confirmed' = Confirmed
    BY <2>1, HistoryFrame, ConfirmedFrame
  <2>2. CASE UNCHANGED vars
    BY <2>1, <2>2 DEF vars, Reached
  <2>3. ASSUME NEW a \in Attempt, NEW stage \in Stages \ {"PUBLISHED", "POST_VERIFIED"}, MovesTo(a, stage)
        PROVE  History' = History /\ Confirmed' = Confirmed
    BY <2>1, <2>3 DEF MovesTo, Reached
  <2>4. ASSUME NEW a \in Attempt, MovesTo(a, "PUBLISHED"), attempts[a].operation = "resume-first"
        PROVE  History' = History /\ Confirmed' = Confirmed
    BY <2>1, <2>4 DEF MovesTo, Reached
  <2>5. ASSUME NEW a \in Attempt, Failed(a) PROVE History' = History /\ Confirmed' = Confirmed
    <3>1. head' = head /\ \A b \in Attempt : b # a => attempts'[b] = attempts[b]
      BY <2>5 DEF Failed
    <3> QED BY <2>1, <2>5, <3>1, FailedRecord DEF Reached
  <2>6. ASSUME NEW a \in Attempt, Created(a) \/ \E p \in Attempt : Adopts(a, p)
        PROVE  History' = History /\ Confirmed' = Confirmed
    <3>1. /\ head' = head /\ attempts[a].proofs = {} /\ ~Reached(a, "POST_VERIFIED")'
          /\ \A b \in Attempt : b # a => attempts'[b] = attempts[b]
      BY <2>6, RecordTypes DEF Created, Adopts, Exists, Reached
    <3> QED BY <2>1, <3>1 DEF Reached
  <2>7. CASE UNCHANGED <<head, attempts>>
    BY <2>1, <2>7 DEF Reached
  <2> QED
    BY <2>2, <2>3, <2>4, <2>5, <2>6, <2>7, PublicationRefines, VerificationRefines, StepKinds
<1> QED
  BY <1>1, <1>2, IntentInvariant, PTL DEF Spec, ImplementsStableHead, Stable!Spec
=============================================================================
