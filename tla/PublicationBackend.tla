------------------------- MODULE PublicationBackend -------------------------
(***************************************************************************)
(* The V3 publication state machine on the durable ledger                  *)
(* (src/tools/v3_publication_backend.py, class Backend).                   *)
(*                                                                         *)
(* Every operation of Backend runs in one serialized database transaction  *)
(* (Ledger.execute), so it is one action here.  What happens between two   *)
(* transactions is what the interleavings of actions range over: other     *)
(* attempts, the passing of time, and remote verifications taken at one    *)
(* moment and submitted at a later one.  A replayed operation changes      *)
(* nothing and a refused one raises before the commit: both are stuttering.*)
(***************************************************************************)
EXTENDS Integers, FiniteSets

CONSTANTS
  Attempt,        \* attempt identifiers a publisher may use
  Digest,         \* identities of complete stable views
  Token,          \* single-use identities of a protected approval (its jwt jti)
  None,           \* Python's None
  Parent,         \* the stable base each signed result names as its parent
  EvidenceLife,   \* seconds an evidence bundle may still be fresh for
  ApprovalLife,   \* seconds an approval may still be fresh for
  Window,         \* seconds a remote verification stays usable (60 in the code)
  MaxRemotes,     \* bound on the remote verifications callers hold at once
  MaxClock        \* bound on the time explored

ASSUME NoneAssumption == None \notin Attempt \cup Digest \cup Token
ASSUME ParentAssumption == Parent \in [Digest -> Digest \cup {None}]
ASSUME TimeAssumption == /\ EvidenceLife \subseteq Nat \ {0}
                         /\ ApprovalLife \subseteq Nat \ {0}
                         /\ Window \in Nat
                         /\ MaxClock \in Nat
                         /\ MaxRemotes \in Nat

VARIABLES
  head,       \* the stable head: digest, generation and last verified digest
  attempts,   \* the attempts table
  consumed,   \* the consumed table: approval tokens and resumed predecessors
  views,      \* the views table: the attempt that first verified each digest
  remotes,    \* RemoteVerification objects held by callers
  clock

vars == <<head, attempts, consumed, views, remotes, clock>>

Stages == {"VERIFIED", "COMPOSED", "TESTED", "AWAITING_APPROVAL", "AUTHORIZED",
           "SIGNED", "STAGED", "REMOTE_VERIFIED", "PUBLISHED", "POST_VERIFIED"}

\* The state an attempt must be in to move to each stage (STATES in the code).
Predecessor ==
  [VERIFIED |-> "PROPOSED", COMPOSED |-> "VERIFIED", TESTED |-> "COMPOSED",
   AWAITING_APPROVAL |-> "TESTED", AUTHORIZED |-> "AWAITING_APPROVAL",
   SIGNED |-> "AUTHORIZED", STAGED |-> "SIGNED", REMOTE_VERIFIED |-> "STAGED",
   PUBLISHED |-> "REMOTE_VERIFIED", POST_VERIFIED |-> "PUBLISHED"]

Operations == {"promote", "recover", "resume-first"}

\* A protected authorization binds the attempt and its evidence; a publication
\* envelope is identified by the authorization it carries.
Authorization == [attempt : Attempt, jti : Token, evidence : Nat, expires : Nat]

RemoteVerification == [phase : {"pre", "post"}, publication : Authorization,
                       result : Digest, at : Nat, generation : Nat]

AttemptRecord ==
  [state : Stages \cup {"ABSENT", "PROPOSED", "FAILED"},
   operation : Operations,
   previous : Digest \cup {None},           \* the stable base of the proposal
   result : Digest \cup {None},             \* the digest it would publish
   base : Nat,                              \* head generation when created
   predecessor : Attempt \cup {None},       \* the attempt a child resumes
   proofs : SUBSET (Stages \cup {"REAUTHORIZED"}),
   evidence : Nat,                          \* the evidence, by its expiry
   authorization : Authorization \cup {None},
   publication : Authorization \cup {None},
   pre : RemoteVerification \cup {None},    \* proof of REMOTE_VERIFIED
   post : RemoteVerification \cup {None},   \* proof of POST_VERIFIED
   failure : Stages \cup {"PROPOSED", None}]

Absent == [state |-> "ABSENT", operation |-> "promote", previous |-> None,
           result |-> None, base |-> 0, predecessor |-> None, proofs |-> {},
           evidence |-> 0, authorization |-> None, publication |-> None,
           pre |-> None, post |-> None, failure |-> None]

TypeOK ==
  /\ head \in [digest : Digest \cup {None}, generation : Nat,
               last_verified : Digest \cup {None}]
  /\ attempts \in [Attempt -> AttemptRecord]
  /\ consumed \subseteq ({"jwt-jti"} \X Token)
                          \cup ({"first-resume-parent"} \X Attempt)
  /\ views \in [Digest -> Attempt \cup {None}]
  /\ remotes \subseteq RemoteVerification
  /\ clock \in Nat

Init == /\ head = [digest |-> None, generation |-> 0, last_verified |-> None]
        /\ attempts = [a \in Attempt |-> Absent]
        /\ consumed = {}
        /\ views = [d \in Digest |-> None]
        /\ remotes = {}
        /\ clock = 0

-----------------------------------------------------------------------------
(* Guards shared by the operations.                                        *)

Fresh(expires) == clock < expires

FreshRemote(remote) == 0 <= clock - remote.at /\ clock - remote.at <= Window

Unconsumed(kind, identity) == <<kind, identity>> \notin consumed

\* The head is still the one the attempt was created against.
\* Mutant: the generation is forgotten, so a digest that came back passes.
AtBaseDigestOnly(r) == head.digest = r.previous

AtBase(r) == /\ head.digest = r.previous
             /\ head.generation = r.base

\* The head carries the first publication and nobody has verified it.
UnverifiedFirst(r) == head = [digest |-> r.result, generation |-> r.base + 1,
                              last_verified |-> None]

Exists(a) == attempts[a].state # "ABSENT"

Reached(a, stage) == stage \in attempts[a].proofs

\* Move attempt a to a stage; r is its record with the fields the stage adds.
Transition(a, stage, r) ==
  /\ stage \notin attempts[a].proofs
  /\ attempts[a].state = Predecessor[stage]
  /\ attempts' = [attempts EXCEPT ![a] =
                    [r EXCEPT !.state = stage, !.proofs = @ \cup {stage}]]

-----------------------------------------------------------------------------
(* The operations of Backend.                                              *)

\* create: promotion starts from a head verified remotely, recovery goes to a
\* view verified before.
Create(a, operation, previous, result) ==
  /\ ~Exists(a)
  /\ previous = head.digest
  /\ operation = "promote" => head.digest = head.last_verified
  /\ operation = "recover" => views[result] # None
  /\ attempts' = [attempts EXCEPT ![a] =
       [Absent EXCEPT !.state = "PROPOSED", !.operation = operation,
                      !.previous = previous, !.result = result,
                      !.base = head.generation]]
  /\ UNCHANGED <<head, consumed, views, remotes, clock>>

Verified(a, evidence) ==
  /\ Fresh(evidence)
  /\ Transition(a, "VERIFIED", [attempts[a] EXCEPT !.evidence = evidence])
  /\ UNCHANGED <<head, consumed, views, remotes, clock>>

\* A complete result is signed for one parent; recovery is exempt.
Composed(a) ==
  /\ Transition(a, "COMPOSED", attempts[a])
  /\ \/ attempts[a].operation = "recover"
     \/ Parent[attempts[a].result] = attempts[a].previous
  /\ UNCHANGED <<head, consumed, views, remotes, clock>>

Tested(a, evidence) ==
  /\ Fresh(evidence)
  /\ evidence = attempts[a].evidence
  /\ Transition(a, "TESTED", attempts[a])
  /\ UNCHANGED <<head, consumed, views, remotes, clock>>

AwaitingApproval(a) ==
  /\ Transition(a, "AWAITING_APPROVAL", attempts[a])
  /\ UNCHANGED <<head, consumed, views, remotes, clock>>

\* Consumes the approval in the transaction that records it.
Authorized(a, approval) ==
  /\ Fresh(approval.expires)
  /\ approval.attempt = a
  /\ approval.evidence = attempts[a].evidence
  /\ AtBase(attempts[a])
  /\ Unconsumed("jwt-jti", approval.jti)
  /\ Transition(a, "AUTHORIZED", [attempts[a] EXCEPT !.authorization = approval])
  /\ consumed' = consumed \cup {<<"jwt-jti", approval.jti>>}
  /\ UNCHANGED <<head, views, remotes, clock>>

\* The envelope was signed under the authorization this attempt consumed.
Signed(a, publication) ==
  /\ publication = attempts[a].authorization
  /\ Transition(a, "SIGNED", [attempts[a] EXCEPT !.publication = publication])
  /\ Fresh(attempts[a].authorization.expires)
  /\ UNCHANGED <<head, consumed, views, remotes, clock>>

Staged(a, publication) ==
  /\ publication = attempts[a].publication
  /\ Transition(a, "STAGED", attempts[a])
  /\ Fresh(attempts[a].authorization.expires)
  /\ UNCHANGED <<head, consumed, views, remotes, clock>>

\* Mutant: the verification may be of another publication of the same bytes.
RemoteBindsResultOnly(a, remote) ==
  /\ Fresh(attempts[a].authorization.expires)
  /\ remote.result = attempts[a].result
  /\ FreshRemote(remote)

\* What _remote requires of a verification before either of its two stages.
RemoteBinds(a, remote) ==
  /\ Fresh(attempts[a].authorization.expires)
  /\ remote.result = attempts[a].result
  /\ remote.publication = attempts[a].publication
  /\ FreshRemote(remote)

RemotelyVerified(a, remote) ==
  /\ Transition(a, "REMOTE_VERIFIED", [attempts[a] EXCEPT !.pre = remote])
  /\ RemoteBinds(a, remote)
  /\ remote.phase = "pre"
  /\ UNCHANGED <<head, consumed, views, remotes, clock>>

\* Mutant: publication itself marks the new head as verified.
AdvertiseVerified(r) == [digest |-> r.result, generation |-> head.generation + 1,
                         last_verified |-> r.result]

\* The head after r is published: a resumed attempt adopts the generation of the
\* intent it resumes, and publication never moves the verified marker.
Advertise(r) ==
  [head EXCEPT !.digest = r.result,
               !.generation = IF r.operation = "resume-first" THEN @ ELSE @ + 1]

\* publish: the compare-and-swap of the stable head.
Publish(a) ==
  LET r == attempts[a]
  IN /\ Transition(a, "PUBLISHED", r)
     /\ Fresh(r.authorization.expires)
     /\ FreshRemote(r.pre)
     /\ IF r.operation = "resume-first" THEN UnverifiedFirst(r) ELSE AtBase(r)
     /\ head' = Advertise(r)
     /\ UNCHANGED <<consumed, views, remotes, clock>>

\* The head a post-publication verification saw is still the current one.
StillAdvertised(r, remote) ==
  /\ remote.generation = head.generation
  /\ head.digest = remote.result
  /\ head.generation = r.base + 1

PostVerified(a, remote) ==
  /\ Transition(a, "POST_VERIFIED", [attempts[a] EXCEPT !.post = remote])
  /\ RemoteBinds(a, remote)
  /\ remote.phase = "post"
  /\ StillAdvertised(attempts[a], remote)
  /\ head' = [head EXCEPT !.last_verified = head.digest]
  /\ views' = [views EXCEPT ![head.digest] = IF @ = None THEN a ELSE @]
  /\ UNCHANGED <<consumed, remotes, clock>>

\* Mutant: an attempt recorded as failed can no longer be resumed.
ResumeBindingUnfailed(p) ==
  /\ attempts[p].previous = None
  /\ attempts[p].state # "FAILED"
  /\ Reached(p, "PUBLISHED")
  /\ UnverifiedFirst(attempts[p])

\* first_resume_binding: p is an unfinished first publication that owns the head.
ResumeBinding(p) ==
  /\ attempts[p].previous = None
  /\ attempts[p].state \in {"AUTHORIZED", "SIGNED", "STAGED", "REMOTE_VERIFIED",
                            "PUBLISHED", "FAILED"}
  /\ Reached(p, IF attempts[p].operation = "resume-first" THEN "REAUTHORIZED"
                                                          ELSE "PUBLISHED")
  /\ UnverifiedFirst(attempts[p])

\* Mutant: a child is authorized while its predecessor still may publish.
AuthorityEndedUnchecked(p) == TRUE

AuthorityEnded(p) == ~Fresh(attempts[p].authorization.expires)

\* A child attempt adopts the intent of p once p's authority has expired.  The
\* approval binds the audit checkpoint, which the transaction compares with the
\* current one, so the binding is evaluated in the current state.
ReauthorizeFirst(a, p, evidence, approval) ==
  /\ ~Exists(a)
  /\ a # p
  /\ Fresh(evidence)
  /\ Fresh(approval.expires)
  /\ approval.attempt = a
  /\ approval.evidence = evidence
  /\ ResumeBinding(p)
  /\ AuthorityEnded(p)
  /\ Unconsumed("jwt-jti", approval.jti)
  /\ Unconsumed("first-resume-parent", p)
  /\ consumed' = consumed \cup {<<"jwt-jti", approval.jti>>, <<"first-resume-parent", p>>}
  /\ attempts' = [attempts EXCEPT ![a] =
       [Absent EXCEPT !.state = "AUTHORIZED", !.operation = "resume-first",
                      !.previous = attempts[p].previous, !.result = attempts[p].result,
                      !.base = attempts[p].base, !.predecessor = p,
                      !.proofs = {"VERIFIED", "COMPOSED", "TESTED", "AWAITING_APPROVAL",
                                  "AUTHORIZED", "REAUTHORIZED"},
                      !.evidence = evidence, !.authorization = approval]]
  /\ UNCHANGED <<head, views, remotes, clock>>

Fail(a) ==
  /\ attempts[a].state \notin {"ABSENT", "POST_VERIFIED", "FAILED"}
  /\ attempts' = [attempts EXCEPT ![a] =
                    [attempts[a] EXCEPT !.failure = attempts[a].state, !.state = "FAILED"]]
  /\ UNCHANGED <<head, consumed, views, remotes, clock>>

-----------------------------------------------------------------------------
(* The environment: remote verification outside any transaction, and time. *)

\* verify_remote on the view staged for a; after publication it also reads the
\* head.  Its caller holds the object and may submit it much later, or lose it.
VerifyRemote(a, phase) ==
  /\ Reached(a, "AUTHORIZED")
  /\ phase = "post" => /\ Reached(a, "REMOTE_VERIFIED")
                       /\ head.digest = attempts[a].result
  /\ \E held \in SUBSET remotes :
       /\ Cardinality(held) < MaxRemotes
       /\ remotes' = held \cup
            {[phase |-> phase, publication |-> attempts[a].authorization,
              result |-> attempts[a].result, at |-> clock,
              generation |-> IF phase = "post" THEN head.generation ELSE 0]}
  /\ UNCHANGED <<head, attempts, consumed, views, clock>>

Tick == /\ clock < MaxClock
        /\ clock' = clock + 1
        /\ UNCHANGED <<head, attempts, consumed, views, remotes>>

\* The evidence and approvals a publisher may present now.
Evidences == {clock + life : life \in EvidenceLife}

\* Mutant: an approval lives as long as its signer says.
ApprovalsUncapped(a, evidence) ==
  [attempt : {a}, jti : Token, evidence : {evidence},
   expires : {clock + life : life \in ApprovalLife}]

\* An approval never outlives the evidence it was given on.
Approvals(a, evidence) ==
  [attempt : {a}, jti : Token, evidence : {evidence},
   expires : {IF clock + life < evidence THEN clock + life ELSE evidence :
                life \in ApprovalLife}]

\* The envelopes that exist are signed under authorizations that were granted.
Envelopes == {attempts[b].authorization : b \in {x \in Attempt : Reached(x, "AUTHORIZED")}}

Next ==
  \/ \E a \in Attempt :
       \/ \E operation \in {"promote", "recover"}, previous \in Digest \cup {None},
             result \in Digest : Create(a, operation, previous, result)
       \/ \E evidence \in Evidences : Verified(a, evidence)
       \/ Composed(a)
       \/ \E b \in Attempt : Tested(a, attempts[b].evidence)
       \/ AwaitingApproval(a)
       \/ \E approval \in Approvals(a, attempts[a].evidence) : Authorized(a, approval)
       \/ \E publication \in Envelopes : Signed(a, publication) \/ Staged(a, publication)
       \/ \E remote \in remotes : RemotelyVerified(a, remote)
       \/ Publish(a)
       \/ \E remote \in remotes : PostVerified(a, remote)
       \/ \E p \in Attempt, evidence \in Evidences :
            \E approval \in Approvals(a, evidence) : ReauthorizeFirst(a, p, evidence, approval)
       \/ Fail(a)
       \/ \E phase \in {"pre", "post"} : VerifyRemote(a, phase)
  \/ Tick

Spec == Init /\ [][Next]_vars

-----------------------------------------------------------------------------
(* The stable head the ledger implements.                                  *)

Advertised(g) == {a \in Attempt : Reached(a, "PUBLISHED") /\ attempts[a].base + 1 = g}

History == [g \in 1 .. head.generation |->
              IF Advertised(g) = {} THEN None
                                    ELSE attempts[CHOOSE a \in Advertised(g) : TRUE].result]

Confirmed == {attempts[a].base + 1 : a \in {x \in Attempt : Reached(x, "POST_VERIFIED")}}

Stable == INSTANCE StableHead WITH history <- History, confirmed <- Confirmed

\* The ledger implements the stable head: whatever the publishers, their
\* crashes and their delays do, generations are never reused or rewritten, only
\* the newest is ever verified, and it is replaced only from a digest verified
\* last or by a digest verified before.
ImplementsStableHead == Stable!Spec

-----------------------------------------------------------------------------
(* Safety.                                                                 *)

\* Every generation the head has passed through belongs to a publisher that
\* really swapped the head to its own result, and two publishers share one only
\* when they advertise the same bytes (create, publish, reauthorize_first).
GenerationOwned ==
  /\ \A g \in 1 .. head.generation : Advertised(g) # {}
  /\ \A a, b \in Attempt :
       (/\ Reached(a, "PUBLISHED")
        /\ Reached(b, "PUBLISHED")
        /\ attempts[a].base = attempts[b].base) => attempts[a].result = attempts[b].result
  /\ \A a \in Advertised(head.generation) : attempts[a].result = head.digest

\* The verified marker is the digest of the newest generation that a remote
\* verification confirmed, although the marker itself records no generation and
\* the head moves on without it (publish keeps it, _remote sets it).
MarkerIsNewestConfirmed == head.last_verified = Stable!LastConfirmed

\* The views table is exactly the set of confirmed digests, each owned by an
\* attempt that published those bytes and had them verified under the
\* authorization it consumed (_remote, signed, authorized).
ViewsAreConfirmed ==
  /\ \A d \in Digest :
       (views[d] # None) <=> \E a \in Attempt : Reached(a, "POST_VERIFIED") /\ attempts[a].result = d
  /\ \A d \in {x \in Digest : views[x] # None} :
       LET r == attempts[views[d]]
       IN /\ r.result = d
          /\ r.post.publication = r.authorization
          /\ r.pre.publication = r.authorization
          /\ r.post.generation = r.base + 1

\* The attempts that may act for the first publication: the publisher that
\* moved the head and every child that adopted its intent.
FirstIntent == {a \in Attempt : /\ attempts[a].previous = None
                                /\ Reached(a, "PUBLISHED") \/ Reached(a, "REAUTHORIZED")}

\* However often the first publication is resumed, never two of its attempts
\* hold an authority that has not expired ("do not fork publication authority"
\* in reauthorize_first).
AuthorityNotForked ==
  \A a, b \in FirstIntent :
    (Fresh(attempts[a].authorization.expires) /\ Fresh(attempts[b].authorization.expires))
      => a = b

\* A head that blocks promotion always leaves a way out: a first publication is
\* held by exactly one attempt that is finished verifying, still working or can
\* be resumed, and a later head can be recovered to a view verified before.
WayOut ==
  head.digest # head.last_verified =>
    IF head.last_verified = None
      THEN \E p \in FirstIntent : /\ ResumeBinding(p)
                                  /\ <<"first-resume-parent", p>> \notin consumed
      ELSE views[head.last_verified] # None

-----------------------------------------------------------------------------
(* The inductive invariant behind GenerationOwned.                         *)

\* What a record holds is filled in by the time its stage needs it.
RecordComplete ==
  \A a \in Attempt :
    LET r == attempts[a]
    IN /\ r.state = "ABSENT" => r.proofs = {}
       /\ r.state # "ABSENT" => r.result \in Digest
       /\ r.state \in Stages => r.state \in r.proofs
       /\ "AUTHORIZED" \in r.proofs => r.authorization \in Authorization
       /\ "POST_VERIFIED" \in r.proofs => "PUBLISHED" \in r.proofs

\* No attempt is ahead of the head, and a published one is behind it.
BaseBehindHead ==
  \A a \in Attempt : /\ attempts[a].base <= head.generation
                     /\ Reached(a, "PUBLISHED") => attempts[a].base + 1 <= head.generation

\* An attempt on the current generation starts from the current digest, which a
\* promotion found verified.
BaseIsCurrent ==
  \A a \in Attempt :
    (/\ Exists(a)
     /\ attempts[a].operation # "resume-first"
     /\ attempts[a].base = head.generation) =>
        /\ attempts[a].previous = head.digest
        /\ attempts[a].operation = "promote" => head.digest = head.last_verified

\* Views and the marker rest on attempts verified after publication.
ViewsRest ==
  /\ \A d \in Digest : views[d] # None => /\ Reached(views[d], "POST_VERIFIED")
                                          /\ attempts[views[d]].result = d
  /\ head.last_verified # None => views[head.last_verified] # None
  /\ \A a \in Attempt : (Exists(a) /\ attempts[a].operation = "recover")
                          => views[attempts[a].result] # None

\* The inductive invariant: GenerationOwned with what a step needs to keep it.
BackendInv == /\ TypeOK
              /\ RecordComplete
              /\ BaseBehindHead
              /\ BaseIsCurrent
              /\ GenerationOwned
              /\ ViewsRest

-----------------------------------------------------------------------------
(* What a step may never do.                                               *)

\* An advertisement is made within the evidence it was approved on: when the
\* head is swapped the tests behind the approval have not expired, although
\* publish looks only at the approval, also after a resumption with evidence of
\* its own (verify_protected, authorized, reauthorize_first, publish).
PublishedWhileFresh ==
  [][\A a \in Attempt :
       (Reached(a, "PUBLISHED")' /\ ~Reached(a, "PUBLISHED")) => Fresh(attempts[a].evidence)]_vars
=============================================================================
