----------------------------- MODULE ClientUpdate -----------------------------
(***************************************************************************)
(* Clients of the verified stable view (src/tools/v3_client_update.py).    *)
(*                                                                         *)
(* A signer reads the publication ledger and answers nonce-bound discovery *)
(* requests.  Update processes that share one client root take its file    *)
(* lock, ask, compare the answer with the state pinned on disk, and write  *)
(* the repository file, then the pin, and only then run DNF.  Answers may  *)
(* be slow, duplicated or lost; a process may stop at any step, which      *)
(* releases the lock and leaves both files as they are; and the ledger may *)
(* be restored from a backup.                                              *)
(*                                                                         *)
(* A checkpoint is a signed hash chained over all audit events, so it is   *)
(* represented by the log itself.                                          *)
(***************************************************************************)
EXTENDS Integers, Sequences, FiniteSets

CONSTANTS
  Process,      \* update processes on one client root
  Nonce,        \* request nonces; 256 random bits in the code
  Digest,       \* stable view identities
  None,         \* no value
  MaxEvents,    \* bound on the length of the audit log
  MaxAnswers,   \* bound on the answers under way at once
  MaxRestores   \* bound on ledger restores

ASSUME NoneAssumption == None \notin Process \cup Nonce \cup Digest
ASSUME BoundAssumption == {MaxEvents, MaxAnswers, MaxRestores} \subseteq Nat

VARIABLES
  log,          \* the audit log; an event carries the head it leaves behind
  restores,     \* how often the ledger was restored
  answers,      \* signed discovery answers under way
  lock,         \* the holder of client.lock
  pc,           \* where each process is in update
  nonce, held,  \* its nonce, and the payload it received
  since,        \* the log when each process asked
  repo,         \* the view named by ro-stable-v3.repo
  pin,          \* client-state.json
  transacted    \* the discovery behind the last DNF transaction

ledger == <<log, restores>>
client == <<lock, pc, nonce, held, since, repo, pin, transacted>>
vars == <<ledger, answers, client>>

Event == [kind : {"publish", "confirm", "other"}, generation : Nat,
          digest : Digest \cup {None}, verified : Digest \cup {None}]

\* What a client keeps of an answer: the fields of client-state.json.
Discovery == [generation : Nat, digest : Digest, checkpoint : Seq(Event)]

ASSUME DiscoveryAssumption == None \notin Discovery

Answer == [nonce : Nonce, payload : Discovery]

Steps == {"idle", "asked", "received", "accepted", "written", "pinned", "done"}

\* Types, and one process at most is inside the lock.
TypeOK ==
  /\ log \in Seq(Event)
  /\ restores \in Nat
  /\ answers \subseteq Answer
  /\ lock \in Process \cup {None}
  /\ pc \in [Process -> Steps]
  /\ nonce \in [Process -> Nonce \cup {None}]
  /\ held \in [Process -> Discovery \cup {None}]
  /\ since \in [Process -> Seq(Event)]
  /\ repo \in Digest \cup {None}
  /\ {pin, transacted} \subseteq Discovery \cup {None}
  /\ \A p \in Process : pc[p] # "idle" <=> lock = p

Init ==
  /\ log = <<>> /\ restores = 0 /\ answers = {}
  /\ lock = None
  /\ pc = [p \in Process |-> "idle"]
  /\ nonce = [p \in Process |-> None]
  /\ held = [p \in Process |-> None]
  /\ since = [p \in Process |-> <<>>]
  /\ repo = None /\ pin = None /\ transacted = None

-----------------------------------------------------------------------------
(* The ledger and the discovery signer.                                    *)

Genesis == [kind |-> "other", generation |-> 0, digest |-> None, verified |-> None]

Tip == IF log = <<>> THEN Genesis ELSE log[Len(log)]

AppendEvent(event) == /\ Len(log) < MaxEvents
                      /\ log' = Append(log, event)
                      /\ UNCHANGED <<restores, answers, client>>

\* A promotion on a verified head, or a recovery to a view verified before.
Publish(d) ==
  /\ \/ Tip.digest = Tip.verified /\ d # Tip.digest
     \/ \E i \in DOMAIN log : log[i].verified = d
  /\ AppendEvent([kind |-> "publish", generation |-> Tip.generation + 1,
                  digest |-> d, verified |-> Tip.verified])

\* post_verified: the current head was verified remotely.
Confirm ==
  /\ Tip.generation > 0
  /\ AppendEvent([Tip EXCEPT !.kind = "confirm", !.verified = Tip.digest])

\* Any event that leaves the head alone.
Record == AppendEvent([Tip EXCEPT !.kind = "other"])

\* The ledger comes back from an older backup.
Restore(n) ==
  /\ restores < MaxRestores
  /\ restores' = restores + 1
  /\ log' = SubSeq(log, 1, n)
  /\ UNCHANGED <<answers, client>>

\* The current digest is the one verified last, under some attempt.
Servable == Tip.digest # None /\ Tip.digest = Tip.verified

\* Nonces of requests that somebody may still be answering.
Asked == {nonce[p] : p \in Process} \ {None}

\* discovery_payload, read in one ledger transaction, and signed.
Discover(n) ==
  /\ Servable
  /\ Cardinality(answers) < MaxAnswers
  /\ answers' = answers \cup
       {[nonce |-> n, payload |-> [generation |-> Tip.generation, digest |-> Tip.digest,
                                   checkpoint |-> log]]}
  /\ UNCHANGED <<ledger, client>>

Lose(answer) == answers' = answers \ {answer} /\ UNCHANGED <<ledger, client>>

-----------------------------------------------------------------------------
(* Client.update.                                                          *)

Go(p, step) == pc' = [pc EXCEPT ![p] = step]

\* Mutant: the lock file is opened and not locked.
LockFreeUnchecked == TRUE

LockFree == lock = None

\* update takes the lock, draws a nonce nobody used and asks.
Ask(p, n) ==
  /\ pc[p] = "idle"
  /\ LockFree
  /\ n \notin Asked \cup {answer.nonce : answer \in answers}
  /\ lock' = p
  /\ Go(p, "asked")
  /\ nonce' = [nonce EXCEPT ![p] = n]
  /\ since' = [since EXCEPT ![p] = log]
  /\ UNCHANGED <<ledger, answers, held, repo, pin, transacted>>

\* Mutant: an answer to another request is accepted.
MatchesAnything(p, answer) == TRUE

\* The answer is signed for this request.
Matches(p, answer) == answer.nonce = nonce[p]

\* The signatures hold and every byte of the immutable view was read.
Receive(p, answer) ==
  /\ pc[p] = "asked"
  /\ Matches(p, answer)
  /\ held' = [held EXCEPT ![p] = answer.payload]
  /\ Go(p, "received")
  /\ UNCHANGED <<ledger, answers, lock, nonce, since, repo, pin, transacted>>

\* Mutant: a generation seen before is compared by its number only.
NotBehindGenerationOnly(a, b) ==
  /\ b.generation >= a.generation
  /\ Len(b.checkpoint) >= Len(a.checkpoint)

\* Mutant: a client may not miss a generation.
NotBehindNext(a, b) ==
  /\ b.generation \in {a.generation, a.generation + 1}
  /\ Len(b.checkpoint) >= Len(a.checkpoint)
  /\ b.generation = a.generation => b.digest = a.digest

\* b is neither a rollback of a nor an equivocation.
NotBehind(a, b) ==
  /\ b.generation >= a.generation
  /\ Len(b.checkpoint) >= Len(a.checkpoint)
  /\ b.generation = a.generation => b.digest = a.digest
  /\ Len(b.checkpoint) = Len(a.checkpoint) => b.checkpoint = a.checkpoint

Acceptable(payload) == pin # None => NotBehind(pin, payload)

Accept(p) ==
  /\ pc[p] = "received"
  /\ Acceptable(held[p])
  /\ Go(p, "accepted")
  /\ UNCHANGED <<ledger, answers, lock, nonce, held, since, repo, pin, transacted>>

\* Any exception, the expiry of the answer, and the death of the process end
\* the update: the lock goes and the files stay.
Release(p) == lock' = IF lock = p THEN None ELSE lock

Leave(p) == /\ Go(p, "idle")
            /\ Release(p)
            /\ nonce' = [nonce EXCEPT ![p] = None]
            /\ held' = [held EXCEPT ![p] = None]
            /\ since' = [since EXCEPT ![p] = <<>>]
            /\ UNCHANGED <<ledger, answers, repo, pin, transacted>>

\* "client stable rollback/equivocation"
Refuse(p) == pc[p] = "received" /\ ~Acceptable(held[p]) /\ Leave(p)

Stop(p) == pc[p] \notin {"idle", "done"} /\ Leave(p)

WriteRepo(p) ==
  /\ pc[p] = "accepted"
  /\ repo' = held[p].digest
  /\ Go(p, "written")
  /\ UNCHANGED <<ledger, answers, lock, nonce, held, since, pin, transacted>>

\* Mutant: DNF is run before the state is pinned.
BeforeDnfWritten == "written"

\* Where update is when it starts DNF.
BeforeDnf == "pinned"

WriteState(p) ==
  /\ pc[p] = "written"
  /\ pin' = held[p]
  /\ Go(p, "pinned")
  /\ UNCHANGED <<ledger, answers, lock, nonce, held, since, repo, transacted>>

\* The DNF transaction on the repository file; without a command there is none.
Transact(p) ==
  /\ pc[p] = BeforeDnf
  /\ transacted' = held[p]
  /\ Go(p, "done")
  /\ UNCHANGED <<ledger, answers, lock, nonce, held, since, repo, pin>>

Return(p) == pc[p] = "done" /\ Leave(p)

-----------------------------------------------------------------------------

Update(p) == \/ \E answer \in answers : Receive(p, answer)
             \/ Accept(p) \/ Refuse(p) \/ WriteRepo(p) \/ WriteState(p)
             \/ Transact(p) \/ Return(p)

Next == \/ \E d \in Digest : Publish(d)
        \/ Confirm \/ Record
        \/ \E n \in 0 .. Len(log) - 1 : Restore(n)
        \/ \E n \in Asked : Discover(n)
        \/ \E answer \in answers : Lose(answer)
        \/ \E p \in Process : (\E n \in Nonce : Ask(p, n)) \/ Update(p) \/ Stop(p)

Spec == Init /\ [][Next]_vars

-----------------------------------------------------------------------------

\* A later view, or the same one again.
Advances(old, new) ==
  /\ \/ old.generation < new.generation
     \/ old.generation = new.generation /\ old.digest = new.digest
  /\ \/ Len(old.checkpoint) < Len(new.checkpoint)
     \/ old.checkpoint = new.checkpoint

\* "cannot silently switch to an older generation" (v3_client_update.py:147):
\* DNF is never run on a view older than, or contradicting, one it was run on
\* before, whichever process ran it and whatever the ledger was restored to.
NeverBack ==
  [][\A p \in Process :
       Transact(p) /\ transacted # None => Advances(transacted, transacted')]_vars

\* DNF reads the repository file of the discovery its own process verified and
\* pinned: no other update, finished or interrupted, replaced either file.
TransactsPinned ==
  [][\A p \in Process : Transact(p) => pin = held[p] /\ repo = held[p].digest]_vars

\* Why both hold, as an inductive invariant: the process inside the lock carries
\* what it has checked, and what DNF was run on never leads the pin.
HolderInv ==
  \A p \in Process :
    /\ pc[p] \notin {"idle", "asked"} => held[p] # None
    /\ pc[p] \in {"accepted", "written"} => Acceptable(held[p])
    /\ pc[p] \in {"written", "pinned"} => repo = held[p].digest
    /\ pc[p] = "pinned" => pin = held[p]

PinLeads == transacted # None => pin # None /\ NotBehind(transacted, pin)

ClientInv == TypeOK /\ HolderInv /\ PinLeads

\* A restored ledger aside, a view that is installed was discovered after its
\* update asked, however long answers to other requests stay under way.
FollowsRequest ==
  [][\A p \in Process : Transact(p) /\ restores = 0 =>
       /\ Len(since[p]) <= Len(held[p].checkpoint)
       /\ since[p] = SubSeq(held[p].checkpoint, 1, Len(since[p]))]_vars

\* A restored ledger aside, the pin never locks an update out: the rollback and
\* equivocation checks refuse no answer to a request made under the lock.
NeverLockedOut == [][\A p \in Process : Refuse(p) => restores > 0]_vars
=============================================================================
