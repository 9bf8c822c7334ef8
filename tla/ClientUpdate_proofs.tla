-------------------------- MODULE ClientUpdate_proofs --------------------------
(***************************************************************************)
(* Proofs about ClientUpdate, for every set of processes, nonces and views *)
(* and every bound: its types, and that DNF is run only on what its own    *)
(* process pinned and never on an older or contradicting view.             *)
(***************************************************************************)
EXTENDS ClientUpdate, SequenceTheorems, TLAPS

-----------------------------------------------------------------------------
(* The order of discoveries.                                               *)

\* A discovery has a numeric generation and a checkpoint of some length.
LEMMA DiscoveryNumbers ==
  ASSUME NEW d \in Discovery
  PROVE  d.generation \in Nat /\ Len(d.checkpoint) \in Nat
BY DEF Discovery

\* The comparison of client-state.json with an answer is reflexive.
LEMMA NotBehindItself ==
  ASSUME NEW a \in Discovery
  PROVE  NotBehind(a, a)
BY DiscoveryNumbers DEF NotBehind

\* It is transitive: pinning only what does not fall behind the pin never falls
\* behind anything pinned before.
LEMMA NotBehindTransitive ==
  ASSUME NEW a \in Discovery, NEW b \in Discovery, NEW c \in Discovery,
         NotBehind(a, b), NotBehind(b, c)
  PROVE  NotBehind(a, c)
BY DiscoveryNumbers DEF NotBehind

\* What does not fall behind is a later view, or the same one.
LEMMA NotBehindAdvances ==
  ASSUME NEW a \in Discovery, NEW b \in Discovery, NotBehind(a, b)
  PROVE  Advances(a, b)
BY DiscoveryNumbers DEF NotBehind, Advances

-----------------------------------------------------------------------------
(* Types.                                                                  *)

\* The head a log leaves behind has the shape of an event.
LEMMA TipType ==
  ASSUME TypeOK
  PROVE  Tip \in Event
<1>1. CASE log = <<>>
  BY <1>1 DEF Tip, Genesis, Event
<1>2. CASE log # <<>>
  BY <1>2 DEF Tip, TypeOK
<1>3. QED
  BY <1>1, <1>2

\* Appending an event keeps the types and touches no client.
LEMMA AppendEventType ==
  ASSUME TypeOK, NEW event \in Event, AppendEvent(event)
  PROVE  TypeOK'
BY DEF TypeOK, AppendEvent, client

\* Leaving the lock keeps the types.
LEMMA LeaveType ==
  ASSUME TypeOK, NEW p \in Process, pc[p] # "idle", Leave(p)
  PROVE  TypeOK'
<1>1. lock = p /\ lock' = None /\ None \notin Process
  BY NoneAssumption DEF TypeOK, Leave, Release
<1>2. \A q \in Process : pc'[q] # "idle" <=> lock' = q
  BY <1>1 DEF TypeOK, Leave, Go
<1>3. pc' \in [Process -> Steps]
  BY DEF TypeOK, Leave, Go, Steps
<1>4. /\ nonce' \in [Process -> Nonce \cup {None}]
      /\ held' \in [Process -> Discovery \cup {None}]
      /\ since' \in [Process -> Seq(Event)]
  BY DEF TypeOK, Leave
<1>5. QED
  BY <1>1, <1>2, <1>3, <1>4 DEF TypeOK, Leave, ledger

\* Every step of the signer and the ledger keeps the types.
LEMMA LedgerType ==
  ASSUME TypeOK,
         \/ \E d \in Digest : Publish(d)
         \/ Confirm \/ Record
         \/ \E n \in 0 .. Len(log) - 1 : Restore(n)
         \/ \E n \in Asked : Discover(n)
         \/ \E answer \in answers : Lose(answer)
  PROVE  TypeOK' /\ UNCHANGED client
<1>1. ASSUME NEW d \in Digest, Publish(d)
      PROVE  TypeOK' /\ UNCHANGED client
  <2>1. [kind |-> "publish", generation |-> Tip.generation + 1,
         digest |-> d, verified |-> Tip.verified] \in Event
    BY TipType DEF Event
  <2>2. QED
    BY <1>1, <2>1, AppendEventType DEF Publish, AppendEvent
<1>2. CASE Confirm
  <2>1. [Tip EXCEPT !.kind = "confirm", !.verified = Tip.digest] \in Event
    BY TipType DEF Event
  <2>2. QED
    BY <1>2, <2>1, AppendEventType DEF Confirm, AppendEvent
<1>3. CASE Record
  <2>1. [Tip EXCEPT !.kind = "other"] \in Event
    BY TipType DEF Event
  <2>2. QED
    BY <1>3, <2>1, AppendEventType DEF Record, AppendEvent
<1>4. ASSUME NEW n \in 0 .. Len(log) - 1, Restore(n)
      PROVE  TypeOK' /\ UNCHANGED client
  <2>1. SubSeq(log, 1, n) \in Seq(Event)
    BY <1>4 DEF TypeOK
  <2>2. QED
    BY <1>4, <2>1 DEF TypeOK, Restore, client
<1>5. ASSUME NEW n \in Asked, Discover(n)
      PROVE  TypeOK' /\ UNCHANGED client
  <2>1. n \in Nonce
    BY DEF Asked, TypeOK
  <2>2. Tip.generation \in Nat /\ Tip.digest \in Digest /\ log \in Seq(Event)
    BY <1>5, TipType DEF Discover, Servable, Event, TypeOK
  <2>3. [nonce |-> n, payload |-> [generation |-> Tip.generation, digest |-> Tip.digest,
                                  checkpoint |-> log]] \in Answer
    BY <2>1, <2>2 DEF Answer, Discovery
  <2>4. QED
    BY <1>5, <2>3 DEF TypeOK, Discover, ledger, client
<1>6. ASSUME NEW answer \in answers, Lose(answer)
      PROVE  TypeOK' /\ UNCHANGED client
  BY <1>6 DEF TypeOK, Lose, ledger, client
<1>7. QED
  BY <1>1, <1>2, <1>3, <1>4, <1>5, <1>6

\* Every step of an update keeps the types, and with them the lock.  The view
\* written to the repository file is one the process holds.
LEMMA ProcessType ==
  ASSUME TypeOK, HolderInv, NEW p \in Process,
         (\E n \in Nonce : Ask(p, n)) \/ Update(p) \/ Stop(p)
  PROVE  TypeOK'
<1>1. ASSUME NEW n \in Nonce, Ask(p, n)
      PROVE  TypeOK'
  <2>1. lock = None /\ lock' = p /\ None \notin Process
    BY <1>1, NoneAssumption DEF Ask, LockFree
  <2>2. \A q \in Process : pc[q] = "idle"
    BY <2>1 DEF TypeOK
  <2>3. \A q \in Process : pc'[q] # "idle" <=> lock' = q
    BY <1>1, <2>1, <2>2 DEF Ask, Go, TypeOK
  <2>4. pc' \in [Process -> Steps]
    BY <1>1 DEF Ask, Go, TypeOK, Steps
  <2>5. /\ nonce' \in [Process -> Nonce \cup {None}]
        /\ since' \in [Process -> Seq(Event)]
    BY <1>1 DEF Ask, TypeOK
  <2>6. QED
    BY <1>1, <2>1, <2>3, <2>4, <2>5 DEF Ask, TypeOK, ledger
<1>2. ASSUME NEW answer \in answers, Receive(p, answer)
      PROVE  TypeOK'
  <2>1. answer.payload \in Discovery
    BY DEF TypeOK, Answer
  <2>2. held' \in [Process -> Discovery \cup {None}]
    BY <1>2, <2>1 DEF Receive, TypeOK
  <2>3. /\ pc' \in [Process -> Steps]
        /\ \A q \in Process : pc'[q] # "idle" <=> lock' = q
    BY <1>2 DEF Receive, Go, TypeOK, Steps
  <2>4. QED
    BY <1>2, <2>2, <2>3 DEF Receive, TypeOK, ledger
<1>3. CASE Accept(p)
  <2>1. /\ pc' \in [Process -> Steps]
        /\ \A q \in Process : pc'[q] # "idle" <=> lock' = q
    BY <1>3 DEF Accept, Go, TypeOK, Steps
  <2>2. QED
    BY <1>3, <2>1 DEF Accept, TypeOK, ledger
<1>4. CASE WriteRepo(p)
  <2>1. held[p] # None
    BY <1>4 DEF WriteRepo, HolderInv
  <2>2. repo' \in Digest \cup {None}
    BY <1>4, <2>1 DEF WriteRepo, TypeOK, Discovery
  <2>3. /\ pc' \in [Process -> Steps]
        /\ \A q \in Process : pc'[q] # "idle" <=> lock' = q
    BY <1>4 DEF WriteRepo, Go, TypeOK, Steps
  <2>4. QED
    BY <1>4, <2>2, <2>3 DEF WriteRepo, TypeOK, ledger
<1>5. CASE WriteState(p)
  <2>1. /\ pc' \in [Process -> Steps]
        /\ \A q \in Process : pc'[q] # "idle" <=> lock' = q
    BY <1>5 DEF WriteState, Go, TypeOK, Steps
  <2>2. QED
    BY <1>5, <2>1 DEF WriteState, TypeOK, ledger
<1>6. CASE Transact(p)
  <2>1. /\ pc' \in [Process -> Steps]
        /\ \A q \in Process : pc'[q] # "idle" <=> lock' = q
    BY <1>6 DEF Transact, BeforeDnf, Go, TypeOK, Steps
  <2>2. QED
    BY <1>6, <2>1 DEF Transact, TypeOK, ledger
<1>7. CASE Refuse(p) \/ Return(p) \/ Stop(p)
  BY <1>7, LeaveType DEF Refuse, Return, Stop
<1>8. QED
  BY <1>1, <1>2, <1>3, <1>4, <1>5, <1>6, <1>7 DEF Update

-----------------------------------------------------------------------------
(* What the holder of the lock carries.                                    *)

\* Nobody but the holder of the lock is in an update.
LEMMA OnlyHolder ==
  ASSUME TypeOK, NEW p \in Process, NEW q \in Process, pc[p] # "idle", q # p
  PROVE  pc[q] = "idle"
BY DEF TypeOK

\* The state of a client is untouched by the ledger and the signer.
LEMMA HolderUntouched ==
  ASSUME HolderInv, PinLeads, UNCHANGED client
  PROVE  HolderInv' /\ PinLeads'
BY DEF HolderInv, PinLeads, client, Acceptable, NotBehind

\* Every step of an update keeps what its process carries, and never lets DNF
\* get ahead of the pin.
LEMMA HolderStep ==
  ASSUME TypeOK, TypeOK', HolderInv, PinLeads, NEW p \in Process,
         (\E n \in Nonce : Ask(p, n)) \/ Update(p) \/ Stop(p)
  PROVE  HolderInv' /\ PinLeads'
<1>1. ASSUME NEW n \in Nonce, Ask(p, n)
      PROVE  HolderInv' /\ PinLeads'
  <2>1. \A q \in Process : pc'[q] \in {"idle", "asked"}
    BY <1>1, NoneAssumption DEF Ask, LockFree, Go, TypeOK
  <2>2. QED
    BY <1>1, <2>1 DEF Ask, HolderInv, PinLeads
<1>2. ASSUME NEW answer \in answers, Receive(p, answer)
      PROVE  HolderInv' /\ PinLeads'
  <2>1. answer.payload \in Discovery
    BY DEF TypeOK, Answer
  <2>2. answer.payload # None
    BY <2>1, DiscoveryAssumption
  <2>3. \A q \in Process : q # p => pc'[q] = "idle"
    BY <1>2, OnlyHolder DEF Receive, Go, TypeOK
  <2>4. pc'[p] = "received" /\ held'[p] # None
    BY <1>2, <2>2 DEF Receive, Go, TypeOK
  <2>5. HolderInv'
    BY <2>3, <2>4 DEF HolderInv
  <2>6. QED
    BY <1>2, <2>5 DEF Receive, PinLeads
<1>3. CASE Accept(p)
  <2>1. held[p] # None /\ Acceptable(held[p])
    BY <1>3 DEF Accept, HolderInv
  <2>2. Acceptable(held[p])'
    BY <1>3, <2>1 DEF Accept, Acceptable
  <2>3. \A q \in Process : q # p => pc'[q] = "idle"
    BY <1>3, OnlyHolder DEF Accept, Go, TypeOK
  <2>4. pc'[p] = "accepted" /\ held'[p] # None
    BY <1>3, <2>1 DEF Accept, Go, TypeOK
  <2>5. HolderInv'
    BY <2>2, <2>3, <2>4 DEF HolderInv
  <2>6. QED
    BY <1>3, <2>5 DEF Accept, PinLeads
<1>4. CASE WriteRepo(p)
  BY <1>4, OnlyHolder DEF WriteRepo, Go, HolderInv, PinLeads, TypeOK, Acceptable
<1>5. CASE WriteState(p)
  <2>1. /\ held[p] \in Discovery
        /\ pin = None \/ pin \in Discovery
        /\ pin # None => NotBehind(pin, held[p])
    BY <1>5 DEF WriteState, HolderInv, TypeOK, Acceptable
  <2>2. transacted # None => NotBehind(transacted, held[p])
    BY <2>1, NotBehindTransitive DEF PinLeads, TypeOK
  <2>3. PinLeads'
    BY <1>5, <2>2 DEF WriteState, PinLeads, HolderInv
  <2>4. QED
    BY <1>5, <2>3, OnlyHolder DEF WriteState, Go, HolderInv, TypeOK
<1>6. CASE Transact(p)
  <2>1. pin = held[p] /\ held[p] \in Discovery /\ held[p] # None
    BY <1>6 DEF Transact, BeforeDnf, HolderInv, TypeOK
  <2>2. PinLeads'
    BY <1>6, <2>1, NotBehindItself DEF Transact, PinLeads
  <2>3. QED
    BY <1>6, <2>2, OnlyHolder DEF Transact, BeforeDnf, Go, HolderInv, TypeOK
<1>7. CASE Refuse(p) \/ Return(p) \/ Stop(p)
  <2>1. pc[p] # "idle" /\ Leave(p)
    BY <1>7 DEF Refuse, Return, Stop
  <2>2. \A q \in Process : pc'[q] = "idle"
    BY <2>1, OnlyHolder DEF Leave, Go, TypeOK
  <2>3. QED
    BY <2>1, <2>2 DEF Leave, HolderInv, PinLeads
<1>8. QED
  BY <1>1, <1>2, <1>3, <1>4, <1>5, <1>6, <1>7 DEF Update

-----------------------------------------------------------------------------
(* The invariant and the two action properties.                            *)

\* A client that was never used satisfies the invariant.
LEMMA InvInit == Init => ClientInv
BY NoneAssumption DEF Init, ClientInv, TypeOK, HolderInv, PinLeads, Steps, Event

\* Every step keeps it.
LEMMA InvStep == ClientInv /\ [Next]_vars => ClientInv'
<1> SUFFICES ASSUME ClientInv, [Next]_vars
             PROVE  ClientInv'
  OBVIOUS
<1>1. CASE \/ \E d \in Digest : Publish(d)
           \/ Confirm \/ Record
           \/ \E n \in 0 .. Len(log) - 1 : Restore(n)
           \/ \E n \in Asked : Discover(n)
           \/ \E answer \in answers : Lose(answer)
  BY <1>1, LedgerType, HolderUntouched DEF ClientInv
<1>2. ASSUME NEW p \in Process,
             (\E n \in Nonce : Ask(p, n)) \/ Update(p) \/ Stop(p)
      PROVE  ClientInv'
  BY <1>2, ProcessType, HolderStep DEF ClientInv
<1>3. CASE UNCHANGED vars
  <2>1. TypeOK'
    BY <1>3 DEF ClientInv, TypeOK, vars, ledger, client
  <2>2. QED
    BY <1>3, <2>1, HolderUntouched DEF ClientInv, vars
<1>4. QED
  BY <1>1, <1>2, <1>3 DEF Next

\* The types of the client and the ledger, and one process in the lock at most.
THEOREM ClientTypeCorrect == Spec => []TypeOK
<1>1. ClientInv => TypeOK
  BY DEF ClientInv
<1>2. QED
  BY <1>1, InvInit, InvStep, PTL DEF Spec

\* The process in the lock carries what it checked; DNF never leads the pin.
THEOREM ClientInvariant == Spec => []ClientInv
BY InvInit, InvStep, PTL DEF Spec

\* DNF reads the repository file of the discovery its process pinned.
THEOREM DnfReadsPinned == Spec => TransactsPinned
<1>1. ClientInv /\ [Next]_vars =>
        [\A p \in Process : Transact(p) => pin = held[p] /\ repo = held[p].digest]_vars
  BY DEF ClientInv, HolderInv, Transact, BeforeDnf
<1>2. QED
  BY <1>1, ClientInvariant, PTL DEF Spec, TransactsPinned

\* DNF is never run on an older or contradicting view: not after crashes, not
\* with concurrent updates, not on a restored ledger.
THEOREM DnfNeverGoesBack == Spec => NeverBack
<1>1. ASSUME ClientInv, NEW p \in Process, Transact(p), transacted # None
      PROVE  Advances(transacted, transacted')
  <2>1. /\ transacted' = held[p] /\ pin = held[p]
        /\ transacted \in Discovery /\ held[p] \in Discovery
    BY <1>1 DEF ClientInv, HolderInv, TypeOK, Transact, BeforeDnf
  <2>2. NotBehind(transacted, held[p])
    BY <1>1, <2>1 DEF ClientInv, PinLeads
  <2>3. QED
    BY <2>1, <2>2, NotBehindAdvances
<1>2. ClientInv /\ [Next]_vars =>
        [\A p \in Process :
           Transact(p) /\ transacted # None => Advances(transacted, transacted')]_vars
  BY <1>1
<1>3. QED
  BY <1>2, ClientInvariant, PTL DEF Spec, NeverBack

-----------------------------------------------------------------------------
(* Discoveries of a ledger that was never restored.                        *)

\* b begins with a.
Begins(a, b) == Len(a) <= Len(b) /\ \A i \in 1 .. Len(a) : a[i] = b[i]

\* A discovery of the log: the head that one of its beginnings left behind.
OfLog(d) ==
  LET n == Len(d.checkpoint)
  IN /\ n > 0 /\ Begins(d.checkpoint, log)
     /\ d.generation = log[n].generation /\ d.digest = log[n].digest

\* Heads only advance, and a generation has one digest.
HeadsInOrder ==
  \A i, j \in 1 .. Len(log) :
    i <= j => /\ log[i].generation <= log[j].generation
              /\ log[i].generation = log[j].generation => log[i].digest = log[j].digest

\* Answers are of the log, and an answer to a request is not older than it.
AnswersInv ==
  \A answer \in answers :
    /\ OfLog(answer.payload)
    /\ \A p \in Process :
         answer.nonce = nonce[p] => Len(since[p]) <= Len(answer.payload.checkpoint)

\* So is what a process holds, and the pin is not newer than a request that may
\* still be compared with it.
RequestsInv ==
  \A p \in Process :
    /\ Begins(since[p], log)
    /\ pc[p] \notin {"idle", "asked"} => /\ OfLog(held[p])
                                        /\ Len(since[p]) <= Len(held[p].checkpoint)
    /\ (pin # None /\ pc[p] \in {"asked", "received", "accepted", "written"}) =>
         Len(pin.checkpoint) <= Len(since[p])

PinInv == pin # None => OfLog(pin)

FreshInv == restores = 0 => HeadsInOrder /\ AnswersInv /\ RequestsInv /\ PinInv

\* The log of a ledger, and the head it leaves behind.
LEMMA TipOfLog ==
  ASSUME TypeOK
  PROVE  /\ log \in Seq(Event) /\ Len(log) \in Nat /\ (log = <<>> <=> Len(log) = 0)
         /\ \A i \in 1 .. Len(log) : log[i] \in Event /\ log[i].generation \in Nat
         /\ Len(log) > 0 => Tip = log[Len(log)]
<1>1. log \in Seq(Event) /\ Len(log) \in Nat /\ (log = <<>> <=> Len(log) = 0)
  BY EmptySeq, LenProperties DEF TypeOK
<1>2. \A i \in 1 .. Len(log) : log[i] \in Event
  BY <1>1, ElementOfSeq
<1>3. \A e \in Event : e.generation \in Nat
  BY DEF Event
<1>4. QED
  BY <1>1, <1>2, <1>3 DEF Tip

\* A beginning of the log stays one, and a discovery of it too.
LEMMA LogExtended ==
  ASSUME TypeOK, NEW event \in Event, log' = Append(log, event)
  PROVE  /\ Len(log') = Len(log) + 1 /\ log'[Len(log) + 1] = event
         /\ \A i \in 1 .. Len(log) : log'[i] = log[i]
         /\ \A s \in Seq(Event) : Begins(s, log) => Begins(s, log')
         /\ \A d \in Discovery : OfLog(d) => OfLog(d)'
<1>1. /\ Len(log) \in Nat /\ Len(log') = Len(log) + 1 /\ log'[Len(log) + 1] = event
      /\ \A i \in 1 .. Len(log) : log'[i] = log[i]
  BY TipOfLog, AppendProperties
<1>2. ASSUME NEW s \in Seq(Event), Begins(s, log)
      PROVE  Begins(s, log')
  BY <1>1, <1>2, LenProperties DEF Begins
<1>3. ASSUME NEW d \in Discovery, OfLog(d)
      PROVE  OfLog(d)'
  <2>1. /\ d.checkpoint \in Seq(Event) /\ Len(d.checkpoint) \in Nat
        /\ Len(d.checkpoint) > 0 /\ Len(d.checkpoint) <= Len(log)
    BY <1>3, LenProperties DEF Discovery, OfLog, Begins
  <2>2. log'[Len(d.checkpoint)] = log[Len(d.checkpoint)]
    BY <1>1, <2>1
  <2>3. QED
    BY <1>2, <1>3, <2>1, <2>2 DEF OfLog
<1>4. QED
  BY <1>1, <1>2, <1>3

\* The log grows by an event whose head is the tip's, or is a later one.
LEMMA AppendFresh ==
  ASSUME ClientInv, FreshInv, NEW event \in Event, AppendEvent(event),
         \/ event.generation > Tip.generation
         \/ event.generation = Tip.generation /\ event.digest = Tip.digest
  PROVE  FreshInv'
<1>. SUFFICES ASSUME restores = 0
              PROVE  (HeadsInOrder /\ AnswersInv /\ RequestsInv /\ PinInv)'
  BY DEF FreshInv, AppendEvent
<1>1. HeadsInOrder /\ AnswersInv /\ RequestsInv /\ PinInv /\ TypeOK
  BY DEF FreshInv, ClientInv
<1>2. log' = Append(log, event) /\ UNCHANGED <<restores, answers, client>>
  BY DEF AppendEvent
<1>3. HeadsInOrder'
  <2>. DEFINE n == Len(log)
  <2>1. /\ n \in Nat /\ Len(log') = n + 1 /\ log'[n + 1] = event /\ event.generation \in Nat
        /\ \A i \in 1 .. n : log'[i] = log[i] /\ log[i].generation \in Nat
        /\ n > 0 => Tip = log[n]
    BY <1>1, <1>2, LogExtended, TipOfLog DEF Event
  <2>2. ASSUME NEW i \in 1 .. n
        PROVE  /\ log[i].generation <= event.generation
               /\ log[i].generation = event.generation => log[i].digest = event.digest
    <3>1. n > 0 /\ i <= n /\ n \in 1 .. n
      BY <2>1
    <3>2. /\ log[i].generation <= Tip.generation
          /\ log[i].generation = Tip.generation => log[i].digest = Tip.digest
      BY <1>1, <2>1, <3>1 DEF HeadsInOrder
    <3>3. Tip.generation \in Nat
      BY <2>1, <3>1
    <3>4. QED
      BY <2>1, <3>2, <3>3
  <2>3. ASSUME NEW i \in 1 .. n + 1, NEW j \in 1 .. n + 1, i <= j
        PROVE  /\ log'[i].generation <= log'[j].generation
               /\ log'[i].generation = log'[j].generation => log'[i].digest = log'[j].digest
    <3>1. CASE j \in 1 .. n
      <4>1. i \in 1 .. n
        BY <2>1, <2>3, <3>1
      <4>2. QED
        BY <1>1, <2>1, <2>3, <3>1, <4>1 DEF HeadsInOrder
    <3>2. CASE j = n + 1 /\ i \in 1 .. n
      BY <2>1, <2>2, <3>2
    <3>3. CASE j = n + 1 /\ i = n + 1
      BY <2>1, <3>3
    <3>4. QED
      BY <2>1, <3>1, <3>2, <3>3
  <2>4. QED
    BY <2>1, <2>3 DEF HeadsInOrder
<1>4. \A d \in Discovery : OfLog(d) => OfLog(d)'
  BY <1>1, <1>2, LogExtended
<1>5. AnswersInv'
  BY <1>1, <1>2, <1>4 DEF AnswersInv, TypeOK, Answer, client
<1>6. RequestsInv'
  <2>1. \A s \in Seq(Event) : Begins(s, log) => Begins(s, log')
    BY <1>1, <1>2, LogExtended
  <2>2. ASSUME NEW p \in Process, pc[p] \notin {"idle", "asked"}
        PROVE  held[p] \in Discovery
    BY <2>2 DEF ClientInv, TypeOK, HolderInv
  <2>3. QED
    BY <1>1, <1>2, <1>4, <2>1, <2>2 DEF RequestsInv, TypeOK, client
<1>7. PinInv'
  BY <1>1, <1>2, <1>4 DEF PinInv, TypeOK, client
<1>8. QED
  BY <1>3, <1>5, <1>6, <1>7

\* What the ledger and the signer do.
LEMMA LedgerFresh ==
  ASSUME ClientInv, FreshInv,
         \/ \E d \in Digest : Publish(d)
         \/ Confirm \/ Record
         \/ \E n \in 0 .. Len(log) - 1 : Restore(n)
         \/ \E n \in Asked : Discover(n)
         \/ \E answer \in answers : Lose(answer)
  PROVE  FreshInv'
<1>0. TypeOK /\ Tip \in Event /\ Tip.generation \in Nat
  BY TipType DEF ClientInv, Event
<1>1. ASSUME NEW d \in Digest, Publish(d)
      PROVE  FreshInv'
  <2>. DEFINE e == [kind |-> "publish", generation |-> Tip.generation + 1,
                    digest |-> d, verified |-> Tip.verified]
  <2>1. e \in Event /\ e.generation > Tip.generation
    BY <1>0 DEF Event
  <2>2. QED
    BY <1>1, <2>1, AppendFresh DEF Publish
<1>2. CASE Confirm
  <2>. DEFINE e == [Tip EXCEPT !.kind = "confirm", !.verified = Tip.digest]
  <2>1. e \in Event /\ e.generation = Tip.generation /\ e.digest = Tip.digest
    BY <1>0 DEF Event
  <2>2. QED
    BY <1>2, <2>1, AppendFresh DEF Confirm
<1>3. CASE Record
  <2>. DEFINE e == [Tip EXCEPT !.kind = "other"]
  <2>1. e \in Event /\ e.generation = Tip.generation /\ e.digest = Tip.digest
    BY <1>0 DEF Event
  <2>2. QED
    BY <1>3, <2>1, AppendFresh DEF Record
<1>4. ASSUME NEW n \in 0 .. Len(log) - 1, Restore(n)
      PROVE  FreshInv'
  BY <1>0, <1>4 DEF Restore, FreshInv, TypeOK
<1>5. ASSUME NEW n \in Asked, Discover(n)
      PROVE  FreshInv'
  <2>1. SUFFICES ASSUME restores = 0
                 PROVE  (HeadsInOrder /\ AnswersInv /\ RequestsInv /\ PinInv)'
    BY <1>5 DEF FreshInv, Discover, ledger
  <2>2. HeadsInOrder /\ AnswersInv /\ RequestsInv /\ PinInv
    BY <2>1 DEF FreshInv
  <2>. DEFINE tip == [generation |-> Tip.generation, digest |-> Tip.digest, checkpoint |-> log]
  <2>3. /\ UNCHANGED <<log, restores>> /\ UNCHANGED client
        /\ answers' = answers \cup {[nonce |-> n, payload |-> tip]}
    BY <1>5 DEF Discover, ledger
  <2>4. OfLog(tip)
    <3>1. Len(log) > 0
      BY <1>0, <1>5, TipOfLog DEF Discover, Servable, Tip, Genesis
    <3>2. QED
      BY <1>0, <3>1, TipOfLog DEF OfLog, Begins
  <2>5. \A p \in Process : Len(since[p]) <= Len(tip.checkpoint)
    BY <2>2 DEF RequestsInv, Begins
  <2>. HIDE DEF tip
  <2>6. AnswersInv'
    BY <2>2, <2>3, <2>4, <2>5 DEF AnswersInv, OfLog, client
  <2>7. QED
    BY <2>2, <2>3, <2>6 DEF HeadsInOrder, RequestsInv, PinInv, OfLog, client
<1>6. ASSUME NEW answer \in answers, Lose(answer)
      PROVE  FreshInv'
  BY <1>6 DEF Lose, FreshInv, HeadsInOrder, AnswersInv, RequestsInv, PinInv, OfLog, ledger, client
<1>7. QED
  BY <1>1, <1>2, <1>3, <1>4, <1>5, <1>6

\* A request begins at the log as it is, which no answer under way and no pin
\* is newer than.
LEMMA AskFresh ==
  ASSUME TypeOK, FreshInv, NEW p \in Process, NEW n \in Nonce, Ask(p, n)
  PROVE  FreshInv'
<1>1. SUFFICES ASSUME restores = 0
               PROVE  (HeadsInOrder /\ AnswersInv /\ RequestsInv /\ PinInv)'
  BY DEF FreshInv, Ask, ledger
<1>2. HeadsInOrder /\ AnswersInv /\ RequestsInv /\ PinInv
  BY <1>1 DEF FreshInv
<1>3. /\ UNCHANGED <<log, answers, held, pin>>
      /\ nonce' = [nonce EXCEPT ![p] = n] /\ since' = [since EXCEPT ![p] = log]
      /\ pc' = [pc EXCEPT ![p] = "asked"] /\ pc[p] = "idle"
      /\ \A answer \in answers : answer.nonce # n
      /\ \A q \in Process : q # p => pc[q] = "idle"
  BY NoneAssumption DEF Ask, Go, ledger, LockFree, TypeOK
<1>4. ASSUME NEW q \in Process, q # p
      PROVE  /\ since'[q] = since[q] /\ nonce'[q] = nonce[q] /\ pc'[q] = "idle"
  BY <1>3, <1>4 DEF TypeOK
<1>5. /\ since'[p] = log /\ nonce'[p] = n /\ pc'[p] = "asked"
  BY <1>3 DEF TypeOK
<1>6. AnswersInv'
  <2>1. ASSUME NEW answer \in answers
        PROVE  /\ OfLog(answer.payload)
               /\ \A q \in Process :
                    answer.nonce = nonce'[q] => Len(since'[q]) <= Len(answer.payload.checkpoint)
    BY <1>2, <1>3, <1>4, <1>5 DEF AnswersInv
  <2>2. QED
    BY <1>3, <2>1 DEF AnswersInv, OfLog
<1>7. RequestsInv'
  <2>1. /\ Begins(log, log)
        /\ pin # None => Len(pin.checkpoint) <= Len(log)
    BY <1>2, TipOfLog DEF Begins, PinInv, OfLog
  <2>2. ASSUME NEW q \in Process
        PROVE  /\ Begins(since'[q], log) /\ pc'[q] \in {"idle", "asked"}
               /\ pin # None /\ pc'[q] # "idle" => Len(pin.checkpoint) <= Len(since'[q])
    BY <1>2, <1>4, <1>5, <2>1 DEF RequestsInv
  <2>3. QED
    BY <1>3, <2>2 DEF RequestsInv
<1>8. HeadsInOrder' /\ PinInv'
  BY <1>2, <1>3 DEF HeadsInOrder, PinInv, OfLog
<1>9. QED
  BY <1>6, <1>7, <1>8

\* What is received answers the request, and only such is pinned.
LEMMA UpdateFresh ==
  ASSUME ClientInv, FreshInv, NEW p \in Process, Update(p) \/ Stop(p)
  PROVE  FreshInv'
<1>1. SUFFICES ASSUME restores = 0
               PROVE  (HeadsInOrder /\ AnswersInv /\ RequestsInv /\ PinInv)'
  BY DEF FreshInv, Update, Stop, Receive, Accept, Refuse, WriteRepo, WriteState, Transact, Return,
         Leave, ledger
<1>2. HeadsInOrder /\ AnswersInv /\ RequestsInv /\ PinInv /\ TypeOK
  BY <1>1 DEF FreshInv, ClientInv
<1>3. UNCHANGED <<log, answers>>
  BY DEF Update, Stop, Receive, Accept, Refuse, WriteRepo, WriteState, Transact, Return,
         Leave, ledger
<1>4. HeadsInOrder' /\ (\A d : OfLog(d)' <=> OfLog(d))
  BY <1>2, <1>3 DEF HeadsInOrder, OfLog
<1>5. ASSUME NEW answer \in answers, Receive(p, answer)
      PROVE  (AnswersInv /\ RequestsInv /\ PinInv)'
  <2>1. /\ UNCHANGED <<nonce, since, pin>> /\ pc[p] = "asked"
        /\ held' = [held EXCEPT ![p] = answer.payload] /\ pc' = [pc EXCEPT ![p] = "received"]
        /\ answer.nonce = nonce[p]
    BY <1>5 DEF Receive, Matches, Go
  <2>2. ASSUME NEW q \in Process
        PROVE  /\ q # p => held'[q] = held[q] /\ pc'[q] = pc[q]
               /\ q = p => held'[q] = answer.payload /\ pc'[q] = "received"
    BY <1>2, <2>1 DEF TypeOK
  <2>3. OfLog(answer.payload) /\ Len(since[p]) <= Len(answer.payload.checkpoint)
    BY <1>2, <2>1 DEF AnswersInv
  <2>4. RequestsInv'
    BY <1>2, <1>3, <1>4, <2>1, <2>2, <2>3 DEF RequestsInv
  <2>5. QED
    BY <1>2, <1>3, <1>4, <2>1, <2>4 DEF AnswersInv, PinInv
<1>6. CASE Accept(p) \/ WriteRepo(p) \/ Transact(p)
  <2>1. /\ UNCHANGED <<nonce, since, held, pin>>
        /\ pc[p] \in {"received", "accepted", "pinned"}
        /\ \A q \in Process : pc'[q] = pc[q] \/ (q = p /\ pc'[q] \in {"accepted", "written", "done"})
        /\ pc'[p] = "accepted" => pc[p] = "received"
        /\ pc'[p] = "written" => pc[p] = "accepted"
    BY <1>2, <1>6 DEF Accept, WriteRepo, Transact, BeforeDnf, Go, TypeOK
  <2>2. RequestsInv'
    BY <1>2, <1>3, <1>4, <2>1 DEF RequestsInv
  <2>3. QED
    BY <1>2, <1>3, <1>4, <2>1, <2>2 DEF AnswersInv, PinInv
<1>7. CASE WriteState(p)
  <2>1. /\ UNCHANGED <<nonce, since, held>> /\ pin' = held[p]
        /\ pc[p] = "written" /\ pc'[p] = "pinned"
        /\ \A q \in Process : q # p => pc'[q] = "idle"
    BY <1>2, <1>7, OnlyHolder DEF WriteState, Go, TypeOK
  <2>2. OfLog(held[p])
    BY <1>2, <2>1 DEF RequestsInv
  <2>3. RequestsInv'
    BY <1>2, <1>3, <1>4, <2>1, <2>2 DEF RequestsInv
  <2>4. QED
    BY <1>2, <1>3, <1>4, <2>1, <2>2, <2>3 DEF AnswersInv, PinInv
<1>8. CASE Refuse(p) \/ Return(p) \/ Stop(p)
  <2>1. Leave(p) /\ pc[p] # "idle"
    BY <1>8 DEF Refuse, Return, Stop
  <2>2. /\ UNCHANGED pin
        /\ \A q \in Process : /\ pc'[q] = "idle"
                              /\ since'[q] = IF q = p THEN <<>> ELSE since[q]
                              /\ nonce'[q] = IF q = p THEN None ELSE nonce[q]
    BY <1>2, <2>1, OnlyHolder DEF Leave, Go, TypeOK
  <2>3. Begins(<<>>, log)
    BY TipOfLog, <1>2 DEF Begins
  <2>4. RequestsInv'
    BY <1>2, <1>3, <2>2, <2>3 DEF RequestsInv
  <2>5. \A answer \in answers : answer.nonce # None
    BY <1>2, NoneAssumption DEF TypeOK, Answer
  <2>6. QED
    BY <1>2, <1>3, <1>4, <2>2, <2>4, <2>5 DEF AnswersInv, PinInv
<1>9. QED
  BY <1>4, <1>5, <1>6, <1>7, <1>8 DEF Update

\* Every step of the specification keeps discoveries to the log.
LEMMA FreshStep == ClientInv /\ FreshInv /\ [Next]_vars => FreshInv'
<1>1. SUFFICES ASSUME ClientInv, FreshInv, [Next]_vars PROVE FreshInv'
  OBVIOUS
<1>2. TypeOK
  BY <1>1 DEF ClientInv
<1>3. CASE UNCHANGED vars
  BY <1>1, <1>3 DEF FreshInv, HeadsInOrder, AnswersInv, RequestsInv, PinInv, OfLog, vars, ledger, client
<1>4. CASE Next
  BY <1>1, <1>2, <1>4, LedgerFresh, AskFresh, UpdateFresh DEF Next
<1>5. QED
  BY <1>1, <1>3, <1>4

\* A log without events has no discoveries.
LEMMA FreshInit == Init => FreshInv
<1>1. SUFFICES ASSUME Init PROVE HeadsInOrder /\ AnswersInv /\ RequestsInv /\ PinInv
  BY DEF FreshInv
<1>2. Len(log) = 0 /\ log = <<>>
  BY <1>1 DEF Init
<1>3. QED
  BY <1>1, <1>2 DEF Init, HeadsInOrder, AnswersInv, RequestsInv, PinInv, Begins

\* Of an unrestored ledger, what DNF is run on was discovered after its update
\* asked: its checkpoint goes on from the log of that moment.
THEOREM InstallsFresh == Spec => FollowsRequest
<1>. DEFINE Follows == \A p \in Process : Transact(p) /\ restores = 0 =>
                         /\ Len(since[p]) <= Len(held[p].checkpoint)
                         /\ since[p] = SubSeq(held[p].checkpoint, 1, Len(since[p]))
<1>1. ASSUME ClientInv, FreshInv, NEW p \in Process, Transact(p), restores = 0
      PROVE  /\ Len(since[p]) <= Len(held[p].checkpoint)
             /\ since[p] = SubSeq(held[p].checkpoint, 1, Len(since[p]))
  <2>. DEFINE s == since[p]
              t == held[p].checkpoint
  <2>1. /\ Begins(s, log) /\ Begins(t, log) /\ Len(s) <= Len(t)
        /\ s \in Seq(Event) /\ t \in Seq(Event)
    BY <1>1 DEF FreshInv, RequestsInv, OfLog, Transact, BeforeDnf, ClientInv, HolderInv, TypeOK,
                Discovery
  <2>. HIDE DEF s, t
  <2>2. Len(s) \in Nat /\ Len(t) \in Nat /\ \A i \in 1 .. Len(s) : t[i] = s[i]
    BY <2>1, LenProperties DEF Begins
  <2>3. \A i \in 1 .. Len(s) : t[i] \in Event
    BY <2>1, <2>2, ElementOfSeq
  <2>4. /\ SubSeq(t, 1, Len(s)) \in Seq(Event)
        /\ Len(SubSeq(t, 1, Len(s))) = IF 1 <= Len(s) THEN Len(s) - 1 + 1 ELSE 0
        /\ \A i \in 1 .. Len(s) - 1 + 1 : SubSeq(t, 1, Len(s))[i] = t[1 + i - 1]
    BY <2>2, <2>3, SubSeqProperties
  <2>5. /\ Len(SubSeq(t, 1, Len(s))) = Len(s)
        /\ \A i \in 1 .. Len(s) : SubSeq(t, 1, Len(s))[i] = s[i]
    BY <2>2, <2>4
  <2>6. s = SubSeq(t, 1, Len(s))
    BY <2>1, <2>4, <2>5, SeqEqual
  <2>7. QED
    BY <2>1, <2>6 DEF s, t
<1>2. ClientInv /\ FreshInv /\ [Next]_vars => [Follows]_vars
  BY <1>1
<1>3. QED
  BY <1>2, FreshInit, FreshStep, ClientInvariant, PTL DEF Spec, FollowsRequest

\* Of an unrestored ledger, the rollback and equivocation checks refuse nothing.
THEOREM NotLockedOut == Spec => NeverLockedOut
<1>1. ASSUME ClientInv, FreshInv, NEW p \in Process, Refuse(p)
      PROVE  restores > 0
  <2>1. SUFFICES ASSUME restores = 0 PROVE FALSE
    BY <1>1 DEF ClientInv, TypeOK
  <2>2. HeadsInOrder /\ RequestsInv /\ PinInv /\ TypeOK
    BY <1>1, <2>1 DEF FreshInv, ClientInv
  <2>3. pc[p] = "received" /\ pin # None /\ ~NotBehind(pin, held[p]) /\ held[p] # None
    BY <1>1 DEF Refuse, Acceptable, ClientInv, HolderInv
  <2>. DEFINE s == pin.checkpoint
              t == held[p].checkpoint
  <2>4. /\ s \in Seq(Event) /\ t \in Seq(Event) /\ Len(s) \in Nat /\ Len(t) \in Nat
        /\ OfLog(pin) /\ OfLog(held[p]) /\ Len(since[p]) \in Nat
    BY <2>2, <2>3, LenProperties DEF RequestsInv, PinInv, TypeOK, Discovery
  <2>5. Len(s) <= Len(t)
    BY <2>2, <2>3, <2>4 DEF RequestsInv
  <2>6. Len(s) = Len(t) => s = t
    BY <2>4, SeqEqual DEF OfLog, Begins
  <2>7. /\ pin.generation <= held[p].generation
        /\ pin.generation = held[p].generation => pin.digest = held[p].digest
    <3>1. Len(s) \in 1 .. Len(log) /\ Len(t) \in 1 .. Len(log)
      BY <2>2, <2>4, TipOfLog DEF OfLog, Begins
    <3>2. QED
      BY <2>2, <2>4, <2>5, <3>1 DEF OfLog, HeadsInOrder
  <2>8. QED
    BY <2>3, <2>5, <2>6, <2>7 DEF NotBehind
<1>2. ClientInv /\ FreshInv /\ [Next]_vars => [\A p \in Process : Refuse(p) => restores > 0]_vars
  BY <1>1
<1>3. QED
  BY <1>2, FreshInit, FreshStep, ClientInvariant, PTL DEF Spec, NeverLockedOut
=============================================================================
