----------------------------- MODULE PsopClient -----------------------------
(***************************************************************************)
(* The PSOP test client and the descriptors it follows                     *)
(* (src/tools/psop_client.py).                                             *)
(*                                                                         *)
(* The issuer signs short-lived descriptors of the gateway's stable head,  *)
(* each following one of the generation before.  An update verifies a      *)
(* descriptor and the whole view behind it, writes a journal, runs DNF as  *)
(* a child process, commits repository and state by one rename, and clears *)
(* the journal, all under one file lock.  It may stop between any two of   *)
(* these steps, and a DNF whose parent was killed goes on without it.      *)
(*                                                                         *)
(* A view is its packages: the version of each name, 0 for a name it does  *)
(* not have.  Signatures and digests make the bytes a client reads either  *)
(* those of the signed view or a refusal, which changes nothing.           *)
(*                                                                         *)
(* Its names differ from those of PsopGateway, the other side of the       *)
(* protocol, so that one module can extend both.                           *)
(***************************************************************************)
EXTENDS Integers, Sequences, FiniteSets

CONSTANTS
  Name,            \* package names
  ClientView,      \* the results the gateway may publish
  NoValue,         \* no value
  MaxLife,         \* longest descriptor: 3600 seconds in the code
  MaxGenerations,  \* bound on publications
  MaxDescriptors,  \* bound on descriptors
  MaxClock         \* bound on time

ASSUME ClientAssumption ==
  /\ ClientView \subseteq [Name -> Nat]
  /\ NoValue \notin ClientView
  /\ {MaxLife, MaxGenerations, MaxDescriptors, MaxClock} \subseteq Nat

VARIABLES
  clock,
  published,    \* the completed publications, each with its approval's expiry
  descriptors,  \* the signed descriptors
  active,       \* active.json: the descriptor committed last
  pending,      \* pending.json: the journalled intent
  installed,    \* each name in the install root: its version, and the
                \* generation of the view it came from
  run,          \* the update under the lock, and where it is
  orphans       \* the intents of DNF processes whose parent was killed

files == <<active, pending>>
client == <<files, installed, run, orphans>>
clientVars == <<clock, published, descriptors, client>>

Publication == [view : ClientView, expires : Nat]
Descriptor == [generation : Nat \ {0}, previous : ClientView \cup {NoValue}, view : ClientView,
               issued : Nat, expires : Nat]
Operation == {"none", "makecache", "install", "upgrade"}
Intent == [descriptor : Descriptor, operation : Operation, packages : SUBSET Name]
Steps == {"verified", "journaled", "dnf", "transacted", "committed"}

ASSUME RecordAssumption == NoValue \notin Descriptor \cup Intent

ClientTypeOK ==
  /\ clock \in Nat
  /\ published \in Seq(Publication)
  /\ descriptors \subseteq Descriptor
  /\ active \in Descriptor \cup {NoValue}
  /\ pending \in Intent \cup {NoValue}
  /\ installed \in [Name -> [version : Nat, generation : Nat]]
  /\ run \in [intent : Intent, step : Steps] \cup {NoValue}
  /\ orphans \subseteq Intent

ClientInit ==
  /\ clock = 0 /\ published = <<>> /\ descriptors = {}
  /\ active = NoValue /\ pending = NoValue
  /\ installed = [n \in Name |-> [version |-> 0, generation |-> 0]]
  /\ run = NoValue /\ orphans = {}

NamesOf(view) == {n \in Name : view[n] > 0}

-----------------------------------------------------------------------------
(* The issuer.                                                             *)

\* The gateway completes a publication and moves the stable head to it.
Publish(view, life) ==
  /\ Len(published) < MaxGenerations
  /\ published' = Append(published, [view |-> view, expires |-> clock + life])
  /\ UNCHANGED <<clock, descriptors, client>>

Generation == Len(published)
PreviousView == IF Generation = 1 THEN NoValue ELSE published[Generation - 1].view

\* Mutant of IssuedWithin: the approval is fresh, the descriptor may outlive it.
IssuedWhileFresh(life) == clock < published[Generation].expires

\* The descriptor ends no later than the approval of the publication.
IssuedWithin(life) == clock + life <= published[Generation].expires

\* issue_descriptor: of the current head only, after a descriptor of the
\* generation before.
Issue(life) ==
  /\ published # <<>> /\ Cardinality(descriptors) < MaxDescriptors
  /\ IssuedWithin(life)
  /\ Generation > 1 => \E d \in descriptors : /\ d.generation = Generation - 1
                                             /\ d.view = PreviousView
  /\ descriptors' = descriptors \cup
       {[generation |-> Generation, previous |-> PreviousView, view |-> published[Generation].view,
         issued |-> clock, expires |-> clock + life]}
  /\ UNCHANGED <<clock, published, client>>

-----------------------------------------------------------------------------
(* An update, under the lock.                                              *)

Fresh(d) == d.issued <= clock /\ clock < d.expires

\* _dnf: makecache names no package, the others some of the view.
Commandable(i) ==
  IF i.operation \in {"none", "makecache"} THEN i.packages = {}
  ELSE i.packages # {} /\ i.packages \subseteq NamesOf(i.descriptor.view)

\* Mutant of Follows: any newer generation may follow.
FollowsNewer(d) ==
  active # NoValue =>
    /\ d.generation > active.generation
    /\ \A n \in NamesOf(d.view) \cap NamesOf(active.view) : d.view[n] >= active.view[n]

\* _lineage: the next generation of the active view, and no downgrade.
Follows(d) ==
  active # NoValue =>
    /\ d.generation = active.generation + 1 /\ d.previous = active.view
    /\ \A n \in NamesOf(d.view) \cap NamesOf(active.view) : d.view[n] >= active.view[n]

\* Mutant of Committed: a journal is only cleared by a whole update.
CommittedNever(i, resume) == FALSE

\* A stopped update had already committed this intent.
Committed(i, resume) == resume /\ pending = i /\ active = i.descriptor

\* _lineage: a journal admits only the resumption of its own intent.
Unblocked(i, resume) == pending # NoValue => pending = i /\ resume

\* The lock is free, and the descriptor and all it signs are verified.
Verified(i) == run = NoValue /\ i.descriptor \in descriptors /\ Fresh(i.descriptor)

\* update of an intent committed before: the journal is cleared, no DNF runs.
Recover(i, resume) ==
  /\ Verified(i) /\ Committed(i, resume)
  /\ pending' = NoValue
  /\ UNCHANGED <<clock, published, descriptors, active, installed, run, orphans>>

\* update up to the prepared command.
Begin(i, resume) ==
  /\ Verified(i) /\ ~Committed(i, resume)
  /\ Unblocked(i, resume) /\ Follows(i.descriptor) /\ Commandable(i)
  /\ run' = [intent |-> i, step |-> "verified"]
  /\ UNCHANGED <<clock, published, descriptors, files, installed, orphans>>

AtStep(step) == run # NoValue /\ run.step = step
ToStep(step) == run' = [run EXCEPT !.step = step]

\* The journal is written, if time has not run out.
Journal ==
  /\ AtStep("verified") /\ Fresh(run.intent.descriptor)
  /\ pending' = run.intent /\ ToStep("journaled")
  /\ UNCHANGED <<clock, published, descriptors, active, installed, orphans>>

\* The clock is looked at again right before DNF.
Startable == AtStep("journaled") /\ run.intent.operation # "none" /\ Fresh(run.intent.descriptor)

StartDnf ==
  /\ Startable
  /\ ToStep("dnf")
  /\ UNCHANGED <<clock, published, descriptors, files, installed, orphans>>

\* What DNF makes of the install root when it gets names of the view done: it
\* replaces no package by an older one.
Installed(view, generation, names) ==
  [n \in Name |-> IF n \in names /\ view[n] > installed[n].version
                  THEN [version |-> view[n], generation |-> generation]
                  ELSE installed[n]]

\* The names DNF can act on: those asked for, and what they require; it
\* upgrades only what is installed.
Reach(i) ==
  IF i.operation \in {"none", "makecache"} THEN {{}}
  ELSE IF i.operation = "upgrade" /\ \E n \in i.packages : installed[n].version = 0 THEN {{}}
  ELSE {t \in SUBSET NamesOf(i.descriptor.view) : i.packages \subseteq t}

Applied(i, names) == Installed(i.descriptor.view, i.descriptor.generation, names)

\* DNF succeeds, and exactly the verified versions are installed.
DnfSucceeds ==
  /\ AtStep("dnf")
  /\ \E names \in Reach(run.intent) :
       /\ installed' = Applied(run.intent, names)
       /\ \A n \in run.intent.packages :
            installed'[n].version = run.intent.descriptor.view[n]
  /\ ToStep("transacted")
  /\ UNCHANGED <<clock, published, descriptors, files, orphans>>

\* Mutant of DnfFails: the journal is cleared by the failing update.
DnfFailsClean ==
  /\ AtStep("dnf")
  /\ \E names \in UNION {SUBSET t : t \in Reach(run.intent)} : installed' = Applied(run.intent, names)
  /\ run' = NoValue /\ pending' = NoValue
  /\ UNCHANGED <<clock, published, descriptors, active, orphans>>

\* DNF fails, runs out of time, or did not install exactly what it should: it
\* may have installed part of it.
DnfFails ==
  /\ AtStep("dnf")
  /\ \E names \in UNION {SUBSET t : t \in Reach(run.intent)} : installed' = Applied(run.intent, names)
  /\ run' = NoValue
  /\ UNCHANGED <<clock, published, descriptors, files, orphans>>

\* One rename commits repository and state together.
Commit ==
  /\ AtStep("transacted") \/ (AtStep("journaled") /\ run.intent.operation = "none")
  /\ active' = run.intent.descriptor /\ ToStep("committed")
  /\ UNCHANGED <<clock, published, descriptors, pending, installed, orphans>>

Clear ==
  /\ AtStep("committed")
  /\ pending' = NoValue /\ run' = NoValue
  /\ UNCHANGED <<clock, published, descriptors, active, installed, orphans>>

\* The update is killed, or refuses to go on.  The lock is free at once; a
\* running DNF stays.
StopUpdate ==
  /\ run # NoValue
  /\ run' = NoValue
  /\ orphans' = IF run.step = "dnf" THEN orphans \cup {run.intent} ELSE orphans
  /\ UNCHANGED <<clock, published, descriptors, files, installed>>

\* A DNF without parent ends, with all, part or nothing of its work done.
OrphanEnds(i) ==
  /\ i \in orphans
  /\ \E names \in UNION {SUBSET t : t \in Reach(i)} : installed' = Applied(i, names)
  /\ orphans' = orphans \ {i}
  /\ UNCHANGED <<clock, published, descriptors, files, run>>

-----------------------------------------------------------------------------

Tick ==
  /\ clock < MaxClock
  /\ clock' = clock + 1
  /\ UNCHANGED <<published, descriptors, client>>

Intents == {i \in [descriptor : descriptors, operation : Operation, packages : SUBSET Name] :
              Commandable(i)}

ClientNext ==
  \/ \E view \in ClientView, life \in 1 .. MaxClock : Publish(view, life)
  \/ \E life \in 1 .. MaxLife : Issue(life)
  \/ \E i \in Intents, resume \in BOOLEAN : Recover(i, resume) \/ Begin(i, resume)
  \/ Journal \/ StartDnf \/ DnfSucceeds \/ DnfFails \/ Commit \/ Clear \/ StopUpdate
  \/ \E i \in orphans : OrphanEnds(i)
  \/ Tick

ClientSpec == ClientInit /\ [][ClientNext]_clientVars

-----------------------------------------------------------------------------
(* Properties.                                                             *)

\* A package comes from a view newer than the active one only while the
\* journal holds that very view, the next one, so that a resume finishes it:
\* whatever step the update, or a DNF left behind, stopped at
\* (psop_client.py:276-285, 357-378).
AheadOnlyWhilePending ==
  \A n \in Name :
    installed[n].generation > (IF active = NoValue THEN 0 ELSE active.generation) =>
      /\ pending # NoValue
      /\ pending.descriptor.generation = installed[n].generation
      /\ active # NoValue => pending.descriptor.generation = active.generation + 1

\* A journal never locks its own update out: while its descriptor is fresh, a
\* resume is admitted or recovers, wherever the last update stopped
\* (psop_client.py:298-306).
PendingResumable ==
  pending # NoValue /\ run = NoValue /\ Fresh(pending.descriptor) =>
    \/ Committed(pending, TRUE)
    \/ Unblocked(pending, TRUE) /\ Follows(pending.descriptor)

\* The active view only moves to the publication right after it, and is always
\* what the gateway published at that generation, although descriptors are
\* issued and followed at other times (psop_client.py:60-72, 279-281).
ActiveFollowsStable ==
  [][active' # active =>
       /\ active'.view = published[active'.generation].view
       /\ active # NoValue => active'.generation = active.generation + 1]_clientVars

\* DNF is started only while the approval of the publication it installs is
\* valid, however long verification and preparation took, and never again for
\* a view that is already active (psop_client.py:59, 357-364, comment at 300).
TransactsUnderApproval ==
  [][run' # run /\ run' # NoValue /\ run'.step = "dnf" =>
       /\ clock < published[run'.intent.descriptor.generation].expires
       /\ run'.intent.descriptor # active]_clientVars
=============================================================================
