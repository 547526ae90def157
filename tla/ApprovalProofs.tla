---------------------------- MODULE ApprovalProofs ----------------------------
(***************************************************************************)
(* What Mutate does with an approval, for every value of its constants:    *)
(* the journal, the backups, the undoing of a mutation once, and that the  *)
(* commands implement ApprovedChange.                                      *)
(*                                                                         *)
(* On top of Inv (module MutateProofs) come Numbered (mutation ids),       *)
(* Kinds (what an apply and a rollback carry), BackedUp, Truthful (the     *)
(* journal and what landed), Undone (rollbacks) and Once (proposals).      *)
(***************************************************************************)
EXTENDS MutateProofs

-----------------------------------------------------------------------------
(* Inductive invariants.                                                   *)

Early == {"lock", "reconcile", "unmark", "load", "check", "backup", "mark"}

\* The id of a command is nobody else's, and is on no record before it writes one.
Numbered ==
  /\ \A l \in journal : l.change.id <= commands
  /\ marker # None => marker.id <= commands
  /\ \A c \in landed : c.id <= commands
  /\ \A p \in Procs : pc[p] \in Early =>
       ~ Journaled(cmd[p].id) /\ (marker # None => marker.id # cmd[p].id)
  /\ \A p \in Procs : pc[p] \in Early \cup {"install"} => \A c \in landed : c.id # cmd[p].id

\* An apply undoes nothing and writes what was staged; a rollback undoes a mutation.
Kinds ==
  /\ \A i \in ProposalIds : proposals[i] # None => proposals[i].post \in StageContents
  /\ \A p \in Procs : pc[p] \in JobSteps =>
       job[p].op = cmd[p].op /\ (job[p].op = "apply" <=> job[p].undoes = NoMut)
  /\ marker # None /\ marker.op = "apply" => marker.undoes = NoMut /\ marker.post \in StageContents
  /\ \A c \in landed : c.op = "apply" => /\ c.undoes = NoMut
                                         /\ c.pid \in ProposalIds /\ proposals[c.pid] # None

Recoverable(c) == c.op = "apply" /\ c.pre # Absent => backups[c.id] = c.pre

\* A backup is taken before there is a marker that mentions it.
BackedUp ==
  /\ \A l \in journal : Recoverable(l.change)
  /\ marker # None => Recoverable(marker)
  /\ \A p \in Procs :
       pc[p] \in {"mark", "install", "verify", "journal", "clear", "abort"} => Recoverable(job[p])

Occurred(c) == \E d \in landed : d.id = c.id /\ (c.op = "apply" => d = c)

\* A marker that may be taken for an installed change is that of one that landed.
Truthful ==
  /\ \A l \in journal : Occurred(l.change)
  /\ marker # None =>
       \/ marker \in landed
       \/ marker.op = "apply" /\ file[marker.target] # marker.post
       \/ marker.op = "rollback" /\ \E p \in Procs : pc[p] \in {"install", "abort"} /\ job[p] = marker
  /\ \A p \in Procs : pc[p] \in {"backup", "mark"} /\ job[p].op = "apply" =>
       file[job[p].target] # job[p].post
  /\ \A p \in Procs : pc[p] \in {"verify", "journal", "clear"} => job[p] \in landed

\* What was written is there when it is verified.
PostHeld == \A p \in Procs : pc[p] = "verify" => file[job[p].target] = job[p].post

\* An undoing is journaled before another rollback can look for it.
Undone ==
  /\ \A c \in landed : c.undoes # NoMut =>
       \/ \E l \in journal : l.change = c
       \/ \E p \in Procs : pc[p] \in {"verify", "journal"} /\ job[p] = c
  /\ \A p \in Procs : pc[p] \in {"check", "mark", "install"} /\ job[p].op = "rollback" =>
       \A c \in landed : c.undoes # job[p].undoes
  /\ RollbackUndoesOnce

\* A proposal is invalidated before another apply can load it.
Once ==
  crashes = 0 =>
    /\ \A c \in landed : c.op = "apply" =>
         \/ c.pid \notin live
         \/ \E p \in Procs : pc[p] \in {"verify", "journal", "clear", "invalidate"} /\ job[p] = c
    /\ \A p \in Procs : pc[p] \in {"check", "backup", "mark", "install"} /\ job[p].op = "apply" =>
         \A c \in landed : c.op = "apply" => c.pid # job[p].pid
    /\ \A c, d \in landed : c.op = "apply" /\ d.op = "apply" /\ c.pid = d.pid => c = d

\* What a rollback undoes is an apply that landed.
Undoing ==
  \A p \in Procs : pc[p] \in {"check", "mark", "install"} /\ job[p].op = "rollback" =>
    \E a \in landed : /\ a.op = "apply" /\ a.id = job[p].undoes /\ a.pid = job[p].pid
                      /\ a.target = job[p].target
                      /\ a.pre = job[p].post /\ a.post = job[p].pre

-----------------------------------------------------------------------------
(* Lemmas about single steps.                                              *)

\* The steps of everybody else, and no step at all.
Elsewhere ==
  \/ \E i \in ProposalIds, t \in Targets, c \in StageContents, f \in Fingerprints : Stage(i, t, c, f)
  \/ \E i \in ProposalIds : Expire(i)
  \/ UNCHANGED vars

\* What JournalMutation appends is the command's change.
LEMMA JournaledJob ==
  ASSUME Shape, NEW p \in Procs, JournalMutation(p)
  PROVE  job[p] \in Change /\ journal' = journal \cup {[change |-> job[p], reconciled |-> FALSE]}
<1>1. job[p] \in Change
  BY DEF JournalMutation, Goto, Shape, ShapeOf, JobSteps
<1>2. [MutationRecord(job[p]) EXCEPT !.undoes = job[p].undoes] = job[p]
  BY <1>1 DEF MutationRecord, Change
<1>3. QED
  BY <1>1, <1>2 DEF JournalMutation

\* What ReconcileInstalled appends is the marker's change, but for what it undoes.
LEMMA JournaledMarker ==
  ASSUME Shape, NEW p \in Procs, ReconcileInstalled(p)
  PROVE  \E c \in Change :
           /\ journal' = journal \cup {[change |-> c, reconciled |-> TRUE]}
           /\ c.id = marker.id /\ c.op = marker.op /\ c.pre = marker.pre
           /\ c.undoes = NoMut
           /\ marker.undoes = NoMut => c = marker
<1> DEFINE c == MutationRecord(marker)
<1>1. marker \in Change
  BY DEF ReconcileInstalled, Shape, TypeOK
<1>2. /\ c \in Change /\ c.id = marker.id /\ c.op = marker.op /\ c.pre = marker.pre
      /\ c.undoes = NoMut /\ (marker.undoes = NoMut => c = marker)
  BY <1>1 DEF MutationRecord, Change
<1>3. journal' = journal \cup {[change |-> c, reconciled |-> TRUE]}
  BY DEF ReconcileInstalled
<1>4. QED
  <2> HIDE DEF c
  <2> QED BY <1>2, <1>3

-----------------------------------------------------------------------------
(* Mutation ids, and what the two kinds of change carry.                   *)

LEMMA NumberedStep ==
  ASSUME Inv, Numbered, [Next]_vars
  PROVE  Numbered'
<1> USE DEF Numbered, Early, Journaled, Inv, Fresh, Exclusion, LockHeld, Shape, ShapeOf, TypeOK,
        Steps, JobSteps, Command, Change, MutIds, NoMut, disk, store, env, Locals
<1>1. ASSUME NEW p \in Procs, (\E i \in live : Begin(p, "apply", i, NoMut))
             \/ (\E l \in journal : Begin(p, "rollback", None, l.change.id))
      PROVE  Numbered'
  <2>1. /\ UNCHANGED <<landed, marker, journal>> /\ commands' = commands + 1
        /\ pc' = [pc EXCEPT ![p] = "lock"] /\ cmd'[p].id = commands + 1
        /\ \A q \in Procs \ {p} : cmd'[q] = cmd[q]
    BY <1>1 DEF Begin, Goto
  <2>2. /\ commands \in Nat /\ \A l \in journal : l.change.id \in Nat
        /\ marker # None => marker.id \in Nat
        /\ \A c \in landed : c.id \in Nat
    BY ConstantsAssumption DEF Line
  <2> QED BY <2>1, <2>2
<1>2. ASSUME NEW p \in Procs, Acquire(p) \/ ReconcileNothing(p)
             \/ ReconcileNotInstalled(p) \/ Unmark(p)
             \/ LoadProposal(p) \/ FindMutation(p) \/ CheckPreimage(p) \/ Backup(p)
             \/ InstallFails(p) \/ Verify(p)
             \/ InvalidateProposal(p) \/ ReadFingerprints(p)
      PROVE  Numbered'
  BY SMTT(60), <1>2 DEF Acquire, Goto, ReconcileNothing, ReconcileNotInstalled,
         Unmark, LoadProposal, FindMutation, CheckPreimage,
         Backup, InstallFails, Verify, InvalidateProposal, ReadFingerprints
<1>3. ASSUME NEW p \in Procs, ReconcileInstalled(p)
      PROVE  Numbered'
  <2>1. PICK c \in Change : journal' = journal \cup {[change |-> c, reconciled |-> TRUE]}
                             /\ c.id = marker.id
    BY <1>3, JournaledMarker
  <2>2. /\ marker # None /\ UNCHANGED <<disk, marker, Locals, commands>>
        /\ pc' = [pc EXCEPT ![p] = "unmark"] /\ pc[p] = "reconcile"
    BY <1>3 DEF ReconcileInstalled, Goto
  <2> QED BY <2>1, <2>2
<1>4. ASSUME NEW p \in Procs, JournalMutation(p)
      PROVE  Numbered'
  <2>1. job[p] \in Change /\ journal' = journal \cup {[change |-> job[p], reconciled |-> FALSE]}
    BY <1>4, JournaledJob
  <2>2. /\ UNCHANGED <<disk, marker, Locals, commands>>
        /\ pc' = [pc EXCEPT ![p] = "clear"] /\ pc[p] = "journal"
    BY <1>4 DEF JournalMutation, Goto
  <2> QED BY <2>1, <2>2
<1>5. ASSUME NEW p \in Procs, ReconcileBlocked(p) \/ Refuse(p) \/ StaleTarget(p)
             \/ Abort(p) \/ VerifyFails(p) \/ WriteFingerprints(p) \/ Crash(p)
      PROVE  Numbered'
  <2>1. UNCHANGED <<landed, commands, journal>> /\ marker' \in {marker, None} /\ Leave(p)
    BY <1>5 DEF ReconcileBlocked, Refuse, StaleTarget, Abort, VerifyFails, WriteFingerprints, Crash
  <2>2. \A q \in Procs : pc'[q] # "idle" => pc'[q] = pc[q] /\ cmd'[q] = cmd[q]
    BY <2>1 DEF Leave
  <2> QED BY <2>1, <2>2
<1>6. ASSUME NEW p \in Procs, Install(p) \/ InstallFailsLate(p) PROVE Numbered'
  <2>1. /\ pc[p] = "install" /\ landed' = landed \cup {job[p]}
        /\ pc' = [pc EXCEPT ![p] = IF Install(p) THEN "verify" ELSE "abort"]
        /\ UNCHANGED <<marker, journal, Locals, commands>>
    BY <1>6 DEF Install, InstallFailsLate, Goto, Replace
  <2> QED BY <2>1
<1>7. ASSUME NEW p \in Procs, WriteMarker(p) PROVE Numbered'
  BY <1>7 DEF WriteMarker, Goto
<1>8. ASSUME NEW p \in Procs, ClearMarker(p) PROVE Numbered'
  <2>1. UNCHANGED <<landed, commands, journal>> /\ marker' = None
    BY <1>8 DEF ClearMarker
  <2>2. \A q \in Procs : pc'[q] \in Early \cup {"install"} => pc'[q] = pc[q] /\ cmd'[q] = cmd[q]
    BY <1>8 DEF ClearMarker, Goto, Leave
  <2> QED BY <2>1, <2>2
<1>9. CASE Elsewhere \/ \E t \in Targets, c \in EditContents : Edit(t, c)
  BY <1>9 DEF Elsewhere, Stage, Expire, Edit, vars
<1>10. QED
  BY <1>1, <1>2, <1>3, <1>4, <1>5, <1>6, <1>7, <1>8, <1>9 DEF Next, Start, Step, Others, Elsewhere

LEMMA KindsStep ==
  ASSUME Inv, Kinds, [Next]_vars
  PROVE  Kinds'
<1> USE DEF Kinds, Inv, Shape, ShapeOf, TypeOK, Steps, JobSteps, disk, store, env, Locals
<1>1. ASSUME NEW p \in Procs, (\E i \in live : Begin(p, "apply", i, NoMut))
             \/ (\E l \in journal : Begin(p, "rollback", None, l.change.id))
      PROVE  Kinds'
  BY <1>1 DEF Begin, Goto
<1>2. ASSUME NEW p \in Procs, Acquire(p) \/ ReconcileNothing(p)
             \/ ReconcileNotInstalled(p) \/ ReconcileInstalled(p) \/ Unmark(p)
             \/ CheckPreimage(p) \/ Backup(p)
             \/ InstallFails(p) \/ Verify(p) \/ JournalMutation(p)
             \/ InvalidateProposal(p) \/ ReadFingerprints(p)
      PROVE  Kinds'
  BY <1>2 DEF Acquire, Goto, ReconcileNothing, ReconcileNotInstalled, ReconcileInstalled,
         Unmark, CheckPreimage, Backup, InstallFails, Verify, JournalMutation,
         InvalidateProposal, ReadFingerprints
<1>3. ASSUME NEW p \in Procs, LoadProposal(p) PROVE Kinds'
  BY <1>3 DEF LoadProposal, Goto
<1>4. ASSUME NEW p \in Procs, FindMutation(p) PROVE Kinds'
  <2>1. PICK l \in journal : l.change.id = cmd[p].undoes
    BY <1>4 DEF FindMutation, LinesOf
  <2>2. cmd[p].undoes # NoMut
    BY <2>1 DEF Line, Change, MutIds, NoMut
  <2>3. /\ UNCHANGED <<marker, proposals, landed, cmd>>
        /\ pc' = [pc EXCEPT ![p] = "check"]
        /\ job'[p].op = "rollback" /\ job'[p].undoes = cmd[p].undoes /\ cmd[p].op = "rollback"
        /\ \A q \in Procs \ {p} : job'[q] = job[q]
    BY <1>4 DEF FindMutation, Goto
  <2> QED BY <2>2, <2>3
<1>5. ASSUME NEW p \in Procs, ReconcileBlocked(p) \/ Refuse(p) \/ StaleTarget(p)
             \/ Abort(p) \/ VerifyFails(p) \/ WriteFingerprints(p) \/ Crash(p)
      PROVE  Kinds'
  BY <1>5 DEF ReconcileBlocked, Leave, Refuse, StaleTarget, Abort, VerifyFails,
         WriteFingerprints, Crash
<1>6. ASSUME NEW p \in Procs, Install(p) \/ InstallFailsLate(p) PROVE Kinds'
  <2>1. /\ pc[p] = "install" /\ landed' = landed \cup {job[p]}
        /\ pc' = [pc EXCEPT ![p] = IF Install(p) THEN "verify" ELSE "abort"]
        /\ UNCHANGED <<marker, proposals, Locals>>
    BY <1>6 DEF Install, InstallFailsLate, Goto, Replace
  <2> QED BY <2>1 DEF Justified
<1>7. ASSUME NEW p \in Procs, WriteMarker(p) PROVE Kinds'
  BY <1>7 DEF WriteMarker, Goto, Justified
<1>8. ASSUME NEW p \in Procs, ClearMarker(p) PROVE Kinds'
  <2>1. UNCHANGED <<landed, proposals>> /\ marker' = None
    BY <1>8 DEF ClearMarker
  <2>2. \A q \in Procs : pc'[q] \in JobSteps =>
          pc[q] \in JobSteps /\ cmd'[q] = cmd[q] /\ job'[q] = job[q]
    BY <1>8 DEF ClearMarker, Goto, Leave
  <2> QED BY <2>1, <2>2
<1>9. CASE Elsewhere \/ \E t \in Targets, c \in EditContents : Edit(t, c)
  BY <1>9 DEF Elsewhere, Stage, Expire, Edit, vars
<1>10. QED
  BY <1>1, <1>2, <1>3, <1>4, <1>5, <1>6, <1>7, <1>8, <1>9 DEF Next, Start, Step, Others, Elsewhere

-----------------------------------------------------------------------------
(* Backups.                                                                *)

LEMMA BackedUpStep ==
  ASSUME Inv, PreimageHeld, Numbered, Kinds, BackedUp, [Next]_vars
  PROVE  BackedUp'
<1> USE DEF BackedUp, Recoverable, Inv, Exclusion, LockHeld, Shape, ShapeOf, TypeOK,
        Steps, JobSteps, disk, store, env, Locals
<1>1. ASSUME NEW p \in Procs, (\E i \in live : Begin(p, "apply", i, NoMut))
             \/ (\E l \in journal : Begin(p, "rollback", None, l.change.id))
      PROVE  BackedUp'
  BY <1>1 DEF Begin, Goto
<1>2. ASSUME NEW p \in Procs, Acquire(p) \/ ReconcileNothing(p)
             \/ ReconcileNotInstalled(p) \/ Unmark(p) \/ LoadProposal(p) \/ FindMutation(p)
             \/ InstallFails(p) \/ Verify(p) \/ InvalidateProposal(p) \/ ReadFingerprints(p)
      PROVE  BackedUp'
  BY <1>2 DEF Acquire, Goto, ReconcileNothing, ReconcileNotInstalled, Unmark, LoadProposal,
         FindMutation, InstallFails, Verify, InvalidateProposal, ReadFingerprints
<1>3. ASSUME NEW p \in Procs, CheckPreimage(p) PROVE BackedUp'
  BY <1>3 DEF CheckPreimage, Goto
<1>4. ASSUME NEW p \in Procs, ReconcileInstalled(p) PROVE BackedUp'
  <2>1. PICK c \in Change : /\ journal' = journal \cup {[change |-> c, reconciled |-> TRUE]}
                            /\ c.id = marker.id /\ c.op = marker.op /\ c.pre = marker.pre
    BY <1>4, JournaledMarker
  <2>2. /\ marker # None /\ UNCHANGED <<marker, backups, Locals>>
        /\ pc' = [pc EXCEPT ![p] = "unmark"]
    BY <1>4 DEF ReconcileInstalled, Goto
  <2> QED BY <2>1, <2>2
<1>5. ASSUME NEW p \in Procs, JournalMutation(p) PROVE BackedUp'
  <2>1. job[p] \in Change /\ journal' = journal \cup {[change |-> job[p], reconciled |-> FALSE]}
    BY <1>5, JournaledJob
  <2>2. /\ UNCHANGED <<marker, backups, Locals>>
        /\ pc' = [pc EXCEPT ![p] = "clear"] /\ pc[p] = "journal"
    BY <1>5 DEF JournalMutation, Goto
  <2> QED BY <2>1, <2>2
<1>6. ASSUME NEW p \in Procs, Backup(p) PROVE BackedUp'
  <2>1. /\ UNCHANGED <<marker, journal, Locals>> /\ pc[p] = "backup"
        /\ pc' = [pc EXCEPT ![p] = "mark"]
        /\ backups' = [backups EXCEPT ![job[p].id] =
                         IF file[job[p].target] = Absent THEN None ELSE file[job[p].target]]
    BY <1>6 DEF Backup, Goto
  <2>2. job[p] \in Change /\ job[p].id = cmd[p].id /\ file[job[p].target] = job[p].pre
    BY <2>1 DEF PreimageHeld
  <2>3. \A l \in journal : l.change.id # job[p].id
    BY <2>1, <2>2 DEF Numbered, Early, Journaled
  <2>4. marker = None
    BY <2>1 DEF MarkerIsOwn
  <2>5. \A q \in Procs \ {p} : pc'[q] \in {"idle", "lock"}
    BY <2>1
  <2>6. \A l \in journal' : Recoverable(l.change)'
    BY <2>1, <2>3
  <2>7. Recoverable(job[p])'
    BY <2>1, <2>2 DEF Change
  <2> QED BY <2>1, <2>4, <2>5, <2>6, <2>7
<1>7. ASSUME NEW p \in Procs, ReconcileBlocked(p) \/ Refuse(p) \/ StaleTarget(p)
             \/ Abort(p) \/ VerifyFails(p) \/ WriteFingerprints(p) \/ Crash(p)
      PROVE  BackedUp'
  <2>1. UNCHANGED <<backups, journal>> /\ marker' \in {marker, None} /\ Leave(p)
    BY <1>7 DEF ReconcileBlocked, Refuse, StaleTarget, Abort, VerifyFails, WriteFingerprints, Crash
  <2>2. \A q \in Procs : pc'[q] # "idle" => pc'[q] = pc[q] /\ job'[q] = job[q]
    BY <2>1 DEF Leave
  <2> QED BY <2>1, <2>2
<1>8. ASSUME NEW p \in Procs, Install(p) \/ InstallFailsLate(p) PROVE BackedUp'
  <2>1. /\ pc[p] = "install" /\ UNCHANGED <<marker, journal, backups, Locals>>
        /\ pc' = [pc EXCEPT ![p] = IF Install(p) THEN "verify" ELSE "abort"]
    BY <1>8 DEF Install, InstallFailsLate, Goto
  <2> QED BY <2>1
<1>9. ASSUME NEW p \in Procs, WriteMarker(p) PROVE BackedUp'
  BY <1>9 DEF WriteMarker, Goto
<1>10. ASSUME NEW p \in Procs, ClearMarker(p) PROVE BackedUp'
  <2>1. UNCHANGED <<backups, journal>> /\ marker' = None
    BY <1>10 DEF ClearMarker
  <2>2. \A q \in Procs : pc'[q] \in {"mark", "install", "verify", "journal", "clear", "abort"} =>
          pc'[q] = pc[q] /\ job'[q] = job[q]
    BY <1>10 DEF ClearMarker, Goto, Leave
  <2> QED BY <2>1, <2>2
<1>11. CASE Elsewhere \/ \E t \in Targets, c \in EditContents : Edit(t, c)
  BY <1>11 DEF Elsewhere, Stage, Expire, Edit, vars
<1>12. QED
  BY <1>1, <1>2, <1>3, <1>4, <1>5, <1>6, <1>7, <1>8, <1>9, <1>10, <1>11
     DEF Next, Start, Step, Others, Elsewhere

-----------------------------------------------------------------------------
(* The journal and what landed.                                            *)

\* From here on no rollback is killed, and nobody else writes what a proposal would.
LEMMA TruthfulStep ==
  ASSUME Inv, Kinds, Truthful, [Next]_vars,
         CrashOps \subseteq {"apply"}, StageContents \cap EditContents = {}
  PROVE  Truthful'
<1> USE DEF Truthful, Occurred, Inv, Exclusion, LockHeld, Shape, ShapeOf, TypeOK,
        Steps, JobSteps, disk, store, env, Locals
<1>1. ASSUME NEW p \in Procs, (\E i \in live : Begin(p, "apply", i, NoMut))
             \/ (\E l \in journal : Begin(p, "rollback", None, l.change.id))
      PROVE  Truthful'
  BY <1>1 DEF Begin, Goto
<1>2. ASSUME NEW p \in Procs, Acquire(p) \/ ReconcileNothing(p)
             \/ ReconcileNotInstalled(p) \/ Unmark(p) \/ LoadProposal(p) \/ FindMutation(p)
             \/ Backup(p) \/ InvalidateProposal(p) \/ ReadFingerprints(p)
      PROVE  Truthful'
  BY <1>2 DEF Acquire, Goto, ReconcileNothing, ReconcileNotInstalled, Unmark, LoadProposal,
         FindMutation, Backup, InvalidateProposal, ReadFingerprints
<1>3. ASSUME NEW p \in Procs, CheckPreimage(p) PROVE Truthful'
  BY <1>3 DEF CheckPreimage, Goto, Justified
<1>4. ASSUME NEW p \in Procs, InstallFails(p) \/ Verify(p) PROVE Truthful'
  BY <1>4 DEF InstallFails, Verify, Goto
<1>5. ASSUME NEW p \in Procs, ReconcileInstalled(p) PROVE Truthful'
  <2>1. PICK c \in Change : /\ journal' = journal \cup {[change |-> c, reconciled |-> TRUE]}
                            /\ c.id = marker.id /\ c.op = marker.op
                            /\ marker.undoes = NoMut => c = marker
    BY <1>5, JournaledMarker
  <2>2. /\ marker # None /\ UNCHANGED <<disk, marker, Locals>> /\ pc[p] = "reconcile"
        /\ pc' = [pc EXCEPT ![p] = "unmark"] /\ file[marker.target] = marker.post
    BY <1>5 DEF ReconcileInstalled, Goto
  <2>3. \A q \in Procs : pc[q] \in {"idle", "lock", "reconcile"}
    BY <2>2
  <2>4. marker \in landed
    BY <2>2, <2>3
  <2>5. Occurred(c)
    BY <2>1, <2>2, <2>4 DEF Kinds
  <2> QED BY <2>1, <2>2, <2>3, <2>4, <2>5
<1>6. ASSUME NEW p \in Procs, JournalMutation(p) PROVE Truthful'
  <2>1. job[p] \in Change /\ journal' = journal \cup {[change |-> job[p], reconciled |-> FALSE]}
    BY <1>6, JournaledJob
  <2>2. /\ UNCHANGED <<disk, marker, Locals>>
        /\ pc' = [pc EXCEPT ![p] = "clear"] /\ pc[p] = "journal"
    BY <1>6 DEF JournalMutation, Goto
  <2> QED BY <2>1, <2>2
<1>7. ASSUME NEW p \in Procs, ReconcileBlocked(p) \/ Refuse(p) \/ StaleTarget(p)
             \/ Abort(p) \/ VerifyFails(p) \/ WriteFingerprints(p) \/ Crash(p)
      PROVE  Truthful'
  <2>1. UNCHANGED <<disk, journal>> /\ marker' \in {marker, None} /\ Leave(p)
    BY <1>7 DEF ReconcileBlocked, Refuse, StaleTarget, Abort, VerifyFails, WriteFingerprints, Crash
  <2>2. \A q \in Procs : pc'[q] # "idle" => pc'[q] = pc[q] /\ job'[q] = job[q]
    BY <2>1 DEF Leave
  <2>3. ASSUME marker' # None, marker.op = "rollback", pc[p] \in {"install", "abort"}, job[p] = marker
        PROVE  FALSE
    <3>1. Crash(p)
      BY <1>7, <2>3 DEF ReconcileBlocked, Refuse, StaleTarget, Abort, VerifyFails, WriteFingerprints
    <3> QED BY <2>3, <3>1 DEF Crash, Kinds
  <2>4. marker' # None /\ marker.op = "rollback" /\ (\E q \in Procs : pc[q] \in {"install", "abort"} /\ job[q] = marker)
          => \E q \in Procs : pc'[q] \in {"install", "abort"} /\ job'[q] = marker
    <3> SUFFICES ASSUME marker' # None, marker.op = "rollback",
                        NEW q \in Procs, pc[q] \in {"install", "abort"}, job[q] = marker
                 PROVE  pc'[q] \in {"install", "abort"} /\ job'[q] = marker
      OBVIOUS
    <3>1. q # p
      BY <2>3
    <3> QED BY <3>1, <2>1 DEF Leave
  <2> QED BY <2>1, <2>2, <2>4
<1>8. ASSUME NEW p \in Procs, Install(p) \/ InstallFailsLate(p) PROVE Truthful'
  <2>1. /\ pc[p] = "install" /\ UNCHANGED <<marker, journal, Locals>>
        /\ pc' = [pc EXCEPT ![p] = IF Install(p) THEN "verify" ELSE "abort"]
        /\ landed' = landed \cup {job[p]}
    BY <1>8 DEF Install, InstallFailsLate, Goto, Replace
  <2>2. marker = job[p]
    BY <2>1 DEF MarkerIsOwn
  <2>3. \A q \in Procs \ {p} : pc'[q] \in {"idle", "lock"}
    BY <2>1
  <2> QED BY <2>1, <2>2, <2>3
<1>9. ASSUME NEW p \in Procs, WriteMarker(p) PROVE Truthful'
  <2>1. /\ pc[p] = "mark" /\ UNCHANGED <<disk, journal, Locals>> /\ marker' = job[p]
        /\ pc' = [pc EXCEPT ![p] = "install"]
    BY <1>9 DEF WriteMarker, Goto
  <2>2. \A q \in Procs \ {p} : pc'[q] \in {"idle", "lock"}
    BY <2>1
  <2>3. job[p].op \in {"apply", "rollback"}
    BY <2>1 DEF Change, Ops
  <2> QED BY <2>1, <2>2, <2>3
<1>10. ASSUME NEW p \in Procs, ClearMarker(p) PROVE Truthful'
  <2>1. UNCHANGED <<disk, journal>> /\ marker' = None
    BY <1>10 DEF ClearMarker
  <2>2. \A q \in Procs : pc'[q] \in {"backup", "mark", "verify", "journal", "clear"} =>
          pc'[q] = pc[q] /\ job'[q] = job[q]
    BY <1>10 DEF ClearMarker, Goto, Leave
  <2> QED BY <2>1, <2>2
<1>11. CASE Elsewhere
  BY <1>11 DEF Elsewhere, Stage, Expire, vars
<1>12. ASSUME NEW t \in Targets, NEW c \in EditContents, Edit(t, c) PROVE Truthful'
  <2>1. /\ UNCHANGED <<pc, marker, journal, landed, Locals>>
        /\ file' = [file EXCEPT ![t] = c] /\ c \notin StageContents
    BY <1>12 DEF Edit
  <2>2. \A p \in Procs : pc[p] \in {"backup", "mark"} /\ job[p].op = "apply" =>
          job[p].post \in StageContents
    BY DEF Kinds, Justified
  <2>3. marker # None /\ marker.op = "apply" => marker.post \in StageContents
    BY DEF Kinds
  <2> QED BY <2>1, <2>2, <2>3 DEF Change
<1>13. QED
  BY <1>1, <1>2, <1>3, <1>4, <1>5, <1>6, <1>7, <1>8, <1>9, <1>10, <1>11, <1>12
     DEF Next, Start, Step, Others, Elsewhere

-----------------------------------------------------------------------------
(* Rollbacks and proposals, when nothing disturbs a command between its    *)
(* first check and its verification.                                       *)

\* The steps of a command that only walks on: it holds what it held.
Passing(p) ==
  \/ Acquire(p) \/ ReconcileNothing(p) \/ ReconcileNotInstalled(p) \/ Unmark(p) \/ Backup(p)
  \/ CheckPreimage(p) \/ WriteMarker(p) \/ InstallFails(p) \/ Verify(p) \/ ReadFingerprints(p)

\* The steps with which a command ends.
Leaving(p) ==
  \/ ReconcileBlocked(p) \/ Refuse(p) \/ StaleTarget(p) \/ Abort(p) \/ VerifyFails(p)
  \/ WriteFingerprints(p) \/ Crash(p)

LEMMA LeavingKeeps ==
  ASSUME Inv, NEW p \in Procs, Leaving(p)
  PROVE  /\ UNCHANGED <<disk, journal, proposals, live>> /\ Leave(p) /\ pc[p] # "idle"
         /\ crashes' = crashes \/ (Crash(p) /\ crashes' = crashes + 1)
         /\ \A q \in Procs : pc'[q] # "idle" => pc'[q] = pc[q] /\ job'[q] = job[q]
<1>1. /\ UNCHANGED <<disk, journal, proposals, live>> /\ Leave(p) /\ pc[p] # "idle"
      /\ crashes' = crashes \/ (Crash(p) /\ crashes' = crashes + 1)
  BY DEF Leaving, ReconcileBlocked, Refuse, StaleTarget, Abort, VerifyFails, WriteFingerprints,
         Crash, store, env
<1>2. \A q \in Procs : pc'[q] # "idle" => pc'[q] = pc[q] /\ job'[q] = job[q]
  BY <1>1 DEF Leave, Inv, Shape, TypeOK
<1> QED BY <1>1, <1>2

LEMMA PostHeldStep ==
  ASSUME Inv, PostHeld, ~ RaceEdits, [Next]_vars
  PROVE  PostHeld'
<1> USE DEF PostHeld, Inv, Exclusion, LockHeld, Shape, ShapeOf, TypeOK, JobSteps, InWindow,
        disk, store, env, Locals
<1>1. ASSUME NEW p \in Procs, (\E i \in live : Begin(p, "apply", i, NoMut))
             \/ (\E l \in journal : Begin(p, "rollback", None, l.change.id))
      PROVE  PostHeld'
  BY <1>1 DEF Begin, Goto
<1>2. ASSUME NEW p \in Procs, Passing(p) PROVE PostHeld'
  BY <1>2 DEF Passing, Acquire, Goto, ReconcileNothing, ReconcileNotInstalled, Unmark, Backup,
         CheckPreimage, WriteMarker, InstallFails, Verify, ReadFingerprints
<1>3. ASSUME NEW p \in Procs, LoadProposal(p) \/ FindMutation(p) PROVE PostHeld'
  BY <1>3 DEF LoadProposal, FindMutation, Goto
<1>4. ASSUME NEW p \in Procs, ReconcileInstalled(p) \/ JournalMutation(p) \/ InvalidateProposal(p)
      PROVE PostHeld'
  BY <1>4 DEF ReconcileInstalled, JournalMutation, InvalidateProposal, Goto
<1>5. ASSUME NEW p \in Procs, Install(p) \/ InstallFailsLate(p) PROVE PostHeld'
  <2>1. /\ pc[p] = "install" /\ UNCHANGED Locals /\ Replace(p)
        /\ pc' = [pc EXCEPT ![p] = IF Install(p) THEN "verify" ELSE "abort"]
    BY <1>5 DEF Install, InstallFailsLate, Goto
  <2>2. job[p] \in Change /\ file' = [file EXCEPT ![job[p].target] = job[p].post]
    BY <2>1, ReplaceWrites
  <2>3. \A q \in Procs \ {p} : pc'[q] \in {"idle", "lock"}
    BY <2>1
  <2> QED BY <2>1, <2>2, <2>3 DEF Change
<1>6. ASSUME NEW p \in Procs, Leaving(p) PROVE PostHeld'
  BY <1>6, LeavingKeeps
<1>7. ASSUME NEW p \in Procs, ClearMarker(p) PROVE PostHeld'
  <2>1. \A q \in Procs : pc'[q] = "verify" => pc[q] = "verify" /\ job'[q] = job[q]
    BY <1>7 DEF ClearMarker, Goto, Leave
  <2> QED BY <1>7, <2>1 DEF ClearMarker
<1>8. CASE Elsewhere
  BY <1>8 DEF Elsewhere, Stage, Expire, vars
<1>9. ASSUME NEW t \in Targets, NEW c \in EditContents, Edit(t, c) PROVE PostHeld'
  BY <1>9 DEF Edit
<1>10. QED
  BY <1>1, <1>2, <1>3, <1>4, <1>5, <1>6, <1>7, <1>8, <1>9
     DEF Next, Start, Step, Others, Elsewhere, Passing, Leaving

\* No two undoings of one mutation: the second finds the first in the journal.
LEMMA UndoneStep ==
  ASSUME Inv, Kinds, PostHeld, Undone, [Next]_vars, ~ LateErrors, CrashOps \subseteq {"apply"}
  PROVE  Undone'
<1> USE DEF Undone, Inv, Exclusion, LockHeld, Shape, ShapeOf, TypeOK, JobSteps,
        disk, store, env, Locals
<1>k. landed' = landed => RollbackUndoesOnce'
  BY DEF RollbackUndoesOnce
<1>1. ASSUME NEW p \in Procs, (\E i \in live : Begin(p, "apply", i, NoMut))
             \/ (\E l \in journal : Begin(p, "rollback", None, l.change.id))
      PROVE  Undone'
  BY <1>1, <1>k DEF Begin, Goto
<1>2. ASSUME NEW p \in Procs, Passing(p) PROVE Undone'
  <2>1. /\ UNCHANGED <<landed, journal, job>> /\ \A q \in Procs \ {p} : pc'[q] = pc[q]
        /\ (pc[p] \in {"verify", "journal"} => pc'[p] \in {"verify", "journal"})
        /\ (pc'[p] \in {"check", "mark", "install"} =>
              pc[p] \in {"check", "mark", "install"} \/ job[p].op = "apply")
    BY <1>2 DEF Passing, Acquire, Goto, ReconcileNothing, ReconcileNotInstalled, Unmark, Backup,
         CheckPreimage, WriteMarker, InstallFails, Verify, ReadFingerprints
  <2> QED BY <2>1, <1>k
<1>3. ASSUME NEW p \in Procs, LoadProposal(p) PROVE Undone'
  <2>1. /\ UNCHANGED <<landed, journal>> /\ pc[p] = "load" /\ pc' = [pc EXCEPT ![p] = "check"]
        /\ job'[p].op = "apply" /\ \A q \in Procs \ {p} : job'[q] = job[q]
    BY <1>3 DEF LoadProposal, Goto
  <2> QED BY <2>1, <1>k
<1>4. ASSUME NEW p \in Procs, FindMutation(p) PROVE Undone'
  <2>1. /\ UNCHANGED <<landed, journal>> /\ pc[p] = "load" /\ pc' = [pc EXCEPT ![p] = "check"]
        /\ job'[p].undoes = cmd[p].undoes /\ ~ AlreadyRolledBack(cmd[p].undoes)
        /\ \A q \in Procs \ {p} : job'[q] = job[q]
        /\ \E l \in journal : l.change.id = cmd[p].undoes
    BY <1>4 DEF FindMutation, Goto, LinesOf
  <2>2. cmd[p].undoes # NoMut
    BY <2>1 DEF Line, Change, MutIds, NoMut
  <2>3. \A q \in Procs : pc[q] \notin {"verify", "journal"}
    BY <2>1
  <2>4. \A c \in landed : c.undoes # cmd[p].undoes
    BY <2>1, <2>2, <2>3 DEF AlreadyRolledBack
  <2>5. \A q \in Procs \ {p} : pc'[q] \in {"idle", "lock"}
    BY <2>1
  <2> QED BY <2>1, <2>3, <2>4, <2>5, <1>k
<1>5. ASSUME NEW p \in Procs, ReconcileInstalled(p) PROVE Undone'
  <2>1. /\ UNCHANGED <<landed, Locals>> /\ journal \subseteq journal' /\ pc[p] = "reconcile"
        /\ pc' = [pc EXCEPT ![p] = "unmark"]
    BY <1>5 DEF ReconcileInstalled, Goto
  <2> QED BY <2>1, <1>k
<1>6. ASSUME NEW p \in Procs, JournalMutation(p) PROVE Undone'
  <2>1. /\ job[p] \in Change /\ journal' = journal \cup {[change |-> job[p], reconciled |-> FALSE]}
        /\ UNCHANGED <<landed, Locals>> /\ pc[p] = "journal" /\ pc' = [pc EXCEPT ![p] = "clear"]
    BY <1>6, JournaledJob DEF JournalMutation, Goto
  <2>2. [change |-> job[p], reconciled |-> FALSE] \in journal' /\ journal \subseteq journal'
    BY <2>1
  <2>3. \E l \in journal' : l.change = job[p]
    BY <2>2
  <2>4. ASSUME NEW c \in landed, c.undoes # NoMut, ~ \E l \in journal' : l.change = c
        PROVE  \E q \in Procs : pc'[q] \in {"verify", "journal"} /\ job'[q] = c
    <3>1. PICK q \in Procs : pc[q] \in {"verify", "journal"} /\ job[q] = c
      BY <2>2, <2>4
    <3>2. q # p
      BY <2>3, <2>4, <3>1
    <3> QED BY <2>1, <3>1, <3>2
  <2> QED BY <2>1, <2>4, <1>k
<1>7. ASSUME NEW p \in Procs, Install(p) PROVE Undone'
  <2>1. /\ pc[p] = "install" /\ UNCHANGED <<journal, Locals>>
        /\ pc' = [pc EXCEPT ![p] = "verify"] /\ landed' = landed \cup {job[p]}
    BY <1>7 DEF Install, Goto, Replace
  <2>2. \A q \in Procs \ {p} : pc[q] \in {"idle", "lock"} /\ pc'[q] \in {"idle", "lock"}
    BY <2>1
  <2>3. job[p].undoes # NoMut => \A c \in landed : c.undoes # job[p].undoes
    BY <2>1 DEF Kinds, Change, Ops
  <2>4. RollbackUndoesOnce'
    BY <2>1, <2>3 DEF RollbackUndoesOnce
  <2> QED BY <2>1, <2>2, <2>4
<1>8. ASSUME NEW p \in Procs, Leaving(p) PROVE Undone'
  <2>1. /\ UNCHANGED <<landed, journal>>
        /\ \A q \in Procs : pc'[q] # "idle" => pc'[q] = pc[q] /\ job'[q] = job[q]
        /\ \A q \in Procs \ {p} : pc'[q] = pc[q] /\ job'[q] = job[q]
    BY <1>8, LeavingKeeps DEF Leave
  <2>2. ASSUME pc[p] \in {"verify", "journal"} PROVE job[p].undoes = NoMut
    <3>1. Crash(p)
      BY <1>8, <2>2 DEF Leaving, ReconcileBlocked, Refuse, StaleTarget, Abort, VerifyFails,
                        WriteFingerprints, PostHeld, Goto
    <3> QED BY ZenonT(60), <2>2, <3>1 DEF Crash, Kinds
  <2> QED BY <2>1, <2>2, <1>k
<1>9. ASSUME NEW p \in Procs, ClearMarker(p) \/ InvalidateProposal(p) PROVE Undone'
  <2>1. /\ UNCHANGED <<landed, journal>> /\ pc[p] \in {"clear", "invalidate"}
        /\ pc'[p] \in {"idle", "invalidate", "fpread"}
        /\ \A q \in Procs \ {p} : pc'[q] = pc[q] /\ job'[q] = job[q]
    BY <1>9 DEF ClearMarker, InvalidateProposal, Goto, Leave
  <2> QED BY <2>1, <1>k
<1>10. CASE Elsewhere \/ \E t \in Targets, c \in EditContents : Edit(t, c)
  BY <1>10, <1>k DEF Elsewhere, Stage, Expire, Edit, vars
<1>11. QED
  BY <1>1, <1>2, <1>3, <1>4, <1>5, <1>6, <1>7, <1>8, <1>9, <1>10
     DEF Next, Start, Step, Others, Elsewhere, Passing, Leaving, InstallFailsLate

\* No two installs of one proposal: the second does not find it.
LEMMA OnceStep ==
  ASSUME Inv, Kinds, PostHeld, Once, [Next]_vars, ~ LateErrors
  PROVE  Once'
<1> USE DEF Once, Inv, Exclusion, LockHeld, Shape, ShapeOf, TypeOK, JobSteps,
        disk, store, env, Locals
<1>1. ASSUME NEW p \in Procs, (\E i \in live : Begin(p, "apply", i, NoMut))
             \/ (\E l \in journal : Begin(p, "rollback", None, l.change.id))
      PROVE  Once'
  BY <1>1 DEF Begin, Goto
<1>2. ASSUME NEW p \in Procs,
             Passing(p) \/ FindMutation(p) \/ ReconcileInstalled(p) \/ JournalMutation(p)
      PROVE Once'
  <2>1. /\ UNCHANGED <<landed, live, crashes>>
        /\ \A q \in Procs \ {p} : pc'[q] = pc[q] /\ job'[q] = job[q]
        /\ (pc[p] \in {"verify", "journal", "clear", "invalidate"} =>
              pc'[p] \in {"verify", "journal", "clear", "invalidate"} /\ job'[p] = job[p])
        /\ (pc'[p] \in {"check", "backup", "mark", "install"} =>
              \/ pc[p] \in {"check", "backup", "mark", "install"} /\ job'[p] = job[p]
              \/ job'[p].op = "rollback")
    BY <1>2 DEF Passing, Acquire, Goto, ReconcileNothing, ReconcileNotInstalled, Unmark, Backup,
         CheckPreimage, WriteMarker, InstallFails, Verify, ReadFingerprints, FindMutation,
         ReconcileInstalled, JournalMutation
  <2> QED BY <2>1
<1>3. ASSUME NEW p \in Procs, LoadProposal(p) PROVE Once'
  <2>1. /\ UNCHANGED <<landed, live, crashes>> /\ pc[p] = "load"
        /\ pc' = [pc EXCEPT ![p] = "check"]
        /\ job'[p].pid = cmd[p].pid /\ cmd[p].pid \in live
        /\ \A q \in Procs \ {p} : job'[q] = job[q]
    BY <1>3 DEF LoadProposal, Goto
  <2>2. \A q \in Procs : pc[q] \notin {"verify", "journal", "clear", "invalidate"}
    BY <2>1
  <2> QED BY <2>1, <2>2
<1>4. ASSUME NEW p \in Procs, Install(p) PROVE Once'
  <2>1. /\ pc[p] = "install" /\ UNCHANGED <<live, crashes, Locals>>
        /\ pc' = [pc EXCEPT ![p] = "verify"] /\ landed' = landed \cup {job[p]}
    BY <1>4 DEF Install, Goto, Replace
  <2>2. \A q \in Procs \ {p} : pc[q] \in {"idle", "lock"} /\ pc'[q] \in {"idle", "lock"}
    BY <2>1
  <2> QED BY <2>1, <2>2
<1>5. ASSUME NEW p \in Procs, Leaving(p) PROVE Once'
  <2>1. /\ UNCHANGED <<landed, live>> /\ (crashes' = crashes \/ crashes' = crashes + 1)
        /\ \A q \in Procs : pc'[q] # "idle" => pc'[q] = pc[q] /\ job'[q] = job[q]
        /\ \A q \in Procs \ {p} : pc'[q] = pc[q] /\ job'[q] = job[q]
        /\ crashes \in Nat
    BY <1>5, LeavingKeeps, ConstantsAssumption DEF Leave
  <2>2. ASSUME pc[p] \in {"verify", "journal", "clear", "invalidate"} PROVE crashes' = crashes + 1
    BY <1>5, <2>2 DEF Leaving, ReconcileBlocked, Refuse, StaleTarget, Abort, VerifyFails,
                      WriteFingerprints, PostHeld, Goto, Crash
  <2>3. crashes' = 0 => crashes = 0 /\ pc[p] \notin {"verify", "journal", "clear", "invalidate"}
    BY <2>1, <2>2
  <2> QED BY <2>1, <2>3
<1>6. ASSUME NEW p \in Procs, ClearMarker(p) PROVE Once'
  <2>1. /\ UNCHANGED <<landed, live, crashes>> /\ pc[p] = "clear"
        /\ \A q \in Procs \ {p} : pc'[q] = pc[q] /\ job'[q] = job[q]
        /\ \/ job[p].op = "apply" /\ pc'[p] = "invalidate" /\ job'[p] = job[p]
           \/ job[p].op = "rollback" /\ pc'[p] = "idle"
    BY <1>6 DEF ClearMarker, Goto, Leave
  <2> QED BY <2>1
<1>7. ASSUME NEW p \in Procs, InvalidateProposal(p) PROVE Once'
  <2>1. /\ UNCHANGED <<landed, crashes, Locals>> /\ live' = live \ {job[p].pid}
        /\ pc[p] = "invalidate" /\ pc' = [pc EXCEPT ![p] = "fpread"]
    BY <1>7 DEF InvalidateProposal, Goto
  <2> QED BY <2>1
<1>8. ASSUME NEW i \in ProposalIds, NEW t \in Targets, NEW c \in StageContents,
             NEW f \in Fingerprints, Stage(i, t, c, f)
      PROVE  Once'
  <2>1. /\ UNCHANGED <<landed, crashes, pc, Locals>> /\ live' = live \cup {i}
        /\ proposals[i] = None
    BY <1>8 DEF Stage
  <2>2. \A d \in landed : d.op = "apply" => d.pid # i
    BY <2>1 DEF Kinds
  <2> QED BY <2>1, <2>2
<1>9. CASE \/ \E i \in ProposalIds : Expire(i)
           \/ UNCHANGED vars \/ \E t \in Targets, c \in EditContents : Edit(t, c)
  BY <1>9 DEF Expire, Edit, vars
<1>10. QED
  BY <1>1, <1>2, <1>3, <1>4, <1>5, <1>6, <1>7, <1>8, <1>9
     DEF Next, Start, Step, Others, Passing, Leaving, InstallFailsLate

\* Only a write changes what landed, a target or what was staged, but for others' steps.
LEMMA Writes ==
  ASSUME [Next]_vars, ~ LateErrors
  PROVE  \/ UNCHANGED <<file, landed, proposals>>
         \/ \E p \in Procs : Install(p)
         \/ \E i \in ProposalIds, t \in Targets, c \in StageContents, f \in Fingerprints :
              Stage(i, t, c, f)
         \/ \E t \in Targets, c \in EditContents : Edit(t, c)
  BY ZenonT(60) DEF Next, Start, Step, Others, vars, disk, store, Begin, Acquire, ReconcileNothing,
     ReconcileNotInstalled, ReconcileInstalled, ReconcileBlocked, Unmark, LoadProposal,
     FindMutation, Refuse, CheckPreimage, StaleTarget, Backup, WriteMarker, InstallFails,
     InstallFailsLate, Abort, Verify, VerifyFails, JournalMutation, ClearMarker,
     InvalidateProposal, ReadFingerprints, WriteFingerprints, Crash, Expire

LEMMA UndoingStep ==
  ASSUME Inv, Kinds, Truthful, Undoing, [Next]_vars
  PROVE  Undoing'
<1>1. landed \subseteq landed'
  <2>1. ASSUME NEW p \in Procs, Install(p) \/ InstallFailsLate(p) PROVE landed \subseteq landed'
    BY <2>1 DEF Install, InstallFailsLate, Replace
  <2>2. CASE ~ \E p \in Procs : InstallFailsLate(p) \/ Install(p)
    BY ZenonT(60), <2>2 DEF Next, Start, Step, Others, vars, disk, Begin, Acquire, ReconcileNothing,
     ReconcileNotInstalled, ReconcileInstalled, ReconcileBlocked, Unmark, LoadProposal,
     FindMutation, Refuse, CheckPreimage, StaleTarget, Backup, WriteMarker, InstallFails,
     Abort, Verify, VerifyFails, JournalMutation, ClearMarker, InvalidateProposal,
     ReadFingerprints, WriteFingerprints, Crash, Stage, Expire, Edit
  <2> QED BY <2>1, <2>2
<1>2. ASSUME NEW p \in Procs, pc'[p] \in {"check", "mark", "install"}, job'[p].op = "rollback",
             ~ FindMutation(p)
      PROVE  pc[p] \in {"check", "mark", "install"} /\ job'[p] = job[p]
  <2> USE <1>2 DEF Inv, Shape, TypeOK, disk, store, env, Locals
  <2>1. ASSUME NEW q \in Procs, Leaving(q)
        PROVE  pc[p] \in {"check", "mark", "install"} /\ job'[p] = job[p]
    BY <2>1, LeavingKeeps
  <2>2. ASSUME NEW q \in Procs, Passing(q)
        PROVE  pc[p] \in {"check", "mark", "install"} /\ job'[p] = job[p]
    BY <2>2 DEF Passing, Acquire, Goto, ReconcileNothing, ReconcileNotInstalled, Unmark, Backup,
         CheckPreimage, WriteMarker, InstallFails, Verify, ReadFingerprints, ShapeOf, Change
  <2>3. ASSUME NEW q \in Procs, LoadProposal(q) \/ FindMutation(q) \/ ReconcileInstalled(q)
               \/ JournalMutation(q) \/ Install(q) \/ InstallFailsLate(q) \/ ClearMarker(q)
               \/ InvalidateProposal(q)
        PROVE  pc[p] \in {"check", "mark", "install"} /\ job'[p] = job[p]
    BY <2>3 DEF LoadProposal, FindMutation, ReconcileInstalled, JournalMutation, Install,
         InstallFailsLate, ClearMarker, InvalidateProposal, Goto, Leave
  <2>4. CASE Elsewhere \/ \E t \in Targets, c \in EditContents : Edit(t, c)
    BY <2>4 DEF Elsewhere, Stage, Expire, Edit, vars
  <2>5. ASSUME NEW q \in Procs, Start(q)
        PROVE  pc[p] \in {"check", "mark", "install"} /\ job'[p] = job[p]
    BY <2>5 DEF Start, Begin, Goto
  <2> QED
    BY <2>1, <2>2, <2>3, <2>4, <2>5 DEF Next, Step, Others, Elsewhere, Passing, Leaving
<1>3. ASSUME NEW p \in Procs, FindMutation(p)
      PROVE  \E a \in landed : /\ a.op = "apply" /\ a.id = job'[p].undoes /\ a.pid = job'[p].pid
                               /\ a.target = job'[p].target
                               /\ a.pre = job'[p].post /\ a.post = job'[p].pre
  <2>1. PICK l \in journal :
          /\ l.change.id = cmd[p].undoes /\ l.change.op = "apply"
          /\ job' = [job EXCEPT ![p] =
                      [id |-> cmd[p].id, op |-> "rollback", pid |-> l.change.pid,
                       target |-> l.change.target, pre |-> l.change.post,
                       post |-> l.change.pre, undoes |-> cmd[p].undoes]]
    BY <1>3 DEF FindMutation, LinesOf
  <2>2. l.change \in landed
    BY <2>1 DEF Truthful, Occurred
  <2> QED BY <2>1, <2>2 DEF Inv, Shape, TypeOK
<1> QED BY <1>1, <1>2, <1>3 DEF Undoing

-----------------------------------------------------------------------------
(* The theorems.                                                           *)

LEMMA InitiallyMore ==
  ASSUME Init
  PROVE  Numbered /\ Kinds /\ BackedUp /\ Truthful /\ PostHeld /\ Undone /\ Once /\ Undoing
<1> USE DEF Init
<1>1. Numbered /\ Kinds
  BY DEF Numbered, Kinds, Early, JobSteps
<1>2. BackedUp /\ Truthful
  BY DEF BackedUp, Truthful
<1>3. PostHeld /\ Undone /\ Once /\ Undoing
  BY DEF PostHeld, Undone, RollbackUndoesOnce, Once, Undoing
<1> QED BY <1>1, <1>2, <1>3

LEMMA Carrying == Spec => [](Inv /\ Numbered /\ Kinds)
<1>1. Init => Numbered /\ Kinds
  BY InitiallyMore
<1>2. Inv /\ Numbered /\ Kinds /\ [Next]_vars => Numbered' /\ Kinds'
  BY NumberedStep, KindsStep
<1>3. QED
  BY <1>1, <1>2, Invariance, PTL DEF Spec

\* Every journaled apply that replaced a file can be undone: its backup holds the bytes it
\* replaced, whatever is killed between _backup and the journal line.  Only an edit
\* between the comparison and the copy could spoil it.
THEOREM Recoverability ==
  ASSUME ~ RaceEdits
  PROVE  Spec => []BackupRecoverable
<1>1. Init => PreimageHeld /\ BackedUp
  BY Initially, InitiallyMore
<1>2. Inv /\ Numbered /\ Kinds /\ PreimageHeld /\ BackedUp /\ [Next]_vars
        => PreimageHeld' /\ BackedUp'
  BY PreimageStep, BackedUpStep DEF Inv
<1>3. BackedUp => BackupRecoverable
  BY DEF BackedUp, Recoverable, BackupRecoverable
<1>4. QED
  BY <1>1, <1>2, <1>3, Carrying, PTL DEF Spec

\* The journal names only changes that landed, also where reconcile writes the line: while
\* others write other bytes than proposals do, a marker whose post-image is in place is
\* that of an apply that was killed after its rename.
THEOREM Truthfulness ==
  ASSUME CrashOps \subseteq {"apply"}, StageContents \cap EditContents = {}
  PROVE  Spec => []JournalTruthful
<1>1. Init => Truthful
  BY InitiallyMore
<1>2. Inv /\ Numbered /\ Kinds /\ Truthful /\ [Next]_vars => Truthful'
  BY TruthfulStep
<1>3. Truthful => JournalTruthful
  BY DEF Truthful, Occurred, JournalTruthful
<1>4. QED
  BY <1>1, <1>2, <1>3, Carrying, PTL DEF Spec

\* A mutation is undone at most once: _already_rolled_back reads the journal under the
\* flock, and a rollback that wrote journals before it gives the flock up, as long as it
\* is not killed, no write fails after its rename and no edit makes the verification fail.
THEOREM UndoneOnce ==
  ASSUME ~ RaceEdits, ~ LateErrors, CrashOps \subseteq {"apply"}
  PROVE  Spec => []RollbackUndoesOnce
<1>1. Init => PostHeld /\ Undone
  BY InitiallyMore
<1>2. Inv /\ Numbered /\ Kinds /\ PostHeld /\ Undone /\ [Next]_vars => PostHeld' /\ Undone'
  BY PostHeldStep, UndoneStep
<1>3. Undone => RollbackUndoesOnce
  BY DEF Undone
<1>4. QED
  BY <1>1, <1>2, <1>3, Carrying, PTL DEF Spec

\* A proposal is installed at most once unless a command was killed: proposals.invalidate
\* precedes the release of the flock, and an expired or used id never comes back.
THEOREM InstalledOnce ==
  ASSUME ~ RaceEdits, ~ LateErrors
  PROVE  Spec => []ProposalInstalledOnce
<1>1. Init => PostHeld /\ Once
  BY InitiallyMore
<1>2. Inv /\ Numbered /\ Kinds /\ PostHeld /\ Once /\ [Next]_vars => PostHeld' /\ Once'
  BY PostHeldStep, OnceStep
<1>3. Once => ProposalInstalledOnce
  BY DEF Once, ProposalInstalledOnce
<1>4. QED
  BY <1>1, <1>2, <1>3, Carrying, PTL DEF Spec

\* A write of a command is an abstract install or undoing.
LEMMA InstallApproved ==
  ASSUME Inv, Numbered, Kinds, PreimageHeld, Undone, Undoing, NEW p \in Procs, Install(p)
  PROVE  Approved!Next
<1> DEFINE j == job[p]
<1>1. pc[p] = "install" /\ Replace(p) /\ UNCHANGED proposals
  BY DEF Install, Goto, store
<1>2. /\ j \in Change /\ Justified(j) /\ j.id = cmd[p].id
      /\ file' = [file EXCEPT ![j.target] = j.post] /\ landed' = landed \cup {j}
  BY <1>1, ReplaceWrites DEF Inv, Shape, ShapeOf, JobSteps
<1>3. Approved!Make(j)
  <2>1. \A d \in landed : d.id # j.id
    BY <1>1, <1>2 DEF Numbered, Early
  <2>2. file[j.target] = j.pre
    BY <1>1 DEF PreimageHeld
  <2> QED BY <1>1, <1>2, <2>1, <2>2 DEF Approved!Make
<1>4. j.id \in MutIds /\ j.op \in {"apply", "rollback"}
  BY <1>2 DEF Change, Ops
<1>5. CASE j.op = "apply"
  <2>1. /\ j.undoes = 0 /\ j.pid \in ProposalIds /\ proposals[j.pid] # None
        /\ proposals[j.pid].target = j.target
        /\ proposals[j.pid].pre = j.pre /\ proposals[j.pid].post = j.post
    BY <1>1, <1>2, <1>5 DEF Kinds, JobSteps, Justified, NoMut
  <2>2. j = [id |-> j.id, op |-> "apply", pid |-> j.pid, target |-> proposals[j.pid].target,
             pre |-> proposals[j.pid].pre, post |-> proposals[j.pid].post, undoes |-> 0]
    BY <1>2, <1>5, <2>1 DEF Change
  <2>3. Approved!Install(j.pid, j.id)
    <3> HIDE DEF j
    <3> QED BY <1>3, <2>1, <2>2 DEF Approved!Install
  <2> QED BY <1>4, <2>1, <2>3 DEF Approved!Next
<1>6. CASE j.op = "rollback"
  <2>1. PICK a \in landed : /\ a.op = "apply" /\ a.id = j.undoes /\ a.pid = j.pid
                            /\ a.target = j.target /\ a.pre = j.post /\ a.post = j.pre
    BY <1>1, <1>6 DEF Undoing
  <2>2. \A c \in landed : c.undoes # a.id
    BY <1>1, <1>6, <2>1 DEF Undone
  <2>3. j = [id |-> j.id, op |-> "rollback", pid |-> a.pid, target |-> a.target,
             pre |-> a.post, post |-> a.pre, undoes |-> a.id]
    BY <1>2, <1>6, <2>1 DEF Change
  <2>4. Approved!Undo(a, j.id)
    <3> HIDE DEF j
    <3> QED BY <1>3, <2>1, <2>2, <2>3 DEF Approved!Undo
  <2> QED BY <1>4, <2>4 DEF Approved!Next
<1> QED BY <1>4, <1>5, <1>6

\* The commands implement ApprovedChange: with locks, markers, backups, the journal and
\* applies killed anywhere, what the targets go through is approved installs of staged
\* bytes over their preimages, undoings of recorded changes, once, and others' edits.
THEOREM ApprovedImplemented ==
  ASSUME ~ RaceEdits, ~ LateErrors, CrashOps \subseteq {"apply"},
         StageContents \cap EditContents = {}
  PROVE  Spec => ImplementsApproved
<1> DEFINE I == PreimageHeld /\ Truthful /\ PostHeld /\ Undone /\ Undoing
<1>1. Init => I /\ Approved!Init
  BY Initially, InitiallyMore DEF Init, Approved!Init, FileState, Approved!FileState
<1>2. Inv /\ Numbered /\ Kinds /\ I /\ [Next]_vars => I'
  BY PreimageStep, TruthfulStep, PostHeldStep, UndoneStep, UndoingStep DEF Inv
<1>3. Inv /\ Numbered /\ Kinds /\ I /\ [Next]_vars => [Approved!Next]_(Approved!vars)
  <2> SUFFICES ASSUME Inv, Numbered, Kinds, I, [Next]_vars
               PROVE  [Approved!Next]_(Approved!vars)
    OBVIOUS
  <2>1. CASE UNCHANGED <<file, landed, proposals>>
    BY <2>1 DEF Approved!vars
  <2>2. ASSUME NEW p \in Procs, Install(p) PROVE Approved!Next
    BY <2>2, InstallApproved
  <2>3. ASSUME NEW i \in ProposalIds, NEW t \in Targets, NEW c \in StageContents,
               NEW f \in Fingerprints, Stage(i, t, c, f)
        PROVE  Approved!Next
    <3>1. Approved!Stage(i, t, c, f) /\ c \in Contents
      BY <2>3, ConstantsAssumption DEF Stage, Approved!Stage, disk
    <3> QED BY <3>1 DEF Approved!Next
  <2>4. ASSUME NEW t \in Targets, NEW c \in EditContents, Edit(t, c)
        PROVE  Approved!Next
    <3>1. Approved!Edit(t, c) /\ c \in Approved!FileState
      BY <2>4, ConstantsAssumption DEF Edit, Approved!Edit, Approved!FileState, store
    <3> QED BY <3>1 DEF Approved!Next
  <2> QED BY <2>1, <2>2, <2>3, <2>4, Writes
<1>4. QED
  BY <1>1, <1>2, <1>3, Carrying, PTL DEF Spec, ImplementsApproved, Approved!Spec
=============================================================================
