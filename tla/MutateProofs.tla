---------------------------- MODULE MutateProofs ----------------------------
(***************************************************************************)
(* Theorems about Mutate, for every value of its constants.                *)
(*                                                                         *)
(* The invariants are proved in layers, each from those before it:         *)
(* Shape (what a process holds at each step), Exclusion (the flock and the *)
(* marker), Fresh (mutation ids), Accounted (what a standing marker and a  *)
(* target's last writer say of each other).                                *)
(***************************************************************************)
EXTENDS Mutate, TLAPS

-----------------------------------------------------------------------------
(* Inductive invariants.                                                   *)

JobSteps == {"check", "backup", "mark", "install", "verify", "journal", "clear",
             "abort", "invalidate", "fpread", "fpwrite"}

\* A staged or intended change changes something.
Changing == /\ \A i \in ProposalIds : proposals[i] # None => proposals[i].pre # proposals[i].post
            /\ \A l \in journal : l.change.pre # l.change.post
            /\ marker # None => marker.pre # marker.post

\* What an apply intends is what was staged; what a rollback intends undoes a
\* journaled apply.
Justified(c) ==
  /\ c.pre # c.post
  /\ c.op = "apply" =>
       /\ c.pid \in ProposalIds /\ proposals[c.pid] # None
       /\ proposals[c.pid].target = c.target
       /\ proposals[c.pid].pre = c.pre
       /\ proposals[c.pid].post = c.post
  /\ c.op = "rollback" =>
       \E l \in journal : /\ l.change.id = c.undoes /\ l.change.op = "apply"
                          /\ l.change.target = c.target
                          /\ l.change.post = c.pre /\ l.change.pre = c.post

ShapeOf(p) ==
  /\ pc[p] # "idle" => cmd[p] \in Command
  /\ pc[p] \in JobSteps =>
       /\ job[p] \in Change
       /\ job[p].id = cmd[p].id
       /\ Justified(job[p])
  /\ pc[p] \in {"backup", "invalidate", "fpread", "fpwrite"} => job[p].op = "apply"
  /\ pc[p] = "fpwrite" => view[p] \in [Fingerprints -> Statuses]

Shape == TypeOK /\ Changing /\ \A p \in Procs : ShapeOf(p)

LockHeld == \A p \in Procs : lock = p <=> pc[p] \notin {"idle", "lock"}

Exclusion == LockHeld /\ MarkerIsOwn

\* An id that has not written yet marks no target, and no two commands share one.
Fresh ==
  /\ \A t \in Targets : writer[t] <= commands
  /\ \A p \in Procs : pc[p] # "idle" => cmd[p].id <= commands
  /\ \A p, q \in Procs : p # q /\ pc[p] # "idle" /\ pc[q] # "idle" => cmd[p].id # cmd[q].id
  /\ \A p \in Procs, t \in Targets :
       pc[p] \in {"lock", "reconcile", "unmark", "load", "check", "backup", "mark", "install"}
         => writer[t] # cmd[p].id

\* The marker's mutation is a target's last writer only where it installed.
MarkerExplains ==
  marker # None => \A t \in Targets : writer[t] = marker.id =>
                     t = marker.target /\ file[t] = marker.post

\* A marker about to be removed is not the only account of a target's content.
Removable ==
  \A p \in Procs :
    /\ pc[p] = "unmark" => /\ marker # None
                           /\ \A t \in Targets : writer[t] = marker.id => Journaled(marker.id)
    /\ pc[p] = "clear" => Journaled(job[p].id)
    /\ pc[p] = "abort" => \A t \in Targets : writer[t] # job[p].id

Accounted == MarkerExplains /\ Removable /\ LastWriterAccounted

\* The preimage holds from the comparison to the write.
PreimageHeld ==
  \A p \in Procs : pc[p] \in {"backup", "mark", "install"} => file[job[p].target] = job[p].pre

-----------------------------------------------------------------------------
(* Lemmas about single steps.                                              *)

\* Replacing `undoes' in a change leaves a change with the other fields.
LEMMA RecordFields ==
  ASSUME NEW m \in Change, NEW u \in MutIds \cup {NoMut}
  PROVE  LET r == [m EXCEPT !.undoes = u] IN
           /\ r \in Change
           /\ r.id = m.id /\ r.op = m.op /\ r.target = m.target
           /\ r.pre = m.pre /\ r.post = m.post
  BY DEF Change

\* A journaled change keeps the invariants on journal lines, and what
\* justifies an intended change.
LEMMA Appending ==
  ASSUME Shape, NEW c \in Change, c.pre # c.post, NEW r \in BOOLEAN,
         journal' = journal \cup {[change |-> c, reconciled |-> r]}
  PROVE  /\ journal' \subseteq Line
         /\ \A l \in journal' : l.change.pre # l.change.post
         /\ \A d : Justified(d) /\ UNCHANGED proposals => Justified(d)'
<1>1. journal' \subseteq Line
  BY DEF Shape, TypeOK, Line
<1>2. \A l \in journal' : l.change.pre # l.change.post
  BY DEF Shape, Changing
<1>3. ASSUME NEW d, Justified(d), UNCHANGED proposals PROVE Justified(d)'
  BY <1>3 DEF Justified
<1>4. QED
  BY <1>1, <1>2, <1>3

\* What JournalMutation appends is the command's own change.
LEMMA JournalsJob ==
  ASSUME Shape, NEW p \in Procs, JournalMutation(p)
  PROVE  /\ \E c \in Change : /\ c.id = job[p].id /\ c.pre # c.post
                              /\ journal' = journal \cup {[change |-> c, reconciled |-> FALSE]}
         /\ \E l \in journal' : l.change.id = job[p].id
<1> DEFINE m == MutationRecord(job[p])
           c == [m EXCEPT !.undoes = job[p].undoes]
<1>1. job[p] \in Change /\ job[p].pre # job[p].post
  BY DEF JournalMutation, Goto, Shape, ShapeOf, JobSteps, Justified
<1>2. m \in Change /\ m.pre # m.post /\ m.id = job[p].id
  BY <1>1, RecordFields DEF MutationRecord
<1>3. job[p].undoes \in MutIds \cup {NoMut}
  BY <1>1 DEF Change
<1>4. c \in Change /\ c.pre # c.post /\ c.id = job[p].id
  <2> HIDE DEF m
  <2> QED BY <1>2, <1>3, RecordFields
<1>5. journal' = journal \cup {[change |-> c, reconciled |-> FALSE]}
  BY DEF JournalMutation
<1>6. [change |-> c, reconciled |-> FALSE] \in journal'
  BY <1>5
<1>7. QED
  <2> HIDE DEF c
  <2> QED BY <1>4, <1>5, <1>6

\* What ReconcileInstalled appends is the marker's change.
LEMMA JournalsMarker ==
  ASSUME Shape, NEW p \in Procs, ReconcileInstalled(p)
  PROVE  /\ \E c \in Change : /\ c.id = marker.id /\ c.pre # c.post
                              /\ journal' = journal \cup {[change |-> c, reconciled |-> TRUE]}
         /\ \E l \in journal' : l.change.id = marker.id
<1> DEFINE c == MutationRecord(marker)
<1>1. c \in Change /\ c.pre # c.post /\ c.id = marker.id
  BY RecordFields DEF ReconcileInstalled, MutationRecord, Shape, TypeOK, Changing
<1>2. journal' = journal \cup {[change |-> c, reconciled |-> TRUE]}
  BY DEF ReconcileInstalled
<1>3. [change |-> c, reconciled |-> TRUE] \in journal'
  BY <1>2
<1>4. QED
  <2> HIDE DEF c
  <2> QED BY <1>1, <1>2, <1>3

\* A command that writes, writes its own post-image and nothing else.
LEMMA ReplaceWrites ==
  ASSUME Shape, NEW p \in Procs, pc[p] = "install", Replace(p)
  PROVE  /\ job[p] \in Change
         /\ file' = [file EXCEPT ![job[p].target] = job[p].post]
         /\ writer' = [writer EXCEPT ![job[p].target] = job[p].id]
         /\ landed' = landed \cup {job[p]}
<1>1. job[p] \in Change
  BY DEF Shape, ShapeOf, JobSteps
<1>2. Written(p) = job[p].post
  BY <1>1 DEF Replace, CanWrite, Written, Change, Ops
<1>3. QED
  BY <1>1, <1>2 DEF Replace

\* Leaving releases the flock.
LEMMA LeaveReleases ==
  ASSUME TypeOK, LockHeld, NEW p \in Procs, Leave(p)
  PROVE  LockHeld'
<1>1. pc' = [pc EXCEPT ![p] = "idle"] /\ lock' = IF lock = p THEN None ELSE lock
  BY DEF Leave
<1>2. None \notin Procs
  BY ConstantsAssumption
<1>3. QED
  BY <1>1, <1>2 DEF LockHeld, TypeOK

\* While one command is past the lock, every other is outside it.
LEMMA OthersOutside ==
  ASSUME TypeOK, LockHeld, NEW p \in Procs, pc[p] \notin {"idle", "lock"},
         NEW s, pc' = [pc EXCEPT ![p] = s]
  PROVE  /\ \A q \in Procs : pc'[q] = IF q = p THEN s ELSE pc[q]
         /\ \A q \in Procs \ {p} : pc[q] \in {"idle", "lock"}
  BY DEF LockHeld, TypeOK

-----------------------------------------------------------------------------
(* The layers of the invariant, each preserved by every step.              *)

\* Both journaling steps keep the shape.
LEMMA JournalingShape ==
  ASSUME Shape, NEW p \in Procs, ReconcileInstalled(p) \/ JournalMutation(p)
  PROVE  Shape'
<1> USE DEF Shape
<1>1. UNCHANGED <<disk, marker, backups, store, lock, Locals, commands, env>>
  BY DEF ReconcileInstalled, JournalMutation
<1>2. /\ pc[p] \in {"reconcile", "journal"}
      /\ pc' = [pc EXCEPT ![p] = IF pc[p] = "journal" THEN "clear" ELSE "unmark"]
  BY DEF ReconcileInstalled, JournalMutation, Goto
<1>3. /\ journal' \subseteq Line
      /\ \A l \in journal' : l.change.pre # l.change.post
      /\ \A d : Justified(d) /\ UNCHANGED proposals => Justified(d)'
  BY JournalsMarker, JournalsJob, Appending
<1>4. TypeOK'
  BY <1>1, <1>2, <1>3 DEF TypeOK, disk, store, Locals, env, Steps
<1>5. Changing'
  BY <1>1, <1>3 DEF Changing, store
<1>6. \A q \in Procs : ShapeOf(q)'
  BY <1>1, <1>2, <1>3 DEF ShapeOf, TypeOK, JobSteps, store, Locals
<1>7. QED
  BY <1>4, <1>5, <1>6

\* So does staging a proposal.
LEMMA StagingShape ==
  ASSUME Shape, NEW i \in ProposalIds, NEW t \in Targets, NEW c \in StageContents,
         NEW f \in Fingerprints, Stage(i, t, c, f)
  PROVE  Shape'
<1> USE DEF Shape, TypeOK, Stage, disk, store, Locals, env
<1> DEFINE r == [target |-> t, pre |-> file[t], post |-> c, fp |-> f]
<1>1. r \in Proposal /\ r.pre # r.post /\ r # None
  BY ConstantsAssumption, NoneIsNoRecord DEF Proposal
<1>2. proposals' = [proposals EXCEPT ![i] = r] /\ proposals[i] = None
  OBVIOUS
<1> HIDE DEF r
<1>3. TypeOK'
  BY <1>1, <1>2
<1>4. Changing'
  BY <1>1, <1>2 DEF Changing
<1>5. \A q \in Procs : ShapeOf(q)'
  BY <1>2 DEF ShapeOf, JobSteps, Justified
<1>6. QED
  BY <1>3, <1>4, <1>5

\* So does clearing the marker.
LEMMA ClearingShape ==
  ASSUME Shape, NEW p \in Procs, ClearMarker(p)
  PROVE  Shape'
<1> USE DEF Shape, TypeOK, Steps, ClearMarker, Goto, Leave, disk, store, Locals, env
<1>1. TypeOK'
  OBVIOUS
<1>2. Changing'
  BY DEF Changing
<1>3. \A q \in Procs : ShapeOf(q)'
  BY DEF ShapeOf, JobSteps, Justified
<1>4. QED
  BY <1>1, <1>2, <1>3

\* And finding that a marked change was not installed.
LEMMA DismissingShape ==
  ASSUME Shape, NEW p \in Procs, ReconcileNotInstalled(p)
  PROVE  Shape'
<1> USE DEF Shape, TypeOK, Steps, ReconcileNotInstalled, Goto, disk, store, Locals, env
<1>1. TypeOK'
  OBVIOUS
<1>2. Changing'
  BY DEF Changing
<1>3. \A q \in Procs : ShapeOf(q)'
  BY DEF ShapeOf, JobSteps, Justified
<1>4. QED
  BY <1>1, <1>2, <1>3

\* The shape is preserved.
LEMMA ShapeStep ==
  ASSUME Shape, [Next]_vars
  PROVE  Shape'
<1> USE ConstantsAssumption
    DEF Shape, Changing, ShapeOf, Justified, JobSteps, TypeOK, disk, store, env, Locals,
        Change, Line, Command, Proposal, MutIds, FileState, Statuses, Steps, NoMut, Ops
<1>1. ASSUME NEW p \in Procs, NEW i \in live, Begin(p, "apply", i, NoMut)
      PROVE  Shape'
  BY SMTT(60), <1>1 DEF Begin, Goto
<1>2. ASSUME NEW p \in Procs, NEW l \in journal,
             Begin(p, "rollback", None, l.change.id)
      PROVE  Shape'
  BY SMTT(60), <1>2 DEF Begin, Goto
<1>3. ASSUME NEW p \in Procs, Acquire(p) PROVE Shape'
  BY <1>3 DEF Acquire, Goto
<1>4. ASSUME NEW p \in Procs, ReconcileNothing(p) PROVE Shape'
  BY <1>4 DEF ReconcileNothing, Goto
<1>5. ASSUME NEW p \in Procs, ReconcileNotInstalled(p) PROVE Shape'
  BY <1>5, DismissingShape
<1>6. ASSUME NEW p \in Procs, ReconcileInstalled(p) \/ JournalMutation(p)
      PROVE  Shape'
  BY <1>6, JournalingShape
<1>7. ASSUME NEW p \in Procs, ReconcileBlocked(p) PROVE Shape'
  BY <1>7 DEF ReconcileBlocked, Leave
<1>8. ASSUME NEW p \in Procs, Unmark(p) PROVE Shape'
  BY SMTT(60), <1>8 DEF Unmark, Goto
<1>9. ASSUME NEW p \in Procs, LoadProposal(p) PROVE Shape'
  BY SMTT(60), <1>9 DEF LoadProposal, Goto, LinesOf, AlreadyRolledBack
<1>10. ASSUME NEW p \in Procs, FindMutation(p) PROVE Shape'
  BY SMTT(60), <1>10 DEF FindMutation, Goto, LinesOf, AlreadyRolledBack
<1>11. ASSUME NEW p \in Procs, Refuse(p) PROVE Shape'
  BY <1>11 DEF Refuse, Goto, Leave
<1>12. ASSUME NEW p \in Procs, CheckPreimage(p) PROVE Shape'
  BY <1>12 DEF CheckPreimage, Goto
<1>13. ASSUME NEW p \in Procs, StaleTarget(p) PROVE Shape'
  BY <1>13 DEF StaleTarget, Leave
<1>14. ASSUME NEW p \in Procs, Backup(p) PROVE Shape'
  BY <1>14 DEF Backup, Goto
<1>15. ASSUME NEW p \in Procs, WriteMarker(p) PROVE Shape'
  BY <1>15 DEF WriteMarker, Goto
<1>16. ASSUME NEW p \in Procs, Install(p) PROVE Shape'
  BY SMTT(60), <1>16 DEF Install, Goto, Replace, CanWrite, Written
<1>17. ASSUME NEW p \in Procs, InstallFails(p) PROVE Shape'
  BY SMTT(60), <1>17 DEF InstallFails, Goto
<1>18. ASSUME NEW p \in Procs, InstallFailsLate(p) PROVE Shape'
  BY SMTT(60), <1>18 DEF InstallFailsLate, Goto, Leave, Replace, CanWrite, Written
<1>19. ASSUME NEW p \in Procs, Abort(p) PROVE Shape'
  BY SMTT(60), <1>19 DEF Abort, Leave
<1>20. ASSUME NEW p \in Procs, Verify(p) PROVE Shape'
  BY <1>20 DEF Verify, Goto
<1>21. ASSUME NEW p \in Procs, VerifyFails(p) PROVE Shape'
  BY <1>21 DEF VerifyFails, Leave
<1>22. ASSUME NEW p \in Procs, ClearMarker(p) PROVE Shape'
  BY <1>22, ClearingShape
<1>23. ASSUME NEW p \in Procs, InvalidateProposal(p) PROVE Shape'
  BY <1>23 DEF InvalidateProposal, Goto
<1>24. ASSUME NEW p \in Procs, ReadFingerprints(p) PROVE Shape'
  BY SMTT(60), <1>24 DEF ReadFingerprints, Goto
<1>25. ASSUME NEW p \in Procs, WriteFingerprints(p) PROVE Shape'
  BY SMTT(60), <1>25 DEF WriteFingerprints, Leave
<1>26. ASSUME NEW p \in Procs, Crash(p) PROVE Shape'
  BY SMTT(60), <1>26 DEF Crash, Leave
<1>27. ASSUME NEW i \in ProposalIds, NEW t \in Targets, NEW c \in StageContents,
             NEW f \in Fingerprints, Stage(i, t, c, f)
      PROVE  Shape'
  BY <1>27, StagingShape
<1>28. ASSUME NEW i \in ProposalIds, Expire(i)
      PROVE  Shape'
  BY <1>28 DEF Expire
<1>29. ASSUME NEW t \in Targets, NEW c \in EditContents, Edit(t, c)
      PROVE  Shape'
  BY <1>29 DEF Edit
<1>30. CASE UNCHANGED vars
  BY <1>30 DEF vars
<1>31. QED
  BY ZenonT(60), <1>1, <1>2, <1>3, <1>4, <1>5, <1>6, <1>7, <1>8, <1>9, <1>10, <1>11, <1>12,
     <1>13, <1>14, <1>15, <1>16, <1>17, <1>18, <1>19, <1>20, <1>21, <1>22, <1>23,
     <1>24, <1>25, <1>26, <1>27, <1>28, <1>29, <1>30
     DEF Next, Start, Step, Others

\* The flock has one holder, the command that is past it.
LEMMA LockStep ==
  ASSUME TypeOK, LockHeld, [Next]_vars
  PROVE  LockHeld'
<1> USE DEF TypeOK, Steps, disk, store, env, Locals
<1>1. ASSUME NEW p \in Procs, (\E i \in live : Begin(p, "apply", i, NoMut))
             \/ (\E l \in journal : Begin(p, "rollback", None, l.change.id))
      PROVE  LockHeld'
  BY <1>1 DEF Begin, Goto, LockHeld
<1>2. ASSUME NEW p \in Procs, Acquire(p) PROVE LockHeld'
  BY <1>2, ConstantsAssumption DEF Acquire, Goto, LockHeld
<1>3. ASSUME NEW p \in Procs, ReconcileNothing(p) \/ ReconcileNotInstalled(p)
             \/ ReconcileInstalled(p) \/ Unmark(p) \/ LoadProposal(p)
             \/ FindMutation(p) \/ CheckPreimage(p) \/ Backup(p) \/ WriteMarker(p)
             \/ Install(p) \/ InstallFails(p) \/ InstallFailsLate(p) \/ Verify(p)
             \/ JournalMutation(p) \/ InvalidateProposal(p) \/ ReadFingerprints(p)
      PROVE  LockHeld'
  BY <1>3 DEF Goto, LockHeld, ReconcileNothing, ReconcileNotInstalled,
         ReconcileInstalled, Unmark, LoadProposal, FindMutation, CheckPreimage,
         Backup, WriteMarker, Install, InstallFails, InstallFailsLate, Verify,
         JournalMutation, InvalidateProposal, ReadFingerprints
<1>4. ASSUME NEW p \in Procs, ReconcileBlocked(p) \/ Refuse(p) \/ StaleTarget(p)
             \/ Abort(p) \/ VerifyFails(p) \/ WriteFingerprints(p) \/ Crash(p)
      PROVE  LockHeld'
  BY <1>4, LeaveReleases
     DEF ReconcileBlocked, Refuse, StaleTarget, Abort, VerifyFails,
         WriteFingerprints, Crash
<1>5. ASSUME NEW p \in Procs, ClearMarker(p) PROVE LockHeld'
  <2>1. CASE Leave(p)
    BY <2>1, LeaveReleases
  <2>2. CASE Goto(p, "clear", "invalidate") /\ UNCHANGED <<lock, Locals>>
    BY <2>2 DEF Goto, LockHeld
  <2>3. QED
    BY <1>5, <2>1, <2>2 DEF ClearMarker
<1>6. CASE \/ (\E i \in ProposalIds, t \in Targets, c \in StageContents, f \in Fingerprints :
             Stage(i, t, c, f))
         \/ (\E i \in ProposalIds : Expire(i))
         \/ (\E t \in Targets, c \in EditContents : Edit(t, c))
         \/ UNCHANGED vars
  BY <1>6 DEF Stage, Expire, Edit, vars, LockHeld
<1>7. QED
  BY <1>1, <1>2, <1>3, <1>4, <1>5, <1>6
     DEF Next, Start, Step, Others

\* No command passes another's marker.
LEMMA MarkerStep ==
  ASSUME Shape, Exclusion, [Next]_vars
  PROVE  MarkerIsOwn'
<1> USE DEF Exclusion, LockHeld, MarkerIsOwn, Shape, ShapeOf, TypeOK, Steps, JobSteps,
        disk, store, env, Locals
<1>1. ASSUME NEW p \in Procs, (\E i \in live : Begin(p, "apply", i, NoMut))
             \/ (\E l \in journal : Begin(p, "rollback", None, l.change.id))
      PROVE  MarkerIsOwn'
  BY <1>1 DEF Begin, Goto
<1>2. ASSUME NEW p \in Procs, Acquire(p) \/ ReconcileNothing(p)
             \/ ReconcileNotInstalled(p) \/ ReconcileInstalled(p)
             \/ CheckPreimage(p) \/ Backup(p) \/ Install(p) \/ InstallFails(p)
             \/ InstallFailsLate(p) \/ Verify(p) \/ JournalMutation(p)
             \/ InvalidateProposal(p) \/ ReadFingerprints(p)
      PROVE  MarkerIsOwn'
  BY <1>2 DEF Acquire, Goto, ReconcileNothing, ReconcileNotInstalled,
         ReconcileInstalled, CheckPreimage, Backup, Install, InstallFails,
         InstallFailsLate, Leave, Verify, JournalMutation, InvalidateProposal,
         ReadFingerprints
<1>3. ASSUME NEW p \in Procs, ReconcileBlocked(p) \/ Refuse(p) \/ StaleTarget(p)
             \/ VerifyFails(p) \/ WriteFingerprints(p) \/ Crash(p)
      PROVE  MarkerIsOwn'
  BY <1>3 DEF ReconcileBlocked, Leave, Refuse, Goto, StaleTarget, VerifyFails,
         WriteFingerprints, Crash
<1>4. ASSUME NEW p \in Procs, Unmark(p) PROVE MarkerIsOwn'
  BY <1>4 DEF Unmark, Goto
<1>5. ASSUME NEW p \in Procs, LoadProposal(p) PROVE MarkerIsOwn'
  BY <1>5 DEF LoadProposal, Goto
<1>6. ASSUME NEW p \in Procs, FindMutation(p) PROVE MarkerIsOwn'
  BY <1>6 DEF FindMutation, Goto
<1>7. ASSUME NEW p \in Procs, WriteMarker(p) PROVE MarkerIsOwn'
  BY <1>7 DEF WriteMarker, Goto
<1>8. ASSUME NEW p \in Procs, Abort(p) PROVE MarkerIsOwn'
  BY <1>8 DEF Abort, Leave
<1>9. ASSUME NEW p \in Procs, ClearMarker(p) PROVE MarkerIsOwn'
  BY <1>9 DEF ClearMarker, Goto, Leave
<1>10. CASE \/ (\E i \in ProposalIds, t \in Targets, c \in StageContents, f \in Fingerprints :
             Stage(i, t, c, f))
         \/ (\E i \in ProposalIds : Expire(i))
         \/ (\E t \in Targets, c \in EditContents : Edit(t, c))
         \/ UNCHANGED vars
  BY <1>10 DEF Stage, Expire, Edit, vars
<1>11. QED
  BY <1>1, <1>2, <1>3, <1>4, <1>5, <1>6, <1>7, <1>8, <1>9, <1>10
     DEF Next, Start, Step, Others

\* Mutation ids are used once.
LEMMA FreshStep ==
  ASSUME Shape, Exclusion, Fresh, [Next]_vars
  PROVE  Fresh'
<1> USE DEF Fresh, Exclusion, LockHeld, Shape, ShapeOf, TypeOK, Steps, JobSteps, Command,
        Change, MutIds, NoMut, disk, store, env, Locals
<1>1. ASSUME NEW p \in Procs, NEW i \in live, Begin(p, "apply", i, NoMut)
      PROVE  Fresh'
  BY <1>1, ConstantsAssumption DEF Begin, Goto
<1>2. ASSUME NEW p \in Procs, NEW l \in journal,
             Begin(p, "rollback", None, l.change.id)
      PROVE  Fresh'
  BY <1>2, ConstantsAssumption DEF Begin, Goto
<1>3. ASSUME NEW p \in Procs, Acquire(p) \/ ReconcileNothing(p)
             \/ ReconcileNotInstalled(p) \/ ReconcileInstalled(p) \/ Unmark(p)
             \/ LoadProposal(p) \/ FindMutation(p) \/ CheckPreimage(p) \/ Backup(p)
             \/ WriteMarker(p) \/ InstallFails(p) \/ Verify(p)
             \/ JournalMutation(p) \/ InvalidateProposal(p) \/ ReadFingerprints(p)
      PROVE  Fresh'
  BY SMTT(60), <1>3 DEF Acquire, Goto, ReconcileNothing, ReconcileNotInstalled,
         ReconcileInstalled, Unmark, LoadProposal, FindMutation, CheckPreimage,
         Backup, WriteMarker, InstallFails, Verify, JournalMutation,
         InvalidateProposal, ReadFingerprints
<1>4. ASSUME NEW p \in Procs, ReconcileBlocked(p) PROVE Fresh'
  BY <1>4 DEF ReconcileBlocked, Leave
<1>5. ASSUME NEW p \in Procs, Refuse(p) PROVE Fresh'
  BY <1>5 DEF Refuse, Goto, Leave
<1>6. ASSUME NEW p \in Procs, StaleTarget(p) PROVE Fresh'
  BY <1>6 DEF StaleTarget, Leave
<1>7. ASSUME NEW p \in Procs, Install(p) PROVE Fresh'
  BY <1>7 DEF Install, Goto, Replace
<1>8. ASSUME NEW p \in Procs, InstallFailsLate(p) PROVE Fresh'
  BY <1>8 DEF InstallFailsLate, Goto, Leave, Replace
<1>9. ASSUME NEW p \in Procs, Abort(p) PROVE Fresh'
  BY <1>9 DEF Abort, Leave
<1>10. ASSUME NEW p \in Procs, VerifyFails(p) PROVE Fresh'
  BY <1>10 DEF VerifyFails, Leave
<1>11. ASSUME NEW p \in Procs, ClearMarker(p) PROVE Fresh'
  <2>1. UNCHANGED <<writer, commands>>
    BY <1>11 DEF ClearMarker
  <2>2. \A q \in Procs : pc'[q] # "idle" =>
          /\ pc[q] # "idle" /\ cmd'[q] = cmd[q]
          /\ pc'[q] = pc[q] \/ pc'[q] = "invalidate"
    BY <1>11 DEF ClearMarker, Goto, Leave
  <2>3. QED
    BY <2>1, <2>2
<1>12. ASSUME NEW p \in Procs, WriteFingerprints(p) PROVE Fresh'
  BY <1>12 DEF WriteFingerprints, Leave
<1>13. ASSUME NEW p \in Procs, Crash(p) PROVE Fresh'
  BY <1>13 DEF Crash, Leave
<1>14. CASE \/ (\E i \in ProposalIds, t \in Targets, c \in StageContents, f \in Fingerprints :
             Stage(i, t, c, f))
         \/ (\E i \in ProposalIds : Expire(i))
         \/ (\E t \in Targets, c \in EditContents : Edit(t, c))
         \/ UNCHANGED vars
  BY <1>14 DEF Stage, Expire, Edit, vars
<1>15. QED
  BY <1>1, <1>2, <1>3, <1>4, <1>5, <1>6, <1>7, <1>8, <1>9, <1>10, <1>11, <1>12,
     <1>13, <1>14
     DEF Next, Start, Step, Others

\* A journaled change makes its marker removable.
LEMMA JournalingAccounted ==
  ASSUME Shape, Exclusion, Accounted, NEW p \in Procs,
         ReconcileInstalled(p) \/ JournalMutation(p)
  PROVE  Accounted'
<1> USE DEF Exclusion, Shape
<1>1. /\ UNCHANGED <<file, writer, marker, job>> /\ journal \subseteq journal'
      /\ ReconcileInstalled(p) => /\ pc[p] = "reconcile" /\ pc' = [pc EXCEPT ![p] = "unmark"]
                                  /\ marker # None
      /\ JournalMutation(p) => pc[p] = "journal" /\ pc' = [pc EXCEPT ![p] = "clear"]
  BY DEF ReconcileInstalled, JournalMutation, Goto, disk, Locals
<1>2. \E l \in journal' :
        l.change.id = IF pc'[p] = "unmark" THEN marker.id ELSE job[p].id
  <2>1. CASE ReconcileInstalled(p)
    BY <1>1, <2>1, JournalsMarker DEF TypeOK
  <2>2. CASE JournalMutation(p)
    BY <1>1, <2>2, JournalsJob DEF TypeOK
  <2>3. QED
    BY <2>1, <2>2
<1>3. \A q \in Procs \ {p} : pc'[q] \in {"idle", "lock"}
  BY <1>1, OthersOutside
<1>4. MarkerExplains'
  BY <1>1 DEF Accounted, MarkerExplains
<1>5. Removable'
  BY <1>1, <1>2, <1>3 DEF Removable, Journaled, TypeOK
<1>6. LastWriterAccounted'
  BY <1>1 DEF Accounted, LastWriterAccounted, Journaled
<1>7. QED
  BY <1>4, <1>5, <1>6 DEF Accounted

\* A write is explained by the marker written before it.
LEMMA InstallingAccounted ==
  ASSUME Shape, Exclusion, Accounted, NEW p \in Procs, Install(p)
  PROVE  Accounted'
<1> USE DEF Exclusion, Shape, TypeOK
<1>1. /\ pc[p] = "install" /\ pc' = [pc EXCEPT ![p] = "verify"]
      /\ UNCHANGED <<marker, journal, job>>
  BY DEF Install, Goto, Locals
<1>2. /\ file' = [file EXCEPT ![job[p].target] = job[p].post]
      /\ writer' = [writer EXCEPT ![job[p].target] = job[p].id]
      /\ job[p] \in Change
  BY <1>1, ReplaceWrites DEF Install
<1>3. marker = job[p] /\ marker # None
  BY <1>1, <1>2, NoneIsNoRecord DEF MarkerIsOwn
<1>4. \A q \in Procs \ {p} : pc'[q] \in {"idle", "lock"}
  BY <1>1, OthersOutside
<1>5. MarkerExplains'
  BY <1>1, <1>2, <1>3 DEF Accounted, MarkerExplains, Change
<1>6. Removable'
  BY <1>1, <1>4 DEF Removable
<1>7. LastWriterAccounted'
  BY <1>1, <1>2, <1>3 DEF Accounted, LastWriterAccounted, Journaled
<1>8. QED
  BY <1>5, <1>6, <1>7 DEF Accounted

\* An aborted command has written nothing its marker would have to explain.
LEMMA AbortingAccounted ==
  ASSUME Shape, Exclusion, Accounted, NEW p \in Procs, Abort(p)
  PROVE  Accounted'
<1> USE DEF Exclusion, Shape
<1>1. /\ pc[p] = "abort" /\ pc' = [pc EXCEPT ![p] = "idle"] /\ marker' = None
      /\ UNCHANGED <<file, writer, journal>>
  BY DEF Abort, Leave, disk
<1>2. \A q \in Procs : pc'[q] \in {"idle", "lock"}
  BY ZenonT(60), <1>1, OthersOutside
<1>3. MarkerExplains'
  BY <1>1 DEF MarkerExplains
<1>4. Removable'
  BY <1>2 DEF Removable
<1>5. marker = job[p]
  BY <1>1 DEF MarkerIsOwn
<1>6. LastWriterAccounted'
  BY <1>1, <1>5 DEF Accounted, Removable, LastWriterAccounted, Journaled
<1>7. QED
  BY <1>3, <1>4, <1>6 DEF Accounted

\* Somebody else's edit needs no account.
LEMMA EditAccounted ==
  ASSUME Shape, Accounted, NEW t \in Targets, NEW c \in EditContents, Edit(t, c)
  PROVE  Accounted'
<1> USE DEF Shape, TypeOK
<1>1. \A u \in Targets : writer'[u] = NoMut \/ (writer'[u] = writer[u] /\ file'[u] = file[u])
  BY DEF Edit
<1>2. UNCHANGED <<pc, marker, journal, job>>
  BY DEF Edit, Locals
<1>3. marker # None => marker.id # NoMut
  BY DEF Change, MutIds, NoMut
<1>4. \A p \in Procs : pc[p] \in JobSteps => job[p].id # NoMut
  BY DEF ShapeOf, Change, MutIds, NoMut
<1>5. MarkerExplains'
  BY <1>1, <1>2, <1>3 DEF Accounted, MarkerExplains
<1>6. Removable'
  BY <1>1, <1>2, <1>3, <1>4 DEF Accounted, Removable, Journaled, JobSteps
<1>7. LastWriterAccounted'
  BY <1>1, <1>2 DEF Accounted, LastWriterAccounted, Journaled
<1>8. QED
  BY <1>5, <1>6, <1>7 DEF Accounted

\* While no write fails after its rename, whatever a mutation left is accounted for.
LEMMA AccountedStep ==
  ASSUME Shape, Exclusion, Fresh, ~ LateErrors, Accounted, [Next]_vars
  PROVE  Accounted'
<1> USE ConstantsAssumption, NoneIsNoRecord
    DEF Accounted, MarkerExplains, Removable, LastWriterAccounted, Journaled, Fresh, Exclusion,
        LockHeld, MarkerIsOwn, Changing, Justified, Shape, ShapeOf, TypeOK, Steps, JobSteps,
        Change, Command, Line, MutIds, NoMut, disk, store, env, Locals
<1>1. ASSUME NEW p \in Procs, (\E i \in live : Begin(p, "apply", i, NoMut))
             \/ (\E l \in journal : Begin(p, "rollback", None, l.change.id))
      PROVE  Accounted'
  BY <1>1 DEF Begin, Goto
<1>2. ASSUME NEW p \in Procs, Acquire(p) \/ ReconcileNothing(p) \/ LoadProposal(p)
             \/ FindMutation(p) \/ CheckPreimage(p) \/ Backup(p) \/ Verify(p)
      PROVE  Accounted'
  BY SMTT(60), <1>2 DEF Acquire, Goto, ReconcileNothing, LoadProposal, FindMutation,
         CheckPreimage, Backup, Verify
<1>3. ASSUME NEW p \in Procs, ReconcileNotInstalled(p) PROVE Accounted'
  BY <1>3 DEF ReconcileNotInstalled, Goto
<1>4. ASSUME NEW p \in Procs, ReconcileInstalled(p) \/ JournalMutation(p)
      PROVE  Accounted'
  BY <1>4, JournalingAccounted
<1>5. ASSUME NEW p \in Procs, ReconcileBlocked(p) \/ Refuse(p) \/ StaleTarget(p)
             \/ VerifyFails(p) \/ Crash(p)
      PROVE  Accounted'
  BY <1>5 DEF ReconcileBlocked, Leave, Refuse, Goto, StaleTarget, VerifyFails,
         Crash
<1>6. ASSUME NEW p \in Procs, Unmark(p) PROVE Accounted'
  BY <1>6 DEF Unmark, Goto
<1>7. ASSUME NEW p \in Procs, WriteMarker(p) PROVE Accounted'
  BY <1>7 DEF WriteMarker, Goto
<1>8. ASSUME NEW p \in Procs, Install(p) PROVE Accounted'
  BY <1>8, InstallingAccounted
<1>9. ASSUME NEW p \in Procs, InstallFails(p) PROVE Accounted'
  BY <1>9 DEF InstallFails, Goto
<1>10. ASSUME NEW p \in Procs, InstallFailsLate(p) PROVE Accounted'
  BY <1>10 DEF InstallFailsLate, Goto, Leave
<1>11. ASSUME NEW p \in Procs, Abort(p) PROVE Accounted'
  BY <1>11, AbortingAccounted
<1>12. ASSUME NEW p \in Procs, ClearMarker(p) PROVE Accounted'
  BY SMTT(60), <1>12 DEF ClearMarker, Goto, Leave
<1>13. ASSUME NEW p \in Procs, InvalidateProposal(p) \/ ReadFingerprints(p)
      PROVE  Accounted'
  BY <1>13 DEF InvalidateProposal, Goto, ReadFingerprints
<1>14. ASSUME NEW p \in Procs, WriteFingerprints(p) PROVE Accounted'
  BY <1>14 DEF WriteFingerprints, Leave
<1>15. CASE \/ (\E i \in ProposalIds, t \in Targets, c \in StageContents, f \in Fingerprints :
             Stage(i, t, c, f))
         \/ (\E i \in ProposalIds : Expire(i))
         \/ UNCHANGED vars
  BY <1>15 DEF Stage, Expire, vars
<1>16. ASSUME NEW t \in Targets, NEW c \in EditContents, Edit(t, c)
      PROVE  Accounted'
  BY <1>16, EditAccounted
<1>17. QED
  BY <1>1, <1>2, <1>3, <1>4, <1>5, <1>6, <1>7, <1>8, <1>9, <1>10, <1>11, <1>12,
     <1>13, <1>14, <1>15, <1>16
     DEF Next, Start, Step, Others

\* While nobody edits a target in the critical window, it keeps its preimage.
LEMMA PreimageStep ==
  ASSUME Shape, Exclusion, ~ RaceEdits, PreimageHeld, [Next]_vars
  PROVE  PreimageHeld'
<1> USE DEF PreimageHeld, Exclusion, LockHeld, Shape, ShapeOf, TypeOK, Steps, JobSteps,
        InWindow, Change, disk, store, env, Locals
<1>1. ASSUME NEW p \in Procs, (\E i \in live : Begin(p, "apply", i, NoMut))
             \/ (\E l \in journal : Begin(p, "rollback", None, l.change.id))
      PROVE  PreimageHeld'
  BY <1>1 DEF Begin, Goto
<1>2. ASSUME NEW p \in Procs, Acquire(p) \/ ReconcileNothing(p)
             \/ ReconcileNotInstalled(p) \/ ReconcileInstalled(p) \/ Unmark(p)
             \/ LoadProposal(p) \/ FindMutation(p) \/ Backup(p) \/ WriteMarker(p)
             \/ InstallFails(p) \/ Verify(p) \/ JournalMutation(p)
             \/ InvalidateProposal(p) \/ ReadFingerprints(p)
      PROVE  PreimageHeld'
  BY <1>2 DEF Acquire, Goto, ReconcileNothing, ReconcileNotInstalled,
         ReconcileInstalled, Unmark, LoadProposal, FindMutation, Backup,
         WriteMarker, InstallFails, Verify, JournalMutation, InvalidateProposal,
         ReadFingerprints
<1>3. ASSUME NEW p \in Procs, ReconcileBlocked(p) \/ Refuse(p) \/ StaleTarget(p)
             \/ Abort(p) \/ VerifyFails(p) \/ WriteFingerprints(p) \/ Crash(p)
      PROVE  PreimageHeld'
  BY <1>3 DEF ReconcileBlocked, Leave, Refuse, Goto, StaleTarget, Abort,
         VerifyFails, WriteFingerprints, Crash
<1>4. ASSUME NEW p \in Procs, CheckPreimage(p) PROVE PreimageHeld'
  BY <1>4 DEF CheckPreimage, Goto
<1>5. ASSUME NEW p \in Procs, Install(p) \/ InstallFailsLate(p)
      PROVE  PreimageHeld'
  BY <1>5 DEF Install, Goto, Replace, InstallFailsLate, Leave
<1>6. ASSUME NEW p \in Procs, ClearMarker(p) PROVE PreimageHeld'
  BY <1>6 DEF ClearMarker, Goto, Leave
<1>7. CASE \/ (\E i \in ProposalIds, t \in Targets, c \in StageContents, f \in Fingerprints :
             Stage(i, t, c, f))
         \/ (\E i \in ProposalIds : Expire(i))
         \/ UNCHANGED vars
  BY <1>7 DEF Stage, Expire, vars
<1>8. ASSUME NEW t \in Targets, NEW c \in EditContents, Edit(t, c)
      PROVE  PreimageHeld'
  BY <1>8 DEF Edit
<1>9. QED
  BY <1>1, <1>2, <1>3, <1>4, <1>5, <1>6, <1>7, <1>8
     DEF Next, Start, Step, Others

-----------------------------------------------------------------------------
(* The theorems.                                                           *)

LEMMA Initially ==
  ASSUME Init
  PROVE  Shape /\ Exclusion /\ Fresh /\ Accounted /\ PreimageHeld
<1> USE DEF Init
<1>1. TypeOK
  BY ConstantsAssumption DEF TypeOK, MutIds, NoMut, Statuses, Steps
<1>2. Shape
  BY <1>1 DEF Shape, Changing, ShapeOf, JobSteps
<1>3. Exclusion
  BY ConstantsAssumption DEF Exclusion, LockHeld, MarkerIsOwn
<1>4. Fresh
  BY DEF Fresh, NoMut
<1>5. Accounted
  BY DEF Accounted, MarkerExplains, Removable, LastWriterAccounted, NoMut
<1>6. PreimageHeld
  BY DEF PreimageHeld
<1>7. QED
  BY <1>2, <1>3, <1>4, <1>5, <1>6

Inv == Shape /\ Exclusion /\ Fresh

LEMMA Invariance == Spec => []Inv
<1>1. Init => Inv
  BY Initially DEF Inv
<1>2. Inv /\ [Next]_vars => Inv'
  BY ShapeStep, LockStep, MarkerStep, FreshStep DEF Inv, Exclusion, Shape
<1>3. QED
  BY <1>1, <1>2, PTL DEF Spec

\* Every variable keeps its type, whatever is killed, edited or refused.
THEOREM TypeCorrect == Spec => []TypeOK
<1>1. Inv => TypeOK
  BY DEF Inv, Shape
<1>2. QED
  BY <1>1, Invariance, PTL

\* The flock and reconcile exclude: no command works over a marker that is not
\* its own (mutate.reconcile, locking.state_lock).
THEOREM MarkerExclusion == Spec => []MarkerIsOwn
<1>1. Inv => MarkerIsOwn
  BY DEF Inv, Exclusion
<1>2. QED
  BY <1>1, Invariance, PTL

\* Kills and edits at any moment leave no unexplained content behind: the last
\* mutation of a target is journaled or its marker stands.
THEOREM Accountability ==
  ASSUME ~ LateErrors
  PROVE  Spec => []LastWriterAccounted
<1>1. Init => Accounted
  BY Initially
<1>2. Inv /\ Accounted /\ [Next]_vars => Accounted'
  BY AccountedStep DEF Inv
<1>3. Accounted => LastWriterAccounted
  BY DEF Accounted
<1>4. QED
  BY <1>1, <1>2, <1>3, Invariance, PTL DEF Spec

\* Only Install and InstallFailsLate make a change land.
LEMMA Landing ==
  ASSUME Inv, [Next]_vars, NEW c \in landed' \ landed
  PROVE  \E p \in Procs : pc[p] = "install" /\ Replace(p) /\ c = job[p] /\ UNCHANGED <<proposals, journal>>
<1>1. ASSUME NEW p \in Procs, Install(p) \/ InstallFailsLate(p)
      PROVE  pc[p] = "install" /\ Replace(p) /\ UNCHANGED <<proposals, journal>>
  BY <1>1 DEF Install, InstallFailsLate, Goto, store
<1>2. ASSUME NEW p \in Procs, Install(p) \/ InstallFailsLate(p)
      PROVE  c = job[p]
  BY <1>1, <1>2 DEF Replace
<1>3. ASSUME ~ \E p \in Procs : Install(p) \/ InstallFailsLate(p)
      PROVE  UNCHANGED landed
  BY ZenonT(60), <1>3 DEF Next, Start, Step, Others, vars, disk, Begin, Acquire, ReconcileNothing,
     ReconcileNotInstalled, ReconcileInstalled, ReconcileBlocked, Unmark, LoadProposal,
     FindMutation, Refuse, CheckPreimage, StaleTarget, Backup, WriteMarker, InstallFails,
     Abort, Verify, VerifyFails, JournalMutation, ClearMarker, InvalidateProposal,
     ReadFingerprints, WriteFingerprints, Crash, Stage, Expire, Edit
<1>4. QED
  BY <1>1, <1>2, <1>3

\* A change lands on the preimage it was approved against, unless somebody
\* edits the target between the comparison and the write.
THEOREM PreimageSafety ==
  ASSUME ~ RaceEdits
  PROVE  Spec => LandsOnPreimage
<1>1. Init => PreimageHeld
  BY Initially
<1>2. Inv /\ PreimageHeld /\ [Next]_vars => PreimageHeld'
  BY PreimageStep DEF Inv
<1>3. Inv /\ PreimageHeld /\ [Next]_vars
        => [\A c \in landed' \ landed : file[c.target] = c.pre]_vars
  BY Landing DEF PreimageHeld
<1>4. QED
  BY <1>1, <1>2, <1>3, Invariance, PTL DEF Spec, LandsOnPreimage

\* Whatever races, a change writes exactly the approved bytes, to the approved
\* target alone.
THEOREM ApprovedBytes == Spec => LandsApprovedBytes
<1> DEFINE Approves(c) ==
      /\ file'[c.target] = c.post
      /\ \A t \in Targets \ {c.target} : file'[t] = file[t]
      /\ IF c.op = "apply"
         THEN /\ proposals[c.pid].target = c.target
              /\ proposals[c.pid].post = c.post
         ELSE \E l \in LinesOf(c.undoes) :
                l.change.op = "apply" /\ l.change.target = c.target /\ l.change.pre = c.post
<1>1. ASSUME Inv, [Next]_vars, NEW c \in landed' \ landed
      PROVE  Approves(c)
  <2>1. PICK p \in Procs : pc[p] = "install" /\ Replace(p) /\ c = job[p]
    BY <1>1, Landing
  <2>2. c \in Change /\ Justified(c)
    BY <1>1, <2>1 DEF Inv, Shape, ShapeOf, JobSteps
  <2>3. file' = [file EXCEPT ![c.target] = c.post]
    BY <1>1, <2>1, ReplaceWrites DEF Inv
  <2>4. file'[c.target] = c.post /\ \A t \in Targets \ {c.target} : file'[t] = file[t]
    BY <1>1, <2>2, <2>3 DEF Inv, Shape, TypeOK, Change
  <2>5. QED
    BY <2>2, <2>4 DEF Justified, LinesOf, Change, Ops
<1>2. Inv /\ [Next]_vars => [\A c \in landed' \ landed : Approves(c)]_vars
  BY <1>1
<1>3. QED
  BY <1>2, Invariance, PTL DEF Spec, LandsApprovedBytes
=============================================================================
