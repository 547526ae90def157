-------------------------------- MODULE Mutate --------------------------------
(***************************************************************************)
(* Applying and rolling back approved bytes: plugin/selfimprove/mutate.py, *)
(* with the parts of locking.py, journal.py, proposals.py and paths.py it  *)
(* calls.  A process of Procs is one `si apply-proposal` or                *)
(* `si rollback-mutation` command; commands run concurrently with each     *)
(* other, with staging and expiry of proposals, and with whoever else      *)
(* edits the target files, and may be killed between any two steps.        *)
(*                                                                         *)
(* A file is abstracted to its content, and a SHA-256 digest to the        *)
(* content it is a digest of (distinct contents have distinct digests).    *)
(* The backup path a record carries is determined by the mutation that     *)
(* took the backup, and `was_new_file' by pre = Absent; neither is kept.   *)
(***************************************************************************)
EXTENDS Naturals

CONSTANTS
  Procs,        \* concurrent si commands
  Targets,      \* allowlisted files
  Contents,     \* contents a file may have
  Absent,       \* proposals.NEW_FILE: the file does not exist
  ProposalIds,  \* proposal ids (uuids, never reused)
  Fingerprints, \* lesson fingerprints
  None,         \* nothing there
  MaxCommands,  \* bound: commands started
  MaxEdits,     \* bound: edits by others
  MaxCrashes,   \* bound: killed commands
  StageContents,\* what proposals put into a target
  EditContents, \* what others write into a target
  CrashOps,     \* which commands may be killed
  RaceEdits,    \* may others edit a target while a command is changing it?
  LateErrors    \* may atomic_write raise after its rename (fsync_dir's open)?

ASSUME ConstantsAssumption ==
  /\ None \notin Procs \cup Targets \cup Contents \cup ProposalIds
  /\ Absent \notin Contents \cup {None}
  /\ MaxCommands \in Nat /\ MaxEdits \in Nat /\ MaxCrashes \in Nat
  /\ StageContents \subseteq Contents
  /\ EditContents \subseteq Contents \cup {Absent}
  /\ CrashOps \subseteq {"apply", "rollback"}
  /\ RaceEdits \in BOOLEAN /\ LateErrors \in BOOLEAN

VARIABLES
  file,         \* content of each target
  marker,       \* inflight.json
  journal,      \* the lines of mutations.jsonl
  backups,      \* backups/<mutation id>/
  proposals,    \* what was staged under each id
  live,         \* ids whose record is still in proposals/
  fingerprints, \* fingerprints.json
  lock,         \* holder of the `mutate' flock
  pc, cmd, job, \* each process: next step, arguments, loaded record
  view,         \* each process: the fingerprints it read
  commands, edits, crashes,
  writer,       \* history: the mutation that last changed a target, 0 for others
  landed        \* history: the changes that reached a target

vars == <<file, marker, journal, backups, proposals, live, fingerprints, lock,
          pc, cmd, job, view, commands, edits, crashes, writer, landed>>

disk  == <<file, writer, landed>>
store == <<proposals, live, fingerprints>>
env   == <<edits, crashes>>

-----------------------------------------------------------------------------

Ops      == {"apply", "rollback"}
NoMut    == 0
MutIds   == 1 .. MaxCommands
FileState == Contents \cup {Absent}
Statuses == {"unseen", "accepted", "rejected"}

Proposal == [target : Targets, pre : FileState, post : Contents, fp : Fingerprints]

\* An intended change: the marker, and what the command holds in memory.
Change == [id : MutIds, op : Ops, pid : ProposalIds, target : Targets,
           pre : FileState, post : FileState, undoes : MutIds \cup {NoMut}]

Line == [change : Change, reconciled : BOOLEAN]

Command == [id : MutIds, op : Ops, pid : ProposalIds \cup {None},
            undoes : MutIds \cup {NoMut}]

ASSUME NoneIsNoRecord == None \notin Proposal \cup Change

Steps == {"idle", "lock", "reconcile", "unmark", "load", "check", "backup",
          "mark", "install", "verify", "journal", "clear", "abort",
          "invalidate", "fpread", "fpwrite"}

\* Steps taken between the comparison of the preimage and the verification.
InWindow == {"backup", "mark", "install", "verify"}

\* mutate._mutation_record: every field of the marker but rolls_back.
MutationRecord(m) == [m EXCEPT !.undoes = NoMut]

LinesOf(m) == {l \in journal : l.change.id = m}

Journaled(m) == \E l \in journal : l.change.id = m

\* Mutant: asks the record itself, not the records that undo it.
AlreadyRolledBackByRecord(m) == \E l \in journal : l.change.id = m /\ l.change.undoes # NoMut

AlreadyRolledBack(m) == \E l \in journal : l.change.undoes = m

-----------------------------------------------------------------------------

Init ==
  /\ file \in [Targets -> FileState]
  /\ marker = None
  /\ journal = {}
  /\ backups = [m \in MutIds |-> None]
  /\ proposals = [i \in ProposalIds |-> None]
  /\ live = {}
  /\ fingerprints = [f \in Fingerprints |-> "unseen"]
  /\ lock = None
  /\ pc = [p \in Procs |-> "idle"]
  /\ cmd = [p \in Procs |-> None]
  /\ job = [p \in Procs |-> None]
  /\ view = [p \in Procs |-> None]
  /\ commands = 0 /\ edits = 0 /\ crashes = 0
  /\ writer = [t \in Targets |-> NoMut]
  /\ landed = {}

Goto(p, from, to) == pc[p] = from /\ pc' = [pc EXCEPT ![p] = to]

\* Mutant: the flock is not released.
LeaveLocked(p) ==
  /\ pc' = [pc EXCEPT ![p] = "idle"]
  /\ cmd' = [cmd EXCEPT ![p] = None]
  /\ job' = [job EXCEPT ![p] = None]
  /\ view' = [view EXCEPT ![p] = None]
  /\ lock' = lock

\* The command returns or raises: state_lock's finally clauses release the
\* flock, and process exit drops the locals.
Leave(p) ==
  /\ pc' = [pc EXCEPT ![p] = "idle"]
  /\ cmd' = [cmd EXCEPT ![p] = None]
  /\ job' = [job EXCEPT ![p] = None]
  /\ view' = [view EXCEPT ![p] = None]
  /\ lock' = IF lock = p THEN None ELSE lock

Locals == <<cmd, job, view>>

-----------------------------------------------------------------------------
(* Both operations: start, take the lock, reconcile.                       *)

\* An authorized command starts.  Its mutation id (a fresh uuid) is drawn here.
Begin(p, op, pid, undoes) ==
  /\ commands < MaxCommands
  /\ Goto(p, "idle", "lock")
  /\ commands' = commands + 1
  /\ cmd' = [cmd EXCEPT ![p] = [id |-> commands + 1, op |-> op, pid |-> pid,
                                undoes |-> undoes]]
  /\ UNCHANGED <<disk, marker, journal, backups, store, lock, job, view, env>>

\* Mutant: a shared lock.
AcquireShared(p) ==
  /\ Goto(p, "lock", "reconcile")
  /\ lock' = p
  /\ UNCHANGED <<disk, marker, journal, backups, store, Locals, commands, env>>

\* flock(LOCK_EX) blocks until the holder releases it.
Acquire(p) ==
  /\ lock = None
  /\ Goto(p, "lock", "reconcile")
  /\ lock' = p
  /\ UNCHANGED <<disk, marker, journal, backups, store, Locals, commands, env>>

ReconcileNothing(p) ==
  /\ marker = None
  /\ Goto(p, "reconcile", "load")
  /\ UNCHANGED <<disk, marker, journal, backups, store, lock, Locals, commands, env>>

ReconcileNotInstalled(p) ==
  /\ marker # None
  /\ file[marker.target] = marker.pre
  /\ Goto(p, "reconcile", "unmark")
  /\ UNCHANGED <<disk, marker, journal, backups, store, lock, Locals, commands, env>>

\* Mutant: whatever is not the preimage counts as installed.
ReconcileInstalledAny(p) ==
  /\ marker # None
  /\ file[marker.target] # marker.pre
  /\ Goto(p, "reconcile", "unmark")
  /\ journal' = journal \cup {[change |-> MutationRecord(marker), reconciled |-> TRUE]}
  /\ UNCHANGED <<disk, marker, backups, store, lock, Locals, commands, env>>

ReconcileInstalled(p) ==
  /\ marker # None
  /\ file[marker.target] # marker.pre
  /\ file[marker.target] = marker.post
  /\ Goto(p, "reconcile", "unmark")
  /\ journal' = journal \cup {[change |-> MutationRecord(marker), reconciled |-> TRUE]}
  /\ UNCHANGED <<disk, marker, backups, store, lock, Locals, commands, env>>

\* unreconciled_target: the command is refused and the marker stays.
ReconcileBlocked(p) ==
  /\ pc[p] = "reconcile"
  /\ marker # None
  /\ file[marker.target] \notin {marker.pre, marker.post}
  /\ Leave(p)
  /\ UNCHANGED <<disk, marker, journal, backups, store, commands, env>>

Unmark(p) ==
  /\ Goto(p, "unmark", "load")
  /\ marker' = None
  /\ UNCHANGED <<disk, journal, backups, store, lock, Locals, commands, env>>

-----------------------------------------------------------------------------
(* Preconditions.                                                          *)

LoadProposal(p) ==
  /\ Goto(p, "load", "check")
  /\ cmd[p].op = "apply"
  /\ cmd[p].pid \in live
  /\ LET r == proposals[cmd[p].pid] IN
       job' = [job EXCEPT ![p] =
                 [id |-> cmd[p].id, op |-> "apply", pid |-> cmd[p].pid,
                  target |-> r.target, pre |-> r.pre, post |-> r.post,
                  undoes |-> NoMut]]
  /\ UNCHANGED <<disk, marker, journal, backups, store, lock, cmd, view, commands, env>>

FindMutation(p) ==
  /\ Goto(p, "load", "check")
  /\ cmd[p].op = "rollback"
  /\ \E l \in LinesOf(cmd[p].undoes) :
       /\ l.change.op = "apply"
       /\ ~ AlreadyRolledBack(cmd[p].undoes)
       /\ job' = [job EXCEPT ![p] =
                    [id |-> cmd[p].id, op |-> "rollback", pid |-> l.change.pid,
                     target |-> l.change.target, pre |-> l.change.post,
                     post |-> l.change.pre, undoes |-> cmd[p].undoes]]
  /\ UNCHANGED <<disk, marker, journal, backups, store, lock, cmd, view, commands, env>>

\* unknown_or_expired_proposal, unknown_mutation, already_a_rollback and
\* already_rolled_back at "load"; hash_mismatch, path_rejected, target_moved
\* and staged_content_corrupt at either step.  The latter four depend on data
\* that is not modelled, so a command may be refused whatever the state.
Refuse(p) ==
  /\ pc[p] \in {"load", "check"}
  /\ Leave(p)
  /\ UNCHANGED <<disk, marker, journal, backups, store, commands, env>>

\* Mutant: the target is not compared with the preimage.
CheckPreimageNot(p) ==
  /\ pc[p] = "check"
  /\ Goto(p, "check", IF job[p].op = "apply" THEN "backup" ELSE "mark")
  /\ UNCHANGED <<disk, marker, journal, backups, store, lock, Locals, commands, env>>

\* The target must hash to the preimage; only an apply takes a backup.
CheckPreimage(p) ==
  /\ pc[p] = "check"
  /\ file[job[p].target] = job[p].pre
  /\ Goto(p, "check", IF job[p].op = "apply" THEN "backup" ELSE "mark")
  /\ UNCHANGED <<disk, marker, journal, backups, store, lock, Locals, commands, env>>

\* stale_target, target_changed_since_mutation.
StaleTarget(p) ==
  /\ pc[p] = "check"
  /\ file[job[p].target] # job[p].pre
  /\ Leave(p)
  /\ UNCHANGED <<disk, marker, journal, backups, store, commands, env>>

-----------------------------------------------------------------------------
(* Changing the target.                                                    *)

\* Mutant: no os.path.exists guard.
BackupUnguarded(p) ==
  /\ Goto(p, "backup", "mark")
  /\ backups' = [backups EXCEPT ![job[p].id] = file[job[p].target]]
  /\ UNCHANGED <<disk, marker, journal, store, lock, Locals, commands, env>>

\* Mutant: the copy is of the bytes about to be written.
BackupOfStaged(p) ==
  /\ Goto(p, "backup", "mark")
  /\ LET now == file[job[p].target] IN
       backups' = [backups EXCEPT ![job[p].id] = IF now = Absent THEN None ELSE job[p].post]
  /\ UNCHANGED <<disk, marker, journal, store, lock, Locals, commands, env>>

\* Copies what the target holds now, not what was hashed a step earlier.
Backup(p) ==
  /\ Goto(p, "backup", "mark")
  /\ LET now == file[job[p].target] IN
       backups' = [backups EXCEPT ![job[p].id] = IF now = Absent THEN None ELSE now]
  /\ UNCHANGED <<disk, marker, journal, store, lock, Locals, commands, env>>

\* Mutant: the target is changed with no marker written.
WriteMarkerNot(p) ==
  /\ Goto(p, "mark", "install")
  /\ UNCHANGED <<disk, marker, journal, backups, store, lock, Locals, commands, env>>

WriteMarker(p) ==
  /\ Goto(p, "mark", "install")
  /\ marker' = job[p]
  /\ UNCHANGED <<disk, journal, backups, store, lock, Locals, commands, env>>

\* Mutant: any backup will do, whatever its digest.
CanWriteAnyBackup(p) ==
  LET j == job[p] IN
    \/ j.op = "apply"
    \/ j.op = "rollback" /\ j.post = Absent /\ file[j.target] # Absent
    \/ j.op = "rollback" /\ j.post # Absent /\ backups[j.undoes] # None

\* What the command writes: the staged bytes, nothing at all (rollback of a
\* created file unlinks it), or the backup when it has the preimage's digest.
CanWrite(p) ==
  LET j == job[p] IN
    \/ j.op = "apply"
    \/ j.op = "rollback" /\ j.post = Absent /\ file[j.target] # Absent
    \/ j.op = "rollback" /\ j.post # Absent /\ backups[j.undoes] = j.post

Written(p) ==
  LET j == job[p] IN
    IF j.op = "apply" \/ j.post = Absent THEN j.post ELSE backups[j.undoes]

Replace(p) ==
  /\ CanWrite(p)
  /\ file' = [file EXCEPT ![job[p].target] = Written(p)]
  /\ writer' = [writer EXCEPT ![job[p].target] = job[p].id]
  /\ landed' = landed \cup {job[p]}

Install(p) ==
  /\ Goto(p, "install", "verify")
  /\ Replace(p)
  /\ UNCHANGED <<marker, journal, backups, store, lock, Locals, commands, env>>

\* install_failed, restore_failed, backup_missing, backup_corrupt: nothing was
\* written.  An OSError is always possible.
InstallFails(p) ==
  /\ Goto(p, "install", "abort")
  /\ UNCHANGED <<disk, marker, journal, backups, store, lock, Locals, commands, env>>

\* The rename happened and fsync_dir then raised OSError; os.unlink has no
\* such second half.
InstallFailsLate(p) ==
  /\ Goto(p, "install", "abort")
  /\ LateErrors
  /\ job[p].post # Absent
  /\ Replace(p)
  /\ UNCHANGED <<marker, journal, backups, store, lock, Locals, commands, env>>

\* The OSError handler clears the marker and raises.
Abort(p) ==
  /\ pc[p] = "abort"
  /\ marker' = None
  /\ Leave(p)
  /\ UNCHANGED <<disk, journal, backups, store, commands, env>>

Verify(p) ==
  /\ Goto(p, "verify", "journal")
  /\ file[job[p].target] = job[p].post
  /\ UNCHANGED <<disk, marker, journal, backups, store, lock, Locals, commands, env>>

\* verification_failed: raised with the marker still in place.
VerifyFails(p) ==
  /\ pc[p] = "verify"
  /\ file[job[p].target] # job[p].post
  /\ Leave(p)
  /\ UNCHANGED <<disk, marker, journal, backups, store, commands, env>>

\* An apply journals the marker's record; a rollback adds rolls_back to it.
JournalMutation(p) ==
  /\ Goto(p, "journal", "clear")
  /\ journal' = journal \cup
       {[change |-> [MutationRecord(job[p]) EXCEPT !.undoes = job[p].undoes],
         reconciled |-> FALSE]}
  /\ UNCHANGED <<disk, marker, backups, store, lock, Locals, commands, env>>

\* Clearing the marker is a rollback's last step.
ClearMarker(p) ==
  /\ pc[p] = "clear"
  /\ marker' = None
  /\ \/ /\ job[p].op = "apply"
        /\ Goto(p, "clear", "invalidate")
        /\ UNCHANGED <<lock, Locals>>
     \/ /\ job[p].op = "rollback"
        /\ Leave(p)
  /\ UNCHANGED <<disk, journal, backups, store, commands, env>>

\* Mutant: the proposal stays.
InvalidateProposalNot(p) ==
  /\ Goto(p, "invalidate", "fpread")
  /\ UNCHANGED <<disk, marker, journal, backups, store, lock, Locals, commands, env>>

InvalidateProposal(p) ==
  /\ Goto(p, "invalidate", "fpread")
  /\ live' = live \ {job[p].pid}
  /\ UNCHANGED <<disk, marker, journal, backups, proposals, fingerprints, lock,
                 Locals, commands, env>>

\* journal.record_fingerprint reads the whole file ...
ReadFingerprints(p) ==
  /\ Goto(p, "fpread", "fpwrite")
  /\ view' = [view EXCEPT ![p] = fingerprints]
  /\ UNCHANGED <<disk, marker, journal, backups, store, lock, cmd, job, commands, env>>

\* ... and writes the whole file back with one entry changed.
WriteFingerprints(p) ==
  /\ pc[p] = "fpwrite"
  /\ fingerprints' = [view[p] EXCEPT ![proposals[job[p].pid].fp] = "accepted"]
  /\ Leave(p)
  /\ UNCHANGED <<disk, marker, journal, backups, proposals, live, commands, env>>

\* The process is killed, or an exception no handler catches ends it; the
\* kernel releases the flock and nothing else is cleaned up.
Crash(p) ==
  /\ crashes < MaxCrashes
  /\ pc[p] # "idle"
  /\ cmd[p].op \in CrashOps
  /\ Leave(p)
  /\ crashes' = crashes + 1
  /\ UNCHANGED <<disk, marker, journal, backups, store, commands, edits>>

-----------------------------------------------------------------------------
(* Everybody else.                                                         *)

\* proposals.stage: preimage and content are read from the disk; no_change
\* and duplicate_of_rejected_proposal are refused.
Stage(i, t, c, f) ==
  /\ proposals[i] = None
  /\ c # file[t]
  /\ fingerprints[f] # "rejected"
  /\ proposals' = [proposals EXCEPT ![i] =
                     [target |-> t, pre |-> file[t], post |-> c, fp |-> f]]
  /\ live' = live \cup {i}
  /\ UNCHANGED <<disk, marker, journal, backups, fingerprints, lock, pc, Locals,
                 commands, env>>

\* A proposal outlives its 24 hours: read_record returns None from then on.
Expire(i) ==
  /\ i \in live
  /\ live' = live \ {i}
  /\ UNCHANGED <<disk, marker, journal, backups, proposals, fingerprints, lock, pc,
                 Locals, commands, env>>

\* An editor, a version control tool or Claude itself changes a target.
Edit(t, c) ==
  /\ edits < MaxEdits
  /\ c # file[t]
  /\ RaceEdits \/ ~ \E p \in Procs : pc[p] \in InWindow /\ job[p].target = t
  /\ file' = [file EXCEPT ![t] = c]
  /\ writer' = [writer EXCEPT ![t] = NoMut]
  /\ edits' = edits + 1
  /\ UNCHANGED <<marker, journal, backups, store, lock, pc, Locals, commands, crashes,
                 landed>>

-----------------------------------------------------------------------------

Start(p) ==
  \/ \E i \in live : Begin(p, "apply", i, NoMut)
  \/ \E l \in journal : Begin(p, "rollback", None, l.change.id)

Step(p) ==
  \/ Acquire(p)
  \/ ReconcileNothing(p) \/ ReconcileNotInstalled(p) \/ ReconcileInstalled(p)
  \/ ReconcileBlocked(p) \/ Unmark(p)
  \/ LoadProposal(p) \/ FindMutation(p) \/ Refuse(p)
  \/ CheckPreimage(p) \/ StaleTarget(p)
  \/ Backup(p) \/ WriteMarker(p)
  \/ Install(p) \/ InstallFails(p) \/ InstallFailsLate(p) \/ Abort(p)
  \/ Verify(p) \/ VerifyFails(p)
  \/ JournalMutation(p) \/ ClearMarker(p)
  \/ InvalidateProposal(p) \/ ReadFingerprints(p) \/ WriteFingerprints(p)

Others ==
  \/ \E i \in ProposalIds, t \in Targets, c \in StageContents, f \in Fingerprints : Stage(i, t, c, f)
  \/ \E i \in ProposalIds : Expire(i)
  \/ \E t \in Targets, c \in EditContents : Edit(t, c)

Next == (\E p \in Procs : Start(p) \/ Step(p) \/ Crash(p)) \/ Others

Spec == Init /\ [][Next]_vars

\* A started command keeps running: the operating system schedules it, and no
\* step waits on anything but the lock.
Fairness == \A p \in Procs : WF_vars(Step(p))

FairSpec == Spec /\ Fairness

-----------------------------------------------------------------------------
(* Properties.                                                             *)

\* Every variable stays within its type.
TypeOK ==
  /\ file \in [Targets -> FileState]
  /\ marker \in Change \cup {None}
  /\ journal \subseteq Line
  /\ backups \in [MutIds -> Contents \cup {None}]
  /\ proposals \in [ProposalIds -> Proposal \cup {None}]
  /\ live \subseteq {i \in ProposalIds : proposals[i] # None}
  /\ fingerprints \in [Fingerprints -> Statuses]
  /\ lock \in Procs \cup {None}
  /\ pc \in [Procs -> Steps]
  /\ cmd \in [Procs -> Command \cup {None}]
  /\ job \in [Procs -> Change \cup {None}]
  /\ view \in [Procs -> [Fingerprints -> Statuses] \cup {None}]
  /\ commands \in 0 .. MaxCommands
  /\ edits \in 0 .. MaxEdits
  /\ crashes \in 0 .. MaxCrashes
  /\ writer \in [Targets -> MutIds \cup {NoMut}]
  /\ landed \subseteq Change

\* Whatever content a mutation left in a target can be explained by the next
\* command: the mutation is in the journal or its marker still stands.  (The
\* order marker, rename, journal, unlink of apply_proposal and
\* rollback_mutation, and reconcile after a kill between any two of them.)
LastWriterAccounted ==
  \A t \in Targets : writer[t] # NoMut =>
    \/ Journaled(writer[t])
    \/ marker # None /\ marker.id = writer[t]

\* No command gets past reconcile while an earlier one's marker is unresolved:
\* from the first check to the marker's removal, the marker on disk is none or
\* the command's own, although several commands and kills interleave.
MarkerIsOwn ==
  \A p \in Procs :
    /\ pc[p] \in {"load", "check", "backup", "mark"} => marker = None
    /\ pc[p] \in {"install", "verify", "journal", "clear", "abort"} => marker = job[p]

\* "Never merge, never overwrite" (mutate.py:160): a change lands only on the
\* very bytes it was approved against.
LandsOnPreimage ==
  [][\A c \in landed' \ landed : file[c.target] = c.pre]_vars

\* A change that lands writes exactly the approved bytes: the staged ones, or
\* for a rollback those the rolled back mutation had replaced -- also when the
\* backup was taken while someone else was editing.
LandsApprovedBytes ==
  [][\A c \in landed' \ landed :
       /\ file'[c.target] = c.post
       /\ \A t \in Targets \ {c.target} : file'[t] = file[t]
       /\ IF c.op = "apply"
          THEN /\ proposals[c.pid].target = c.target
               /\ proposals[c.pid].post = c.post
          ELSE \E l \in LinesOf(c.undoes) :
                 l.change.op = "apply" /\ l.change.target = c.target /\ l.change.pre = c.post
    ]_vars

\* A mutation is undone at most once (_already_rolled_back).
RollbackUndoesOnce ==
  \A c, d \in landed : c.undoes = d.undoes /\ c.undoes # NoMut => c = d

\* A proposal is installed at most once unless a command was killed, also after
\* a rollback makes its preimage current again (proposals.invalidate follows
\* the journal line).
ProposalInstalledOnce ==
  crashes = 0 =>
    \A c, d \in landed : c.op = "apply" /\ d.op = "apply" /\ c.pid = d.pid => c = d

\* The journal names only changes that reached their target: reconcile's
\* "installed" is true of the interrupted mutation, as long as nobody else writes
\* the very bytes it was to install.
JournalTruthful ==
  \A l \in journal : \E c \in landed : c.id = l.change.id

\* The backup of a journaled mutation holds the bytes it replaced, so the
\* mutation can be rolled back.
BackupRecoverable ==
  \A l \in journal :
    l.change.op = "apply" /\ l.change.pre # Absent => backups[l.change.id] = l.change.pre

\* Every command that starts returns or is killed: none waits for ever for the
\* flock, whatever the holder met.
CommandsFinish == \A p \in Procs : pc[p] # "idle" ~> pc[p] = "idle"

\* The commands implement the abstract specification of approved changes.
Approved == INSTANCE ApprovedChange WITH staged <- proposals, ledger <- landed
ImplementsApproved == Approved!Spec
=============================================================================
