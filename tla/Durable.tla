-------------------------------- MODULE Durable --------------------------------
(***************************************************************************)
(* What a power loss leaves of an apply: the files apply_proposal writes,  *)
(* each through the steps of paths.atomic_write (or copied, by _backup),   *)
(* the appended journal, and reconcile at the start of the next apply.     *)
(*                                                                         *)
(* `seen' is what a process reads.  `maybe' holds what each path may hold  *)
(* once the power has been lost: a rename or an unlink is certain only     *)
(* when its directory has been synced, a file only when it was itself.     *)
(* Mutation m writes content m to the one target; 0 is its first content.  *)
(* One apply runs at a time (the flock, module Mutate), and nobody else    *)
(* edits the target.                                                       *)
(***************************************************************************)
EXTENDS Naturals, Sequences, SequencesExt

CONSTANTS
  MaxMutations, \* bound: applies
  MaxKills,     \* bound: kills
  MaxLosses,    \* bound: power losses
  DirSync,      \* does fsync work on a directory?  Some filesystems reject it
  Target, Marker, Fingerprints, \* the paths atomic_write writes
  None,         \* no such file
  Torn,         \* part of what was written
  Garbage       \* a line appended to a torn one: json.loads fails on it

ASSUME ConstantsAssumption ==
  /\ MaxMutations \in Nat /\ MaxKills \in Nat /\ MaxLosses \in Nat
  /\ DirSync \in BOOLEAN

\* The paths are told apart, also from the other places pc names, and what is no
\* content from the contents.
ASSUME NamesDistinct ==
  /\ Target # Marker /\ Target # Fingerprints /\ Marker # Fingerprints
  /\ \A f \in {Target, Marker, Fingerprints} : f \notin Nat /\ f \notin {"backup", "reconcile"}
  /\ \A v \in {None, Torn, Garbage} : v \notin Nat
  /\ None # Torn /\ Torn # Garbage

VARIABLES
  seen, maybe, \* the files
  flushed,     \* the temporary file of atomic_write: was its data synced?
  lines,       \* mutations.jsonl
  safe,        \* how many of its lines a power loss leaves for certain
  pc,          \* the file at work and the step on it
  last,        \* the newest mutation
  pre,         \* what the target held when a mutation began: its preimage_sha
  kills, losses

vars == <<seen, maybe, flushed, lines, safe, pc, last, pre, kills, losses>>

-----------------------------------------------------------------------------

Mutations == 1 .. MaxMutations
Contents  == 0 .. MaxMutations

\* A mutation is the name of its backup.  What a path holds is a content or the
\* number of a mutation, which for the marker stands for the whole record: its
\* post-image is that content, its preimage pre[m].
Written == {Marker, Target, Fingerprints}
Files   == Written \cup Mutations
Values  == Contents \cup {None, Torn}

\* Files with one parent directory.  _backup syncs the directory of the copy;
\* the entries of that directory in its parents are never synced.
Directory(f) == IF f \in {Marker, Fingerprints} THEN {Marker, Fingerprints} ELSE {f}

Init ==
  /\ seen = [f \in Files |-> IF f = Target THEN 0 ELSE None]
  /\ maybe = [f \in Files |-> {seen[f]}]
  /\ flushed = FALSE
  /\ lines = <<>> /\ safe = 0
  /\ pc = <<"idle">>
  /\ last = 0 /\ pre = [m \in Mutations |-> 0] /\ kills = 0 /\ losses = 0

Goto(from, to) == pc = from /\ pc' = to

\* Where apply_proposal goes from the writing of a file.
After(f) == CASE f = Marker -> <<Target, "temp">>
              [] f = Target -> <<"journal">>
              [] f = Fingerprints -> <<"idle">>

-----------------------------------------------------------------------------
(* reconcile, then the apply.                                              *)

\* The marker is gone, or nothing of it can be read.
Begin ==
  /\ pc = <<"idle">> /\ last < MaxMutations
  /\ seen[Marker] \in {None, Torn}
  /\ pc' = <<"backup", "copy">>
  /\ last' = last + 1
  /\ pre' = [pre EXCEPT ![last'] = seen[Target]]
  /\ UNCHANGED <<seen, maybe, flushed, lines, safe, kills, losses>>

Reconcile ==
  /\ pc = <<"idle">> /\ last < MaxMutations
  /\ seen[Marker] \notin {None, Torn}
  /\ pc' = CASE seen[Target] = pre[seen[Marker]] -> <<"reconcile", "clear">>
             [] seen[Target] = seen[Marker]      -> <<"reconcile", "journal">>
             [] OTHER                             -> <<"blocked">>
  /\ UNCHANGED <<seen, maybe, flushed, lines, safe, last, pre, kills, losses>>

\* shutil.copy2.
CopyBackup ==
  /\ Goto(<<"backup", "copy">>, <<"backup", "sync">>)
  /\ seen' = [seen EXCEPT ![last] = seen[Target]]
  /\ maybe' = [maybe EXCEPT ![last] = @ \cup {Torn, seen[Target]}]
  /\ UNCHANGED <<flushed, lines, safe, last, pre, kills, losses>>

\* Mutant: the copy is not synced.
SyncBackupNot ==
  /\ Goto(<<"backup", "sync">>, <<Marker, "temp">>)
  /\ UNCHANGED <<seen, maybe, flushed, lines, safe, last, pre, kills, losses>>

\* The copy is synced and so is its entry, but not its directory's.
SyncBackup ==
  /\ Goto(<<"backup", "sync">>, <<Marker, "temp">>)
  /\ maybe' = [maybe EXCEPT ![last] = @ \ {Torn}]
  /\ UNCHANGED <<seen, flushed, lines, safe, last, pre, kills, losses>>

\* Mutant: atomic_write closes the temporary file without syncing it.
WriteTempUnsynced(f) ==
  /\ Goto(<<f, "temp">>, <<f, "replace">>)
  /\ flushed' = FALSE
  /\ UNCHANGED <<seen, maybe, lines, safe, last, pre, kills, losses>>

\* Mutant: the path itself is opened and written.
WriteInPlace(f) ==
  /\ Goto(<<f, "temp">>, <<f, "replace">>)
  /\ seen' = [seen EXCEPT ![f] = Torn]
  /\ maybe' = [maybe EXCEPT ![f] = @ \cup {Torn}]
  /\ flushed' = TRUE
  /\ UNCHANGED <<lines, safe, last, pre, kills, losses>>

\* atomic_write: mkstemp, write, flush, fsync, chmod.
WriteTemp(f) ==
  /\ Goto(<<f, "temp">>, <<f, "replace">>)
  /\ flushed' = TRUE
  /\ UNCHANGED <<seen, maybe, lines, safe, last, pre, kills, losses>>

\* os.replace.
Replace(f) ==
  /\ Goto(<<f, "replace">>, <<f, "sync">>)
  /\ seen' = [seen EXCEPT ![f] = last]
  /\ maybe' = [maybe EXCEPT ![f] = @ \cup {last} \cup (IF flushed THEN {} ELSE {Torn})]
  /\ flushed' = FALSE
  /\ UNCHANGED <<lines, safe, last, pre, kills, losses>>

Synced(fs) == [f \in Files |-> IF f \in fs THEN {seen[f]} ELSE maybe[f]]

\* Mutant: atomic_write ends with the rename.
SyncDirNot(f) ==
  /\ Goto(<<f, "sync">>, After(f))
  /\ UNCHANGED <<seen, maybe, flushed, lines, safe, last, pre, kills, losses>>

\* fsync_dir, which takes an error for done.
SyncDir(f) ==
  /\ Goto(<<f, "sync">>, After(f))
  /\ maybe' = IF DirSync THEN Synced(Directory(f)) ELSE maybe
  /\ UNCHANGED <<seen, flushed, lines, safe, last, pre, kills, losses>>

\* journal._append: a line after a torn one is part of it.
Appended(m) ==
  IF lines # <<>> /\ Last(lines) = Torn THEN Append(Front(lines), Garbage) ELSE Append(lines, m)

AppendLine(m, from, to) ==
  /\ Goto(from, to)
  /\ lines' = Appended(m)
  /\ safe' = IF safe = Len(lines') THEN safe - 1 ELSE safe
  /\ UNCHANGED <<seen, maybe, flushed, last, pre, kills, losses>>

Journal == AppendLine(last, <<"journal">>, <<"clear">>)

JournalReconciled ==
  /\ pc = <<"reconcile", "journal">>
  /\ AppendLine(seen[Marker], pc, <<"reconcile", "clear">>)

\* _clear_inflight, which syncs nothing.
ClearMarker(from, to) ==
  /\ Goto(from, to)
  /\ seen' = [seen EXCEPT ![Marker] = None]
  /\ maybe' = [maybe EXCEPT ![Marker] = @ \cup {None}]
  /\ UNCHANGED <<flushed, lines, safe, last, pre, kills, losses>>

\* The proposal's record goes too; record_fingerprint ends the apply.
Clear == ClearMarker(<<"clear">>, <<Fingerprints, "temp">>)

ClearReconciled == ClearMarker(<<"reconcile", "clear">>, <<"idle">>)

-----------------------------------------------------------------------------
(* Kills, the kernel's own writing back, and the loss of power.            *)

Kill ==
  /\ kills < MaxKills /\ kills' = kills + 1
  /\ pc # <<"idle">> /\ pc' = <<"idle">> /\ flushed' = FALSE
  /\ UNCHANGED <<seen, maybe, lines, safe, last, pre, losses>>

WriteBack ==
  /\ pc = <<"idle">>
  /\ maybe' = Synced(Files) /\ safe' = Len(lines)
  /\ UNCHANGED <<seen, flushed, lines, pc, last, pre, kills, losses>>

\* Each path holds one of the things it may hold; the journal ends somewhere
\* after its certain part, perhaps within a line.
PowerLoss ==
  /\ losses < MaxLosses /\ losses' = losses + 1
  /\ pc' = <<"idle">> /\ flushed' = FALSE
  /\ \E t \in maybe[Target], k \in maybe[Marker], p \in maybe[Fingerprints],
        b \in {c \in [Mutations -> Values] : \A m \in Mutations : c[m] \in maybe[m]} :
       seen' = [f \in Files |-> CASE f = Target -> t [] f = Marker -> k
                                   [] f = Fingerprints -> p [] OTHER -> b[f]]
  /\ \E n \in safe .. Len(lines) :
       \/ lines' = SubSeq(lines, 1, n)
       \/ n < Len(lines) /\ lines' = Append(SubSeq(lines, 1, n), Torn)
  /\ maybe' = [f \in Files |-> {seen'[f]}] /\ safe' = Len(lines')
  /\ UNCHANGED <<last, pre, kills>>

-----------------------------------------------------------------------------

Apply ==
  \/ Begin \/ CopyBackup \/ SyncBackup
  \/ \E f \in Written : WriteTemp(f) \/ Replace(f) \/ SyncDir(f)
  \/ Journal \/ Clear

Next == Reconcile \/ JournalReconciled \/ ClearReconciled \/ Apply
        \/ Kill \/ WriteBack \/ PowerLoss

Spec == Init /\ [][Next]_vars

-----------------------------------------------------------------------------

\* Every variable keeps its type; what is seen may also survive, and no reader
\* sees part of what atomic_write writes.
TypeOK ==
  /\ seen \in [Files -> Values] /\ \A f \in Written : seen[f] # Torn
  /\ \A f \in Files : seen[f] \in maybe[f] /\ maybe[f] \subseteq Values
  /\ flushed \in BOOLEAN
  /\ \A i \in DOMAIN lines : lines[i] \in Mutations \cup {Torn, Garbage}
  /\ safe \in 0 .. Len(lines)
  /\ last \in Contents /\ pre \in [Mutations -> Contents] /\ kills \in 0 .. MaxKills /\ losses \in 0 .. MaxLosses

\* The docstring of atomic_write: whatever is read, after a power loss too, is
\* the previous contents or the complete new ones, and whether directories can
\* be synced or not.
WholeVersions == \A f \in {Target, Marker, Fingerprints} : Torn \notin maybe[f]

\* A mutation whose bytes may survive has a marker that does, until its line is
\* appended.  And power losses alone leave its target at its preimage or its
\* post-image, so that reconcile never comes to unreconciled_target: the user is
\* asked to look at a file only when somebody edited it.  With kills it is not
\* so: reconcile records an installation as done without syncing the rename.
ReconcileDecides ==
  LET installing == pc \in {<<Target, "replace">>, <<Target, "sync">>, <<"journal">>}
  IN /\ installing => maybe[Marker] = {last}
     /\ kills = 0 => /\ installing => maybe[Target] \subseteq {last, pre[last]}
                    /\ pc # <<"blocked">>

\* While its bytes may survive, the backup of a mutation is whole (spec 0001,
\* section 9, step 6) -- or it is missing, with the directory made for it.
BackupWhole ==
  \A m \in Mutations : m \in maybe[Target] => maybe[m] \subseteq {pre[m], None}
=============================================================================
