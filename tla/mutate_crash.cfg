\* An apply may be killed at any step; others edit the target, but not while a
\* command is between its check and its verification.
SPECIFICATION Spec
CONSTANTS
  p1 = p1
  p2 = p2
  t1 = t1
  i1 = i1
  i2 = i2
  a = a
  c = c
  f1 = f1
  Procs = {p1, p2}
  Targets = {t1}
  Contents = {a, c}
  Absent = Absent
  ProposalIds = {i1, i2}
  Fingerprints = {f1}
  None = None
  MaxCommands = 4
  MaxEdits = 1
  MaxCrashes = 1
  StageContents = {a}
  EditContents = {c}
  CrashOps = {"apply"}
  RaceEdits = FALSE
  LateErrors = FALSE
SYMMETRY Symmetry
INVARIANT TypeOK
INVARIANT LastWriterAccounted
INVARIANT RollbackUndoesOnce
INVARIANT BackupRecoverable
INVARIANT ProposalInstalledOnce
INVARIANT JournalTruthful
PROPERTY LandsOnPreimage
PROPERTY ImplementsApproved
\* Commands and edits are bounded: when they are used up the system stops.
CHECK_DEADLOCK FALSE
