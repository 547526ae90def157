\* A rollback is killed before it is journaled.
SPECIFICATION Spec
CONSTANTS
  p1 = p1
  p2 = p2
  t1 = t1
  i1 = i1
  a = a
  b = b
  c = c
  f1 = f1
  Procs = {p1, p2}
  Targets = {t1}
  Contents = {a, b, c}
  Absent = Absent
  ProposalIds = {i1}
  Fingerprints = {f1}
  None = None
  MaxCommands = 3
  MaxEdits = 1
  MaxCrashes = 1
  StageContents = {a, b}
  EditContents = {a, b}
  CrashOps = {"rollback"}
  RaceEdits = FALSE
  LateErrors = FALSE
SYMMETRY Symmetry
INVARIANT RollbackUndoesOnce
\* Commands and edits are bounded: when they are used up the system stops.
CHECK_DEADLOCK FALSE
