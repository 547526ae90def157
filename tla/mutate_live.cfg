\* Two targets; edits at any moment, kills anywhere, and writes that fail after
\* their rename.
SPECIFICATION FairSpec
CONSTANTS
  p1 = p1
  p2 = p2
  t1 = t1
  t2 = t2
  i1 = i1
  a = a
  b = b
  f1 = f1
  Procs = {p1, p2}
  Targets = {t1, t2}
  Contents = {a, b}
  Absent = Absent
  ProposalIds = {i1}
  Fingerprints = {f1}
  None = None
  MaxCommands = 3
  MaxEdits = 1
  MaxCrashes = 1
  StageContents = {a, b}
  EditContents = {b}
  CrashOps = {"apply", "rollback"}
  RaceEdits = TRUE
  LateErrors = TRUE
INVARIANT MarkerIsOwn
PROPERTY CommandsFinish
PROPERTY LandsApprovedBytes
\* Commands and edits are bounded: when they are used up the system stops.
CHECK_DEADLOCK FALSE
