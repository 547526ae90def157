\* A lesson staged elsewhere than the reviewer suggested is rejected, and found again.
SPECIFICATION Spec
CONSTANTS
  p1 = p1
  n1 = n1
  i1 = i1
  s1 = s1
  l1 = l1
  a1 = a1
  a2 = a2
  Procs = {p1}
  Nonces = {n1}
  ProposalIds = {i1}
  Sessions = {s1}
  Lessons = {l1}
  NoLesson = NoLesson
  Answers <- OneAnswer
  None = None
  Places = {a1, a2}
  Operations = {"reject"}
  PassSession = {FALSE}
  Misroutes = TRUE
  MaxCommands = 4
  MaxFaults = 0
SYMMETRY Symmetry
INVARIANT LessonNotReoffered
\* Commands are bounded: when they are used up the system stops.
CHECK_DEADLOCK FALSE
