\* Two commands at a time; one of them may be killed, or one record expires.
SPECIFICATION Spec
CONSTANTS
  p1 = p1
  p2 = p2
  n1 = n1
  n2 = n2
  i1 = i1
  i2 = i2
  s1 = s1
  l1 = l1
  a1 = a1
  Procs = {p1, p2}
  Nonces = {n1, n2}
  ProposalIds = {i1, i2}
  Sessions = {s1}
  Lessons = {l1}
  NoLesson = NoLesson
  Answers <- OneAnswer
  None = None
  Places = {a1}
  Operations = {"apply", "reject", "rollback"}
  PassSession = {FALSE}
  Misroutes = FALSE
  MaxCommands = 4
  MaxFaults = 1
SYMMETRY Symmetry
INVARIANT TypeOK
INVARIANT DeclinedNotInstalled
INVARIANT VerdictsKept
INVARIANT DeclinedNotOffered
PROPERTY ImplementsConsent
\* Commands are bounded: when they are used up the system stops.
CHECK_DEADLOCK FALSE
