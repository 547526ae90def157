\* Two Stop hooks overlap.
SPECIFICATION Spec
CONSTANTS
  r1 = r1
  r2 = r2
  x1 = x1
  s1 = s1
  Reviews = {r1, r2}
  Shows = {x1}
  Sessions = {s1}
  None = None
  Limit = 1
  Cooldown = 0
  DayLength = 2
  QueueMax = 2
  MaxTime = 0
  MaxFaults = 0
  Together = 2
SYMMETRY Symmetry
INVARIANT DailyCeiling
\* Each process runs once and the clock is bounded: then the system stops.
CHECK_DEADLOCK FALSE
