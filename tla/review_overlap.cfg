\* Reviews and shows of two sessions overlap on two days; one process is killed, or
\* one candidate expires.
SPECIFICATION Spec
CONSTANTS
  r1 = r1
  r2 = r2
  x1 = x1
  s1 = s1
  s2 = s2
  Reviews = {r1, r2}
  Shows = {x1}
  Sessions = {s1, s2}
  None = None
  Limit = 1
  Cooldown = 2
  DayLength = 2
  QueueMax = 1
  MaxTime = 2
  MaxFaults = 1
  Together = 2
SYMMETRY Symmetry
INVARIANT TypeOK
INVARIANT ReferencesStored
INVARIANT CeilingUnlessAmid
INVARIANT WokenStaysQueued
PROPERTY NotReviewedWhileAwaiting
\* Each process runs once and the clock is bounded: then the system stops.
CHECK_DEADLOCK FALSE
