\* Hooks, a review and a sweep overlap at will.
SPECIFICATION Spec
CONSTANTS
  h1 = h1
  h2 = h2
  h3 = h3
  r1 = r1
  w1 = w1
  t1 = t1
  t2 = t2
  s1 = s1
  Hooks = {h1, h2, h3}
  Reviews = {r1}
  Sweeps = {w1}
  Turns = {t1, t2}
  Fallback = Fallback
  Signatures = {s1}
  None = None
  MaxEvents = 2
SYMMETRY Symmetry
INVARIANT TypeOK
INVARIANT PairingExact
INVARIANT PromptKept
INVARIANT NothingLost
INVARIANT ReviewLeavesNoPrompt
\* Each process runs once: then the system stops.
CHECK_DEADLOCK FALSE
