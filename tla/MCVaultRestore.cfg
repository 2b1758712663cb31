CONSTANTS
  s = s
  t = t
  p = p
  Sticks <- TwoSticks
  Parts <- OnePart
  MaxJobs = 3
  MaxEvents = 4
SYMMETRY Alike
SPECIFICATION Spec
INVARIANT VerifiedBeforeTheWipe
CHECK_DEADLOCK FALSE
