CONSTANTS
  s = s
  t = t
  p = p
  Sticks <- TwoSticks
  Parts <- OnePart
  MaxJobs = 3
  MaxEvents = 3
SYMMETRY Alike
SPECIFICATION Spec
INVARIANTS ManifestMeansWhole SnapshotIsOnItsDrive StagedOnItsDrive
PROPERTIES RestoredIsWhole
CHECK_DEADLOCK FALSE
