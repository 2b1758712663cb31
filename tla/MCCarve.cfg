CONSTANTS
  DiskEnd = 5
  Numbers = {1, 2, 3, 4}
  FallbackEnd = 4
  Targets = {0, 2}
  MaxCarves = 1
SPECIFICATION Spec
INVARIANTS TypeOK NeighboursSurvive ResultIsItsOwn
CHECK_DEADLOCK FALSE
