CONSTANTS
  DiskEnd = 4
  Numbers = {1, 2, 3, 4}
  FallbackEnd = 4
  Targets = {2}
  MaxCarves = 1
SPECIFICATION Spec
INVARIANT NonDestructive
CHECK_DEADLOCK FALSE
