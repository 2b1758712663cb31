CONSTANTS
  MaxJobs = 2
  Cap = 1
  Sessions = {"dual"}
SPECIFICATION Spec
INVARIANTS TypeOK ProgressIsBacked SelectionKnown NewestIsHeard
PROPERTIES ResultsArrive OnlyStopLeaves
CHECK_DEADLOCK FALSE
