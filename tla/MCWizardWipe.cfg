CONSTANTS
  MaxJobs = 1
  Cap = 1
  Sessions = {"dual", "single"}
SPECIFICATION Spec
PROPERTY WipeIsConfirmed
CHECK_DEADLOCK FALSE
