CONSTANTS
  carve = carve
  fetch = fetch
  Names <- MCNames
  Handled <- MCHandled
  MaxSteps = 3
  MaxPurges = 1
SPECIFICATION Spec
INVARIANTS TypeOK WorkIsRecorded InterruptedWorkIsFound RolledBackIsUndone
PROPERTIES NewestFirst KeepsTheLog
