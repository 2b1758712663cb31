CONSTANTS
  Requests <- MCRequests
  Firmwares = {"uefi", "bios"}
  MaxRuns = 2
  MaxFaults = 1
  UsbFallback = TRUE
  Deaths = TRUE
SPECIFICATION Spec
INVARIANTS CarveIsUndoable OldestTableWins
PROPERTIES PauseIsHarmless SuccessIsNotUndone
