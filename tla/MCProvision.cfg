CONSTANTS
  Requests <- MCRequests
  Firmwares <- MCFirmwares
  MaxRuns = 2
  MaxFaults = 0
  UsbFallback = TRUE
  Deaths = TRUE
SPECIFICATION Spec
INVARIANTS TypeOK ChecksumGuardsTheDisk DeploysOnOwnPartition
PROPERTIES RunReturns
