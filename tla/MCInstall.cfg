CONSTANTS
  Images = {"linux_iso", "windows_iso", "raw", "qcow2", "tarball", "wim"}
  MaxRuns = 3
SPECIFICATION Spec
INVARIANTS TypeOK RemovesNothingMounted NothingIsLeft SuccessIsWhole
PROPERTIES WritesBlocksUnmounted
CHECK_DEADLOCK FALSE
