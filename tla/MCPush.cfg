CONSTANTS
  Images <- ShortLong
  Size <- ShortAndLong
  MaxPushes = 2
SPECIFICATION Spec
INVARIANTS SoleSuccessIsWhole
PROPERTIES PlacedIsNotWritten PushReturns
CHECK_DEADLOCK FALSE
