SPECIFICATION Spec
CONSTANTS
  a = a  b = b  junk = junk
  ranged = ranged  whole = whole  endless = endless
  packed = packed  local = local  other = other
  Images = {a, b}
  Mirrors = {ranged, whole, endless, packed, local, other}
  Size = 3
  PackedSize = 2
  Serves <- MCServes
  Orders <- MCOrders
CHECK_DEADLOCK TRUE
INVARIANTS TypeOK VerifiedDelivery WholeUnlessResumed PauseIsTheUsers
PROPERTIES CallReturns
