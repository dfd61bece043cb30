SPECIFICATION Spec
CONSTANTS
  MaxSent = 1
  BufSize = 1
CHECK_DEADLOCK FALSE
INVARIANTS
  BothDirectionsDelivered
