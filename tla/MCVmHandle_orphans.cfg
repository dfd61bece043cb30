SPECIFICATION FairSpec
CONSTANTS
  b1 = b1
  b2 = b2
  c1 = c1
  c2 = c2
  Bridges = {b1, b2}
  Conns = {}
  Target <- MCTarget
CHECK_DEADLOCK FALSE
PROPERTIES
  BridgesEndWithHandle
