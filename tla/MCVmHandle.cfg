SPECIFICATION FairSpec
CONSTANTS
  b1 = b1
  b2 = b2
  c1 = c1
  c2 = c2
  Bridges = {b1, b2}
  Conns = {c1, c2}
  Target <- MCTarget
CHECK_DEADLOCK FALSE
INVARIANTS
  TypeOK
  NoSignalLost
  StopOkMeansStopped
  NotRunningMeansDead
  RestingGuestIsServed
  SignalledAtMostTwice
  IInv
PROPERTIES
  GroupSpec
  ControlSpec
  GroupDrains
  StopReturns
  ConnsEndWithHandle
