SPECIFICATION FairSpec
CONSTANTS
  MaxSent = 3
  BufSize = 2
CHECK_DEADLOCK FALSE
INVARIANTS
  TypeOK
  EndHasAReason
  IInv
PROPERTIES
  SignalEndsRelay
  DuplexSpec
