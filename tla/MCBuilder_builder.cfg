SPECIFICATION Spec
CONSTANTS
  Disks = {d1, d2}
  Mounts = {m1}
  HostPorts = {h1}
  GuestPorts = {0, 1, 2}
  HostSockets <- MCHostSockets
  U8 = 3
  U32 = 8
  GiB = 2
  Inputs <- MCInputs
  Deserializes = FALSE
  MaxItems = 4
SYMMETRY DiskSymmetry
CHECK_DEADLOCK FALSE
INVARIANT
  TypeOK
  OnlyValidValues
  StartedAsBuilt
  EngineSawPrefix
  VzStateBuilds
  SizeRoundTrips
  TextParsesExactly
  BridgeReachesItsPort
  IInv
