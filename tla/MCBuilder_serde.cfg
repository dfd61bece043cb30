SPECIFICATION Spec
CONSTANTS
  Disks = {d1}
  Mounts = {m1}
  HostPorts = {h1}
  GuestPorts = {0, 1, 2}
  HostSockets <- MCHostSockets
  U8 = 3
  U32 = 8
  GiB = 2
  Inputs <- MCFewInputs
  Deserializes = TRUE
  MaxItems = 2
CHECK_DEADLOCK FALSE
INVARIANT
  OnlyValidValues
