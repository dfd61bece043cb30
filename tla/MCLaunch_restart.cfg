SPECIFICATION Spec
CONSTANTS
  p1 = p1
  p2 = p2
  v1 = v1
  v2 = v2
  v3 = v3
  ssh = ssh
  http = http
  Procs = {p1}
  Vms = {v1, v2, v3}
  Proc <- OneProcess
  Ports <- MCPorts
CHECK_DEADLOCK FALSE
INVARIANTS
  TypeOK
  NoStaleBind
  StartFindsDirectory
  HeldGuestIsReachable
  IInv
PROPERTIES
  OnlyStaleIsRemoved
