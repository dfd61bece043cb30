SPECIFICATION FairServiceSpec
CONSTANTS
  p1 = p1
  v1 = v1
  v2 = v2
  ssh = ssh
  http = http
  Procs = {p1}
  Vms = {v1, v2}
  Proc <- OneProcess
  Ports <- MCPorts
  Sequential = FALSE
CHECK_DEADLOCK FALSE
INVARIANTS
  ServiceTypeOK
  RoutesToOwnGuest
PROPERTIES
  PortsComeFree
