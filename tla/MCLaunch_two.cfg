SPECIFICATION Spec
CONSTANTS
  p1 = p1
  p2 = p2
  v1 = v1
  v2 = v2
  v3 = v3
  ssh = ssh
  http = http
  Procs = {p1, p2}
  Vms = {v1, v2}
  Proc <- TwoProcesses
  Ports <- MCPorts
CHECK_DEADLOCK FALSE
PROPERTIES
  OnlyStaleIsRemoved
