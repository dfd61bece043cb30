SPECIFICATION ServiceSpec
CONSTANTS
  p1 = p1
  v1 = v1
  v2 = v2
  ssh = ssh
  http = http
  Procs = {p1}
  Vms = {v1, v2}
  Proc <- OneProcess
  Ports <- MCPorts
  Sequential = TRUE
CHECK_DEADLOCK FALSE
INVARIANTS
  RelaunchIsServed
