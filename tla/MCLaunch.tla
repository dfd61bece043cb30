------------------------------ MODULE MCLaunch ------------------------------
(* Launches of one process, or of two that run side by side.               *)
EXTENDS Launch, TLC

CONSTANTS p1, p2, v1, v2, v3, ssh, http

MCPorts == <<ssh, http>>

\* One process, restarted after each crash.
OneProcess == [v \in Vms |-> p1]

\* The second process has a launch of its own.
TwoProcesses == [v \in Vms |-> IF v = v1 THEN p1 ELSE p2]
=============================================================================
