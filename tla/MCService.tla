----------------------------- MODULE MCService -----------------------------
(* Launches of one service in one process.                                 *)
EXTENDS Service

CONSTANTS p1, v1, v2, ssh, http

MCPorts == <<ssh, http>>

OneProcess == [v \in Vms |-> p1]
=============================================================================
