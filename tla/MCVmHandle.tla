----------------------------- MODULE MCVmHandle -----------------------------
(* A small instance of VmHandle.                                          *)
EXTENDS VmHandle

CONSTANTS b1, b2, c1, c2

\* Connections of one bridge, beside a bridge that has none.
MCTarget == [c \in Conns |-> b1]
=============================================================================
