----------------------------- MODULE MCBuilder -----------------------------
(* Constants of Builder for model checking.                                *)
EXTENDS Builder

Text(n, s) == [number |-> n, suffix |-> s]

\* Of eight values of a u32, with two MiB to a GiB: a size that Display shows
\* in GiB and the largest one, which it cannot; the first that does not fit;
\* one that would wrap to a valid size; one too large for a u32; zero; and no
\* number.
MCInputs == {Text(1, "gib"), Text(7, "mib"), Text(4, "gib"), Text(5, "gib"),
             Text(8, ""), Text(0, "mib"), Text(NotANumber, "gib")}

\* Of them, for the runs that are not about memory.
MCFewInputs == {Text(1, "gib"), Text(4, "gib"), Text(0, "mib")}

\* One path of the caller's own, and the one that a bridge to port 1 gets.
MCHostSockets == {<<"caller">>, BridgePort(1).socket}

\* The images differ in nothing; no run with a temporal property uses this.
DiskSymmetry == Permutations(Disks)
=============================================================================
