------------------------------- MODULE Duplex -------------------------------
(***************************************************************************)
(* What a bridged connection is to its two peers, without copies, buffers  *)
(* or a task: two streams that are delivered in order and that end         *)
(* together.                                                               *)
(*                                                                         *)
(* The ends of the two are one event, which cuts what is under way in      *)
(* either: the first stream to be complete ends the other.                 *)
(***************************************************************************)
EXTENDS Naturals

CONSTANT Dirs

VARIABLES phase,      \* "new", "open" between both peers, or "over"
          sent,       \* units each source has sent
          finished,   \* the source has said everything
          delivered,  \* units its sink has been given
          broken,     \* a peer has reset its connection
          cancelled   \* the connection has been told to stop

vars == <<phase, sent, finished, delivered, broken, cancelled>>

Init ==
  /\ phase = "new"
  /\ sent = [d \in Dirs |-> 0]
  /\ finished = [d \in Dirs |-> FALSE]
  /\ delivered = [d \in Dirs |-> 0]
  /\ broken = FALSE
  /\ cancelled = FALSE

\* The other peer is reached, or it is not and there is no connection.
Connect ==
  /\ phase = "new"
  /\ phase' \in {"open", "over"}
  /\ UNCHANGED <<sent, finished, delivered, broken, cancelled>>

Send(d) ==
  /\ phase # "over" /\ ~finished[d]
  /\ sent' = [sent EXCEPT ![d] = @ + 1]
  /\ UNCHANGED <<phase, finished, delivered, broken, cancelled>>

Finish(d) ==
  /\ phase # "over"
  /\ finished' = [finished EXCEPT ![d] = TRUE]
  /\ UNCHANGED <<phase, sent, delivered, broken, cancelled>>

\* Nothing is delivered that was not sent, or after the end.
Deliver(d) ==
  /\ phase = "open"
  /\ delivered[d] < sent[d]
  /\ delivered' = [delivered EXCEPT ![d] = @ + 1]
  /\ UNCHANGED <<phase, sent, finished, broken, cancelled>>

Break ==
  /\ phase # "over"
  /\ broken' = TRUE
  /\ UNCHANGED <<phase, sent, finished, delivered, cancelled>>

Cancel ==
  /\ cancelled' = TRUE
  /\ UNCHANGED <<phase, sent, finished, delivered, broken>>

Complete(d) == finished[d] /\ delivered[d] = sent[d]

\* There is no end without a reason.
Close ==
  /\ phase = "open"
  /\ broken \/ cancelled \/ \E d \in Dirs : Complete(d)
  /\ phase' = "over"
  /\ UNCHANGED <<sent, finished, delivered, broken, cancelled>>

Next ==
  \/ Connect \/ Break \/ Cancel \/ Close
  \/ \E d \in Dirs : Send(d) \/ Finish(d) \/ Deliver(d)

Spec == Init /\ [][Next]_vars
=============================================================================
