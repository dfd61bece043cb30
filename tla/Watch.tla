------------------------------- MODULE Watch -------------------------------
(***************************************************************************)
(* The part of tokio::sync::watch that src/src/vm.rs and src/src/bridge.rs *)
(* use, as operators on a channel value.  External code, modelled from the *)
(* way it is used: one Sender<bool> kept in the VmHandle, one Receiver per *)
(* task.                                                                   *)
(*                                                                         *)
(* A channel is its last value, a version that every send increments, and  *)
(* whether the Sender still exists.  A Receiver is the version it has last *)
(* seen: changed() compares the two, and clone() copies the version seen   *)
(* by the original, not the current one.                                   *)
(***************************************************************************)
EXTENDS Naturals

Channel == [version : Nat, value : BOOLEAN, open : BOOLEAN]

\* watch::channel(false): the first Receiver has seen version 0.
NewChannel == [version |-> 0, value |-> FALSE, open |-> TRUE]

\* Sender::send(true), the only value sent: without a Receiver the call fails
\* and changes nothing.
SendTrue(ch, receivers) ==
  IF receivers = {} THEN ch
  ELSE [version |-> ch.version + 1, value |-> TRUE, open |-> ch.open]

\* The Sender is dropped.
Close(ch) == [version |-> ch.version, value |-> ch.value, open |-> FALSE]

\* Receiver::changed() resolves: Ok on a version not yet seen, and Err,
\* again and again, once the Sender is gone.
Fires(ch, seen) == seen # ch.version \/ ~ch.open
=============================================================================
