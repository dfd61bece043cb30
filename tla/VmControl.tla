----------------------------- MODULE VmControl -----------------------------
(***************************************************************************)
(* What the trait VmControl of src/src/vm.rs promises to the owner of a    *)
(* VM, whoever implements it: is_running and stop, without threads,        *)
(* channels, sockets or counters.                                          *)
(*                                                                         *)
(* The VM runs until it exits by itself or is stopped, and never again     *)
(* after that.  A stop that finds it not running is refused.  Any other    *)
(* stop takes time, in which the VM may exit, and then either has stopped  *)
(* the VM or leaves it to its owner, who may try again.                    *)
(***************************************************************************)
CONSTANT Errors   \* what a stop may fail with

VARIABLES running,    \* what is_running() answers
          stopping,   \* a call of stop() is under way
          result      \* what the last stop() returned

vars == <<running, stopping, result>>

Init == running = TRUE /\ stopping = FALSE /\ result = "none"

\* The VM is over; a stop may be under way.
Exit ==
  /\ running
  /\ running' = FALSE
  /\ UNCHANGED <<stopping, result>>

Refuse ==
  /\ ~stopping
  /\ ~running
  /\ result' = "NotRunning"
  /\ UNCHANGED <<running, stopping>>

Call ==
  /\ ~stopping
  /\ running
  /\ stopping' = TRUE
  /\ UNCHANGED <<running, result>>

Succeed ==
  /\ stopping
  /\ running' = FALSE
  /\ stopping' = FALSE
  /\ result' = "Ok"

Fail ==
  /\ stopping
  /\ stopping' = FALSE
  /\ result' \in Errors
  /\ UNCHANGED running

Next == Exit \/ Refuse \/ Call \/ Succeed \/ Fail

Spec == Init /\ [][Next]_vars
=============================================================================
