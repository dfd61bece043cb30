---------------------------- MODULE MockVmControl ----------------------------
(***************************************************************************)
(* MockVmControl of src/src/vm.rs, the handle that users of the library    *)
(* test against: no thread, no channel, three public atomics that the test *)
(* sets and reads between the calls, for which stop takes `&mut self`.     *)
(***************************************************************************)
EXTENDS Naturals

CONSTANT U32   \* how many values a u32 has: 2^32

VARIABLES
  running,     \* the atomic behind is_running
  stop_count,  \* how many calls of stop were not refused
  fail_stop,   \* the test wants stop to fail
  call,        \* what the test is executing
  result       \* what the last stop() returned

vars == <<running, stop_count, fail_stop, call, result>>

\* MockVmControl::default
Init ==
  /\ running = TRUE
  /\ stop_count = 0
  /\ fail_stop = FALSE
  /\ call = "idle"
  /\ result = "none"

\* The three atomics are public: between two calls the test may store what
\* it likes in them, TRUE in the flag of a mock that was stopped included.
TestStores ==
  /\ call = "idle"
  /\ running' \in BOOLEAN
  /\ fail_stop' \in BOOLEAN
  /\ stop_count' \in 0 .. U32 - 1
  /\ UNCHANGED <<call, result>>

\* A call that is refused is not counted.
StopCall ==
  /\ call = "idle"
  /\ IF running
       THEN /\ stop_count' = (stop_count + 1) % U32
            /\ call' = "counted"
            /\ UNCHANGED result
       ELSE /\ result' = "NotRunning"
            /\ UNCHANGED <<stop_count, call>>
  /\ UNCHANGED <<running, fail_stop>>

StopReturns ==
  /\ call = "counted"
  /\ call' = "idle"
  /\ IF fail_stop
       THEN result' = "BridgeIo" /\ UNCHANGED running
       ELSE result' = "Ok" /\ running' = FALSE
  /\ UNCHANGED <<stop_count, fail_stop>>

Next == TestStores \/ StopCall \/ StopReturns

Spec == Init /\ [][Next]_vars

-----------------------------------------------------------------------------
(* Properties.                                                             *)

\* What a VmControl shows its owner, with one of the errors that
\* VmHandle::stop has.
Control == INSTANCE VmControl WITH
  stopping <- call = "counted", Errors <- {"BridgeIo"}

ControlSpec == Control!Spec

\* The test stores TRUE in the flag of a mock that is not running.  No real
\* handle comes back to life like this, and a mock does only by this.
Revives == TestStores /\ ~running /\ running'

\* Of a test that leaves a mock that is over alone.
NeverRevives == [][~Revives]_vars
=============================================================================
