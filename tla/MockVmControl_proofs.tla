------------------------ MODULE MockVmControl_proofs ------------------------
(***************************************************************************)
(* How far MockVmControl is a VmControl, as VmHandle is (VmHandle_proofs): *)
(* in everything but what the test itself stores in its flag.              *)
(***************************************************************************)
EXTENDS MockVmControl, TLAPS

LEMMA TypeStep ==
  ASSUME running \in BOOLEAN, [Next]_vars
  PROVE  running' \in BOOLEAN
BY DEF Next, vars, TestStores, StopCall, StopReturns

\* Each step of the mock is one of VmControl or is not seen by the owner,
\* save for the store that revives it.
LEMMA ControlStep ==
  ASSUME running \in BOOLEAN, [Next]_vars
  PROVE  Revives \/ [Control!Next]_(Control!vars)
<1>1. CASE TestStores /\ running /\ ~running'
  <2>1. Control!Exit
    BY <1>1 DEF TestStores, Control!Exit
  <2> QED
    BY <2>1 DEF Control!Next
<1>2. CASE TestStores /\ ~running /\ running'
  BY <1>2 DEF Revives
<1>3. CASE UNCHANGED vars \/ (TestStores /\ running' = running)
  BY <1>3 DEF TestStores, vars, Control!vars
<1>4. CASE StopCall /\ running
  <2>1. Control!Call
    BY <1>4 DEF StopCall, Control!Call
  <2> QED
    BY <2>1 DEF Control!Next
<1>5. CASE StopCall /\ ~running
  <2>1. Control!Refuse
    BY <1>5 DEF StopCall, Control!Refuse
  <2> QED
    BY <2>1 DEF Control!Next
<1>6. CASE StopReturns /\ fail_stop
  <2>1. Control!Fail
    BY <1>6 DEF StopReturns, Control!Fail
  <2> QED
    BY <2>1 DEF Control!Next
<1>7. CASE StopReturns /\ ~fail_stop
  <2>1. Control!Succeed
    BY <1>7 DEF StopReturns, Control!Succeed
  <2> QED
    BY <2>1 DEF Control!Next
<1>8. TestStores => running' \in BOOLEAN
  BY DEF TestStores
<1> QED
  BY <1>1, <1>2, <1>3, <1>4, <1>5, <1>6, <1>7, <1>8 DEF Next

\* The mock's own calls never show a test what a real handle could not show
\* it: whatever the test stores between them, all else that happens to the
\* mock is a step of VmControl, and only the test's own store revives it.
THEOREM OnlyTheTestRevives ==
  Spec => [][Revives \/ [Control!Next]_(Control!vars)]_vars
<1>1. Init => running \in BOOLEAN
  BY DEF Init
<1>2. running \in BOOLEAN /\ [Next]_vars => (running \in BOOLEAN)'
  BY TypeStep
<1>3. /\ running \in BOOLEAN /\ [Next]_vars
      => [Revives \/ [Control!Next]_(Control!vars)]_vars
  BY ControlStep
<1> QED
  BY <1>1, <1>2, <1>3, PTL DEF Spec

\* A test that leaves alone a mock that is over has a VmControl, whatever
\* else it stores in the atomics; without that hypothesis it has not.
THEOREM MockImplementsControl == Spec /\ NeverRevives => ControlSpec
<1>1. Init => Control!Init
  BY DEF Init, Control!Init
<1>2. UNCHANGED vars => UNCHANGED Control!vars
  BY DEF vars, Control!vars
<1>3. /\ [Revives \/ [Control!Next]_(Control!vars)]_vars
      /\ [~Revives]_vars
      => [Control!Next]_(Control!vars)
  BY <1>2
<1> QED
  BY <1>1, <1>3, OnlyTheTestRevives, PTL
  DEF Spec, NeverRevives, ControlSpec, Control!Spec
=============================================================================
