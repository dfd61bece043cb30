---------------------------- MODULE Service_proofs ----------------------------
(***************************************************************************)
(* Proofs about Service: it implements Launch, whatever the bridges and    *)
(* the owners do, so that the invariant of Launch holds in it; and with    *)
(* that invariant no bridge ever leads to the guest of another launch.     *)
(***************************************************************************)
EXTENDS Service, Launch_proofs

USE DEF callVars, ctxVars, guestVars, fileVars, handleVars

-----------------------------------------------------------------------------
(* The composition is one of Launch: no step does more to its variables.   *)

LEMMA ServiceStepIsLaunchStep ==
  ASSUME [SNext]_serviceVars
  PROVE  [Next]_vars
<1>1. ASSUME NEW v \in Vms, ServiceCall(v) PROVE Next
  BY <1>1 DEF ServiceCall, Next
<1>2. ASSUME NEW v \in Vms, Prepare(v) PROVE Next
  BY <1>2 DEF Prepare, Next, LaunchStep
<1>3. ASSUME NEW v \in Vms, StartThread(v) PROVE Next
  BY <1>3 DEF StartThread, Next, LaunchStep
<1>4. ASSUME NEW v \in Vms, Run(v) PROVE Next
  BY <1>4 DEF Run, Next
<1>5. ASSUME NEW v \in Vms, StopReturns(v) \/ DropHandle(v) PROVE Next
  BY <1>5 DEF StopReturns, DropHandle, Next
<1>6. ASSUME NEW p \in Procs, CrashAll(p) PROVE Next
  BY <1>6 DEF CrashAll, Next
<1>7. ASSUME NEW v \in Vms, SpawnBridges(v) \/ ThreadStores(v) \/ StopSends(v)
      PROVE  UNCHANGED vars
  BY <1>7 DEF SpawnBridges, ThreadStores, StopSends
<1>8. ASSUME NEW b \in Bridges, Bind(b) \/ BridgeEnds(b) PROVE UNCHANGED vars
  BY <1>8 DEF Bind, BridgeEnds
<1>9. CASE UNCHANGED serviceVars
  BY <1>9 DEF serviceVars
<1> QED
  BY <1>1, <1>2, <1>3, <1>4, <1>5, <1>6, <1>7, <1>8, <1>9 DEF SNext

\* Every behaviour of the service is one of its launches: what is proved of
\* Launch is true of the composition.
THEOREM ServiceImplementsLaunch == ServiceSpec => Spec
<1>1. SInit => Init
  BY DEF SInit
<1>2. [SNext]_serviceVars => [Next]_vars
  BY ServiceStepIsLaunchStep
<1> QED
  BY <1>1, <1>2, PTL DEF ServiceSpec, Spec

-----------------------------------------------------------------------------
(* Types.                                                                  *)

LEMMA ServiceTypeInit == SInit => ServiceTypeOK
BY DEF SInit, ServiceTypeOK

LEMMA ServiceTypeStep ==
  ASSUME ServiceTypeOK, [SNext]_serviceVars
  PROVE  ServiceTypeOK'
<1> USE DEF ServiceTypeOK
<1>1. ASSUME NEW v \in Vms,
             ServiceCall(v) \/ Prepare(v) \/ StartThread(v) \/ Run(v)
      PROVE  ServiceTypeOK'
  BY <1>1 DEF ServiceCall, Prepare, StartThread, Run
<1>2. ASSUME NEW v \in Vms, SpawnBridges(v) PROVE ServiceTypeOK'
  BY <1>2 DEF SpawnBridges
<1>3. ASSUME NEW v \in Vms, ThreadStores(v) PROVE ServiceTypeOK'
  BY <1>3 DEF ThreadStores
<1>4. ASSUME NEW v \in Vms, StopSends(v) PROVE ServiceTypeOK'
  BY <1>4 DEF StopSends
<1>5. ASSUME NEW v \in Vms, StopReturns(v) PROVE ServiceTypeOK'
  BY <1>5 DEF StopReturns
<1>6. ASSUME NEW v \in Vms, DropHandle(v) PROVE ServiceTypeOK'
  BY <1>6 DEF DropHandle
<1>7. ASSUME NEW b \in Bridges, Bind(b) \/ BridgeEnds(b) PROVE ServiceTypeOK'
  BY <1>7 DEF Bind, BridgeEnds
<1>8. ASSUME NEW p \in Procs, CrashAll(p) PROVE ServiceTypeOK'
  BY <1>8 DEF CrashAll
<1>9. CASE UNCHANGED serviceVars
  BY <1>9 DEF serviceVars
<1> QED
  BY <1>1, <1>2, <1>3, <1>4, <1>5, <1>6, <1>7, <1>8, <1>9 DEF SNext

\* Flags, calls, channels and tasks have their types.
THEOREM ServiceTypeCorrect == ServiceSpec => []ServiceTypeOK
BY ServiceTypeInit, ServiceTypeStep, PTL DEF ServiceSpec

-----------------------------------------------------------------------------
(* Routing.                                                                *)

\* A bridge that lives dials the directory of a launch that has a context in
\* the present life of its process.
LiveInv == \A b \in Bridges : Live(b) => Started(b[1])

\* Nothing but a crash takes a context away.
LEMMA StartedStays ==
  ASSUME TypeOK, GuestInv, CtxInv, NEW v \in Vms, Started(v),
         UNCHANGED vars \/ \E w \in Vms : VmStep(w) \/ CreateCtx(w)
  PROVE  Started(v)'
<1>1. ASSUME NEW w \in Vms, VmStep(w) PROVE Started(v)'
  BY <1>1, VmStepFrame
<1>2. ASSUME NEW w \in Vms, CreateCtx(w) PROVE Started(v)'
  <2>1. step[w] = 1
    BY <1>2, ContextsSuffice DEF CreateCtx
  <2> QED
    BY <1>2, <2>1 DEF CreateCtx, Advance, Started, TypeOK
<1>3. CASE UNCHANGED vars
  BY <1>3 DEF vars, Started
<1> QED
  BY <1>1, <1>2, <1>3

LEMMA LiveStep ==
  ASSUME TypeOK, GuestInv, CtxInv, ServiceTypeOK, LiveInv, [SNext]_serviceVars
  PROVE  LiveInv'
<1> USE DEF LiveInv, Live, ServiceTypeOK, TypeOK
<1>0. \A b \in Bridges : b[1] \in Vms
  BY DEF Bridges
<1> SUFFICES ASSUME NEW b \in Bridges, Live(b)' PROVE Started(b[1])'
  OBVIOUS
<1>1. ASSUME NEW v \in Vms, SpawnBridges(v) PROVE Started(b[1])'
  <2>1. Started(v) /\ UNCHANGED vars
    BY <1>1, StepNames, PipelineSteps DEF SpawnBridges, At, Started
  <2>2. b[1] = v \/ Live(b)
    BY <1>1 DEF SpawnBridges
  <2> QED
    BY <2>1, <2>2 DEF vars, Started
<1>2. ASSUME NEW p \in Procs, CrashAll(p) PROVE Started(b[1])'
  <2>1. Live(b) /\ Proc[b[1]] # p
    BY <1>2 DEF CrashAll
  <2> QED
    BY <1>0, <1>2, <2>1, CrashFrame DEF CrashAll
<1>3. ASSUME NEW v \in Vms,
             \/ ServiceCall(v) \/ Prepare(v) \/ StartThread(v) \/ Run(v)
             \/ StopReturns(v) \/ DropHandle(v)
      PROVE  Started(b[1])'
  <2>1. VmStep(v) \/ CreateCtx(v)
    BY <1>3
    DEF ServiceCall, Prepare, StartThread, Run, StopReturns, DropHandle, VmStep
  <2>2. Live(b)
    BY <1>3 DEF ServiceCall, Prepare, StartThread, Run, StopReturns, DropHandle
  <2> QED
    BY <1>0, <2>1, <2>2, StartedStays
<1>4. ASSUME NEW v \in Vms, ThreadStores(v) \/ StopSends(v) PROVE Started(b[1])'
  <2>1. Live(b) /\ UNCHANGED vars
    BY <1>4 DEF ThreadStores, StopSends
  <2> QED
    BY <1>0, <2>1, StartedStays
<1>5. ASSUME NEW c \in Bridges, Bind(c) \/ BridgeEnds(c) PROVE Started(b[1])'
  <2>1. Live(b) /\ UNCHANGED vars
    BY <1>5 DEF Bind, BridgeEnds
  <2> QED
    BY <1>0, <2>1, StartedStays
<1>6. CASE UNCHANGED serviceVars
  <2>1. Live(b) /\ UNCHANGED vars
    BY <1>6 DEF serviceVars
  <2> QED
    BY <1>0, <2>1, StartedStays
<1> QED
  BY <1>1, <1>2, <1>3, <1>4, <1>5, <1>6 DEF SNext

\* Behind the path of a live bridge is a guest in the directory of its launch,
\* and in one process that is the launch's own.
LEMMA LiveBridgeRoutes ==
  ASSUME SingleProcess, TypeOK, CtxInv, GuestInv, FileInv, LiveInv
  PROVE  RoutesToOwnGuest
<1> USE DEF TypeOK
<1> SUFFICES ASSUME NEW b \in Bridges, Live(b)
             PROVE  file[<<ctx[b[1]], b[2]>>] \in {"absent", "dead", b[1]}
  BY DEF RoutesToOwnGuest
<1>1. b[1] \in Vms /\ b[2] \in Range(Ports)
  BY DEF Bridges
<1>2. <<ctx[b[1]], b[2]>> \in Paths
  BY <1>1 DEF Paths
<1>3. ASSUME NEW w \in Vms, file[<<ctx[b[1]], b[2]>>] = w PROVE w = b[1]
  <2>1. guest[w] = "running" /\ ctx[w] = ctx[b[1]]
    BY <1>2, <1>3 DEF FileInv
  <2>2. Started(w) /\ Started(b[1])
    BY <1>1, <2>1, UnderWay DEF Basis, LiveInv
  <2> QED
    BY <1>1, <2>1, <2>2 DEF CtxInv, SingleProcess
<1> QED
  BY <1>2, <1>3

\* No client ever reaches the guest of another launch, for any number of
\* launches of a process, in any order of their ends.
THEOREM RoutingIsOwn ==
  ASSUME SingleProcess
  PROVE  ServiceSpec => []RoutesToOwnGuest
<1>1. SInit => ServiceTypeOK /\ LiveInv
  BY ServiceTypeInit DEF SInit, LiveInv, Live, Bridges
<1>2. /\ ServiceTypeOK /\ LiveInv /\ TypeOK /\ IInv /\ [SNext]_serviceVars
      => (ServiceTypeOK /\ LiveInv)'
  BY ServiceTypeStep, LiveStep DEF IInv
<1>3. TypeOK /\ IInv /\ LiveInv => RoutesToOwnGuest
  BY LiveBridgeRoutes DEF IInv
<1> QED
  BY <1>1, <1>2, <1>3, ServiceImplementsLaunch, TypeCorrect, Invariant, PTL
  DEF ServiceSpec
=============================================================================
