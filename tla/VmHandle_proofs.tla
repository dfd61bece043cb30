--------------------------- MODULE VmHandle_proofs ---------------------------
(***************************************************************************)
(* Proofs about VmHandle, for any sets of bridges and connections.         *)
(*                                                                         *)
(* The safety properties follow from one inductive invariant, IInv.  Its   *)
(* core is that the channel carries TRUE exactly when something was sent,  *)
(* and that no task which still runs has seen a send: a task that sees one *)
(* ends in the same step.  The refinement of CancelGroup needs one more    *)
(* thing of it, that nothing is sent while launch still spawns bridges.    *)
(***************************************************************************)
EXTENDS VmHandle, TLAPS

USE DEF Calls, StopSteps, DropSteps, ThreadStates, Results, BridgeStates,
        ConnStates, InHandle, BeforeSend, ThreadDead, ownerVars, bridgeVars,
        connVars

-----------------------------------------------------------------------------
(* What the channel's operations return.                                   *)

LEMMA NewChannelFacts ==
  /\ NewChannel \in Channel
  /\ NewChannel.version = 0 /\ ~NewChannel.value /\ NewChannel.open
BY DEF NewChannel, Channel

\* A send is a no-op without receivers and a new TRUE version with them.
LEMMA SendFacts ==
  ASSUME NEW ch \in Channel, NEW S
  PROVE  /\ SendTrue(ch, S) \in Channel
         /\ SendTrue(ch, S).open <=> ch.open
         /\ S = {} => SendTrue(ch, S) = ch
         /\ S # {} => /\ SendTrue(ch, S).version = ch.version + 1
                      /\ SendTrue(ch, S).value
<1>1. CASE S = {}
  BY <1>1 DEF SendTrue
<1>2. CASE S # {}
  BY <1>2 DEF SendTrue, Channel
<1> QED
  BY <1>1, <1>2

LEMMA CloseFacts ==
  ASSUME NEW ch \in Channel
  PROVE  /\ Close(ch) \in Channel
         /\ Close(ch).version = ch.version
         /\ Close(ch).value <=> ch.value
         /\ ~Close(ch).open
BY DEF Close, Channel

LEMMA ChannelFields ==
  ASSUME NEW ch \in Channel
  PROVE  ch.version \in Nat /\ ch.value \in BOOLEAN /\ ch.open \in BOOLEAN
BY DEF Channel

-----------------------------------------------------------------------------
(* Types.                                                                  *)

LEMMA TypeInit == Init => TypeOK
<1> SUFFICES ASSUME Init PROVE TypeOK
  OBVIOUS
<1>1. chan \in Channel
  BY NewChannelFacts DEF Init
<1>2. /\ soleWorker \in BOOLEAN
      /\ running \in BOOLEAN /\ joinHandle \in BOOLEAN
      /\ eventfd \in BOOLEAN /\ workdir \in BOOLEAN
  BY DEF Init
<1>3. vmThread \in ThreadStates /\ call \in Calls /\ result \in Results
  BY DEF Init
<1>4. /\ bridge \in [Bridges -> BridgeStates]
      /\ bseen \in [Bridges -> Nat]
      /\ conn \in [Conns -> ConnStates]
      /\ cseen \in [Conns -> Nat]
  BY DEF Init
<1> QED
  BY <1>1, <1>2, <1>3, <1>4 DEF TypeOK

LEMMA TypeStep ==
  ASSUME TypeOK, [Next]_vars
  PROVE  TypeOK'
<1> USE ChannelFields DEF TypeOK
<1>1. ASSUME NEW b \in Bridges, SpawnBridge(b) PROVE TypeOK'
  BY <1>1 DEF SpawnBridge
<1>2. CASE SpawnThread
  BY <1>2 DEF SpawnThread
<1>3. CASE SpawnThreadFails
  BY <1>3, CloseFacts DEF SpawnThreadFails
<1>4. CASE GuestExits
  BY <1>4 DEF GuestExits
<1>5. CASE ThreadPanics
  BY <1>5 DEF ThreadPanics
<1>6. CASE ThreadStores
  BY <1>6 DEF ThreadStores
<1>7. CASE StopCall
  BY <1>7 DEF StopCall
<1>8. CASE StopTrigger
  BY <1>8 DEF StopTrigger, Trigger
<1>9. CASE StopSend
  BY <1>9, SendFacts DEF StopSend
<1>10. CASE StopJoin
  BY <1>10 DEF StopJoin
<1>11. CASE StopFinish
  BY <1>11 DEF StopFinish, RemoveWorkdir
<1>12. CASE DropCall
  BY <1>12 DEF DropCall
<1>13. CASE DropTrigger
  BY <1>13 DEF DropTrigger, Trigger
<1>14. CASE DropSend
  BY <1>14, SendFacts DEF DropSend
<1>15. CASE DropClean
  BY <1>15 DEF DropClean, RemoveWorkdir
<1>16. CASE DropFields
  BY <1>16, CloseFacts DEF DropFields
<1>17. ASSUME NEW b \in Bridges, BridgeBind(b) PROVE TypeOK'
  BY <1>17 DEF BridgeBind
<1>18. ASSUME NEW b \in Bridges, BridgeObserves(b) PROVE TypeOK'
  BY <1>18 DEF BridgeObserves
<1>19. ASSUME NEW c \in Conns, ClientConnects(c) \/ AcceptFails(c)
       PROVE  TypeOK'
  BY <1>19 DEF ClientConnects, AcceptFails
<1>20. ASSUME NEW c \in Conns, BridgeAccept(c) PROVE TypeOK'
  <2>1. Target[c] \in Bridges
    BY TargetAssumption
  <2>2. SeenByClone(c) \in Nat
    BY <2>1 DEF SeenByClone
  <2> QED
    BY <1>20, <2>2 DEF BridgeAccept
<1>21. ASSUME NEW c \in Conns, ConnConnect(c) PROVE TypeOK'
  BY <1>21 DEF ConnConnect
<1>22. ASSUME NEW c \in Conns, ConnCopyEnds(c) PROVE TypeOK'
  BY <1>22 DEF ConnCopyEnds
<1>23. ASSUME NEW c \in Conns, ConnObserves(c) PROVE TypeOK'
  BY <1>23 DEF ConnObserves
<1>24. CASE UNCHANGED vars
  BY <1>24 DEF vars
<1> HIDE DEF TypeOK
<1> QED
  BY <1>1, <1>2, <1>3, <1>4, <1>5, <1>6, <1>7, <1>8, <1>9, <1>10, <1>11,
     <1>12, <1>13, <1>14, <1>15, <1>16, <1>17, <1>18, <1>19, <1>20, <1>21,
     <1>22, <1>23, <1>24
  DEF Next, Launch, VmThread, StopStep, DropStep, BridgeTask, ConnTask

\* Every variable keeps its type: no version, flag or stage of a call leaves
\* the range the code gives it.
THEOREM TypeCorrect == Spec => []TypeOK
<1>1. TypeOK /\ [Next]_vars => TypeOK'
  BY TypeStep
<1> QED
  BY TypeInit, <1>1, PTL DEF Spec

-----------------------------------------------------------------------------
(* The inductive invariant.                                                *)

Inductive ==
  /\ LaunchInv /\ SignalInv /\ JoinInv /\ ServedInv /\ SendsInv
  /\ StopOkMeansStopped /\ NotRunningMeansDead /\ SignalledAtMostTwice

LEMMA InductiveInit == Init => Inductive
BY NewChannelFacts
DEF Init, Inductive, LaunchInv, SignalInv, JoinInv, ServedInv, SendsInv,
    StopOkMeansStopped, NotRunningMeansDead, SignalledAtMostTwice, LiveConns

LEMMA InductiveStep ==
  ASSUME TypeOK, Inductive, [Next]_vars
  PROVE  Inductive'
<1> USE ChannelFields
    DEF TypeOK, Inductive, LaunchInv, SignalInv, JoinInv, ServedInv, SendsInv,
        StopOkMeansStopped, NotRunningMeansDead, SignalledAtMostTwice, LiveConns
<1>1. ASSUME NEW b \in Bridges, SpawnBridge(b) PROVE Inductive'
  BY <1>1 DEF SpawnBridge
<1>2. CASE SpawnThread
  BY <1>2 DEF SpawnThread
<1>3. CASE SpawnThreadFails
  BY <1>3, CloseFacts DEF SpawnThreadFails
<1>4. CASE GuestExits
  BY <1>4 DEF GuestExits
<1>5. CASE ThreadPanics
  BY <1>5 DEF ThreadPanics
<1>6. CASE ThreadStores
  BY <1>6 DEF ThreadStores
<1>7. CASE StopCall
  BY <1>7 DEF StopCall
<1>8. CASE StopTrigger
  BY <1>8 DEF StopTrigger, Trigger
<1>9. CASE StopSend
  BY <1>9, SendFacts DEF StopSend
<1>10. CASE StopJoin
  BY <1>10 DEF StopJoin, JoinReturns
<1>11. CASE StopFinish
  BY <1>11 DEF StopFinish, RemoveWorkdir
<1>12. CASE DropCall
  BY <1>12 DEF DropCall
<1>13. CASE DropTrigger
  BY <1>13 DEF DropTrigger, Trigger
<1>14. CASE DropSend
  BY <1>14, SendFacts DEF DropSend
<1>15. CASE DropClean
  BY <1>15 DEF DropClean, RemoveWorkdir
<1>16. CASE DropFields
  BY <1>16, CloseFacts DEF DropFields
<1>17. ASSUME NEW b \in Bridges, BridgeBind(b) PROVE Inductive'
  BY <1>17 DEF BridgeBind
<1>18. ASSUME NEW b \in Bridges, BridgeObserves(b) PROVE Inductive'
  BY <1>18 DEF BridgeObserves
<1>19. ASSUME NEW c \in Conns, ClientConnects(c) \/ AcceptFails(c)
       PROVE  Inductive'
  BY <1>19 DEF ClientConnects, AcceptFails
<1>20. ASSUME NEW c \in Conns, BridgeAccept(c) PROVE Inductive'
  BY <1>20, TargetAssumption DEF BridgeAccept, SeenByClone
<1>21. ASSUME NEW c \in Conns, ConnConnect(c) PROVE Inductive'
  BY <1>21 DEF ConnConnect
<1>22. ASSUME NEW c \in Conns, ConnCopyEnds(c) PROVE Inductive'
  BY <1>22 DEF ConnCopyEnds
<1>23. ASSUME NEW c \in Conns, ConnObserves(c) PROVE Inductive'
  BY <1>23 DEF ConnObserves
<1>24. CASE UNCHANGED vars
  BY <1>24 DEF vars
<1> HIDE DEF Inductive
<1> QED
  BY <1>1, <1>2, <1>3, <1>4, <1>5, <1>6, <1>7, <1>8, <1>9, <1>10, <1>11,
     <1>12, <1>13, <1>14, <1>15, <1>16, <1>17, <1>18, <1>19, <1>20, <1>21,
     <1>22, <1>23, <1>24
  DEF Next, Launch, VmThread, StopStep, DropStep, BridgeTask, ConnTask

\* The invariant the run checks on small instances holds for all.
THEOREM Invariant == Spec => []IInv
<1>1. Init => IInv
  BY TypeInit, InductiveInit DEF IInv, Inductive
<1>2. IInv /\ [Next]_vars => IInv'
  BY TypeStep, InductiveStep DEF IInv, Inductive
<1> QED
  BY <1>1, <1>2, PTL DEF Spec

-----------------------------------------------------------------------------
(* The safety properties.                                                  *)

\* The stop signal reaches every task: after it, changed() resolves in each
\* bridge and connection that has not ended, those accepted later included.
THEOREM SignalIsNeverLost == Spec => []NoSignalLost
<1>1. IInv => NoSignalLost
  <2> SUFFICES ASSUME IInv, chan.value
               PROVE  /\ \A b \in LiveBridges : bseen[b] # chan.version
                      /\ \A c \in LiveConns : cseen[c] # chan.version
    BY DEF NoSignalLost, Fires
  <2>1. chan.version # 0
    BY DEF IInv, SignalInv
  <2>2. \A b \in LiveBridges : bseen[b] = 0
    BY DEF IInv, SignalInv, LiveBridges
  <2>3. \A c \in LiveConns : cseen[c] = 0
    BY DEF IInv, SignalInv
  <2> QED
    BY <2>1, <2>2, <2>3
<1> QED
  BY Invariant, <1>1, PTL

\* A stop that returned Ok leaves no guest and a handle that says so.
THEOREM StopIsComplete == Spec => []StopOkMeansStopped
<1>1. IInv => StopOkMeansStopped
  BY DEF IInv
<1> QED
  BY Invariant, <1>1, PTL

\* is_running() = false can be trusted: start_enter has ended.
THEOREM NotRunningIsSound == Spec => []NotRunningMeansDead
<1>1. IInv => NotRunningMeansDead
  BY DEF IInv
<1> QED
  BY Invariant, <1>1, PTL

\* A handle at rest with a live guest has its directory and its bridges: a
\* stop that failed took nothing away.
THEOREM RestingGuestKeepsService == Spec => []RestingGuestIsServed
<1>1. IInv => RestingGuestIsServed
  BY DEF IInv, LaunchInv, ServedInv, RestingGuestIsServed
<1> QED
  BY Invariant, <1>1, PTL

\* Any number of stops and the drop send the signal at most twice.
THEOREM SendsAreBounded == Spec => []SignalledAtMostTwice
<1>1. IInv => SignalledAtMostTwice
  BY DEF IInv
<1> QED
  BY Invariant, <1>1, PTL

-----------------------------------------------------------------------------
(* Refinement of CancelGroup.                                              *)

LEMMA BooleansEqual ==
  ASSUME NEW p \in BOOLEAN, NEW q \in BOOLEAN, p <=> q
  PROVE  p = q
OBVIOUS

LEMMA GroupInit == Init => Group!Init
BY NewChannelFacts
DEF Init, Group!Init, LiveTasks, LiveBridges, LiveConns

\* A step of launch, of the VM thread, of stop or of drop that touches no task
\* stutters, or cancels if it sends to someone.
LEMMA OwnerStep ==
  ASSUME TypeOK, TypeOK', UNCHANGED <<bridge, conn>>,
         \/ chan'.value <=> chan.value
         \/ LiveTasks # {} /\ chan'.value
  PROVE  [Group!Next]_(Group!vars)
<1>1. chan.value \in BOOLEAN /\ chan'.value \in BOOLEAN
  BY ChannelFields DEF TypeOK
<1>2. LiveTasks' = LiveTasks
  BY DEF LiveTasks, LiveBridges, LiveConns
<1>3. CASE chan'.value <=> chan.value
  <2>1. chan'.value = chan.value
    BY <1>1, <1>3, BooleansEqual, Zenon
  <2> QED
    BY <1>2, <2>1 DEF Group!vars
<1>4. CASE LiveTasks # {} /\ chan'.value
  <2>1. chan'.value = TRUE
    BY <1>1, <1>4, Zenon
  <2>2. Group!Cancel
    BY <1>2, <1>4, <2>1 DEF Group!Cancel
  <2> QED
    BY <2>2 DEF Group!Next
<1> QED
  BY <1>3, <1>4

\* A send is a step of that kind.
LEMMA SendStep ==
  ASSUME TypeOK, TypeOK', UNCHANGED <<bridge, conn>>,
         chan' = SendTrue(chan, LiveTasks)
  PROVE  [Group!Next]_(Group!vars)
<1>1. chan \in Channel
  BY DEF TypeOK
<1>2. CASE LiveTasks = {}
  BY <1>1, <1>2, OwnerStep, SendFacts
<1>3. CASE LiveTasks # {}
  BY <1>1, <1>3, OwnerStep, SendFacts
<1> QED
  BY <1>2, <1>3

\* A bridge that ends: its connections in the backlog are no tasks yet.
LEMMA RootEnds ==
  ASSUME NEW b \in Bridges, b \in LiveBridges, chan' = chan,
         bridge' = [bridge EXCEPT ![b] = "ended"], TypeOK,
         LiveConns' = LiveConns
  PROVE  Group!Finish(b)
<1>1. LiveBridges' = LiveBridges \ {b}
  BY DEF TypeOK, LiveBridges
<1>2. b \notin LiveConns
  BY DistinctTasks DEF LiveConns
<1>3. LiveTasks' = LiveTasks \ {b} /\ b \in LiveTasks
  BY <1>1, <1>2 DEF LiveTasks
<1> QED
  BY <1>3 DEF Group!Finish

\* A connection task that ends.
LEMMA ChildEnds ==
  ASSUME NEW c \in Conns, c \in LiveConns, TypeOK,
         conn' = [conn EXCEPT ![c] = "closed"], UNCHANGED <<chan, bridge>>
  PROVE  Group!Finish(c)
<1>1. LiveConns' = LiveConns \ {c} /\ LiveBridges' = LiveBridges
  BY DEF TypeOK, LiveConns, LiveBridges
<1>2. c \notin LiveBridges
  BY DistinctTasks DEF LiveBridges
<1>3. LiveTasks' = LiveTasks \ {c} /\ c \in LiveTasks
  BY <1>1, <1>2 DEF LiveTasks
<1> QED
  BY <1>3 DEF Group!Finish

\* Every step of the VM is one of the group, or none.
LEMMA GroupStep ==
  ASSUME IInv, IInv', [Next]_vars
  PROVE  [Group!Next]_(Group!vars)
<1> USE DEF IInv
<1>0. TypeOK /\ TypeOK'
  OBVIOUS
<1>1. ASSUME NEW b \in Bridges, SpawnBridge(b) PROVE Group!SpawnRoot(b)
  <2>1. ~chan.value /\ chan' = chan
    BY <1>1 DEF LaunchInv, SignalInv, SpawnBridge
  <2>2. LiveBridges' = LiveBridges \union {b} /\ b \notin LiveBridges
    BY <1>1 DEF LiveBridges, SpawnBridge, TypeOK
  <2>3. LiveConns' = LiveConns /\ b \notin LiveConns
    BY <1>1, DistinctTasks DEF LiveConns, SpawnBridge
  <2> QED
    BY <2>1, <2>2, <2>3 DEF Group!SpawnRoot, LiveTasks
<1>2. CASE SpawnThread \/ VmThread \/ StopCall \/ DropCall
  BY <1>0, <1>2, OwnerStep
  DEF SpawnThread, VmThread, GuestExits, ThreadPanics, ThreadStores, StopCall,
      DropCall
<1>3. CASE SpawnThreadFails \/ DropFields
  BY <1>0, <1>3, OwnerStep, CloseFacts DEF SpawnThreadFails, DropFields, TypeOK
<1>4. CASE StopSend \/ DropSend
  BY <1>0, <1>4, SendStep DEF StopSend, DropSend
<1>5. CASE StopTrigger \/ StopJoin \/ StopFinish \/ DropTrigger \/ DropClean
  BY <1>0, <1>5, OwnerStep
  DEF StopTrigger, StopJoin, StopFinish, DropTrigger, DropClean
<1>6. ASSUME NEW b \in Bridges, BridgeBind(b) PROVE [Group!Next]_(Group!vars)
  <2>1. CASE bridge' = [bridge EXCEPT ![b] = "listening"]
    BY <1>6, <2>1
    DEF BridgeBind, Group!vars, LiveTasks, LiveBridges, LiveConns, TypeOK
  <2>2. CASE bridge' = [bridge EXCEPT ![b] = "ended"]
    <3>1. Group!Finish(b)
      BY <1>6, <2>2, RootEnds DEF BridgeBind, LiveBridges, LiveConns
    <3> QED
      BY <3>1 DEF Group!Next
  <2> QED
    BY <1>6, <2>1, <2>2 DEF BridgeBind
<1>7. ASSUME NEW b \in Bridges, BridgeObserves(b)
      PROVE  [Group!Next]_(Group!vars)
  <2>1. CASE chan.value
    <3>1. LiveConns' = LiveConns
      BY <1>7, <2>1 DEF BridgeObserves, LiveConns, TypeOK
    <3>2. Group!Finish(b)
      BY <1>7, <2>1, <3>1, RootEnds DEF BridgeObserves, LiveBridges
    <3> QED
      BY <3>2 DEF Group!Next
  <2>2. CASE ~chan.value
    BY <1>0, <1>7, <2>2, OwnerStep DEF BridgeObserves
  <2> QED
    BY <2>1, <2>2
<1>8. ASSUME NEW c \in Conns, ClientConnects(c) \/ AcceptFails(c)
      PROVE  UNCHANGED Group!vars
  BY <1>8
  DEF ClientConnects, AcceptFails, Group!vars, LiveTasks, LiveBridges,
      LiveConns, TypeOK
<1>9. ASSUME NEW c \in Conns, BridgeAccept(c) PROVE Group!SpawnChild(c)
  <2>1. Target[c] \in LiveBridges
    BY <1>9, TargetAssumption DEF BridgeAccept, LiveBridges
  <2>2. LiveConns' = LiveConns \union {c} /\ c \notin LiveConns
    BY <1>9 DEF BridgeAccept, LiveConns, TypeOK
  <2>3. LiveBridges' = LiveBridges /\ c \notin LiveBridges /\ chan' = chan
    BY <1>9, DistinctTasks DEF BridgeAccept, LiveBridges
  <2> QED
    BY <2>1, <2>2, <2>3 DEF Group!SpawnChild, LiveTasks
<1>10. ASSUME NEW c \in Conns, ConnConnect(c) PROVE [Group!Next]_(Group!vars)
  <2>1. CASE conn' = [conn EXCEPT ![c] = "relaying"]
    BY <1>10, <2>1
    DEF ConnConnect, Group!vars, LiveTasks, LiveBridges, LiveConns, TypeOK
  <2>2. CASE conn' = [conn EXCEPT ![c] = "closed"]
    <3>1. Group!Finish(c)
      BY <1>10, <2>2, ChildEnds DEF ConnConnect, LiveConns
    <3> QED
      BY <3>1 DEF Group!Next
  <2> QED
    BY <1>10, <2>1, <2>2 DEF ConnConnect
<1>11. ASSUME NEW c \in Conns, ConnCopyEnds(c) \/ ConnObserves(c)
       PROVE  Group!Finish(c)
  BY <1>11, ChildEnds DEF ConnCopyEnds, ConnObserves, LiveConns
<1>12. CASE UNCHANGED vars
  BY <1>12 DEF vars, Group!vars, LiveTasks, LiveBridges, LiveConns
<1> QED
  BY <1>1, <1>2, <1>3, <1>4, <1>5, <1>6, <1>7, <1>8, <1>9, <1>10, <1>11, <1>12
  DEF Next, Launch, StopStep, DropStep, BridgeTask, ConnTask, Group!Next

\* The bridges and connections of a VM implement a group of tasks that is
\* cancelled once: no bridge starts after the signal, and no connection starts
\* without its bridge.
THEOREM ImplementsGroup == Spec => GroupSpec
<1>1. IInv /\ IInv' /\ [Next]_vars => [Group!Next]_(Group!vars)
  BY GroupStep
<1> QED
  BY GroupInit, Invariant, <1>1, PTL DEF Spec, GroupSpec, Group!Spec

-----------------------------------------------------------------------------
(* Refinement of VmControl.                                                *)

LEMMA ControlInit == Init => Control!Init
BY DEF Init, Control!Init

\* A step that is none of the owner's: it leaves what the owner sees.
LEMMA UnseenStep ==
  ASSUME UNCHANGED <<running, result>>, call' \in StopSteps <=> call \in StopSteps
  PROVE  UNCHANGED Control!vars
<1>1. (call' \in StopSteps) = (call \in StopSteps)
  BY DEF StopSteps
<1> QED
  BY <1>1 DEF Control!vars

\* Every step of the handle is one of the VmControl, or none.
LEMMA ControlStep ==
  ASSUME TypeOK, [Next]_vars
  PROVE  [Control!Next]_(Control!vars)
<1> USE DEF TypeOK
<1>1. CASE Launch \/ GuestExits \/ ThreadPanics \/ StopSend \/ DropCall \/ DropStep
  BY <1>1, UnseenStep
  DEF Launch, SpawnBridge, SpawnThread, SpawnThreadFails, GuestExits,
      ThreadPanics, StopSend, DropCall, DropStep, DropTrigger, DropSend,
      DropClean, DropFields
<1>2. CASE ThreadStores
  <2>1. CASE running
    <3>1. Control!Exit
      BY <1>2, <2>1 DEF ThreadStores, Control!Exit
    <3> QED
      BY <3>1 DEF Control!Next
  <2>2. CASE ~running
    <3>1. running' = running
      BY <1>2, <2>2 DEF ThreadStores
    <3> QED
      BY <1>2, <3>1, UnseenStep DEF ThreadStores
  <2> QED
    BY <2>1, <2>2
<1>3. CASE StopCall
  <2>1. CASE running
    <3>1. Control!Call
      BY <1>3, <2>1 DEF StopCall, Control!Call
    <3> QED
      BY <3>1 DEF Control!Next
  <2>2. CASE ~running
    <3>1. Control!Refuse
      BY <1>3, <2>2 DEF StopCall, Control!Refuse
    <3> QED
      BY <3>1 DEF Control!Next
  <2> QED
    BY <2>1, <2>2
<1>4. CASE StopTrigger
  <2>1. CASE call' = "send"
    BY <1>4, <2>1, UnseenStep DEF StopTrigger
  <2>2. CASE call' = "idle" /\ result' = "BridgeIo"
    <3>1. Control!Fail
      BY <1>4, <2>2 DEF StopTrigger, Control!Fail
    <3> QED
      BY <3>1 DEF Control!Next
  <2> QED
    BY <1>4, <2>1, <2>2 DEF StopTrigger
<1>5. CASE StopJoin
  <2>1. CASE joinHandle /\ vmThread = "panicked"
    <3>1. Control!Fail
      BY <1>5, <2>1 DEF StopJoin, Control!Fail
    <3> QED
      BY <3>1 DEF Control!Next
  <2>2. CASE ~(joinHandle /\ vmThread = "panicked")
    BY <1>5, <2>2, UnseenStep DEF StopJoin
  <2> QED
    BY <2>1, <2>2
<1>6. CASE StopFinish
  <2>1. Control!Succeed
    BY <1>6 DEF StopFinish, Control!Succeed
  <2> QED
    BY <2>1 DEF Control!Next
<1>7. ASSUME NEW b \in Bridges, BridgeTask(b) PROVE UNCHANGED Control!vars
  BY <1>7, UnseenStep DEF BridgeTask, BridgeBind, BridgeObserves
<1>8. ASSUME NEW c \in Conns,
             ClientConnects(c) \/ BridgeAccept(c) \/ AcceptFails(c) \/ ConnTask(c)
      PROVE  UNCHANGED Control!vars
  BY <1>8, UnseenStep
  DEF ClientConnects, BridgeAccept, AcceptFails, ConnTask, ConnConnect,
      ConnObserves, ConnCopyEnds
<1>9. CASE UNCHANGED vars
  BY <1>9, UnseenStep DEF vars
<1> QED
  BY <1>1, <1>2, <1>3, <1>4, <1>5, <1>6, <1>7, <1>8, <1>9
  DEF Next, VmThread, StopStep

\* The handle is a VmControl: whatever its threads and tasks do, the owner sees
\* a VM that does not come back to life, and a stop that is refused when the
\* VM is over and otherwise has stopped it, or has failed and left the rest
\* to the owner.
THEOREM ImplementsControl == Spec => ControlSpec
<1>1. TypeOK /\ [Next]_vars => [Control!Next]_(Control!vars)
  BY ControlStep
<1> QED
  BY ControlInit, TypeCorrect, <1>1, PTL DEF Spec, ControlSpec, Control!Spec
=============================================================================
