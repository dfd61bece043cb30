------------------------------ MODULE VmHandle ------------------------------
(***************************************************************************)
(* The life of one VM from the moment the engine is configured:            *)
(* src/src/vm.rs (launch steps 9 to 11, VmHandle::stop, Drop) together     *)
(* with src/src/bridge.rs (the bridge tasks and the connection tasks).     *)
(*                                                                         *)
(* Three kinds of actor run concurrently: the caller that owns the handle, *)
(* the VM thread that is inside start_enter, and the tokio tasks.  They    *)
(* share the atomic `running`, the watch channel, the eventfd and the      *)
(* work directory.  One action is one step between two points where the    *)
(* others may run: an await, a blocking call, an atomic access.            *)
(***************************************************************************)
EXTENDS Watch

CONSTANTS Bridges,   \* the builder's vsock_bridge entries, one task each
          Conns,     \* TCP connections that clients may open
          Target     \* the bridge whose host port a connection dials

ASSUME TargetAssumption == Target \in [Conns -> Bridges]
ASSUME DistinctTasks == Bridges \intersect Conns = {}

VARIABLES
  soleWorker,  \* the owner's calls run on the only worker of the runtime
  running,     \* Arc<AtomicBool>
  vmThread,    \* where the VM thread is
  joinHandle,  \* VmHandle.vm_thread is Some
  eventfd,     \* the shutdown eventfd has been written
  workdir,     \* the directory of the bridges' Unix sockets exists
  chan,        \* the watch channel, its Sender in the handle
  call,        \* what the owner of the handle is executing
  result,      \* what the last stop() returned
  bridge,      \* the bridge tasks
  bseen,       \* the channel version each bridge task has seen
  conn,        \* the connections
  cseen        \* the channel version each connection task has seen

ownerVars == <<soleWorker, running, vmThread, joinHandle, eventfd, workdir,
               chan, call, result>>
bridgeVars == <<bridge, bseen>>
connVars == <<conn, cseen>>
vars == <<ownerVars, bridgeVars, connVars>>

StopSteps == {"trigger", "send", "join", "finish"}
DropSteps == {"dropTrigger", "dropSend", "dropClean", "dropFields"}
Calls == {"launching", "failed", "idle", "gone"} \union StopSteps
           \union DropSteps

ThreadStates == {"unspawned", "inside", "returned", "finished", "panicked"}
Results == {"none", "Ok", "NotRunning", "BridgeIo", "VmThreadPanicked"}
BridgeStates == {"none", "spawned", "listening", "ended"}
ConnStates == {"closed", "queued", "connecting", "relaying"}

LiveBridges == {b \in Bridges : bridge[b] \in {"spawned", "listening"}}
LiveConns == {c \in Conns : conn[c] \in {"connecting", "relaying"}}

\* Every live task owns one Receiver of the channel.
LiveTasks == LiveBridges \union LiveConns

ThreadDead == vmThread \in {"finished", "panicked"}

\* A worker of the runtime has time for the tasks.  launch has no await
\* between its spawns and its return, and stop and Drop are synchronous: on
\* the only worker, the tasks wait until such a call is over.
Polled == soleWorker => call \in {"idle", "failed", "gone"}

Init ==
  /\ soleWorker \in BOOLEAN
  /\ running = TRUE
  /\ vmThread = "unspawned"
  /\ joinHandle = FALSE
  /\ eventfd = FALSE
  /\ workdir = TRUE
  /\ chan = NewChannel
  /\ call = "launching"
  /\ result = "none"
  /\ bridge = [b \in Bridges |-> "none"]
  /\ bseen = [b \in Bridges |-> 0]
  /\ conn = [c \in Conns |-> "closed"]
  /\ cseen = [c \in Conns |-> 0]

-----------------------------------------------------------------------------
(* launch, steps 10 and 11.                                                *)

\* A bridge task gets a clone of the first Receiver, which has seen 0.
SpawnBridge(b) ==
  /\ call = "launching"
  /\ bridge[b] = "none"
  /\ bridge' = [bridge EXCEPT ![b] = "spawned"]
  /\ UNCHANGED <<ownerVars, bseen, connVars>>

AllBridgesSpawned == \A b \in Bridges : bridge[b] # "none"

SpawnThread ==
  /\ call = "launching"
  /\ AllBridgesSpawned
  /\ vmThread' = "inside"
  /\ joinHandle' = TRUE
  /\ call' = "idle"
  /\ UNCHANGED <<soleWorker, running, eventfd, workdir, chan, result,
                 bridgeVars, connVars>>

\* The thread cannot be created: launch returns Err and its locals go, the
\* Sender among them, but the tasks it spawned and the directory stay.
SpawnThreadFails ==
  /\ call = "launching"
  /\ AllBridgesSpawned
  /\ chan' = Close(chan)
  /\ call' = "failed"
  /\ UNCHANGED <<soleWorker, running, vmThread, joinHandle, eventfd,
                 workdir, result, bridgeVars, connVars>>

-----------------------------------------------------------------------------
(* The VM thread.                                                          *)

\* start_enter returns: the guest could not be started, or its run is over.
GuestExits ==
  /\ vmThread = "inside"
  /\ vmThread' = "returned"
  /\ UNCHANGED <<soleWorker, running, joinHandle, eventfd, workdir, chan,
                 call, result, bridgeVars, connVars>>

\* start_enter unwinds: the store of `running` is skipped.
ThreadPanics ==
  /\ vmThread = "inside"
  /\ vmThread' = "panicked"
  /\ UNCHANGED <<soleWorker, running, joinHandle, eventfd, workdir, chan,
                 call, result, bridgeVars, connVars>>

Mutant_StoresFirst ==
  /\ vmThread = "inside"
  /\ running' = FALSE
  /\ UNCHANGED <<soleWorker, vmThread, joinHandle, eventfd, workdir, chan,
                 call, result, bridgeVars, connVars>>

ThreadStores ==
  /\ vmThread = "returned"
  /\ running' = FALSE
  /\ vmThread' = "finished"
  /\ UNCHANGED <<soleWorker, joinHandle, eventfd, workdir, chan, call,
                 result, bridgeVars, connVars>>

-----------------------------------------------------------------------------
(* VmHandle::stop.  Here and below an operator named Mutant_... is not part *)
(* of the model: it is a plausible bug in the definition it precedes.      *)

StopCall ==
  /\ call = "idle"
  /\ IF running
       THEN call' = "trigger" /\ UNCHANGED result
       ELSE result' = "NotRunning" /\ UNCHANGED call
  /\ UNCHANGED <<soleWorker, running, vmThread, joinHandle, eventfd,
                 workdir, chan, bridgeVars, connVars>>

\* Shutdown::trigger writes the eventfd, or fails and leaves it alone.
Trigger(ok) == eventfd' = (eventfd \/ ok)

Mutant_StopSendsFirst ==
  /\ call = "trigger"
  /\ chan' = SendTrue(chan, LiveTasks)
  /\ \/ Trigger(TRUE) /\ call' = "join" /\ UNCHANGED result
     \/ Trigger(FALSE) /\ call' = "idle" /\ result' = "BridgeIo"
  /\ UNCHANGED <<soleWorker, running, vmThread, joinHandle, workdir,
                 bridgeVars, connVars>>

\* If the trigger fails, stop gives up before anything else.
StopTrigger ==
  /\ call = "trigger"
  /\ \/ Trigger(TRUE) /\ call' = "send" /\ UNCHANGED result
     \/ Trigger(FALSE) /\ call' = "idle" /\ result' = "BridgeIo"
  /\ UNCHANGED <<soleWorker, running, vmThread, joinHandle, workdir, chan,
                 bridgeVars, connVars>>

StopSend ==
  /\ call = "send"
  /\ chan' = SendTrue(chan, LiveTasks)
  /\ call' = "join"
  /\ UNCHANGED <<soleWorker, running, vmThread, joinHandle, eventfd,
                 workdir, result, bridgeVars, connVars>>

Mutant_JoinAtOnce == TRUE
Mutant_JoinsTasks == (joinHandle => ThreadDead) /\ LiveTasks = {}

\* JoinHandle::join returns; after an earlier stop there is none to wait for.
JoinReturns == joinHandle => ThreadDead

\* The JoinHandle is taken; a panic of the thread ends stop here, before
\* the directory is removed and `running` is cleared.
StopJoin ==
  /\ call = "join"
  /\ JoinReturns
  /\ joinHandle' = FALSE
  /\ IF joinHandle /\ vmThread = "panicked"
       THEN call' = "idle" /\ result' = "VmThreadPanicked"
       ELSE call' = "finish" /\ UNCHANGED result
  /\ UNCHANGED <<soleWorker, running, vmThread, eventfd, workdir, chan,
                 bridgeVars, connVars>>

\* remove_dir_all may fail; nobody looks.
RemoveWorkdir == workdir' \in {FALSE, workdir}

Mutant_FinishKeepsRunning ==
  /\ call = "finish"
  /\ RemoveWorkdir
  /\ call' = "idle"
  /\ result' = "Ok"
  /\ UNCHANGED <<soleWorker, running, vmThread, joinHandle, eventfd, chan,
                 bridgeVars, connVars>>

StopFinish ==
  /\ call = "finish"
  /\ RemoveWorkdir
  /\ running' = FALSE
  /\ call' = "idle"
  /\ result' = "Ok"
  /\ UNCHANGED <<soleWorker, vmThread, joinHandle, eventfd, chan,
                 bridgeVars, connVars>>

-----------------------------------------------------------------------------
(* Drop of the handle.                                                     *)

DropCall ==
  /\ call = "idle"
  /\ call' = IF running THEN "dropTrigger" ELSE "dropClean"
  /\ UNCHANGED <<soleWorker, running, vmThread, joinHandle, eventfd,
                 workdir, chan, result, bridgeVars, connVars>>

\* A trigger that fails is ignored here.
DropTrigger ==
  /\ call = "dropTrigger"
  /\ \E ok \in BOOLEAN : Trigger(ok)
  /\ call' = "dropSend"
  /\ UNCHANGED <<soleWorker, running, vmThread, joinHandle, workdir, chan,
                 result, bridgeVars, connVars>>

DropSend ==
  /\ call = "dropSend"
  /\ chan' = SendTrue(chan, LiveTasks)
  /\ call' = "dropClean"
  /\ UNCHANGED <<soleWorker, running, vmThread, joinHandle, eventfd,
                 workdir, result, bridgeVars, connVars>>

DropClean ==
  /\ call = "dropClean"
  /\ RemoveWorkdir
  /\ call' = "dropFields"
  /\ UNCHANGED <<soleWorker, running, vmThread, joinHandle, eventfd, chan,
                 result, bridgeVars, connVars>>

\* The fields follow: the Sender goes, the thread and the tasks are detached.
DropFields ==
  /\ call = "dropFields"
  /\ chan' = Close(chan)
  /\ joinHandle' = FALSE
  /\ call' = "gone"
  /\ UNCHANGED <<soleWorker, running, vmThread, eventfd, workdir, result,
                 bridgeVars, connVars>>

-----------------------------------------------------------------------------
(* The bridge tasks.                                                       *)

\* A bridge that lost its port tries again, without a look at the channel.
Mutant_BindRetries(b) ==
  /\ Polled
  /\ bridge[b] \in {"spawned", "ended"}
  /\ \E s \in {"listening", "ended"} : bridge' = [bridge EXCEPT ![b] = s]
  /\ UNCHANGED <<ownerVars, bseen, connVars>>

\* The port may be taken: the task logs and returns.
BridgeBind(b) ==
  /\ Polled
  /\ bridge[b] = "spawned"
  /\ \E s \in {"listening", "ended"} : bridge' = [bridge EXCEPT ![b] = s]
  /\ UNCHANGED <<ownerVars, bseen, connVars>>

Mutant_Subscribe(c) == chan.version
Mutant_UnseenInitial(c) == bseen[Target[c]] - 1

\* The connection's Receiver is a clone: it has seen what the bridge has.
SeenByClone(c) == bseen[Target[c]]

BridgeAccept(c) ==
  /\ Polled
  /\ bridge[Target[c]] = "listening"
  /\ conn[c] = "queued"
  /\ conn' = [conn EXCEPT ![c] = "connecting"]
  /\ cseen' = [cseen EXCEPT ![c] = SeenByClone(c)]
  /\ UNCHANGED <<ownerVars, bridgeVars>>

\* accept fails, on a client that has left: the loop logs it and goes on.
AcceptFails(c) ==
  /\ Polled
  /\ bridge[Target[c]] = "listening"
  /\ conn[c] = "queued"
  /\ conn' = [conn EXCEPT ![c] = "closed"]
  /\ UNCHANGED <<ownerVars, bridgeVars, cseen>>

Mutant_ObservesErrOnly(b) ==
  /\ Polled
  /\ bridge[b] = "listening"
  /\ Fires(chan, bseen[b])
  /\ bseen' = [bseen EXCEPT ![b] = chan.version]
  /\ bridge' = [bridge EXCEPT ![b] = IF chan.open THEN @ ELSE "ended"]
  /\ UNCHANGED <<ownerVars, connVars>>

\* changed() resolves, with Ok or Err alike, and the loop goes on unless the
\* value is true.  A returning task closes its listener and the backlog.
BridgeObserves(b) ==
  /\ Polled
  /\ bridge[b] = "listening"
  /\ Fires(chan, bseen[b])
  /\ bseen' = [bseen EXCEPT ![b] = chan.version]
  /\ IF chan.value
       THEN /\ bridge' = [bridge EXCEPT ![b] = "ended"]
            /\ conn' = [c \in Conns |->
                 IF Target[c] = b /\ conn[c] = "queued" THEN "closed"
                 ELSE conn[c]]
       ELSE UNCHANGED <<bridge, conn>>
  /\ UNCHANGED <<ownerVars, cseen>>

-----------------------------------------------------------------------------
(* The clients and the connection tasks (handle_connection).               *)

ClientConnects(c) ==
  /\ conn[c] = "closed"
  /\ bridge[Target[c]] = "listening"
  /\ conn' = [conn EXCEPT ![c] = "queued"]
  /\ UNCHANGED <<ownerVars, bridgeVars, cseen>>

\* Behind the Unix socket there is a listener only while the guest runs.
ConnConnect(c) ==
  /\ Polled
  /\ conn[c] = "connecting"
  /\ \/ /\ vmThread = "inside" /\ workdir
        /\ conn' = [conn EXCEPT ![c] = "relaying"]
     \/ conn' = [conn EXCEPT ![c] = "closed"]
  /\ UNCHANGED <<ownerVars, bridgeVars, cseen>>

\* One of the two copies ends, by end of file or by an error.
ConnCopyEnds(c) ==
  /\ Polled
  /\ conn[c] = "relaying"
  /\ conn' = [conn EXCEPT ![c] = "closed"]
  /\ UNCHANGED <<ownerVars, bridgeVars, cseen>>

Mutant_ObservesValue(c) ==
  /\ Polled
  /\ conn[c] = "relaying"
  /\ chan.value
  /\ conn' = [conn EXCEPT ![c] = "closed"]
  /\ UNCHANGED <<ownerVars, bridgeVars, cseen>>

\* Unlike the bridge, a connection ends whatever changed() resolves to.
ConnObserves(c) ==
  /\ Polled
  /\ conn[c] = "relaying"
  /\ Fires(chan, cseen[c])
  /\ conn' = [conn EXCEPT ![c] = "closed"]
  /\ cseen' = [cseen EXCEPT ![c] = chan.version]
  /\ UNCHANGED <<ownerVars, bridgeVars>>

-----------------------------------------------------------------------------
Launch == (\E b \in Bridges : SpawnBridge(b)) \/ SpawnThread \/ SpawnThreadFails
VmThread == GuestExits \/ ThreadPanics \/ ThreadStores
StopStep == StopTrigger \/ StopSend \/ StopJoin \/ StopFinish
DropStep == DropTrigger \/ DropSend \/ DropClean \/ DropFields
BridgeTask(b) == BridgeBind(b) \/ BridgeObserves(b)
ConnTask(c) == ConnConnect(c) \/ ConnObserves(c) \/ ConnCopyEnds(c)

Next ==
  \/ Launch
  \/ VmThread
  \/ StopCall \/ StopStep
  \/ DropCall \/ DropStep
  \/ \E b \in Bridges : BridgeTask(b)
  \/ \E c \in Conns : \/ ClientConnects(c) \/ BridgeAccept(c) \/ AcceptFails(c)
                     \/ ConnTask(c)

Spec == Init /\ [][Next]_vars

\* A call that has begun goes on, the VM thread returns from its closure and
\* the runtime polls a task whose future is ready.  Nothing is assumed of
\* the guest, of the clients, or of the caller between two calls.
Fairness ==
  /\ WF_vars(ThreadStores)
  /\ WF_vars(StopStep)
  /\ WF_vars(DropStep)
  /\ \A b \in Bridges : WF_vars(BridgeBind(b)) /\ WF_vars(BridgeObserves(b))
  /\ \A c \in Conns : WF_vars(ConnConnect(c)) /\ WF_vars(ConnObserves(c))

FairSpec == Spec /\ Fairness

-----------------------------------------------------------------------------
(* Properties: safety.                                                     *)

\* Every variable has its type.
TypeOK ==
  /\ soleWorker \in BOOLEAN
  /\ running \in BOOLEAN
  /\ vmThread \in ThreadStates
  /\ joinHandle \in BOOLEAN
  /\ eventfd \in BOOLEAN
  /\ workdir \in BOOLEAN
  /\ chan \in Channel
  /\ call \in Calls
  /\ result \in Results
  /\ bridge \in [Bridges -> BridgeStates]
  /\ bseen \in [Bridges -> Nat]
  /\ conn \in [Conns -> ConnStates]
  /\ cseen \in [Conns -> Nat]

\* Once the stop signal is in the channel, changed() resolves for every task
\* that still runs, whenever its Receiver was cloned: also for a connection
\* that a bridge accepts after the signal and before it has looked at it.
NoSignalLost ==
  chan.value =>
    /\ \A b \in LiveBridges : Fires(chan, bseen[b])
    /\ \A c \in LiveConns : Fires(chan, cseen[c])

\* stop returns Ok only when start_enter has ended, and from then on the
\* handle reports a stopped VM: also when an earlier stop saw the thread
\* panic and this one had nothing left to join.
StopOkMeansStopped == result = "Ok" => ThreadDead /\ ~running

\* is_running() is false only when start_enter has ended, so neither a stop
\* that answers NotRunning nor a drop that skips the trigger leaves a guest.
NotRunningMeansDead == ~running => ThreadDead

\* Between two calls the owner of a handle to a live guest finds it intact:
\* its sockets' directory is there and no bridge has been told to stop, also
\* after a stop that failed to write the eventfd and may be tried again.
RestingGuestIsServed ==
  call = "idle" /\ vmThread = "inside" => workdir /\ chan.open /\ ~chan.value

\* However often stop is called, and a drop after it, the signal is sent at
\* most twice: the second time only because a panic ended the first stop.
SignalledAtMostTwice == chan.version <= 2

\* Why the five hold, part by part; the conjunction is inductive.
InHandle == {"idle"} \union StopSteps
BeforeSend == {"idle", "trigger", "send", "dropTrigger", "dropSend"}

\* launch sends nothing and its thread starts last.
LaunchInv ==
  /\ call \in {"launching", "failed"} <=> vmThread = "unspawned"
  /\ call \in {"launching", "failed"} => chan.version = 0 /\ running
  /\ call \in {"launching"} \union InHandle \union DropSteps => chan.open

\* Only TRUE is ever sent, and a task that sees it does not go on.
SignalInv ==
  /\ chan.value <=> chan.version # 0
  /\ \A b \in Bridges : bridge[b] # "ended" => bseen[b] = 0
  /\ \A c \in LiveConns : cseen[c] = 0

\* The JoinHandle is given up for a dead thread only.
JoinInv ==
  /\ call \in InHandle \union DropSteps /\ ~joinHandle => ThreadDead
  /\ call = "finish" => ~joinHandle
  /\ call \in {"launching", "failed"} => workdir

\* What a live guest needs is taken away after the join, or by the drop.
ServedInv ==
  /\ call \in InHandle /\ ~ThreadDead => workdir
  /\ call \in {"idle", "trigger", "send"} /\ ~ThreadDead => ~chan.value

\* A send uses up either the JoinHandle or the running flag.
SendsInv ==
  /\ call \in BeforeSend /\ joinHandle => chan.version = 0
  /\ call \in BeforeSend /\ running => chan.version <= 1
  /\ call \in BeforeSend \ {"idle"} /\ ~joinHandle => running
  /\ call = "join" /\ joinHandle => chan.version <= 1

IInv ==
  /\ TypeOK
  /\ LaunchInv
  /\ SignalInv
  /\ JoinInv
  /\ ServedInv
  /\ SendsInv
  /\ StopOkMeansStopped
  /\ NotRunningMeansDead
  /\ SignalledAtMostTwice

\* The bridge and connection tasks are a group that is cancelled once; no
\* bridge starts after that, and no connection without its bridge.
Group == INSTANCE CancelGroup WITH
  Roots <- Bridges, Children <- Conns, Parent <- Target,
  live <- LiveTasks, cancelled <- chan.value

GroupSpec == Group!Spec

\* ... and which then drains: after the signal every bridge and every
\* connection ends, those accepted meanwhile included, unless a call on the
\* only worker never gives it back to them.
GroupDrains == <>[]Polled => Group!Drains

\* The owner sees what every VmControl promises: a VM that does not come back
\* to life, and a stop that is refused, fails or has stopped it.
Control == INSTANCE VmControl WITH
  stopping <- call \in StopSteps, Errors <- {"BridgeIo", "VmThreadPanicked"}

ControlSpec == Control!Spec

\* stop waits for nothing but the VM thread: it returns also where it keeps
\* the tasks it has signalled from running.
StopReturns == call \in StopSteps /\ vmThread # "inside" ~> call = "idle"

\* No connection survives the handle: with the signal or with the Sender
\* gone it ends, even where its bridge goes on listening.
ConnsEndWithHandle ==
  \A c \in Conns : call = "gone" /\ c \in LiveConns ~> c \notin LiveConns

\* What src/src/vm.rs:240 says of the handle, that it manages the life of what
\* launch started: with the handle its bridges end.  They do not when the
\* guest has exited by itself before the drop.
BridgesEndWithHandle == call = "gone" ~> LiveBridges = {}

\* What src/src/vm.rs:84 says of is_running: the end of the VM shows.  It
\* does not when start_enter panicked.
DeathIsReported == ThreadDead ~> ~running
=============================================================================
