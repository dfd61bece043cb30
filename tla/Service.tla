------------------------------ MODULE Service ------------------------------
(***************************************************************************)
(* A service that is launched, stopped and launched again, on the same     *)
(* host ports: the pipeline, guests and socket files of Launch composed    *)
(* with the bridge tasks of src/src/bridge.rs and with the calls of the    *)
(* handle in src/src/vm.rs that signal them.                               *)
(*                                                                         *)
(* Each action of Launch is conjoined with what it does to the bridges.    *)
(* Where VmHandle looks at one handle, step by step, the subject here is   *)
(* what one launch leaves to the next: a host port that is still bound, a  *)
(* task that nobody will ever signal, a path that another guest listens    *)
(* on.  A failing trigger and a panicking VM thread are VmHandle's.        *)
(*                                                                         *)
(* Every launch has the same configuration.  A bridge is named by the      *)
(* launch that spawned it and by its guest port, which stands for the host *)
(* port as well.                                                           *)
(***************************************************************************)
EXTENDS Launch

CONSTANT Sequential   \* the service has one handle at a time

ASSUME SequentialAssumption == Sequential \in BOOLEAN

VARIABLES
  workers,     \* how many workers the runtime of each process has
  flag,        \* `running` of each launch, shared with its VM thread
  stopping,    \* a call of stop has sent the signal and waits for the thread
  told,        \* TRUE has been sent to the launch's watch channel
  task         \* the bridge tasks

handleVars == <<workers, flag, stopping, told>>
serviceVars == <<vars, handleVars, task>>

Bridges == Vms \X Range(Ports)
BridgesOf(v) == {v} \X Range(Ports)

Live(b) == task[b] \in {"spawned", "listening"}

\* launch has no await and stop blocks: each keeps a worker to itself until
\* it is over.
Busy(p) == {v \in Vms : Proc[v] = p /\ (handle[v] = "launching" \/ stopping[v])}

\* A worker is left for the tasks, and for the next call.
WorkerFree(p) == Cardinality(Busy(p)) < workers

SInit ==
  /\ Init
  /\ workers \in 1 .. Cardinality(Vms) + 1
  /\ flag = [v \in Vms |-> FALSE]
  /\ stopping = [v \in Vms |-> FALSE]
  /\ told = [v \in Vms |-> FALSE]
  /\ task = [b \in Bridges |-> "none"]

-----------------------------------------------------------------------------
(* Launches.  An operator named Mutant_... is not part of the model: it is *)
(* a plausible bug in the definition it precedes.                          *)

InHand(v) == handle[v] \in {"launching", "held"}

ServiceCall(v) ==
  /\ Sequential => \A w \in Vms : ~InHand(w)
  /\ WorkerFree(Proc[v])
  /\ Call(v)
  /\ UNCHANGED <<handleVars, task>>

\* Steps 1 to 8: no task exists yet.
Prepare(v) ==
  /\ \/ CreateCtx(v)
     \/ Configure(v)
     \/ CreateDir(v)
     \/ AddVsockPort(v)
     \/ LaunchFails(v) /\ ~At(v, "spawn")
  /\ UNCHANGED <<handleVars, task>>

Mutant_ForgetsOthers(v) ==
  /\ At(v, "spawn")
  /\ ~flag[v]
  /\ flag' = [flag EXCEPT ![v] = TRUE]
  /\ task' = [b \in BridgesOf(v) |-> "spawned"]
  /\ UNCHANGED <<vars, workers, stopping, told>>

\* Steps 9 and 10: the flag, the channel and a task for each bridge.
SpawnBridges(v) ==
  /\ At(v, "spawn")
  /\ ~flag[v]
  /\ flag' = [flag EXCEPT ![v] = TRUE]
  /\ task' = [b \in Bridges |-> IF b[1] = v THEN "spawned" ELSE task[b]]
  /\ UNCHANGED <<vars, workers, stopping, told>>

\* Step 11.  Without the thread launch returns Err, and nobody is left that
\* could signal its tasks.
StartThread(v) ==
  /\ At(v, "spawn")
  /\ SpawnThread(v) \/ LaunchFails(v)
  /\ flag[v]
  /\ UNCHANGED <<handleVars, task>>

-----------------------------------------------------------------------------
(* The VM thread.                                                          *)

Run(v) ==
  /\ Enter(v) \/ GuestEnds(v)
  /\ UNCHANGED <<handleVars, task>>

ThreadStores(v) ==
  /\ guest[v] = "ended"
  /\ flag[v]
  /\ flag' = [flag EXCEPT ![v] = FALSE]
  /\ UNCHANGED <<vars, workers, stopping, told, task>>

-----------------------------------------------------------------------------
(* The handle.                                                             *)

Mutant_StopForgetsSend(v) ==
  /\ WorkerFree(Proc[v])
  /\ handle[v] = "held"
  /\ flag[v] /\ ~stopping[v]
  /\ stopping' = [stopping EXCEPT ![v] = TRUE]
  /\ UNCHANGED <<vars, workers, flag, told, task>>

\* stop finds the VM running, triggers its shutdown and signals the bridges.
StopSends(v) ==
  /\ WorkerFree(Proc[v])
  /\ handle[v] = "held"
  /\ flag[v] /\ ~stopping[v]
  /\ stopping' = [stopping EXCEPT ![v] = TRUE]
  /\ told' = [told EXCEPT ![v] = TRUE]
  /\ UNCHANGED <<vars, workers, flag, task>>

\* The thread is joined: it has stored the flag.
StopReturns(v) ==
  /\ stopping[v] /\ ~flag[v]
  /\ Stop(v)
  /\ stopping' = [stopping EXCEPT ![v] = FALSE]
  /\ UNCHANGED <<workers, flag, told, task>>

\* Drop sends the signal only if is_running().
DropHandle(v) ==
  /\ WorkerFree(Proc[v])
  /\ ~stopping[v]
  /\ Drop(v)
  /\ told' = [told EXCEPT ![v] = @ \/ flag[v]]
  /\ UNCHANGED <<workers, flag, stopping, task>>

CrashAll(p) ==
  /\ Crash(p)
  /\ flag' = [v \in Vms |-> flag[v] /\ Proc[v] # p]
  /\ stopping' = [v \in Vms |-> stopping[v] /\ Proc[v] # p]
  /\ task' = [b \in Bridges |-> IF Proc[b[1]] = p /\ Live(b) THEN "ended"
                                ELSE task[b]]
  /\ UNCHANGED <<workers, told>>

-----------------------------------------------------------------------------
(* The bridge tasks.                                                       *)

PortTaken(port) == \E v \in Vms : task[<<v, port>>] = "listening"

\* The first task to bind has the port.  Any other logs the error and
\* returns; its launch has returned Ok, or will.
Bind(b) ==
  /\ WorkerFree(Proc[b[1]])
  /\ task[b] = "spawned"
  /\ task' = [task EXCEPT ![b] = IF PortTaken(b[2]) THEN "ended"
                                 ELSE "listening"]
  /\ UNCHANGED <<vars, handleVars>>

\* The signal, and nothing else, ends a bridge and frees its port.
BridgeEnds(b) ==
  /\ WorkerFree(Proc[b[1]])
  /\ task[b] = "listening"
  /\ told[b[1]]
  /\ task' = [task EXCEPT ![b] = "ended"]
  /\ UNCHANGED <<vars, handleVars>>

-----------------------------------------------------------------------------
SNext ==
  \/ \E v \in Vms : \/ ServiceCall(v) \/ Prepare(v) \/ SpawnBridges(v)
                    \/ StartThread(v) \/ Run(v) \/ ThreadStores(v)
                    \/ StopSends(v) \/ StopReturns(v) \/ DropHandle(v)
  \/ \E b \in Bridges : Bind(b) \/ BridgeEnds(b)
  \/ \E p \in Procs : CrashAll(p)

ServiceSpec == SInit /\ [][SNext]_serviceVars

\* The runtime polls the tasks whenever it has a worker for them.  Nothing is
\* assumed of the guests, the VM threads and the callers: calls may hold all
\* workers for ever, and then nothing is assumed of the tasks either.
FairServiceSpec ==
  /\ ServiceSpec
  /\ \A b \in Bridges : WF_serviceVars(Bind(b) \/ BridgeEnds(b))

-----------------------------------------------------------------------------
(* Properties.                                                             *)

\* Every variable that Launch does not have has its type.
ServiceTypeOK ==
  /\ workers \in 1 .. Cardinality(Vms) + 1
  /\ flag \in [Vms -> BOOLEAN]
  /\ stopping \in [Vms -> BOOLEAN]
  /\ told \in [Vms -> BOOLEAN]
  /\ task \in [Bridges -> {"none", "spawned", "listening", "ended"}]

\* A client never ends up in the guest of another launch: behind the path a
\* live bridge dials is its own guest or nobody, also for the bridges that
\* outlive their launch, their handle or their guest.
RoutesToOwnGuest ==
  \A b \in Bridges :
    Live(b) => file[<<ctx[b[1]], b[2]>>] \in {"absent", "dead", b[1]}

\* The host ports of a VM that was stopped, or dropped while it ran, come
\* free again, whatever later launches do, unless all workers are in the end
\* held by calls: stops, of this VM or of others, whose guests do not go, or
\* launches that hang.
PortsComeFree ==
  \A v \in Vms :
    <>[]WorkerFree(Proc[v]) =>
      (handle[v] = "stopped" \/ told[v] ~> \A b \in BridgesOf(v) : ~Live(b))

\* launch "3. Starts vsock bridges" (src/src/vm.rs:238): the holder of a
\* running guest has its bridges, at least where nobody else uses the ports,
\* every earlier launch having been stopped successfully.  It does not: stop
\* does not wait for the bridges, and the next launch meets their listeners.
RelaunchIsServed ==
  \A v \in Vms :
    /\ handle[v] = "held" /\ guest[v] = "running" /\ ~stopping[v]
    /\ \A w \in Vms \ {v} : handle[w] \in {"none", "stopped"}
    => \A b \in BridgesOf(v) : task[b] # "ended"
=============================================================================
