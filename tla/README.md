# A verification project for tateru

tateru is a Rust library that launches micro-VMs through libkrun (or, as a
scaffold, Apple's Virtualization.framework) and forwards host TCP ports to vsock
ports of the guest. This directory models it in TLA+, checks the models with TLC
and proves the central safety properties with TLAPS. Paths below are relative to
the repository; the crate's sources are `src/*.rs` there (`src/src/*.rs` in
`PROJECT.json`).

## 1. The system

| Component | State | Operations | Modelled in |
|---|---|---|---|
| `VmBuilder` (vm.rs), `TateruConfig` (config.rs), newtypes (types.rs, devices.rs) | the fields of the builder | setters by value, `into_builder`, `validate` | `Builder`, `Memory` |
| the trait `VmControl` (vm.rs 80-89) and its mock (vm.rs 445-505) | running, the result of `stop` | `is_running`, `stop` | `VmControl`, `MockVmControl` |
| `launch_with_spawner` (vm.rs) over `VmEngine` (engine.rs, ffi.rs, vz/engine.rs) | libkrun's contexts, work directory, socket files | 11 steps, any of which may fail and none of which is undone | `Builder` + `Engine` (what reaches the engine), `Launch` (files) |
| `VmHandle` (vm.rs), `EventfdShutdown` (shutdown.rs) | `running`, `JoinHandle`, eventfd, watch `Sender`, work directory | `is_running`, `stop`, `Drop` | `VmHandle`, `CancelGroup` |
| VM thread (vm.rs 334-347) | inside `start_enter`, then the store of `running` | returns, panics | `VmHandle`, `Launch` |
| Bridge tasks (bridge.rs 47-102) | listener, `Receiver` | bind, accept, observe the signal | `VmHandle` |
| Connection tasks (bridge.rs 104-133) | two streams, two copies, `Receiver` | connect, copy, observe the signal | `VmHandle` (life), `Relay`, `Duplex` (data) |
| launches that follow each other on the same host ports | what the earlier one leaves: listeners, files, context ids | all of the above | `Service` |
| VZ configuration (vz/configuration.rs) | none: a function of the engine's context | `build_configuration` | `VzConfiguration` |
| tokio's watch channel (external) | value, version, `Sender` alive | send, clone, changed, drop | `Watch` |
| counting test doubles, errors, build files | - | - | not modelled, see section 8 |

How they interact. The builder drives the engine and then moves it to the VM
thread. Handle and thread share the atomic `running`; handle and tasks share a
watch channel; handle and guest share the eventfd and the directory of the Unix
sockets; launches that come after each other, or run in other processes, share
the temporary directory. Nothing takes a lock, so what is hard is order: the
signal against an accept that is under way, an exit of the guest against a stop
or a drop, a crash against the files it leaves. The list of hazards in
`PROJECT.json` names each at its line, with the properties aimed at it.

What makes each component correct: the builder hands on exactly what was asked
for, validated; a launch meets no rest of an earlier one; `stop` and `is_running`
tell the truth about the VM thread, under every interleaving, failure and panic;
the stop signal reaches every task; a task does not outlive what it serves; a
relayed stream ends complete or for a reason, and is delivered in order until then.

## 2. The modules

`VmHandle` is the core. Three kinds of actor interleave, and one action is one
step between two points at which the others may run (an await, a blocking call,
an atomic access):

- the owner of the handle, `call`: `SpawnBridge`, `SpawnThread` or
  `SpawnThreadFails` (launch, steps 10 and 11); `StopCall`, `StopTrigger`,
  `StopSend`, `StopJoin`, `StopFinish` (the lines of `stop` in their order, with
  its three early returns); `DropCall`, `DropTrigger`, `DropSend`, `DropClean`,
  `DropFields` (the last one is the drop of the fields, which closes the channel);
- the VM thread, `vmThread`: `GuestExits`, `ThreadPanics`, `ThreadStores`;
- the tasks, `bridge` and `conn`, each with the channel version its `Receiver`
  has seen: `BridgeBind`, `BridgeAccept`, `AcceptFails`, `BridgeObserves`,
  `ConnConnect`, `ConnCopyEnds`, `ConnObserves`; and the clients, `ClientConnects`.

`Watch` holds the operators for the channel. Versions are modelled because they
decide the race of the design: a clone of a `Receiver` starts from what the
original has *seen*, so a connection accepted between the send and the bridge's
look at it still sees the signal. With a clone that starts from the current
version (`Mutant_Subscribe`) it would not.

`CancelGroup` is the abstract specification of the tasks: a group that is
cancelled once and drains. It has neither channel nor sockets. `VmHandle`
implements it with `live <- LiveTasks, cancelled <- chan.value`.

`VmControl` is the abstract specification of the handle as its owner sees it: what
the trait of that name promises. The VM runs until it exits or is stopped, and never
again; a `stop` is refused if the VM does not run, and otherwise takes time and then
fails or has stopped it. Two modules implement it: `VmHandle`, with `stopping <-`
"the call is in a step of `stop`", and `MockVmControl`, the handle that users of the
library test against. Of the mock this is true as far as its own calls go: its flag is a
public atomic, and a test that stores TRUE in it after a `stop` gets a VM that comes back
to life (`Revives`), which no real handle does.

`VmHandle` has a variable `soleWorker` for the flavour of the runtime: when the
owner's calls run on the only worker, no task moves while `launch` (which has no await
after its first spawn), `stop` or `drop` is under way (`Polled`).

`Launch` follows the files: each launch goes through `Pipeline`, may fail at each
step, and its guest binds its sockets at some time after the spawn (`Enter`).
Context ids come from a counter of the process that starts again with the process
(`Crash`); work directories are named after them.

`Service` composes `Launch` with the bridge tasks and the calls of the handle that
signal them: every action of `Launch` is conjoined with what it does to the flag, the
channel and the tasks. Bridges compete for host ports, outlive their launch, and dial
the path they were given. Where `VmHandle` looks at one handle step by step, here a
call of `stop` is two steps, and the subject is what one launch leaves to the next.
Calls and tasks compete for the workers of the runtime: `launch`, which has no await, and
`stop`, which blocks in `join`, each hold one until they are over, and a task is polled,
or another call begins, only where one is left (`WorkerFree`).

`Relay` opens a connection task up: what the peers have sent, what the copies have
read and written, half-closed streams, resets, the signal and sinks that stall. A task
that returns drops both writers, and a dropped writer is shut down like one that is shut
down by hand: both sinks see an end of the stream and cannot tell why (`Returns`).

`Duplex` is the abstract specification of a connection as its two peers see it, without
copies, buffers or a task: two streams in order that end together, because one of them is
complete, a peer has reset or the handle has signalled. `Relay` implements it with
`delivered <- written` and the phases of the task.

`Memory` is `MemoryMib`: `parse`, `new` and `Display` in the arithmetic of a u32.

`Builder` has one action per setter, `IntoBuilder` for the configuration file, and
launch as stages of calls on an engine. `Engine` says, for libkrun, the mock and
VZ, which method may fail and what it leaves in the context, after a failure as well
(the mock records the call that it then fails, and a repeated call twice). A raw port has
any path of the caller's, from the constant `HostSockets`, which in the runs includes the
path that a bridge gets. `Builder` uses `Memory` for the memory
setter, and `VzConfiguration` for the machine that `build_configuration` would make of
what a launch has left in `VzEngine`.

`MC...` modules only define constants. Operators named
`Mutant_...` are plausible bugs in the definition they precede; no model uses them,
and each shows that a property can fail.

## 3. The runs

| Run | Instance | Shows |
|---|---|---|
| `vm_handle` | 2 bridges, 2 connections of one of them, with and without a second worker, fair | `NoSignalLost`, `StopOkMeansStopped`, `NotRunningMeansDead`, `RestingGuestIsServed`, `SignalledAtMostTwice`, the inductive `IInv`, `GroupSpec`, `ControlSpec`, `GroupDrains`, `StopReturns`, `ConnsEndWithHandle` |
| `vm_orphans` | bridges only, fair | `BridgesEndWithHandle` is violated (finding 1) |
| `vm_panic` | bridges only, fair | `DeathIsReported` is violated (finding 2) |
| `launch_restart` | 1 process, 3 launches, 2 ports | `NoStaleBind`, `StartFindsDirectory`, `HeldGuestIsReachable`, `OnlyStaleIsRemoved`, the inductive `IInv` |
| `launch_two` | 2 processes | `OnlyStaleIsRemoved` is violated (finding 3) |
| `relay` | 3 units per direction, a buffer of 2, fair | `EndHasAReason`, `SignalEndsRelay`, `DuplexSpec`, the inductive `IInv` |
| `relay_halfclose` | 1 unit per direction, a buffer of 1 | `BothDirectionsDelivered` is violated (finding 4) |
| `builder` | 4 list entries, u8 of 3 values, u32 of 8, 2 MiB to a GiB, 7 memory texts, 3 guest ports, 2 paths of raw ports (one a bridge's), 2 interchangeable disks, 3 engines | `OnlyValidValues`, `StartedAsBuilt`, `EngineSawPrefix`, `VzStateBuilds`, `SizeRoundTrips`, `TextParsesExactly`, `BridgeReachesItsPort`, the inductive `IInv` |
| `builder_serde` | 2 entries, 1 disk, newtypes from serde | `OnlyValidValues` is violated (finding 5) |
| `vz_unrecorded` | the same without serde | `OkMeansRecorded` is violated (finding 6) |
| `service` | 1 process, 2 launches on the same 2 ports, overlapping or not, 1 to 3 workers, fair | `RoutesToOwnGuest`, `PortsComeFree` |
| `service_relaunch` | the same, one handle at a time | `RelaunchIsServed` is violated (finding 7) |

Why the bounds are enough. Bridges of one handle do not interact, and neither do
connections of different bridges: two bridges give one that has observed the signal
beside one that has not and one without connections, two connections of the other give
one accepted before the signal beside one accepted after it. The channel's version
needs no bound: it reaches 2 at most (`SignalledAtMostTwice`, proved for any number of
calls). Connections come back after they have closed, so any number of accepts is
covered. Three launches of a process allow a rest of a rest: an old launch, one that
fails half-way over its files, and one that starts. In `Service` two launches are
enough for a predecessor and a successor, and a crash between them lets the second
reuse the context id and the paths of the first; two ports allow one bridge to get its
port and the other not, and workers from one to three are fewer than, as many as and more
than the calls that can hold one. In `Relay` three units against a buffer of two give a full
buffer, a partly written one and an empty one. In `Builder` four entries give two
bridges on one guest port next to a disk and a raw port, on a path of its own or on that
of a bridge to the same or to another port, or two disks in an order; the
bound counts all lists together. A GiB divides the width as in the code; the texts are
one on each side of each boundary (the largest size, the first that does not fit, one
that would wrap to a valid size, zero, one beyond a u32, no number), and the proofs
cover 2^32 and every text.

All runs switch off deadlock checking, since calls end: a dropped handle whose
tasks have ended, a failed launch, an ended connection do nothing more.

## 4. Fairness

`FairSpec` of `VmHandle` and of `Relay` assumes weak fairness of what the program
and the tokio runtime do by themselves: a `stop` or `drop` that has begun takes its
next step, the VM thread leaves its closure once `start_enter` has returned, a task
whose future is ready is polled. `select!` polls its branches in random order, so
that a branch that stays ready is taken. Nothing is assumed of the guest (it may run
for ever), of the clients and peers, of sinks, or of the caller between two calls,
who may never stop or drop. `ConnConnect` is fair because connecting to a Unix
socket fails or succeeds at once.

`soleWorker` is chosen at the start and never changes. With it, the fairness of a task
says something only while its action is enabled, that is, while no call of the owner is
under way; `StopReturns` holds all the same, because `stop` waits for the VM thread and
for no task. `GroupDrains` needs that the worker is given back to the tasks for good
(`<>[]Polled`): while `stop` blocks in `join` on the only worker, what it has signalled
waits until the guest has gone.

`FairServiceSpec` of `Service` assumes only that the runtime polls a bridge task whenever
it has a worker for it: `Bind` and `BridgeEnds` are weakly fair, and disabled while calls
hold all workers of the process. Callers, VM threads, guests and crashes are free, so that
a `stop` may block for ever. `PortsComeFree` therefore needs `<>[]WorkerFree`, that from
some time on a worker is left; without it TLC finds the `stop` of one VM that keeps, on
the only worker, the tasks it has told to end. A worker that the owners keep for their
calls, a thread of their own among them, is one more than the calls can hold: `workers`
goes up to that number.

## 5. What is proved

`VmHandle_proofs` proves, for every set of bridges and of connections and every
assignment of connections to bridges:

- `TypeCorrect`, `Invariant`: `[]TypeOK` and `[]IInv`;
- `SignalIsNeverLost`, `StopIsComplete`, `NotRunningIsSound`,
  `RestingGuestKeepsService`, `SendsAreBounded`: the five safety properties;
- `ImplementsGroup`: `Spec => GroupSpec`, the refinement of `CancelGroup`;
- `ImplementsControl`: `Spec => ControlSpec`, the refinement of `VmControl`.

`MockVmControl_proofs` proves how far the mock is the same, for every width of its counter
and whatever a test stores in the three atomics between its calls: `OnlyTheTestRevives`,
that each step is one of `VmControl`, or not seen by the owner, or a store that revives a
mock that is over; and `MockImplementsControl`, the refinement for a test that does not do
this (`NeverRevives`). Without the hypothesis the refinement is false. The mock has no run of its own: its state graph is a few
dozen states, and the theorem says more.

The assumptions are the two in `VmHandle`: `Target` is a function from connections to
bridges, and bridges are not connections.

The argument. None of the five is inductive. `NoSignalLost` needs that a live task
has seen version 0 and the value is true exactly when something was sent
(`SignalInv`): a task that sees a send ends in that step, and a clone copies the
version of a bridge that has not ended. `StopOkMeansStopped` needs that the
`JoinHandle` is given up for a dead thread only (`JoinInv`), since a second `stop`
after a panic joins nothing and still returns Ok. `RestingGuestIsServed` needs that
the steps which take something from the guest come after the join (`ServedInv`).
`SignalledAtMostTwice` needs that each send uses up the `JoinHandle` or the running
flag (`SendsInv`). `LaunchInv` ties the phases of the launch to the thread. `IInv` is
their conjunction; `InductiveInit` and `InductiveStep` prove it, the latter with one
step per action. The refinement shows for each action which step of the group it
is, or that it stutters; `LaunchInv` is what forbids a bridge to start after the
cancellation. That `VmHandle` implements `VmControl` goes the
same way, with type correctness alone: the store of the VM thread is `Exit`, the lines of
`stop` that return are `Refuse`, `Fail` or `Succeed`, and all else is unseen by the owner.

`Launch_proofs` proves, for any number of launches, over any ports and with any
crashes and restarts: `TypeCorrect` for any number of processes, and for the launches of
one process (the hypothesis `SingleProcess`) `Invariant`, `NoStartMeetsAFile`,
`StartsFindTheirDirectory`, `HeldGuestsAreReachable` and the action property
`OnlyStaleFilesGo`. With two processes the last is false (finding 3), so that the
hypothesis is not a convenience: it is the condition under which the names of work
directories are unique. Assumed are, of the constants, that launches are finitely many
(`VmsAssumption`: `nextCtx` is bounded by their number), that the ports of a builder
differ (`PortsAssumption`) and that ports, launches, steps and the states of a file have
different names (`NamesAssumption`, an artefact of keeping them in one set).

The argument: context ids are unique among the launches of one life of a process
(`CtxInv`, by counting the launches that have got one), so that two launches share paths
only across a crash; a guest exists only after the whole pipeline (`GuestInv`), a listener
only while its guest runs, in the directory of its context (`FileInv`). Therefore nobody
binds a path between the step that unlinks it and the bind of its own guest (`ClearInv`),
and nobody but its handle removes the directory (`DirInv`). `NoStaleBind`,
`StartFindsDirectory` and `HeldGuestIsReachable` follow step by step, and are part of the
induction.

`Service_proofs` proves `ServiceImplementsLaunch`: a behaviour of the composition is one
of `Launch`, each action of `Service` being a step of a launch or a stutter, so that the
theorems above hold of `Service` too. From them and from one more invariant, that a task
lives only where its launch has a context and keeps the path of that context (`LiveInv`),
follows `RoutingIsOwn`, the routing property of bridges that outlive their launch, for
launches of one process.

`Relay_proofs` proves, for streams of any length and every buffer, `EveryEndHasAReason`
and `ImplementsDuplex` (`Spec => DuplexSpec`). `IInv` has the counters in their order,
written, read and sent, and ties the recorded cause of the end to a reason that is there:
the copy of that direction is complete or broken, or the signal was sent. That is what
`Close` of `Duplex` asks for; a write is a `Deliver` because what was read had been sent.

`Memory_proofs` proves, for every width and every GiB greater than 1: `ShowParse`
(`parse` reads back what `Display` shows, for every size), `ParseIsExact` (`parse`
gives the size that a text names, or an error; nothing wraps) and `BytesAreExact` (the
bytes of a size do not wrap in twice the width, given `WidthAssumption`, that the bytes
of a MiB are no more than the width: 2^20 and 2^32). Here the bounded run becomes a
statement about 2^32 and 1024.

`Builder_proofs` proves, for lists of any length, any ports and the three engines:
`TypeCorrect`, `Invariant`, `CallsAreAPrefix`, `EntersAsBuilt`, `TextsParseExactly`,
`VzBuildsWhatWasAsked` and `BridgesReachTheirPorts`; and, where no value came from serde
(`~Deserializes`; finding 5 shows the opposite), `ValuesAreValid` and
`BuiltSizesRoundTrip`. The argument: `EngineSawPrefix` says of each setting what the
context holds, as a function of the stage and of the items tried in it. A call adds the
same item to both sides (`PassesOne`; for `add_vsock_port` this is the associativity of
concatenation, since raw ports and bridges are two stages of one setting), and the next
stage changes neither (`NextStagePassesNothing`). That needs that the number of items
tried is within the stage (`StageInv`, which also says that VZ never gets past the call
it refuses) and that nothing was called before launch (`CallInv`); `ConfigsInv` does the
same for the configurations of the bridges. `BridgesReachTheirPorts` says of the path a
bridge dials that it is registered for its port, and that any other registration of it is
one of the caller's raw ports: two bridges share a path only if they share the port. The
other theorems read the invariant at the
end of the stages.

Only model-checked: all liveness (`GroupDrains`, `StopReturns`, `ConnsEndWithHandle`,
`SignalEndsRelay`, `PortsComeFree`), which TLAPS does not do under fairness. Every
invariant and every safety property of a passing run is stated by a theorem; what the
violated runs show is by nature a matter of TLC's.

## 6. Findings

1. Bridges outlive the handle (`vm_orphans`). If the guest exits before the drop,
   `Drop` (vm.rs 428) sees `running = false` and sends nothing; the bridge loop
   ignores the error that `changed()` then returns for ever, and spins with its port
   bound. Nothing the owner can call ends it: `stop` answers `NotRunning`.
2. A panic of the VM thread leaves `is_running()` true (`vm_panic`; vm.rs 340, 400). A
   second `stop` repairs it, and only that.
3. Work directories are not unique across processes (`launch_two`; vm.rs 285): a
   launch of a second process unlinks the live sockets of the first one's guest.
4. A half-closed connection loses the answer (`relay_halfclose`; bridge.rs 114): the
   peer that has shut down its writing half may be the client or the guest.
5. `Deserialize` bypasses `new()` (`builder_serde`; types.rs 35): a VM is configured
   with 0 MiB of memory, 0 vCPUs or port 0 although each type is "validated on
   construction". Which zero TLC shows first depends on the
   order of its workers.
6. `VzEngine` answers Ok to two settings it drops (`vz_unrecorded`;
   vz/engine.rs 150, 155), against the module's own comment.
7. A service that stops its VM and launches again on the same host ports may lose its
   bridges (`service_relaunch`; vm.rs 389, bridge.rs 61). `stop` joins the VM thread but
   not the bridges it has signalled; a listener that is still bound makes the bind of
   the next launch fail, which is logged and nothing else, and that launch returns Ok.

Smaller things met on the way, which no run is about: a raw port may be given the path of
a bridge (vm.rs 281, 290), which is then registered for two guest ports; a launch whose VM
thread cannot be created leaves bridge tasks that nobody can end (vm.rs 347); a sink cannot tell a stream that a
signal has cut from one that is complete, since a dropped writer sends the same end; `MockVmControl::stop_count` counts
the calls that were not refused, not all calls as its comment says (vm.rs 453, 495);
vz/engine.rs 4 names `TateruError::Unsupported`, which does not exist; and
vz/configuration.rs 11 says that each field of the context maps to one configuration
node, where only the CPUs, the memory and the disks do so far.

## 7. Abstractions and what they leave out

- `start_enter` may return at any time; ffi.rs says that it returns only on error,
  the VM handle is written for both. That the eventfd makes the guest go is
  libkrun's promise and not assumed: `StopReturns` is conditional on the thread.
- `Launch` models libkrun's `bind` from the comment at ffi.rs 144-163: it needs the
  directory and refuses a path that exists. Raw sockets of `VmBuilder::vsock` may be at
  any path; `Launch` takes them to be outside the work directories and does not track
  them, and what is registered on which path is in `Builder`. Ports are distinct
  (`PortsAssumption`); the builder does not check it, and what libkrun does with two
  registrations of one path is not visible here.
- `Service` leaves a failing trigger and a panicking VM thread to `VmHandle`, and
  connections to `VmHandle` and `Relay`. A host port there has one process: competition
  of two processes for a TCP port has the outcome of a failed bind.
- In `VzConfiguration` whether an image can be attached is an input, any subset of the
  disks; the read-only flag is part of a disk's identity.
- A channel value of `Watch` has no count of receivers: the set of live tasks stands
  for it, because each owns exactly one.
- Shutdown of the tokio runtime, which would kill the tasks, is not modelled.
- `Relay` counts the units of a direction, so that their order within it holds by
  construction: `copy` reads and writes one stream in sequence.
- In `Builder` a disk, a mount and a string have only an identity; Rust's moves are
  the end of the `building` phase.

## 8. Not modelled

`MockShutdown` and `MockBridgeSpawner` are counters for unit tests. error.rs and lib.rs
are data and re-exports; build.rs, Cargo.toml and the flake have no run-time behaviour.
`set_log_level` and `check_nested_virt` are not called by a launch. The bytes of paths,
tags and log lines, the YAML syntax of the configuration file (serde's), and what libkrun
does inside `krun_start_enter` are outside: the latter is modelled from how ffi.rs and
vm.rs use it. Raw vsock sockets of the caller's are in `Builder` (which port and path
reach the engine) and not in `Launch` (files).

## 9. Plan

Written in this order: `Watch`, `CancelGroup`, `VmHandle` and its proofs; `Launch`;
`Relay`; `Memory` and its proofs; `Engine`, `Builder`; then `VmControl` with its two
implementations and their proofs, the runtime's flavour in `VmHandle`, `Service`, and
`VzConfiguration`; then the proofs about `Launch`, `Service`, `Relay`, `Builder` and
`Bytes`. What is left:

1. what a second process may rely on: which of the properties of `Launch` hold of each
   process by itself when their work directories differ, as a condition on names instead
   of `SingleProcess`;
2. the safety half of the drains: that no step of `VmHandle` undoes progress towards the
   end of the tasks, so that only fairness is left to TLC.
