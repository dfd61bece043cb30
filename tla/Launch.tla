------------------------------- MODULE Launch -------------------------------
(***************************************************************************)
(* Launches that share one temporary directory: src/src/vm.rs              *)
(* (launch_with_spawner, stop, Drop) and src/src/ffi.rs (add_vsock_port,   *)
(* start_enter), over the socket files they create, unlink and bind.       *)
(*                                                                         *)
(* The work directory of a VM is named after its libkrun context, and the  *)
(* context ids of a process start again from 0 when it restarts, so that a *)
(* launch meets what an earlier one left behind.  A launch is a pipeline   *)
(* of calls any of which may fail; start_enter then runs on its own thread *)
(* and binds the sockets at a time of its choosing.                        *)
(*                                                                         *)
(* Sockets of VmBuilder::vsock are taken to lie outside the work           *)
(* directories, which the code does not check, and their files are not     *)
(* tracked; Builder has what is registered on which path.                  *)
(***************************************************************************)
EXTENDS Naturals, Sequences, Functions, FiniteSets

CONSTANTS Procs,   \* processes that use the library
          Vms,     \* launches, each called once
          Proc,    \* the process that calls each launch
          Ports    \* the guest ports of the builder's bridges, in order

ASSUME ProcAssumption == Proc \in [Vms -> Procs]
\* The builder does not check that the ports differ; no caller repeats one.
ASSUME PortsAssumption == Ports \in Seq(Range(Ports)) /\ IsInjective(Ports)
\* Launches are finitely many, and nothing has the name of something else.
ASSUME VmsAssumption == IsFiniteSet(Vms)
ASSUME NamesAssumption ==
  /\ Range(Ports) \intersect
       {"create_ctx", "devices", "create_dir", "options", "spawn"} = {}
  /\ Vms \intersect {"absent", "dead"} = {}

VARIABLES
  handle,    \* how far the call, or the handle it returned, has come
  step,      \* the next step of the pipeline
  ctx,       \* the context of each launch
  nextCtx,   \* libkrun's next context id in each process
  guest,     \* the VM thread of each launch
  startErr,  \* why start_enter could not bind
  dirs,      \* the contexts whose work directory exists
  file       \* the socket files, with the launch that listens behind them

callVars == <<handle, step>>
ctxVars == <<ctx, nextCtx>>
guestVars == <<guest, startErr>>
fileVars == <<dirs, file>>
vars == <<callVars, ctxVars, guestVars, fileVars>>

\* Devices (steps 2 and 3 of launch) and options (5 to 8) touch no file.
Pipeline == <<"create_ctx", "devices", "create_dir">> \o Ports
              \o <<"options", "spawn">>

CtxIds == 0 .. Cardinality(Vms) - 1
Paths == CtxIds \X Range(Ports)

Handles == {"none", "launching", "failed", "held", "stopped", "released",
            "crashed"}

SocketsOf(v) == {ctx[v]} \X Range(Ports)

Init ==
  /\ handle = [v \in Vms |-> "none"]
  /\ step = [v \in Vms |-> 1]
  /\ ctx = [v \in Vms |-> 0]
  /\ nextCtx = [p \in Procs |-> 0]
  /\ guest = [v \in Vms |-> "none"]
  /\ startErr = [v \in Vms |-> "none"]
  /\ dirs = {}
  /\ file = [q \in Paths |-> "absent"]

At(v, s) == handle[v] = "launching" /\ Pipeline[step[v]] = s

Advance(v) ==
  /\ step' = [step EXCEPT ![v] = @ + 1]
  /\ UNCHANGED handle

-----------------------------------------------------------------------------
(* launch_with_spawner.  An operator named Mutant_... is not part of the   *)
(* model: it is a plausible bug in the definition it precedes.             *)

Call(v) ==
  /\ handle[v] = "none"
  /\ handle' = [handle EXCEPT ![v] = "launching"]
  /\ UNCHANGED <<step, ctxVars, guestVars, fileVars>>

Mutant_ReusesCtx(v) ==
  /\ At(v, "create_ctx")
  /\ ctx' = [ctx EXCEPT ![v] = nextCtx[Proc[v]]]
  /\ Advance(v)
  /\ UNCHANGED <<nextCtx, guestVars, fileVars>>

CreateCtx(v) ==
  /\ At(v, "create_ctx")
  /\ ctx' = [ctx EXCEPT ![v] = nextCtx[Proc[v]]]
  /\ nextCtx' = [nextCtx EXCEPT ![Proc[v]] = @ + 1]
  /\ Advance(v)
  /\ UNCHANGED <<guestVars, fileVars>>

Configure(v) ==
  /\ At(v, "devices") \/ At(v, "options")
  /\ Advance(v)
  /\ UNCHANGED <<ctxVars, guestVars, fileVars>>

Mutant_NoDir(v) ==
  /\ At(v, "create_dir")
  /\ Advance(v)
  /\ UNCHANGED <<ctxVars, guestVars, fileVars>>

\* create_dir_all accepts a directory that is there already.
CreateDir(v) ==
  /\ At(v, "create_dir")
  /\ dirs' = dirs \union {ctx[v]}
  /\ Advance(v)
  /\ UNCHANGED <<ctxVars, guestVars, file>>

Mutant_KeepFile(q) == UNCHANGED file

\* remove_file; that there is none is no error.
Unlink(q) == file' = [file EXCEPT ![q] = "absent"]

\* The socket is only registered: libkrun binds it in start_enter.
AddVsockPort(v) ==
  \E port \in Range(Ports) :
    /\ At(v, port)
    /\ Unlink(<<ctx[v], port>>)
    /\ Advance(v)
    /\ UNCHANGED <<ctxVars, guestVars, dirs>>

Mutant_SpawnAdvances(v) ==
  /\ At(v, "spawn")
  /\ Advance(v)
  /\ guest' = [guest EXCEPT ![v] = "entering"]
  /\ UNCHANGED <<ctxVars, startErr, fileVars>>

\* The VM thread exists: launch returns the handle.
SpawnThread(v) ==
  /\ At(v, "spawn")
  /\ handle' = [handle EXCEPT ![v] = "held"]
  /\ guest' = [guest EXCEPT ![v] = "entering"]
  /\ UNCHANGED <<step, ctxVars, startErr, fileVars>>

\* Any step may fail, add_vsock_port before or after its unlink.  launch
\* returns the error and undoes nothing.
LaunchFails(v) ==
  /\ handle[v] = "launching"
  /\ handle' = [handle EXCEPT ![v] = "failed"]
  /\ \/ UNCHANGED file
     \/ \E port \in Range(Ports) : At(v, port) /\ Unlink(<<ctx[v], port>>)
  /\ UNCHANGED <<step, ctxVars, guestVars, dirs>>

-----------------------------------------------------------------------------
(* The VM thread, inside start_enter.                                      *)

\* bind needs the directory and refuses a path that exists.  A start that
\* fails half-way leaves the sockets it has bound, with nobody behind them.
Enter(v) ==
  /\ guest[v] = "entering"
  /\ IF ctx[v] \in dirs \/ Ports = <<>>
       THEN LET free == {q \in SocketsOf(v) : file[q] = "absent"} IN
            IF free = SocketsOf(v)
              THEN /\ file' = [q \in Paths |-> IF q \in free THEN v ELSE file[q]]
                   /\ guest' = [guest EXCEPT ![v] = "running"]
                   /\ UNCHANGED startErr
              ELSE /\ \E left \in SUBSET free :
                        file' = [q \in Paths |->
                                   IF q \in left THEN "dead" ELSE file[q]]
                   /\ guest' = [guest EXCEPT ![v] = "ended"]
                   /\ startErr' = [startErr EXCEPT ![v] = "EEXIST"]
       ELSE /\ guest' = [guest EXCEPT ![v] = "ended"]
            /\ startErr' = [startErr EXCEPT ![v] = "ENOENT"]
            /\ UNCHANGED file
  /\ UNCHANGED <<callVars, ctxVars, dirs>>

\* Closing a listening socket leaves its file.
Orphaned(S) == [q \in Paths |-> IF file[q] \in S THEN "dead" ELSE file[q]]

\* start_enter returns, before the guest runs or after.
GuestEnds(v) ==
  /\ guest[v] \in {"entering", "running"}
  /\ guest' = [guest EXCEPT ![v] = "ended"]
  /\ file' = Orphaned({v})
  /\ UNCHANGED <<callVars, ctxVars, startErr, dirs>>

-----------------------------------------------------------------------------
(* The end of a handle, and of a process.                                  *)

\* remove_dir_all, whose error nobody looks at.
RemoveWorkdir(v) ==
  \/ UNCHANGED fileVars
  \/ /\ dirs' = dirs \ {ctx[v]}
     /\ file' = [q \in Paths |-> IF q[1] = ctx[v] THEN "absent" ELSE file[q]]

Mutant_StopWithoutJoin(v) ==
  /\ handle[v] = "held"
  /\ RemoveWorkdir(v)
  /\ handle' = [handle EXCEPT ![v] = "stopped"]
  /\ UNCHANGED <<step, ctxVars, guestVars>>

\* The end of stop, which has waited for the VM thread.
Stop(v) ==
  /\ handle[v] = "held"
  /\ guest[v] = "ended"
  /\ RemoveWorkdir(v)
  /\ handle' = [handle EXCEPT ![v] = "stopped"]
  /\ UNCHANGED <<step, ctxVars, guestVars>>

\* Drop waits for nothing.
Drop(v) ==
  /\ handle[v] \in {"held", "stopped"}
  /\ RemoveWorkdir(v)
  /\ handle' = [handle EXCEPT ![v] = "released"]
  /\ UNCHANGED <<step, ctxVars, guestVars>>

\* The process dies, its guests with it, and is started again.
Crash(p) ==
  LET mine == {v \in Vms : Proc[v] = p /\ handle[v] # "none"} IN
  /\ mine # {}
  /\ handle' = [v \in Vms |-> IF v \in mine THEN "crashed" ELSE handle[v]]
  /\ guest' = [v \in Vms |->
                 IF v \in mine /\ guest[v] # "none" THEN "ended" ELSE guest[v]]
  /\ file' = Orphaned(mine)
  /\ nextCtx' = [nextCtx EXCEPT ![p] = 0]
  /\ UNCHANGED <<step, ctx, startErr, dirs>>

-----------------------------------------------------------------------------
LaunchStep(v) ==
  CreateCtx(v) \/ Configure(v) \/ CreateDir(v) \/ AddVsockPort(v)
    \/ SpawnThread(v)

Next ==
  \/ \E v \in Vms :
       \/ Call(v) \/ LaunchStep(v) \/ LaunchFails(v)
       \/ Enter(v) \/ GuestEnds(v)
       \/ Stop(v) \/ Drop(v)
  \/ \E p \in Procs : Crash(p)

Spec == Init /\ [][Next]_vars

-----------------------------------------------------------------------------
(* Properties.                                                             *)

TypeOK ==
  /\ handle \in [Vms -> Handles]
  /\ step \in [Vms -> 1 .. Len(Pipeline)]
  /\ ctx \in [Vms -> CtxIds]
  /\ nextCtx \in [Procs -> 0 .. Cardinality(Vms)]
  /\ guest \in [Vms -> {"none", "entering", "running", "ended"}]
  /\ startErr \in [Vms -> {"none", "EEXIST", "ENOENT"}]
  /\ dirs \subseteq CtxIds
  /\ file \in [Paths -> {"absent", "dead"} \union Vms]

\* What the comment at src/src/ffi.rs:159 promises of the unlink: however
\* earlier launches of a process ended (a crash, a failed launch, a drop
\* with the guest running), the files they left never stop a later start.
NoStaleBind == \A v \in Vms : startErr[v] # "EEXIST"

\* A start finds its directory unless its own handle was dropped meanwhile.
StartFindsDirectory ==
  \A v \in Vms : startErr[v] = "ENOENT" => handle[v] \notin {"launching", "held"}

\* Whoever holds the handle of a running guest can reach all its ports.
HeldGuestIsReachable ==
  \A v \in Vms :
    handle[v] = "held" /\ guest[v] = "running" =>
      \A q \in SocketsOf(v) : file[q] = v

\* "A stale file from a prior run" (src/src/ffi.rs:159) is all that is ever
\* removed: a socket with a guest behind it goes with that guest or by its
\* own handle.
OnlyStaleIsRemoved ==
  [][\A q \in Paths, v \in Vms :
       file[q] = v /\ file'[q] # v =>
         guest'[v] # "running" \/ handle'[v] = "released"]_vars
-----------------------------------------------------------------------------
(* The invariant behind these properties.  The first three parts hold for  *)
(* any number of processes, the others where the launches are of one.      *)

\* v has got a context, in a life of its process that has not ended.
Started(v) == handle[v] \notin {"none", "crashed"} /\ step[v] > 1

StartedIn(p) == {v \in Vms : Proc[v] = p /\ Started(v)}

\* libkrun numbers the contexts of a process in the order of their creation.
CtxInv ==
  /\ \A p \in Procs : nextCtx[p] <= Cardinality(StartedIn(p))
  /\ \A v \in Vms : Started(v) => ctx[v] < nextCtx[Proc[v]]
  /\ \A v, w \in Vms :
       Started(v) /\ Started(w) /\ Proc[v] = Proc[w] /\ ctx[v] = ctx[w] => v = w

\* A guest comes with the handle, after the last step of the pipeline.
GuestInv ==
  \A v \in Vms :
    /\ handle[v] = "none" => step[v] = 1
    /\ handle[v] \in {"none", "launching", "failed"} => guest[v] = "none"
    /\ handle[v] \in {"held", "stopped", "released"} => step[v] = Len(Pipeline)
    /\ handle[v] = "held" => guest[v] # "none"
    /\ handle[v] \in {"stopped", "crashed"} => guest[v] \in {"none", "ended"}
    /\ startErr[v] # "none" => guest[v] = "ended"

\* Who listens is running, in the directory of its context.
FileInv ==
  \A q \in Paths, v \in Vms :
    file[q] = v => guest[v] = "running" /\ q[1] = ctx[v]

\* The ports whose files v has unlinked.
Cleared(v) == {Pipeline[i] : i \in 1 .. step[v] - 1} \intersect Range(Ports)

\* What a launch has cleared stays clear until its guest binds.
ClearInv ==
  \A v \in Vms :
    handle[v] = "launching" \/ guest[v] = "entering" =>
      \A port \in Cleared(v) : file[<<ctx[v], port>>] = "absent"

\* The directory is there from its step to the end of the handle.
DirInv ==
  \A v \in Vms :
    handle[v] \in {"launching", "held"} /\ step[v] > 3 => ctx[v] \in dirs

\* Together they are inductive.
IInv ==
  /\ CtxInv /\ GuestInv /\ FileInv
  /\ ClearInv /\ DirInv
  /\ NoStaleBind /\ StartFindsDirectory /\ HeldGuestIsReachable
=============================================================================
