------------------------------- MODULE Engine -------------------------------
(***************************************************************************)
(* The VmEngine trait and its three implementations: src/src/engine.rs     *)
(* (LibkrunEngine over src/src/ffi.rs, MockEngine) and src/src/vz/         *)
(* engine.rs (VzEngine), as operators on the state of one context.         *)
(*                                                                         *)
(* A context is what the engine has kept of the calls made on it: the      *)
(* state inside libkrun, the calls MockEngine has recorded, the VzCtxState *)
(* of VzEngine.                                                            *)
(***************************************************************************)
EXTENDS Sequences

Engines == {"libkrun", "mock", "vz"}

\* The calls that put something into a context.
Settings == {"set_vm_config", "add_disk", "add_virtiofs", "add_vsock_port",
             "set_console_output", "set_smbios_oem_strings",
             "set_nested_virt"}

Operations == Settings \union {"create_ctx", "get_shutdown_eventfd",
                               "start_enter"}

\* Any function of libkrun may return a negative code, and MockEngine can be
\* told to fail in five of its methods.
LibkrunFails == Operations
MockFails == {"create_ctx", "set_vm_config", "add_disk",
              "get_shutdown_eventfd", "start_enter"}

\* VzEngine always fails in two.  It knows the contexts it has created, so
\* that a launch, with the one it got from create_ctx, sees no other error.
VzFails == {"get_shutdown_eventfd", "start_enter"}

CanFail(engine) ==
  CASE engine = "libkrun" -> LibkrunFails
    [] engine = "mock" -> MockFails
    [] engine = "vz" -> VzFails

CanSucceed(engine) ==
  IF engine = "vz" THEN Operations \ VzFails ELSE Operations

\* What reaches the context: VzEngine accepts the last two and drops them.
Keeps(engine) ==
  IF engine = "vz"
    THEN Settings \ {"set_smbios_oem_strings", "set_nested_virt"}
    ELSE Settings

NewContext == [op \in Settings |-> <<>>]

\* Not part of the model: a plausible bug in Apply.
Mutant_Overwrites(engine, context, op, arg) ==
  IF op \in Keeps(engine)
    THEN [context EXCEPT ![op] = <<arg>>]
    ELSE context

\* Devices are pushed to a list; a size, a console or a flag is replaced,
\* but the log of MockEngine has every call.
Devices == {"add_disk", "add_virtiofs", "add_vsock_port"}

\* The context after a call that returned Ok.
Apply(engine, context, op, arg) ==
  IF op \in Keeps(engine)
    THEN [context EXCEPT ![op] =
            IF op \in Devices \/ engine = "mock"
              THEN Append(@, arg) ELSE <<arg>>]
    ELSE context

\* The context after a call that returned Err.  MockEngine writes a call to
\* its log before it looks whether it has been told to fail; of the others
\* nothing is left of such a call.
AfterFailure(engine, context, op, arg) ==
  IF engine = "mock" THEN Apply(engine, context, op, arg) ELSE context
=============================================================================
