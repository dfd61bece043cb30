--------------------------- MODULE VzConfiguration ---------------------------
(***************************************************************************)
(* build_configuration of src/src/vz/configuration.rs: what the framework  *)
(* will be given for a context of VzEngine (Engine), or an error.  Nothing *)
(* calls it yet: get_shutdown_eventfd of VzEngine fails before start_enter *)
(* could.                                                                  *)
(***************************************************************************)
EXTENDS Engine, Memory, Functions

\* The checks in their order: vcpus and memory are set together, a disk is
\* required, and each image must be one that the framework can attach.  What
\* else the context holds has no part in a configuration.
Buildable(context, attachable) ==
  /\ context["set_vm_config"] # <<>>
  /\ context["add_disk"] # <<>>
  /\ Range(context["add_disk"]) \subseteq attachable

\* One storage device for each disk, in the order of the calls.
Build(context, attachable) ==
  IF Buildable(context, attachable)
    THEN <<[cpus    |-> context["set_vm_config"][1].vcpus,
            bytes   |-> Bytes(context["set_vm_config"][1].memory),
            boot    |-> "EFI",
            storage |-> context["add_disk"]]>>
    ELSE <<>>
=============================================================================
