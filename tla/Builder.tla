------------------------------ MODULE Builder ------------------------------
(***************************************************************************)
(* VmBuilder of src/src/vm.rs: its setters, TateruConfig::into_builder of  *)
(* src/src/config.rs, and launch_with_spawner as the translation of a      *)
(* builder into calls of an engine and configurations of bridges.          *)
(*                                                                         *)
(* What launch does to files is the business of Launch, and what happens   *)
(* after it, of VmHandle.                                                  *)
(***************************************************************************)
EXTENDS VzConfiguration, SequencesExt

CONSTANTS Disks, Mounts,   \* disk images and host directories
          HostPorts,       \* host TCP ports of bridges
          GuestPorts,      \* guest ports, 0 among them
          U8,              \* how many values a u8 has: 256
          HostSockets,     \* paths that callers give to raw ports
          Inputs,          \* memory texts that callers use
          Deserializes,    \* callers have newtypes from serde's Deserialize
          MaxItems         \* bound: entries in the builder's lists together

ASSUME PortAssumption == GuestPorts \subseteq Nat /\ 0 \in GuestPorts
ASSUME U8Assumption == U8 \in Nat /\ 1 < U8 /\ U8 <= U32
ASSUME TextAssumption == Inputs \subseteq Texts
ASSUME SerdeAssumption == Deserializes \in BOOLEAN

VARIABLES
  engine,    \* the engine the builder owns
  call,      \* what the caller is executing
  builder,   \* the fields of VmBuilder
  stage,     \* how far launch has come in Stages
  done,      \* how many items of that stage it has passed on
  ctx,       \* the engine's context
  configs,   \* bridge_configs: what the bridge tasks will be given
  parsed     \* history: the text that the last setter has parsed

vars == <<engine, call, builder, stage, done, ctx, configs, parsed>>

\* An Option is a sequence of at most one element.
Opt(S) == {<<>>} \union {<<x>> : x \in S}

Empty == [vcpus |-> <<>>, memory |-> <<>>, disks |-> <<>>,
          virtiofs |-> <<>>, vsock |-> <<>>, bridges |-> <<>>,
          console |-> <<>>, oem |-> <<>>, nested |-> <<>>]

\* What new() lets through, for VcpuCount, MemoryMib and GuestPort alike;
\* the derived Deserialize of the three lets zero through.
Held(S) == IF Deserializes THEN S ELSE S \ {0}

VcpuCounts == Held(0 .. U8 - 1)
VsockPorts == Held(GuestPorts)

Init ==
  /\ engine \in Engines
  /\ call = "building"
  /\ builder = Empty
  /\ stage = 1
  /\ done = 0
  /\ ctx = NewContext
  /\ configs = <<>>
  /\ parsed = <<>>

-----------------------------------------------------------------------------
(* The setters.  Each takes the builder by value: with an error it is      *)
(* gone.  An operator named Mutant_... is not part of the model: it is a   *)
(* plausible bug in the definition it precedes.                            *)

Room ==
  Len(builder.disks) + Len(builder.virtiofs) + Len(builder.vsock)
    + Len(builder.bridges) + Len(builder.oem) < MaxItems

Building(next) ==
  /\ call = "building"
  /\ builder' = next
  /\ UNCHANGED <<engine, call, stage, done, ctx, configs>>

Rejected ==
  /\ call = "building"
  /\ call' = "rejected"
  /\ UNCHANGED <<engine, builder, stage, done, ctx, configs>>

Mutant_CpusUnchecked ==
  \E n \in 0 .. U8 - 1 : Building([builder EXCEPT !.vcpus = <<n>>])

Cpus ==
  \E n \in 0 .. U8 - 1 :
    IF n = 0 THEN Rejected ELSE Building([builder EXCEPT !.vcpus = <<n>>])

Vcpus ==
  \E n \in VcpuCounts : Building([builder EXCEPT !.vcpus = <<n>>])

MemoryText ==
  \E text \in Inputs :
    LET mib == Parse(text) IN
    /\ parsed' = <<text>>
    /\ IF mib = Error THEN Rejected
       ELSE Building([builder EXCEPT !.memory = <<mib>>])

MemorySize ==
  \E mib \in Held({0} \union ({Parse(text) : text \in Inputs} \ {Error})) :
    Building([builder EXCEPT !.memory = <<mib>>])

AddDisk ==
  \E disk \in Disks :
    /\ Room
    /\ Building([builder EXCEPT !.disks = Append(@, disk)])

AddVirtiofs ==
  \E mount \in Mounts :
    /\ Room
    /\ Building([builder EXCEPT !.virtiofs = Append(@, mount)])

\* A raw port comes with any path of the caller's, also one that another raw
\* port has, or that launch will give to a bridge: nothing compares them.
RawPorts == [port : VsockPorts, socket : HostSockets]

AddVsock ==
  \E raw \in RawPorts :
    /\ Room
    /\ Building([builder EXCEPT !.vsock = Append(@, raw)])

VsockBridge ==
  \E host \in HostPorts, guest \in GuestPorts :
    IF guest = 0 THEN Rejected
    ELSE /\ Room
         /\ Building([builder EXCEPT !.bridges =
                        Append(@, [host |-> host, guest |-> guest])])

SetConsole == Building([builder EXCEPT !.console = <<"log">>])

OemString ==
  /\ Room
  /\ Building([builder EXCEPT !.oem = Append(@, "string")])

NestedVirt ==
  \E enabled \in BOOLEAN : Building([builder EXCEPT !.nested = <<enabled>>])

\* TateruConfig::into_builder checks all values again; the path of the disk
\* is mandatory, and only a bridge can fail after the builder is there.
IntoBuilder ==
  /\ builder = Empty
  /\ \E cpus \in 0 .. U8 - 1, text \in Inputs, disk \in Disks,
        mounts \in Opt(Mounts),
        bridges \in Opt([host : HostPorts, guest : GuestPorts]) :
       /\ parsed' = <<text>>
       /\ IF cpus = 0 \/ Parse(text) = Error
               \/ \E b \in Range(bridges) : b.guest = 0
            THEN Rejected
            ELSE Building([Empty EXCEPT !.vcpus = <<cpus>>,
                                        !.memory = <<Parse(text)>>,
                                        !.disks = <<disk>>,
                                        !.virtiofs = mounts,
                                        !.bridges = bridges])

\* The other setters parse nothing.
Setter ==
  \/ Cpus \/ Vcpus \/ MemorySize
  \/ AddDisk \/ AddVirtiofs \/ AddVsock \/ VsockBridge
  \/ SetConsole \/ OemString \/ NestedVirt

-----------------------------------------------------------------------------
(* launch_with_spawner.                                                    *)

Valid == builder.vcpus # <<>> /\ builder.memory # <<>> /\ builder.disks # <<>>

LaunchCall ==
  /\ call = "building"
  /\ call' = IF Valid THEN "launching" ELSE "invalid"
  /\ UNCHANGED <<engine, builder, stage, done, ctx, configs>>

\* "bridge" is add_vsock_port again, for the sockets of the bridges.
Stages == <<"create_ctx", "set_vm_config", "add_disk", "add_virtiofs",
            "add_vsock_port", "create_dir", "bridge", "set_console_output",
            "set_smbios_oem_strings", "set_nested_virt",
            "get_shutdown_eventfd", "spawn">>

Mutant_OneSocket(port) == [port |-> port, socket |-> <<"workdir">>]

\* The socket of a bridge is named after its guest port.
BridgePort(port) == [port |-> port, socket |-> <<"workdir", port>>]

\* What each stage passes to the engine, one call for each item: an Option
\* that is None and an empty list make no call.
Items(s) ==
  CASE s = "set_vm_config" -> <<[vcpus |-> builder.vcpus[1],
                                 memory |-> builder.memory[1]]>>
    [] s = "add_disk" -> builder.disks
    [] s = "add_virtiofs" -> builder.virtiofs
    [] s = "add_vsock_port" -> builder.vsock
    [] s = "bridge" -> [i \in DOMAIN builder.bridges |->
                          BridgePort(builder.bridges[i].guest)]
    [] s = "set_console_output" -> builder.console
    [] s = "set_smbios_oem_strings" ->
         IF builder.oem = <<>> THEN <<>> ELSE <<builder.oem>>
    [] s = "set_nested_virt" -> builder.nested
    [] OTHER -> <<"ctx">>

EngineOp(s) == IF s = "bridge" THEN "add_vsock_port" ELSE s

\* create_dir and spawn are the host's, and may fail as well.
MaySucceed(s) == s \in {"create_dir", "spawn"}
                   \/ EngineOp(s) \in CanSucceed(engine)
MayFail(s) == s \in {"create_dir", "spawn"} \/ EngineOp(s) \in CanFail(engine)

\* One call of the engine that returns Ok.
Step ==
  LET s == Stages[stage]
      item == Items(s)[done + 1]
  IN  /\ call = "launching"
      /\ done < Len(Items(s))
      /\ MaySucceed(s)
      /\ ctx' = Apply(engine, ctx, EngineOp(s), item)
      /\ configs' = IF s = "bridge"
                      THEN Append(configs,
                                  [host |-> builder.bridges[done + 1].host,
                                   socket |-> item.socket])
                      ELSE configs
      /\ done' = done + 1
      /\ UNCHANGED <<engine, call, builder, stage>>

Mutant_SkipsFailed ==
  /\ call = "launching"
  /\ done < Len(Items(Stages[stage]))
  /\ MayFail(Stages[stage])
  /\ done' = done + 1
  /\ UNCHANGED <<engine, call, builder, stage, ctx, configs>>

\* The first error is returned; nothing that was done is undone.
StepFails ==
  LET s == Stages[stage] IN
  /\ call = "launching"
  /\ done < Len(Items(s))
  /\ MayFail(s)
  /\ ctx' = AfterFailure(engine, ctx, EngineOp(s), Items(s)[done + 1])
  /\ call' = "failed"
  /\ UNCHANGED <<engine, builder, stage, done, configs>>

Mutant_NoLastStage ==
  /\ call = "launching"
  /\ done = Len(Items(Stages[stage]))
  /\ stage' = stage + 1
  /\ done' = 0
  /\ UNCHANGED <<engine, call, builder, ctx, configs>>

NextStage ==
  /\ call = "launching"
  /\ done = Len(Items(Stages[stage]))
  /\ IF stage = Len(Stages)
       THEN call' = "launched" /\ UNCHANGED <<stage, done>>
       ELSE stage' = stage + 1 /\ done' = 0 /\ UNCHANGED call
  /\ UNCHANGED <<engine, builder, ctx, configs>>

\* On the VM thread: from here on the engine runs what its context holds.
StartEnter ==
  /\ call = "launched"
  /\ call' = "entered"
  /\ UNCHANGED <<engine, builder, stage, done, ctx, configs>>

-----------------------------------------------------------------------------
Launching == LaunchCall \/ Step \/ StepFails \/ NextStage \/ StartEnter

Next ==
  \/ MemoryText
  \/ IntoBuilder
  \/ (Setter \/ Launching) /\ parsed' = <<>>

Spec == Init /\ [][Next]_vars

-----------------------------------------------------------------------------
(* Properties.                                                             *)

Builders ==
  [vcpus : Opt(VcpuCounts), memory : Opt(Held(0 .. U32 - 1)),
   disks : Seq(Disks), virtiofs : Seq(Mounts),
   vsock : Seq(RawPorts),
   bridges : Seq([host : HostPorts, guest : GuestPorts \ {0}]),
   console : Opt({"log"}), oem : Seq({"string"}), nested : Opt(BOOLEAN)]

\* Every variable has its type.
TypeOK ==
  /\ engine \in Engines
  /\ call \in {"building", "rejected", "invalid", "launching", "failed",
               "launched", "entered"}
  /\ builder \in Builders
  /\ stage \in DOMAIN Stages
  /\ done \in Nat
  /\ DOMAIN ctx = Settings
  /\ configs \in Seq([host : HostPorts,
                      socket : {BridgePort(p).socket : p \in GuestPorts}])
  /\ parsed \in Opt(Inputs)

\* Display shows the size in the builder as a text that is read back as the
\* same size.
SizeRoundTrips == \A mib \in Range(builder.memory) : RoundTrips(mib)

\* A size written by hand or in a configuration file is taken for what it
\* says or refused; no multiplication wraps to a size nobody asked for.
TextParsesExactly == \A text \in Range(parsed) : ParsesExactly(text)

\* No VM is configured without a CPU, without memory or with port 0, by
\* whatever setters or configuration file it came about.
OnlyValidValues ==
  /\ \A c \in Range(ctx["set_vm_config"]) : c.vcpus \in 1 .. U8 - 1
                                             /\ c.memory \in Sizes
  /\ \A v \in Range(ctx["add_vsock_port"]) : v.port # 0

\* A VM is entered with exactly what was built: every list in its order,
\* the raw ports before those of the bridges, nothing twice, nothing unset.
StartedAsBuilt ==
  call = "entered" =>
    /\ ctx["set_vm_config"] = <<[vcpus |-> builder.vcpus[1],
                                 memory |-> builder.memory[1]]>>
    /\ ctx["add_disk"] = builder.disks
    /\ ctx["add_virtiofs"] = builder.virtiofs
    /\ ctx["add_vsock_port"] =
         builder.vsock \o [i \in DOMAIN builder.bridges |->
                             BridgePort(builder.bridges[i].guest)]
    /\ ctx["set_console_output"] = builder.console
    /\ ctx["set_smbios_oem_strings"] =
         IF builder.oem = <<>> THEN <<>> ELSE <<builder.oem>>
    /\ ctx["set_nested_virt"] = builder.nested

\* The items of its stage that launch has passed on, successfully or not: a
\* call that fails reaches the log of MockEngine.
Tried == IF call = "failed" /\ engine = "mock" THEN done + 1 ELSE done

Behind(s) == \E k \in 1 .. stage - 1 : Stages[k] = s

PassedOn(s) ==
  IF Behind(s) THEN Items(s)
  ELSE IF Stages[stage] = s THEN SubSeq(Items(s), 1, Tried)
  ELSE <<>>

\* The calls of op that launch has made by now, in their order.
Sent(op) ==
  IF op = "add_vsock_port" THEN PassedOn("add_vsock_port") \o PassedOn("bridge")
  ELSE PassedOn(op)

InLaunch == call \in {"launching", "failed", "launched", "entered"}

\* Wherever launch fails, the engine has seen a prefix of one fixed sequence
\* of calls: no call is skipped, repeated, or made after an error.
EngineSawPrefix ==
  InLaunch => \A op \in Keeps(engine) : ctx[op] = Sent(op)

\* What a launch has left in VzEngine when it gets to the shutdown eventfd is
\* enough to build the machine that was asked for: its bytes of memory do not
\* wrap, its disks are in order, and an image that cannot be attached gives
\* an error and not a machine without it.
VzStateBuilds ==
  engine = "vz" /\ call \in {"launching", "failed"}
    /\ Stages[stage] = "get_shutdown_eventfd" =>
      \A attachable \in SUBSET Disks :
        Build(ctx, attachable) =
          IF Range(builder.disks) \subseteq attachable
            THEN <<[cpus    |-> builder.vcpus[1],
                    bytes   |-> builder.memory[1] * GiB * GiB,
                    boot    |-> "EFI",
                    storage |-> builder.disks]>>
            ELSE <<>>

\* What a client finds behind a host port is the guest port it was bridged
\* to: the socket its bridge dials is registered for that port.  If it is for
\* another one as well, the caller has put a raw port on that very path,
\* which nothing in the code refuses; no two bridges ever get in each other's
\* way, also when they share a guest port with each other or with raw ports.
BridgeReachesItsPort ==
  call \in {"launched", "entered"} =>
    /\ Len(configs) = Len(builder.bridges)
    /\ \A i \in DOMAIN configs :
         LET socket == configs[i].socket
             own == [port |-> builder.bridges[i].guest, socket |-> socket]
             registered == Range(ctx["add_vsock_port"])
         IN  /\ configs[i].host = builder.bridges[i].host
             /\ own \in registered
             /\ \A other \in registered \ {own} :
                  other.socket = socket => other \in Range(builder.vsock)

\* What src/src/vz/engine.rs:3 says of VzEngine, that every method records or
\* returns an error: what launch has passed on successfully is in the context.
OkMeansRecorded ==
  \A k \in 1 .. stage - 1 :
    LET op == EngineOp(Stages[k]) IN
    call # "building" /\ op \in Settings =>
      Range(Items(Stages[k])) \subseteq Range(ctx[op])

-----------------------------------------------------------------------------
(* The invariant behind these properties.                                  *)

\* Until launch is called nothing has reached the engine; from then on the
\* builder is complete.
CallInv ==
  IF InLaunch THEN Valid
  ELSE stage = 1 /\ done = 0 /\ ctx = NewContext /\ configs = <<>>

\* Where launch is in its stages.  With VzEngine it never gets past the call
\* that it always refuses.
StageInv ==
  /\ done <= Len(Items(Stages[stage]))
  /\ call = "failed" => done < Len(Items(Stages[stage]))
  /\ call \in {"launched", "entered"} => stage = Len(Stages)
  /\ engine = "vz" => stage <= 11 /\ (stage = 11 => done = 0)

\* The bridge configurations are those of the bridges passed on so far.
ConfigsInv ==
  /\ Len(configs) = IF Behind("bridge") THEN Len(builder.bridges)
                    ELSE IF Stages[stage] = "bridge" THEN done ELSE 0
  /\ \A i \in DOMAIN configs :
       configs[i] = [host |-> builder.bridges[i].host,
                     socket |-> BridgePort(builder.bridges[i].guest).socket]

\* Together they are inductive.
IInv == CallInv /\ StageInv /\ ConfigsInv /\ EngineSawPrefix
=============================================================================
