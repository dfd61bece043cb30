---------------------------- MODULE Builder_proofs ----------------------------
(***************************************************************************)
(* Proofs about Builder, for lists of any length and for the widths of the *)
(* code: 2^8 values of a u8, 2^32 of a u32, 1024 MiB to a GiB.             *)
(***************************************************************************)
EXTENDS Builder, Memory_proofs, SequenceTheorems, TLAPS

-----------------------------------------------------------------------------
(* Sequences.                                                              *)

\* An Option is a sequence.
LEMMA OptIsSeq ==
  ASSUME NEW S, NEW q \in Opt(S)
  PROVE  q \in Seq(S) /\ Len(q) \in {0, 1}
<1>1. CASE q = <<>>
  BY <1>1
<1>2. ASSUME NEW x \in S, q = <<x>> PROVE q \in Seq(S) /\ Len(q) \in {0, 1}
  BY <1>2
<1> QED
  BY <1>1, <1>2 DEF Opt

LEMMA OneMore ==
  ASSUME NEW S, NEW q \in Seq(S), NEW n \in Nat, n < Len(q)
  PROVE  SubSeq(q, 1, n + 1) = Append(SubSeq(q, 1, n), q[n + 1])
<1>1. n + 1 \in 1 .. Len(q) /\ (n + 1) - 1 = n /\ 1 \in 1 .. Len(q)
  BY LenProperties
<1>2. n + 1 \in 1 .. Len(q) /\ q[n + 1] \in S
  BY <1>1, ElementOfSeq
<1>3. SubSeq(q, 1, n + 1) = SubSeq(q, 1, (n + 1) - 1) \o <<q[n + 1]>>
  BY <1>1, SubSeqRecursiveSecond
<1>4. SubSeq(q, 1, n) \in Seq(S)
  <2>1. \A i \in 1 .. n : q[i] \in S
    BY <1>1, ElementOfSeq, LenProperties
  <2> QED
    BY <2>1, SubSeqProperties
<1> QED
  BY <1>1, <1>2, <1>3, <1>4, AppendIsConcat

LEMMA FirstOnes ==
  ASSUME NEW S, NEW q \in Seq(S)
  PROVE  SubSeq(q, 1, 0) = <<>> /\ SubSeq(q, 1, Len(q)) = q
BY SubSeqEmpty, SubSeqFull

\* A part of a sequence has no other elements.
LEMMA FirstOnesAreIn ==
  ASSUME NEW S, NEW q \in Seq(S), NEW n \in Nat, n <= Len(q)
  PROVE  /\ SubSeq(q, 1, n) \in Seq(S)
         /\ Range(SubSeq(q, 1, n)) \subseteq Range(q)
<1>1. \A i \in 1 .. n : i \in DOMAIN q /\ q[i] \in S
  BY ElementOfSeq, LenProperties
<1>2. /\ SubSeq(q, 1, n) \in Seq(S)
      /\ Len(SubSeq(q, 1, n)) = n
      /\ \A i \in 1 .. n : SubSeq(q, 1, n)[i] = q[i]
  BY <1>1, SubSeqProperties
<1>3. DOMAIN SubSeq(q, 1, n) = 1 .. n
  BY <1>2, LenProperties
<1> QED
  BY <1>1, <1>2, <1>3 DEF Range

LEMMA RangeOfConcat ==
  ASSUME NEW S, NEW q \in Seq(S), NEW r \in Seq(S)
  PROVE  Range(q \o r) = Range(q) \union Range(r)
<1>1. /\ q \o r \in Seq(S)
      /\ Len(q \o r) = Len(q) + Len(r)
      /\ \A i \in 1 .. Len(q) + Len(r) :
           (q \o r)[i] = IF i <= Len(q) THEN q[i] ELSE r[i - Len(q)]
  BY ConcatProperties
<1>2. /\ DOMAIN q = 1 .. Len(q) /\ DOMAIN r = 1 .. Len(r)
      /\ DOMAIN (q \o r) = 1 .. Len(q) + Len(r)
      /\ Len(q) \in Nat /\ Len(r) \in Nat
  BY <1>1, LenProperties
<1>3. ASSUME NEW x \in Range(q \o r) PROVE x \in Range(q) \union Range(r)
  <2>1. PICK i \in 1 .. Len(q) + Len(r) : x = (q \o r)[i]
    BY <1>2, <1>3 DEF Range
  <2>2. CASE i <= Len(q)
    BY <1>1, <1>2, <2>1, <2>2 DEF Range
  <2>3. CASE ~(i <= Len(q))
    <3>1. i - Len(q) \in 1 .. Len(r)
      BY <1>2, <2>3
    <3> QED
      BY <1>1, <1>2, <2>1, <2>3, <3>1 DEF Range
  <2> QED
    BY <2>2, <2>3
<1>4. ASSUME NEW x \in Range(q) PROVE x \in Range(q \o r)
  BY <1>1, <1>2, <1>4 DEF Range
<1>5. ASSUME NEW x \in Range(r) PROVE x \in Range(q \o r)
  <2>1. PICK i \in 1 .. Len(r) : x = r[i]
    BY <1>2, <1>5 DEF Range
  <2>2. /\ i + Len(q) \in 1 .. Len(q) + Len(r)
        /\ ~(i + Len(q) <= Len(q)) /\ (i + Len(q)) - Len(q) = i
    BY <1>2
  <2>3. (q \o r)[i + Len(q)] = r[i]
    BY <1>1, <2>2
  <2> QED
    BY <1>2, <2>1, <2>2, <2>3 DEF Range
<1> QED
  BY <1>3, <1>4, <1>5

-----------------------------------------------------------------------------
(* Stages and their items.                                                 *)

LEMMA StageNames ==
  /\ Len(Stages) = 12 /\ DOMAIN Stages = 1 .. 12
  /\ Stages[1] = "create_ctx" /\ Stages[2] = "set_vm_config"
  /\ Stages[3] = "add_disk" /\ Stages[4] = "add_virtiofs"
  /\ Stages[5] = "add_vsock_port" /\ Stages[6] = "create_dir"
  /\ Stages[7] = "bridge" /\ Stages[8] = "set_console_output"
  /\ Stages[9] = "set_smbios_oem_strings" /\ Stages[10] = "set_nested_virt"
  /\ Stages[11] = "get_shutdown_eventfd" /\ Stages[12] = "spawn"
BY DEF Stages

LEMMA StagesDiffer ==
  ASSUME NEW i \in 1 .. 12, NEW j \in 1 .. 12, Stages[i] = Stages[j]
  PROVE  i = j
<1>1. i \in {1,2,3,4,5,6,7,8,9,10,11,12} /\ j \in {1,2,3,4,5,6,7,8,9,10,11,12}
  OBVIOUS
<1> QED
  BY <1>1, StageNames

LEMMA BuilderFields ==
  ASSUME TypeOK
  PROVE  /\ builder.vcpus \in Opt(VcpuCounts)
         /\ builder.memory \in Opt(Held(0 .. U32 - 1))
         /\ builder.disks \in Seq(Disks)
         /\ builder.virtiofs \in Seq(Mounts)
         /\ builder.vsock \in Seq(RawPorts)
         /\ builder.bridges \in Seq([host : HostPorts, guest : GuestPorts \ {0}])
         /\ builder.console \in Opt({"log"})
         /\ builder.oem \in Seq({"string"})
         /\ builder.nested \in Opt(BOOLEAN)
BY DEF TypeOK, Builders

\* The sockets of the bridges, one for each.
LEMMA BridgeItems ==
  ASSUME TypeOK
  PROVE  /\ Items("bridge") \in
              Seq({BridgePort(builder.bridges[i].guest) : i \in DOMAIN builder.bridges})
         /\ Len(Items("bridge")) = Len(builder.bridges)
         /\ Len(builder.bridges) \in Nat
         /\ DOMAIN builder.bridges = 1 .. Len(builder.bridges)
         /\ \A i \in 1 .. Len(builder.bridges) :
              Items("bridge")[i] = BridgePort(builder.bridges[i].guest)
<1> DEFINE n == Len(builder.bridges)
           S == {BridgePort(builder.bridges[i].guest) : i \in DOMAIN builder.bridges}
           f == [i \in DOMAIN builder.bridges |-> BridgePort(builder.bridges[i].guest)]
<1>1. n \in Nat /\ DOMAIN builder.bridges = 1 .. n
  BY BuilderFields, LenProperties
<1>2. Items("bridge") = f
  BY DEF Items
<1>3. f \in [1 .. n -> S]
  BY <1>1
<1>4. f \in Seq(S)
  BY <1>1, <1>3, SeqDef
<1>5. Len(f) = n
  <2>1. Len(f) \in Nat /\ 1 .. Len(f) = 1 .. n
    BY <1>1, <1>4, LenProperties
  <2> QED
    BY <1>1, <2>1
<1> QED
  BY <1>1, <1>2, <1>4, <1>5

\* Every stage has a sequence of items, and what is not a list at most one.
LEMMA ItemsAreSeq ==
  ASSUME TypeOK, NEW s
  PROVE  /\ \E S : Items(s) \in Seq(S)
         /\ s \notin {"add_disk", "add_virtiofs", "add_vsock_port", "bridge"}
              => Len(Items(s)) \in {0, 1}
<1> USE BuilderFields
<1>1. CASE s = "bridge"
  BY <1>1, BridgeItems
<1>2. CASE s \in {"add_disk", "add_virtiofs", "add_vsock_port"}
  BY <1>2 DEF Items
<1>3. CASE s \notin {"bridge", "add_disk", "add_virtiofs", "add_vsock_port"}
  <2>1. \E S : Items(s) \in Opt(S)
    <3>1. CASE s = "set_vm_config"
      <4>1. \A x : <<x>> \in Opt({x})
        BY DEF Opt
      <4> QED
        BY <3>1, <4>1 DEF Items
    <3>2. CASE s \in {"set_console_output", "set_nested_virt"}
      BY <3>2 DEF Items
    <3>3. CASE s = "set_smbios_oem_strings"
      <4>1. Items(s) \in Opt({builder.oem})
        BY <3>3 DEF Items, Opt
      <4> QED
        BY <4>1
    <3>4. CASE s \notin {"set_vm_config", "set_console_output",
                         "set_nested_virt", "set_smbios_oem_strings"}
      <4>1. Items(s) = <<"ctx">>
        BY <1>3, <3>4 DEF Items
      <4>2. Items(s) \in Opt({"ctx"})
        BY <4>1 DEF Opt
      <4> QED
        BY <4>2
    <3> QED
      BY <3>1, <3>2, <3>3, <3>4
  <2> QED
    BY <1>3, <2>1, OptIsSeq
<1> QED
  BY <1>1, <1>2, <1>3

-----------------------------------------------------------------------------
(* Types.                                                                  *)

LEMMA TypeInit == Init => TypeOK
<1> SUFFICES ASSUME Init PROVE TypeOK
  OBVIOUS
<1>1. Empty \in Builders
  BY DEF Empty, Builders, Opt
<1>2. DOMAIN ctx = Settings
  BY DEF Init, NewContext
<1> QED
  BY <1>1, <1>2, StageNames DEF Init, TypeOK, Opt

LEMMA BuildingType ==
  ASSUME TypeOK, parsed' \in Opt(Inputs),
         NEW next \in Builders, Building(next)
  PROVE  TypeOK'
BY DEF TypeOK, Building

LEMMA RejectedType ==
  ASSUME TypeOK, parsed' \in Opt(Inputs), Rejected
  PROVE  TypeOK'
BY DEF TypeOK, Rejected

\* What a text says is a size, zero never.
LEMMA ParsedSize ==
  ASSUME NEW text \in Inputs, Parse(text) # Error
  PROVE  Parse(text) \in Sizes /\ Sizes \subseteq Held(0 .. U32 - 1)
<1>1. text \in Texts
  BY TextAssumption
<1>2. Parse(text) \in Sizes
  BY <1>1, ParseIsExact DEF ParsesExactly
<1> QED
  BY <1>2, UnitAssumption DEF Sizes, Held

LEMMA TextSetterType ==
  ASSUME TypeOK, MemoryText \/ IntoBuilder
  PROVE  TypeOK'
<1>1. CASE MemoryText
  <2>1. PICK text \in Inputs :
          /\ parsed' = <<text>>
          /\ IF Parse(text) = Error THEN Rejected
             ELSE Building([builder EXCEPT !.memory = <<Parse(text)>>])
    BY <1>1 DEF MemoryText
  <2>2. parsed' \in Opt(Inputs)
    BY <2>1 DEF Opt
  <2>3. Parse(text) # Error =>
          [builder EXCEPT !.memory = <<Parse(text)>>] \in Builders
    BY ParsedSize DEF TypeOK, Builders, Opt
  <2> QED
    BY <2>1, <2>2, <2>3, BuildingType, RejectedType
<1>2. CASE IntoBuilder
  <2>1. PICK cpus \in 0 .. U8 - 1, text \in Inputs, disk \in Disks,
             mounts \in Opt(Mounts),
             bridges \in Opt([host : HostPorts, guest : GuestPorts]) :
          /\ parsed' = <<text>>
          /\ IF cpus = 0 \/ Parse(text) = Error
                  \/ \E b \in Range(bridges) : b.guest = 0
               THEN Rejected
               ELSE Building([Empty EXCEPT !.vcpus = <<cpus>>,
                                           !.memory = <<Parse(text)>>,
                                           !.disks = <<disk>>,
                                           !.virtiofs = mounts,
                                           !.bridges = bridges])
    BY <1>2 DEF IntoBuilder
  <2>2. parsed' \in Opt(Inputs)
    BY <2>1 DEF Opt
  <2> DEFINE next == [Empty EXCEPT !.vcpus = <<cpus>>,
                                   !.memory = <<Parse(text)>>,
                                   !.disks = <<disk>>,
                                   !.virtiofs = mounts,
                                   !.bridges = bridges]
  <2>3. ASSUME cpus # 0, Parse(text) # Error, \A b \in Range(bridges) : b.guest # 0
        PROVE  next \in Builders
    <3>1. <<cpus>> \in Opt(VcpuCounts)
      BY <2>3 DEF Opt, VcpuCounts, Held
    <3>2. <<Parse(text)>> \in Opt(Held(0 .. U32 - 1))
      BY <2>3, ParsedSize DEF Opt
    <3>3. <<disk>> \in Seq(Disks) /\ mounts \in Seq(Mounts)
      BY OptIsSeq
    <3>4. bridges \in Seq([host : HostPorts, guest : GuestPorts \ {0}])
      <4>1. CASE bridges = <<>>
        BY <4>1
      <4>2. ASSUME NEW b \in [host : HostPorts, guest : GuestPorts], bridges = <<b>>
            PROVE  bridges \in Seq([host : HostPorts, guest : GuestPorts \ {0}])
        <5>1. bridges[1] \in Range(bridges) /\ bridges[1] = b
          BY <4>2 DEF Range
        <5>2. b \in [host : HostPorts, guest : GuestPorts \ {0}]
          BY <2>3, <5>1
        <5> QED
          BY <4>2, <5>2
      <4> QED
        BY <4>1, <4>2 DEF Opt
    <3>5. /\ <<>> \in Opt({"log"}) /\ <<>> \in Opt(BOOLEAN)
          /\ <<>> \in Seq({"string"})
          /\ <<>> \in Seq(RawPorts)
      BY DEF Opt
    <3> QED
      BY <3>1, <3>2, <3>3, <3>4, <3>5 DEF Empty, Builders
  <2> QED
    BY <2>1, <2>2, <2>3, BuildingType, RejectedType
<1> QED
  BY <1>1, <1>2

LEMMA SetterType ==
  ASSUME TypeOK, Setter, parsed' = <<>>
  PROVE  TypeOK'
<1>0. parsed' \in Opt(Inputs)
  BY DEF Opt
<1> USE <1>0, BuilderFields DEF Builders
<1>1. CASE Cpus
  <2>1. PICK n \in 0 .. U8 - 1 :
          IF n = 0 THEN Rejected ELSE Building([builder EXCEPT !.vcpus = <<n>>])
    BY <1>1 DEF Cpus
  <2>2. n # 0 => [builder EXCEPT !.vcpus = <<n>>] \in Builders
    BY DEF TypeOK, Opt, VcpuCounts, Held
  <2> QED
    BY <2>1, <2>2, BuildingType, RejectedType
<1>2. CASE Vcpus
  <2>1. \A n \in VcpuCounts : [builder EXCEPT !.vcpus = <<n>>] \in Builders
    BY DEF TypeOK, Opt
  <2> QED
    BY <1>2, <2>1, BuildingType DEF Vcpus
<1>3. CASE MemorySize
  <2>1. PICK mib \in Held({0} \union ({Parse(text) : text \in Inputs} \ {Error})) :
          Building([builder EXCEPT !.memory = <<mib>>])
    BY <1>3 DEF MemorySize
  <2>2. mib \in Held(0 .. U32 - 1)
    <3>1. \A text \in Inputs : Parse(text) # Error => Parse(text) \in 0 .. U32 - 1
      BY ParsedSize DEF Sizes
    <3> QED
      BY <3>1, UnitAssumption DEF Held
  <2>3. [builder EXCEPT !.memory = <<mib>>] \in Builders
    BY <2>2 DEF TypeOK, Opt
  <2> QED
    BY <2>1, <2>3, BuildingType
<1>4. CASE AddDisk
  <2>1. \A disk \in Disks :
          [builder EXCEPT !.disks = Append(@, disk)] \in Builders
    BY AppendProperties DEF TypeOK
  <2> QED
    BY <1>4, <2>1, BuildingType DEF AddDisk
<1>5. CASE AddVirtiofs
  <2>1. \A mount \in Mounts :
          [builder EXCEPT !.virtiofs = Append(@, mount)] \in Builders
    BY AppendProperties DEF TypeOK
  <2> QED
    BY <1>5, <2>1, BuildingType DEF AddVirtiofs
<1>6. CASE AddVsock
  <2>1. \A raw \in RawPorts :
          [builder EXCEPT !.vsock = Append(@, raw)] \in Builders
    BY AppendProperties DEF TypeOK
  <2> QED
    BY <1>6, <2>1, BuildingType DEF AddVsock
<1>7. CASE VsockBridge
  <2>1. \A host \in HostPorts, guest \in GuestPorts \ {0} :
          [builder EXCEPT !.bridges = Append(@, [host |-> host, guest |-> guest])]
            \in Builders
    BY AppendProperties DEF TypeOK
  <2> QED
    BY <1>7, <2>1, BuildingType, RejectedType DEF VsockBridge
<1>8. CASE SetConsole
  <2>1. [builder EXCEPT !.console = <<"log">>] \in Builders
    BY DEF TypeOK, Opt
  <2> QED
    BY <1>8, <2>1, BuildingType DEF SetConsole
<1>9. CASE OemString
  <2>1. [builder EXCEPT !.oem = Append(@, "string")] \in Builders
    BY AppendProperties DEF TypeOK
  <2> QED
    BY <1>9, <2>1, BuildingType DEF OemString
<1>10. CASE NestedVirt
  <2>1. \A enabled \in BOOLEAN : [builder EXCEPT !.nested = <<enabled>>] \in Builders
    BY DEF TypeOK, Opt
  <2> QED
    BY <1>10, <2>1, BuildingType DEF NestedVirt
<1> QED
  BY <1>1, <1>2, <1>3, <1>4, <1>5, <1>6, <1>7, <1>8, <1>9, <1>10 DEF Setter

\* A call leaves the context with an entry for each setting.
LEMMA ApplyKeepsDomain ==
  ASSUME NEW e, NEW c, NEW op, NEW arg, DOMAIN c = Settings
  PROVE  DOMAIN Apply(e, c, op, arg) = Settings
BY DEF Apply

LEMMA LaunchingType ==
  ASSUME TypeOK, Launching, parsed' = <<>>
  PROVE  TypeOK'
<1> USE DEF TypeOK
<1>0. parsed' \in Opt(Inputs)
  BY DEF Opt
<1>1. CASE LaunchCall
  BY <1>0, <1>1 DEF LaunchCall
<1>2. CASE Step
  <2>1. /\ done < Len(Items(Stages[stage])) /\ done' = done + 1
        /\ UNCHANGED <<engine, call, builder, stage>>
        /\ ctx' = Apply(engine, ctx, EngineOp(Stages[stage]),
                        Items(Stages[stage])[done + 1])
        /\ configs' = IF Stages[stage] = "bridge"
                        THEN Append(configs,
                                    [host |-> builder.bridges[done + 1].host,
                                     socket |-> Items(Stages[stage])[done + 1].socket])
                        ELSE configs
    BY <1>2 DEF Step
  <2>2. DOMAIN ctx' = Settings
    BY <2>1, ApplyKeepsDomain
  <2> DEFINE C == [host : HostPorts, socket : {BridgePort(p).socket : p \in GuestPorts}]
  <2>3. configs' \in Seq(C)
    <3>1. CASE Stages[stage] = "bridge"
      <4>1. done + 1 \in 1 .. Len(builder.bridges)
        BY <2>1, <3>1, BridgeItems
      <4>2. builder.bridges[done + 1] \in [host : HostPorts, guest : GuestPorts \ {0}]
        BY <4>1, BuilderFields, ElementOfSeq
      <4>3. Items(Stages[stage])[done + 1]
              = BridgePort(builder.bridges[done + 1].guest)
        BY <3>1, <4>1, BridgeItems
      <4>4. [host |-> builder.bridges[done + 1].host,
             socket |-> Items(Stages[stage])[done + 1].socket] \in C
        BY <4>2, <4>3
      <4> HIDE DEF C
      <4> QED
        BY <2>1, <3>1, <4>4, AppendProperties DEF C
    <3>2. CASE Stages[stage] # "bridge"
      BY <2>1, <3>2
    <3> QED
      BY <3>1, <3>2
  <2> QED
    BY <1>0, <2>1, <2>2, <2>3
<1>3. CASE StepFails
  <2>1. /\ call' = "failed"
        /\ UNCHANGED <<engine, builder, stage, done, configs>>
        /\ ctx' = AfterFailure(engine, ctx, EngineOp(Stages[stage]),
                               Items(Stages[stage])[done + 1])
    BY <1>3 DEF StepFails
  <2>2. DOMAIN ctx' = Settings
    BY <2>1, ApplyKeepsDomain DEF AfterFailure
  <2> QED
    BY <1>0, <2>1, <2>2
<1>4. CASE NextStage
  BY <1>0, <1>4, StageNames DEF NextStage
<1>5. CASE StartEnter
  BY <1>0, <1>5 DEF StartEnter
<1> QED
  BY <1>1, <1>2, <1>3, <1>4, <1>5 DEF Launching

\* Every variable keeps its type, for lists of any length.
THEOREM TypeCorrect == Spec => []TypeOK
<1>1. TypeOK /\ UNCHANGED vars => TypeOK'
  BY DEF TypeOK, vars
<1>2. TypeOK /\ [Next]_vars => TypeOK'
  BY <1>1, TextSetterType, SetterType, LaunchingType DEF Next
<1> QED
  BY <1>2, TypeInit, PTL DEF Spec

-----------------------------------------------------------------------------
(* What has been passed on.                                                *)

LEMMA BehindIsBefore ==
  ASSUME TypeOK, NEW i \in 1 .. 12
  PROVE  Behind(Stages[i]) <=> i < stage
<1>1. stage \in 1 .. 12
  BY StageNames DEF TypeOK
<1>2. ASSUME i < stage PROVE Behind(Stages[i])
  BY <1>1, <1>2 DEF Behind
<1>3. ASSUME Behind(Stages[i]) PROVE i < stage
  <2>1. PICK k \in 1 .. stage - 1 : Stages[k] = Stages[i]
    BY <1>3 DEF Behind
  <2>2. k \in 1 .. 12 /\ k < stage
    BY <1>1
  <2>3. k = i
    BY <2>1, <2>2, StagesDiffer
  <2> QED
    BY <2>2, <2>3
<1> QED
  BY <1>2, <1>3

LEMMA PassedOnHere ==
  ASSUME TypeOK
  PROVE  /\ stage \in 1 .. 12
         /\ ~Behind(Stages[stage])
         /\ PassedOn(Stages[stage]) = SubSeq(Items(Stages[stage]), 1, Tried)
<1>1. stage \in 1 .. 12
  BY StageNames DEF TypeOK
<1>2. ~Behind(Stages[stage])
  BY <1>1, BehindIsBefore
<1> QED
  BY <1>1, <1>2 DEF PassedOn

LEMMA ItemsFrame ==
  ASSUME builder' = builder
  PROVE  \A s : Items(s)' = Items(s)
BY DEF Items

\* Within a stage nothing happens to what the other stages have passed on.
LEMMA PassedOnFrame ==
  ASSUME TypeOK, builder' = builder, stage' = stage
  PROVE  /\ \A s : s # Stages[stage] => PassedOn(s)' = PassedOn(s)
         /\ PassedOn(Stages[stage])' = SubSeq(Items(Stages[stage]), 1, Tried')
<1>1. \A s : Behind(s)' <=> Behind(s)
  BY DEF Behind
<1>2. \A s : Items(s)' = Items(s)
  BY ItemsFrame
<1>3. ~Behind(Stages[stage])
  BY PassedOnHere
<1>4. \A s : s # Stages[stage] => PassedOn(s)' = PassedOn(s)
  BY <1>1, <1>2 DEF PassedOn
<1>5. PassedOn(Stages[stage])' = SubSeq(Items(Stages[stage]), 1, Tried')
  BY <1>1, <1>2, <1>3 DEF PassedOn
<1> QED
  BY <1>4, <1>5

LEMMA KeepsSettings == \A e : Keeps(e) \subseteq Settings
BY DEF Keeps

\* A call that reaches the context adds to it what it adds to the calls made.
LEMMA PassesOne ==
  ASSUME TypeOK, builder' = builder, stage' = stage,
         Tried \in Nat, Tried < Len(Items(Stages[stage])), Tried' = Tried + 1,
         \A op \in Keeps(engine) : ctx[op] = Sent(op),
         ctx' = Apply(engine, ctx, EngineOp(Stages[stage]),
                      Items(Stages[stage])[Tried + 1])
  PROVE  \A op \in Keeps(engine) : ctx'[op] = Sent(op)'
<1> DEFINE s == Stages[stage]
           item == Items(s)[Tried + 1]
<1>1. /\ \A t : t # s => PassedOn(t)' = PassedOn(t)
      /\ PassedOn(s)' = SubSeq(Items(s), 1, Tried + 1)
      /\ PassedOn(s) = SubSeq(Items(s), 1, Tried)
      /\ s \in {Stages[i] : i \in 1 .. 12}
  BY PassedOnFrame, PassedOnHere
<1>2. PICK S : Items(s) \in Seq(S)
  BY ItemsAreSeq
<1>3. /\ PassedOn(s)' = Append(PassedOn(s), item)
      /\ PassedOn(s) \in Seq(S) /\ item \in S
  <2>1. SubSeq(Items(s), 1, Tried + 1) = Append(SubSeq(Items(s), 1, Tried), item)
    BY <1>2, OneMore
  <2>2. SubSeq(Items(s), 1, Tried) \in Seq(S)
    BY <1>2, FirstOnesAreIn, LenProperties
  <2>3. Tried + 1 \in 1 .. Len(Items(s))
    BY <1>2, LenProperties
  <2> QED
    BY <1>1, <1>2, <2>1, <2>2, <2>3, ElementOfSeq
<1>4. s \notin {"add_disk", "add_virtiofs", "add_vsock_port", "bridge"}
        => PassedOn(s) = <<>> /\ PassedOn(s)' = <<item>>
  <2> HAVE s \notin {"add_disk", "add_virtiofs", "add_vsock_port", "bridge"}
  <2>1. Len(Items(s)) \in {0, 1}
    BY ItemsAreSeq
  <2>2. Tried = 0
    BY <2>1
  <2>3. PassedOn(s) = <<>>
    BY <1>1, <1>2, <2>2, FirstOnes
  <2> QED
    BY <1>3, <2>3
<1>5. \A op \in Keeps(engine) :
        ctx'[op] = IF op = EngineOp(s)
                     THEN IF op \in Devices \/ engine = "mock"
                            THEN Append(ctx[op], item) ELSE <<item>>
                     ELSE ctx[op]
  <2> HIDE DEF item
  <2>1. ctx' = Apply(engine, ctx, EngineOp(s), item)
    BY DEF item
  <2>2. \A op \in Keeps(engine) : op \in DOMAIN ctx
    BY KeepsSettings DEF TypeOK
  <2> QED
    BY <2>1, <2>2 DEF Apply
<1>6. s = "add_vsock_port" => PassedOn("bridge") = <<>>
  <2> HAVE s = "add_vsock_port"
  <2>1. stage = 5
    BY PassedOnHere, StageNames, StagesDiffer
  <2>2. ~Behind("bridge")
    BY <2>1, BehindIsBefore, StageNames
  <2> QED
    BY <2>2 DEF PassedOn
<1>7. s = "bridge" => \E T : /\ PassedOn("add_vsock_port") \in Seq(T)
                             /\ PassedOn("bridge") \in Seq(T)
                             /\ item \in T
  <2> HAVE s = "bridge"
  <2>1. stage = 7
    BY PassedOnHere, StageNames, StagesDiffer
  <2>2. PassedOn("add_vsock_port") = Items("add_vsock_port")
    BY <2>1, BehindIsBefore, StageNames DEF PassedOn
  <2>3. PICK R : Items("add_vsock_port") \in Seq(R)
    BY ItemsAreSeq
  <2>4. Items("add_vsock_port") \in Seq(R \union S) /\ PassedOn(s) \in Seq(R \union S)
    BY <1>3, <2>3, SeqMonotonic
  <2> QED
    BY <1>3, <2>2, <2>4
<1> HIDE DEF item
<1>8. ASSUME NEW op \in Keeps(engine), op = "add_vsock_port"
      PROVE  ctx'[op] = Sent(op)'
  <2>1. /\ ctx[op] = PassedOn("add_vsock_port") \o PassedOn("bridge")
        /\ Sent(op)' = PassedOn("add_vsock_port")' \o PassedOn("bridge")'
    BY <1>8 DEF Sent
  <2>2. CASE s = "add_vsock_port"
    <3>1. ctx'[op] = Append(PassedOn(s) \o <<>>, item)
      BY <1>5, <1>6, <1>8, <2>1, <2>2 DEF EngineOp, Devices
    <3>2. Sent(op)' = Append(PassedOn(s), item) \o <<>>
      BY <1>1, <1>3, <1>6, <2>1, <2>2
    <3>3. Append(PassedOn(s), item) \in Seq(S)
      BY <1>3, AppendProperties
    <3> QED
      BY <1>3, <3>1, <3>2, <3>3, ConcatEmptySeq
  <2>3. CASE s = "bridge"
    <3>1. ctx'[op] = Append(PassedOn("add_vsock_port") \o PassedOn(s), item)
      BY <1>5, <1>8, <2>1, <2>3 DEF EngineOp, Devices
    <3>2. Sent(op)' = PassedOn("add_vsock_port") \o Append(PassedOn(s), item)
      BY <1>1, <1>3, <2>1, <2>3
    <3>3. PICK T : /\ PassedOn("add_vsock_port") \in Seq(T)
                   /\ PassedOn(s) \in Seq(T)
                   /\ item \in T
      BY <1>7, <2>3
    <3>4. Append(PassedOn("add_vsock_port") \o PassedOn(s), item)
            = PassedOn("add_vsock_port") \o Append(PassedOn(s), item)
      <4> DEFINE raw == PassedOn("add_vsock_port")
                 bridged == PassedOn(s)
      <4>1. raw \in Seq(T) /\ bridged \in Seq(T) /\ item \in T
        BY <3>3
      <4> HIDE DEF raw, bridged
      <4>2. <<item>> \in Seq(T) /\ raw \o bridged \in Seq(T)
        BY <4>1, ConcatProperties
      <4>3. Append(raw \o bridged, item) = (raw \o bridged) \o <<item>>
        BY <4>1, <4>2, AppendIsConcat
      <4>4. (raw \o bridged) \o <<item>> = raw \o (bridged \o <<item>>)
        BY <4>1, <4>2, ConcatAssociative
      <4>5. bridged \o <<item>> = Append(bridged, item)
        BY <4>1, AppendIsConcat
      <4> QED
        BY <4>3, <4>4, <4>5 DEF raw, bridged
    <3> QED
      BY <3>1, <3>2, <3>4
  <2>4. CASE s \notin {"add_vsock_port", "bridge"}
    BY <1>1, <1>5, <1>8, <2>1, <2>4 DEF EngineOp
  <2> QED
    BY <2>2, <2>3, <2>4
<1>9. ASSUME NEW op \in Keeps(engine), op # "add_vsock_port"
      PROVE  ctx'[op] = Sent(op)'
  <2>1. ctx[op] = PassedOn(op) /\ Sent(op)' = PassedOn(op)'
    BY <1>9 DEF Sent
  <2>2. CASE op = s
    <3>1. op # "bridge"
      BY KeepsSettings DEF Settings
    <3>2. ctx'[op] = IF op \in Devices \/ engine = "mock"
                      THEN Append(ctx[op], item) ELSE <<item>>
      BY <1>5, <2>2, <3>1 DEF EngineOp
    <3> QED
      BY <1>3, <1>4, <1>9, <2>1, <2>2, <3>1, <3>2 DEF Devices
  <2>3. CASE op # s
    BY <1>1, <1>5, <1>9, <2>1, <2>3 DEF EngineOp
  <2> QED
    BY <2>2, <2>3
<1> QED
  BY <1>8, <1>9

\* Going on to the next stage changes nothing of what has been passed on.
LEMMA NextStagePassesNothing ==
  ASSUME TypeOK, builder' = builder, stage' = stage + 1, stage < 12,
         Tried = Len(Items(Stages[stage])), Tried' = 0
  PROVE  /\ \A s : PassedOn(s)' = PassedOn(s)
         /\ \A s : Behind(s)' <=> Behind(s) \/ s = Stages[stage]
<1>0. stage \in 1 .. 12 /\ stage + 1 \in 1 .. 12
  BY PassedOnHere
<1>1. \A s : Behind(s)' <=> Behind(s) \/ s = Stages[stage]
  <2>1. 1 .. stage' - 1 = (1 .. stage - 1) \union {stage}
    BY <1>0
  <2> QED
    BY <2>1 DEF Behind
<1>2. \A s : Items(s)' = Items(s)
  BY ItemsFrame
<1>3. ASSUME NEW s, s = Stages[stage] PROVE PassedOn(s)' = PassedOn(s)
  <2>1. PICK S : Items(s) \in Seq(S)
    BY ItemsAreSeq
  <2>2. PassedOn(s) = Items(s)
    BY <1>3, <2>1, FirstOnes, PassedOnHere
  <2>3. PassedOn(s)' = Items(s)
    BY <1>1, <1>2, <1>3 DEF PassedOn
  <2> QED
    BY <2>2, <2>3
<1>4. ASSUME NEW s, s = Stages[stage + 1] PROVE PassedOn(s)' = PassedOn(s)
  <2>1. ~Behind(s) /\ s # Stages[stage]
    BY <1>0, <1>4, BehindIsBefore, StagesDiffer
  <2>2. PICK S : Items(s) \in Seq(S)
    BY ItemsAreSeq
  <2>3. PassedOn(s)' = SubSeq(Items(s), 1, 0)
    BY <1>1, <1>2, <1>4, <2>1 DEF PassedOn
  <2>4. PassedOn(s) = <<>>
    BY <2>1 DEF PassedOn
  <2> QED
    BY <2>2, <2>3, <2>4, FirstOnes
<1>5. ASSUME NEW s, s # Stages[stage], s # Stages[stage + 1]
      PROVE  PassedOn(s)' = PassedOn(s)
  BY <1>1, <1>2, <1>5 DEF PassedOn
<1> QED
  BY <1>1, <1>3, <1>4, <1>5

-----------------------------------------------------------------------------
(* The inductive invariant.                                                *)

LEMMA FirstStage ==
  ASSUME TypeOK
  PROVE  /\ Len(Items("create_ctx")) = 1
         /\ Len(Items("get_shutdown_eventfd")) = 1
         /\ stage = 1 => \A s : ~Behind(s)
<1>1. stage = 1 => 1 .. stage - 1 = {}
  OBVIOUS
<1> QED
  BY <1>1 DEF Items, Behind

\* Before launch has called the engine: while the builder is built, after it
\* has been found incomplete, and when launch begins.
Fresh ==
  /\ stage = 1 /\ done = 0 /\ ctx = NewContext /\ configs = <<>>
  /\ call \in {"building", "rejected", "invalid", "launching"}
  /\ call = "launching" => Valid

LEMMA NothingDone == TypeOK /\ Fresh => IInv
<1> SUFFICES ASSUME TypeOK, Fresh PROVE IInv
  OBVIOUS
<1> USE DEF Fresh
<1>1. Stages[1] = "create_ctx" /\ \A s : ~Behind(s)
  BY StageNames, FirstStage
<1>2. CallInv
  BY DEF CallInv, InLaunch
<1>3. StageInv
  BY <1>1, FirstStage DEF StageInv
<1>4. ConfigsInv
  BY <1>1 DEF ConfigsInv
<1>5. \A op \in Keeps(engine) : ctx[op] = <<>> /\ Sent(op) = <<>>
  <2> TAKE op \in Keeps(engine)
  <2>1. op \in Settings
    BY KeepsSettings
  <2>2. \A s : s # "create_ctx" => PassedOn(s) = <<>>
    BY <1>1 DEF PassedOn
  <2> QED
    BY <2>1, <2>2 DEF NewContext, Sent, Settings
<1> QED
  BY <1>2, <1>3, <1>4, <1>5 DEF IInv, EngineSawPrefix

LEMMA InductiveInit == Init => IInv
BY TypeInit, NothingDone DEF Init, Fresh

\* No setter reaches the engine.
LEMMA BuildingStep ==
  ASSUME TypeOK', IInv, MemoryText \/ IntoBuilder \/ Setter
  PROVE  IInv'
<1>1. (\E next : Building(next)) \/ Rejected
  BY DEF MemoryText, IntoBuilder, Setter, Cpus, Vcpus, MemorySize, AddDisk,
         AddVirtiofs, AddVsock, VsockBridge, SetConsole, OemString, NestedVirt
<1>2. /\ call = "building" /\ call' \in {"building", "rejected"}
      /\ UNCHANGED <<engine, stage, done, ctx, configs>>
  BY <1>1 DEF Building, Rejected
<1>3. stage = 1 /\ done = 0 /\ ctx = NewContext /\ configs = <<>>
  BY <1>2 DEF IInv, CallInv, InLaunch
<1>4. Fresh'
  BY <1>2, <1>3 DEF Fresh
<1> QED
  BY <1>4, NothingDone, PTL

LEMMA LaunchCallStep ==
  ASSUME TypeOK', IInv, LaunchCall
  PROVE  IInv'
<1>1. /\ call = "building" /\ call' \in {"invalid", "launching"}
      /\ call' = "launching" => Valid
      /\ UNCHANGED <<engine, builder, stage, done, ctx, configs>>
  BY DEF LaunchCall
<1>2. stage = 1 /\ done = 0 /\ ctx = NewContext /\ configs = <<>>
  BY <1>1 DEF IInv, CallInv, InLaunch
<1>3. call' = "launching" => Valid'
  BY <1>1 DEF Valid
<1>4. Fresh'
  BY <1>1, <1>2, <1>3 DEF Fresh
<1> QED
  BY <1>4, NothingDone, PTL

\* What depends on the builder and the stage only.
LEMMA SameStage ==
  ASSUME builder' = builder, stage' = stage
  PROVE  /\ Items(Stages[stage])' = Items(Stages[stage])
         /\ \A s : Behind(s)' <=> Behind(s)
         /\ Valid' <=> Valid
<1>1. \A s : Items(s)' = Items(s)
  BY ItemsFrame
<1>2. Items(Stages[stage])' = Items(Stages[stage'])
  BY DEF Items
<1> QED
  BY <1>1, <1>2 DEF Behind, Valid

LEMMA SameConfigs ==
  ASSUME ConfigsInv, UNCHANGED <<builder, stage, configs>>,
         Stages[stage] = "bridge" => done' = done
  PROVE  ConfigsInv'
<1>1. \A s : Behind(s)' <=> Behind(s)
  BY SameStage
<1> QED
  BY <1>1 DEF ConfigsInv

\* Where nothing is passed on, what has been sent stays as it is.
LEMMA SameSent ==
  ASSUME TypeOK, UNCHANGED <<engine, builder, stage>>, Tried' = Tried
  PROVE  \A op : Sent(op)' = Sent(op)
<1>1. \A s : PassedOn(s)' = PassedOn(s)
  BY PassedOnFrame, PassedOnHere
<1> QED
  BY <1>1 DEF Sent

LEMMA StepStep ==
  ASSUME TypeOK, TypeOK', IInv, Step
  PROVE  IInv'
<1> DEFINE s == Stages[stage]
<1>1. /\ call = "launching" /\ call' = "launching"
      /\ done < Len(Items(s)) /\ done' = done + 1
      /\ MaySucceed(s)
      /\ UNCHANGED <<engine, call, builder, stage>>
      /\ ctx' = Apply(engine, ctx, EngineOp(s), Items(s)[done + 1])
  BY DEF Step
<1>2. /\ done \in Nat /\ Len(Items(s)) \in Nat /\ stage \in 1 .. 12
      /\ Items(s)' = Items(s)
  <2>1. PICK S : Items(s) \in Seq(S)
    BY ItemsAreSeq
  <2> QED
    BY <1>1, <2>1, SameStage, PassedOnHere, LenProperties DEF TypeOK
<1>3. CallInv'
  <2>1. Valid' /\ InLaunch'
    BY <1>1, SameStage DEF IInv, CallInv, InLaunch
  <2> QED
    BY <2>1 DEF CallInv
<1>4. StageInv'
  <2>1. engine = "vz" => stage # 11
    BY <1>1, StageNames DEF MaySucceed, EngineOp, CanSucceed, VzFails
  <2>2. done' <= Len(Items(Stages[stage])')
    BY <1>1, <1>2
  <2>3. engine = "vz" => stage <= 11
    BY DEF IInv, StageInv
  <2> QED
    BY <1>1, <2>1, <2>2, <2>3 DEF StageInv
<1>5. ConfigsInv'
  <2>1. CASE s = "bridge"
    <3>1. /\ configs' = Append(configs, [host |-> builder.bridges[done + 1].host,
                                         socket |-> Items(s)[done + 1].socket])
          /\ done < Len(builder.bridges) /\ Len(configs) = done
      BY <1>1, <2>1, BridgeItems, PassedOnHere DEF Step, IInv, ConfigsInv
    <3>2. Items(s)[done + 1] = BridgePort(builder.bridges[done + 1].guest)
      BY <1>2, <2>1, <3>1, BridgeItems
    <3>3. /\ Len(configs') = done + 1 /\ DOMAIN configs' = 1 .. done + 1
          /\ DOMAIN configs = 1 .. done
          /\ configs'[done + 1] = [host |-> builder.bridges[done + 1].host,
                                   socket |-> Items(s)[done + 1].socket]
          /\ \A i \in 1 .. done : configs'[i] = configs[i]
      BY <3>1, AppendProperties, LenProperties DEF TypeOK
    <3>4. ~Behind("bridge")'
      BY <1>1, <2>1, PassedOnHere, SameStage
    <3>5. \A i \in 1 .. done + 1 :
            configs'[i] = [host |-> builder.bridges[i].host,
                           socket |-> BridgePort(builder.bridges[i].guest).socket]
      <4> TAKE i \in 1 .. done + 1
      <4>1. CASE i = done + 1
        BY <3>2, <3>3, <4>1
      <4>2. CASE i \in 1 .. done
        BY <3>3, <4>2 DEF IInv, ConfigsInv
      <4> QED
        BY <1>2, <4>1, <4>2
    <3> QED
      BY <1>1, <2>1, <3>3, <3>4, <3>5 DEF ConfigsInv
  <2>2. CASE s # "bridge"
    BY <1>1, <2>2, SameConfigs DEF IInv, Step
  <2> QED
    BY <2>1, <2>2
<1>6. EngineSawPrefix'
  <2>1. Tried = done /\ Tried' = Tried + 1
    BY <1>1 DEF Tried
  <2>2. \A op \in Keeps(engine) : ctx'[op] = Sent(op)'
    BY <1>1, <1>2, <2>1, PassesOne DEF IInv, EngineSawPrefix, InLaunch
  <2> QED
    BY <1>1, <2>2 DEF EngineSawPrefix
<1> QED
  BY <1>3, <1>4, <1>5, <1>6 DEF IInv

LEMMA StepFailsStep ==
  ASSUME TypeOK, TypeOK', IInv, StepFails
  PROVE  IInv'
<1> DEFINE s == Stages[stage]
<1>1. /\ call = "launching" /\ call' = "failed"
      /\ done < Len(Items(s))
      /\ UNCHANGED <<engine, builder, stage, done, configs>>
      /\ ctx' = AfterFailure(engine, ctx, EngineOp(s), Items(s)[done + 1])
  BY DEF StepFails
<1>2. done \in Nat /\ Items(s)' = Items(s)
  BY <1>1, SameStage DEF TypeOK
<1>3. CallInv'
  <2>1. Valid' /\ InLaunch'
    BY <1>1, SameStage DEF IInv, CallInv, InLaunch
  <2> QED
    BY <2>1 DEF CallInv
<1>4. StageInv'
  BY <1>1, <1>2 DEF IInv, StageInv
<1>5. ConfigsInv'
  BY <1>1, SameConfigs DEF IInv
<1>6. EngineSawPrefix'
  <2>1. \A op \in Keeps(engine) : ctx[op] = Sent(op)
    BY <1>1 DEF IInv, EngineSawPrefix, InLaunch
  <2>2. \A op \in Keeps(engine) : ctx'[op] = Sent(op)'
    <3>1. CASE engine = "mock"
      <4>1. Tried = done /\ Tried' = Tried + 1
        BY <1>1, <3>1 DEF Tried
      <4> QED
        BY <1>1, <1>2, <2>1, <3>1, <4>1, PassesOne DEF AfterFailure
    <3>2. CASE engine # "mock"
      <4>1. Tried' = Tried /\ ctx' = ctx
        BY <1>1, <3>2 DEF Tried, AfterFailure
      <4> QED
        BY <1>1, <2>1, <4>1, SameSent
    <3> QED
      BY <3>1, <3>2
  <2> QED
    BY <1>1, <2>2 DEF EngineSawPrefix
<1> QED
  BY <1>3, <1>4, <1>5, <1>6 DEF IInv

LEMMA NextStageStep ==
  ASSUME TypeOK, TypeOK', IInv, NextStage
  PROVE  IInv'
<1> DEFINE s == Stages[stage]
<1>1. /\ call = "launching" /\ done = Len(Items(s))
      /\ UNCHANGED <<engine, builder, ctx, configs>>
      /\ stage \in 1 .. 12 /\ Len(Stages) = 12
  BY PassedOnHere, StageNames DEF NextStage
<1>2. CallInv /\ StageInv /\ ConfigsInv /\ InLaunch /\ Valid
  BY <1>1 DEF IInv, CallInv, InLaunch
<1>3. \A op \in Keeps(engine) : ctx[op] = Sent(op)
  BY <1>2 DEF IInv, EngineSawPrefix
<1>4. Valid'
  BY <1>1, <1>2 DEF Valid
<1>5. CASE stage = 12
  <2>1. call' = "launched" /\ UNCHANGED <<stage, done>>
    BY <1>1, <1>5 DEF NextStage
  <2>2. Items(s)' = Items(s) /\ Tried' = Tried
    BY <1>1, <2>1, SameStage DEF Tried
  <2>3. CallInv' /\ StageInv'
    BY <1>1, <1>2, <1>4, <1>5, <2>1, <2>2 DEF CallInv, StageInv, InLaunch
  <2>4. ConfigsInv'
    BY <1>1, <1>2, <2>1, SameConfigs
  <2>5. EngineSawPrefix'
    BY <1>1, <1>3, <2>1, <2>2, SameSent DEF EngineSawPrefix
  <2> QED
    BY <2>3, <2>4, <2>5 DEF IInv
<1>6. CASE stage # 12
  <2>1. /\ call' = "launching" /\ stage' = stage + 1 /\ done' = 0
        /\ stage < 12 /\ stage + 1 \in 1 .. 12
    BY <1>1, <1>6 DEF NextStage
  <2>2. Tried = Len(Items(s)) /\ Tried' = 0
    BY <1>1, <2>1 DEF Tried
  <2>3. /\ \A t : PassedOn(t)' = PassedOn(t)
        /\ \A t : Behind(t)' <=> Behind(t) \/ t = s
    BY <1>1, <2>1, <2>2, NextStagePassesNothing
  <2>4. CallInv'
    BY <1>4, <2>1 DEF CallInv, InLaunch
  <2>5. StageInv'
    <3>1. 0 <= Len(Items(Stages[stage])')
      <4>1. Items(Stages[stage])' = Items(Stages[stage + 1])
        BY <1>1, <2>1 DEF Items
      <4>2. 0 <= Len(Items(Stages[stage + 1]))
        BY ItemsAreSeq, LenProperties
      <4> QED
        BY <4>1, <4>2
    <3>2. engine = "vz" => stage # 11
      BY <1>1, <1>2, FirstStage, StageNames DEF StageInv
    <3> QED
      BY <1>1, <1>2, <2>1, <3>1, <3>2 DEF StageInv
  <2>6. ConfigsInv'
    <3>1. CASE s = "bridge"
      BY <1>1, <1>2, <2>1, <2>3, <3>1, PassedOnHere, BridgeItems DEF ConfigsInv
    <3>2. CASE s # "bridge"
      BY <1>1, <1>2, <2>1, <2>3, <3>2, BehindIsBefore DEF ConfigsInv
    <3> QED
      BY <3>1, <3>2
  <2>7. EngineSawPrefix'
    BY <1>1, <1>3, <2>3 DEF EngineSawPrefix, Sent
  <2> QED
    BY <2>4, <2>5, <2>6, <2>7 DEF IInv
<1> QED
  BY <1>5, <1>6

LEMMA StartEnterStep ==
  ASSUME TypeOK, TypeOK', IInv, StartEnter
  PROVE  IInv'
<1>1. /\ call = "launched" /\ call' = "entered"
      /\ UNCHANGED <<engine, builder, stage, done, ctx, configs>>
  BY DEF StartEnter
<1>2. CallInv /\ StageInv /\ ConfigsInv /\ InLaunch /\ Valid
  BY <1>1 DEF IInv, CallInv, InLaunch
<1>3. CallInv'
  BY <1>1, <1>2, SameStage DEF CallInv, InLaunch
<1>4. StageInv'
  BY <1>1, <1>2, SameStage DEF StageInv
<1>5. ConfigsInv'
  BY <1>1, <1>2, SameConfigs
<1>6. EngineSawPrefix'
  <2>1. Tried' = Tried
    BY <1>1 DEF Tried
  <2> QED
    BY <1>1, <1>2, <2>1, SameSent DEF IInv, EngineSawPrefix
<1> QED
  BY <1>3, <1>4, <1>5, <1>6 DEF IInv

LEMMA UnchangedStep ==
  ASSUME TypeOK, IInv, UNCHANGED vars
  PROVE  IInv'
<1>1. /\ UNCHANGED <<engine, call, builder, stage, done, ctx, configs>>
      /\ Tried' = Tried
  BY DEF vars, Tried
<1>2. CallInv' /\ StageInv'
  BY <1>1, SameStage DEF IInv, CallInv, StageInv, InLaunch
<1>3. ConfigsInv'
  BY <1>1, SameConfigs DEF IInv
<1>4. EngineSawPrefix'
  BY <1>1, SameSent DEF IInv, EngineSawPrefix, InLaunch
<1> QED
  BY <1>2, <1>3, <1>4 DEF IInv

\* What a launch has passed to the engine is, at every point of it and
\* however it fails, a prefix of one sequence that the builder fixes.
THEOREM Invariant == Spec => []IInv
<1>1. TypeOK /\ TypeOK' /\ IInv /\ [Next]_vars => IInv'
  <2> SUFFICES ASSUME TypeOK, TypeOK', IInv, [Next]_vars PROVE IInv'
    OBVIOUS
  <2>1. CASE MemoryText \/ IntoBuilder \/ Setter
    BY <2>1, BuildingStep
  <2>2. CASE Launching
    BY <2>2, LaunchCallStep, StepStep, StepFailsStep, NextStageStep, StartEnterStep
    DEF Launching
  <2>3. CASE UNCHANGED vars
    BY <2>3, UnchangedStep
  <2> QED
    BY <2>1, <2>2, <2>3 DEF Next
<1> QED
  BY <1>1, InductiveInit, TypeCorrect, PTL DEF Spec

\* Wherever launch fails, the engine has seen a prefix of one fixed sequence
\* of calls, whatever the lists of the builder.
THEOREM CallsAreAPrefix == Spec => []EngineSawPrefix
<1>1. IInv => EngineSawPrefix
  BY DEF IInv
<1> QED
  BY <1>1, Invariant, PTL

-----------------------------------------------------------------------------
(* What follows from it.                                                   *)

\* An Option that is there holds a value of its type.
LEMMA OptHolds ==
  ASSUME NEW S, NEW q \in Opt(S), q # <<>>
  PROVE  q[1] \in S /\ q = <<q[1]>>
BY DEF Opt

\* What has been passed on in a stage is a part of its items.
LEMMA PassedOnIsAPart ==
  ASSUME TypeOK, StageInv, NEW s, NEW S, Items(s) \in Seq(S)
  PROVE  PassedOn(s) \in Seq(S) /\ Range(PassedOn(s)) \subseteq Range(Items(s))
<1>1. CASE Behind(s)
  BY <1>1 DEF PassedOn
<1>2. CASE ~Behind(s) /\ s = Stages[stage]
  <2>1. Tried \in Nat /\ Tried <= Len(Items(s))
    BY <1>2, LenProperties DEF TypeOK, StageInv, Tried
  <2>2. PassedOn(s) = SubSeq(Items(s), 1, Tried)
    BY <1>2 DEF PassedOn
  <2> QED
    BY <2>1, <2>2, FirstOnesAreIn
<1>3. CASE ~Behind(s) /\ s # Stages[stage]
  <2>1. PassedOn(s) = <<>>
    BY <1>3 DEF PassedOn
  <2>2. Range(PassedOn(s)) = {} /\ PassedOn(s) \in Seq(S)
    BY <2>1 DEF Range
  <2> QED
    BY <2>2
<1> QED
  BY <1>1, <1>2, <1>3

\* Once launch is through, with an engine that can get there, the context
\* holds all items of all stages.
LEMMA AllIsPassedOn ==
  ASSUME TypeOK, IInv, call \in {"launched", "entered"}
  PROVE  /\ \A op \in Settings :
              ctx[op] = IF op = "add_vsock_port"
                          THEN Items(op) \o Items("bridge") ELSE Items(op)
         /\ Len(configs) = Len(builder.bridges)
<1>1. /\ stage = 12 /\ engine # "vz" /\ InLaunch
  BY StageNames DEF IInv, StageInv, InLaunch
<1>2. Keeps(engine) = Settings
  BY <1>1 DEF Keeps
<1>3. \A i \in 1 .. 11 : Behind(Stages[i])
  BY <1>1, BehindIsBefore
<1>4. \A s \in Settings \union {"bridge"} : Behind(s)
  BY <1>3, StageNames DEF Settings
<1>5. \A s \in Settings \union {"bridge"} : PassedOn(s) = Items(s)
  BY <1>4 DEF PassedOn
<1>6. \A op \in Settings : ctx[op] = Sent(op)
  BY <1>1, <1>2 DEF IInv, EngineSawPrefix
<1>7. Len(configs) = Len(builder.bridges)
  BY <1>4 DEF IInv, ConfigsInv
<1> QED
  BY <1>5, <1>6, <1>7 DEF Sent

\* A VM is entered with exactly what was built, in its order, with every
\* engine that gets there.
THEOREM EntersAsBuilt == Spec => []StartedAsBuilt
<1>1. ASSUME TypeOK, IInv, call = "entered" PROVE StartedAsBuilt
  BY <1>1, AllIsPassedOn DEF StartedAsBuilt, Settings, Items
<1>2. TypeOK /\ IInv => StartedAsBuilt
  BY <1>1 DEF StartedAsBuilt
<1> QED
  BY <1>2, Invariant, TypeCorrect, PTL

\* Every text a caller has had parsed was taken for what it says.
THEOREM TextsParseExactly == Spec => []TextParsesExactly
<1>1. TypeOK => TextParsesExactly
  <2> SUFFICES ASSUME TypeOK, NEW text \in Range(parsed) PROVE ParsesExactly(text)
    BY DEF TextParsesExactly
  <2>1. text \in Inputs
    BY DEF TypeOK, Opt, Range
  <2> QED
    BY <2>1, TextAssumption, ParseIsExact
<1> QED
  BY <1>1, TypeCorrect, PTL

-----------------------------------------------------------------------------
(* Values.  With the derived Deserialize zero gets past the newtypes, and  *)
(* what follows is false; without it, new() has seen every value.          *)

LEMMA HeldIsPositive ==
  ASSUME ~Deserializes
  PROVE  /\ VcpuCounts \subseteq 1 .. U8 - 1
         /\ Held(0 .. U32 - 1) = Sizes
         /\ 0 \notin VsockPorts
BY U8Assumption, UnitAssumption DEF VcpuCounts, VsockPorts, Held, Sizes

\* Display shows the size in a builder as a text that is read back as it.
THEOREM BuiltSizesRoundTrip ==
  ASSUME ~Deserializes
  PROVE  Spec => []SizeRoundTrips
<1>1. TypeOK => SizeRoundTrips
  <2> SUFFICES ASSUME TypeOK, NEW mib \in Range(builder.memory) PROVE RoundTrips(mib)
    BY DEF SizeRoundTrips
  <2>1. mib \in Sizes
    BY BuilderFields, HeldIsPositive DEF Opt, Range
  <2> QED
    BY <2>1, ShowParse
<1> QED
  BY <1>1, TypeCorrect, PTL

\* No context has a machine without a CPU, without memory, or with port 0.
THEOREM ValuesAreValid ==
  ASSUME ~Deserializes
  PROVE  Spec => []OnlyValidValues
<1>1. ASSUME TypeOK, IInv, ~InLaunch PROVE OnlyValidValues
  <2>1. ctx["set_vm_config"] = <<>> /\ ctx["add_vsock_port"] = <<>>
    BY <1>1 DEF IInv, CallInv, NewContext, Settings
  <2> QED
    BY <2>1 DEF OnlyValidValues, Range
<1>2. ASSUME TypeOK, IInv, InLaunch PROVE OnlyValidValues
  <2>1. /\ ctx["set_vm_config"] = PassedOn("set_vm_config")
        /\ ctx["add_vsock_port"] = PassedOn("add_vsock_port") \o PassedOn("bridge")
    BY <1>2 DEF IInv, EngineSawPrefix, Keeps, Settings, Sent
  <2>2. StageInv /\ Valid
    BY <1>2 DEF IInv, CallInv
  <2>3. ASSUME NEW c \in Range(ctx["set_vm_config"])
        PROVE  c.vcpus \in 1 .. U8 - 1 /\ c.memory \in Sizes
    <3>1. Items("set_vm_config") = <<[vcpus |-> builder.vcpus[1],
                                      memory |-> builder.memory[1]]>>
      BY DEF Items
    <3>2. \E S : Items("set_vm_config") \in Seq(S)
      BY <1>2, ItemsAreSeq
    <3>3. c \in Range(Items("set_vm_config"))
      BY <1>2, <2>1, <2>2, <2>3, <3>2, PassedOnIsAPart
    <3>4. c = [vcpus |-> builder.vcpus[1], memory |-> builder.memory[1]]
      BY <3>1, <3>3 DEF Range
    <3>5. builder.vcpus[1] \in VcpuCounts /\ builder.memory[1] \in Held(0 .. U32 - 1)
      BY <1>2, <2>2, BuilderFields, OptHolds DEF Valid
    <3> QED
      BY <3>4, <3>5, HeldIsPositive
  <2>4. ASSUME NEW v \in Range(ctx["add_vsock_port"]) PROVE v.port # 0
    <3>1. /\ PassedOn("add_vsock_port") \in Seq(Range(Items("add_vsock_port")))
          /\ PassedOn("bridge") \in Seq(Range(Items("bridge")))
      <4>1. ASSUME NEW S, NEW q \in Seq(S) PROVE q \in Seq(Range(q))
        <5>1. /\ DOMAIN q = 1 .. Len(q) /\ Len(q) \in Nat
              /\ q = [i \in DOMAIN q |-> q[i]]
          BY LenProperties
        <5>2. q \in [1 .. Len(q) -> Range(q)]
          BY <5>1 DEF Range
        <5> QED
          BY <5>1, <5>2, SeqDef
      <4>2. \A s : Items(s) \in Seq(Range(Items(s)))
        BY <1>2, <4>1, ItemsAreSeq
      <4> QED
        BY <1>2, <2>2, <4>2, PassedOnIsAPart
    <3>2. v \in Range(Items("add_vsock_port")) \/ v \in Range(Items("bridge"))
      <4> DEFINE T == Range(Items("add_vsock_port")) \union Range(Items("bridge"))
      <4>1. PassedOn("add_vsock_port") \in Seq(T) /\ PassedOn("bridge") \in Seq(T)
        BY <3>1, SeqMonotonic
      <4>2. Range(ctx["add_vsock_port"])
              = Range(PassedOn("add_vsock_port")) \union Range(PassedOn("bridge"))
        BY <2>1, <4>1, RangeOfConcat
      <4>3. /\ Range(PassedOn("add_vsock_port")) \subseteq Range(Items("add_vsock_port"))
            /\ Range(PassedOn("bridge")) \subseteq Range(Items("bridge"))
        BY <1>2, <2>2, ItemsAreSeq, PassedOnIsAPart
      <4> QED
        BY <2>4, <4>2, <4>3
    <3>3. CASE v \in Range(Items("add_vsock_port"))
      <4>1. Items("add_vsock_port") \in Seq(RawPorts)
        BY <1>2, BuilderFields DEF Items
      <4>2. v \in RawPorts
        BY <3>3, <4>1, ElementOfSeq, LenProperties DEF Range
      <4> QED
        BY <4>2, HeldIsPositive DEF RawPorts
    <3>4. CASE v \in Range(Items("bridge"))
      <4>1. PICK i \in 1 .. Len(builder.bridges) :
              v = BridgePort(builder.bridges[i].guest)
        BY <1>2, <3>4, BridgeItems, LenProperties DEF Range
      <4>2. builder.bridges[i] \in [host : HostPorts, guest : GuestPorts \ {0}]
        BY <1>2, <4>1, BuilderFields, ElementOfSeq
      <4> QED
        BY <4>1, <4>2 DEF BridgePort
    <3> QED
      BY <3>2, <3>3, <3>4
  <2> QED
    BY <2>3, <2>4 DEF OnlyValidValues
<1>3. TypeOK /\ IInv => OnlyValidValues
  BY <1>1, <1>2
<1> QED
  BY <1>3, Invariant, TypeCorrect, PTL

-----------------------------------------------------------------------------
(* What VzEngine and the bridges find.                                     *)

\* The state that a launch leaves in VzEngine builds the machine asked for,
\* with as many bytes as its size has, or nothing.
THEOREM VzBuildsWhatWasAsked == Spec => []VzStateBuilds
<1>1. ASSUME TypeOK, IInv, engine = "vz", call \in {"launching", "failed"},
             Stages[stage] = "get_shutdown_eventfd", NEW attachable \in SUBSET Disks
      PROVE  Build(ctx, attachable) =
               IF Range(builder.disks) \subseteq attachable
                 THEN <<[cpus    |-> builder.vcpus[1],
                         bytes   |-> builder.memory[1] * GiB * GiB,
                         boot    |-> "EFI",
                         storage |-> builder.disks]>>
                 ELSE <<>>
  <2>1. stage = 11 /\ InLaunch /\ Valid
    BY <1>1, PassedOnHere, StageNames, StagesDiffer DEF IInv, CallInv, InLaunch
  <2>2. Behind("set_vm_config") /\ Behind("add_disk")
    BY <1>1, <2>1, BehindIsBefore, StageNames
  <2>3. /\ ctx["set_vm_config"] = Items("set_vm_config")
        /\ ctx["add_disk"] = Items("add_disk")
    BY <1>1, <2>1, <2>2 DEF IInv, EngineSawPrefix, Keeps, Settings, Sent, PassedOn
  <2>4. /\ ctx["set_vm_config"] = <<[vcpus |-> builder.vcpus[1],
                                     memory |-> builder.memory[1]]>>
        /\ ctx["add_disk"] = builder.disks
    BY <2>3 DEF Items
  <2>5. builder.disks # <<>>
    BY <2>1 DEF Valid
  <2>6. Bytes(builder.memory[1]) = builder.memory[1] * GiB * GiB
    <3>1. builder.memory[1] \in Held(0 .. U32 - 1)
      BY <1>1, <2>1, BuilderFields, OptHolds DEF Valid
    <3>2. builder.memory[1] \in 0 .. U32 - 1
      BY <3>1 DEF Held
    <3> QED
      BY <3>2, BytesAreExact
  <2> QED
    BY <2>4, <2>5, <2>6 DEF Build, Buildable
<1>2. TypeOK /\ IInv => VzStateBuilds
  BY <1>1 DEF VzStateBuilds
<1> QED
  BY <1>2, Invariant, TypeCorrect, PTL

\* The socket that a bridge dials is registered for its guest port, and for
\* another one only where the caller has put a raw port on that path, however
\* many bridges and raw ports there are.
THEOREM BridgesReachTheirPorts == Spec => []BridgeReachesItsPort
<1>1. ASSUME TypeOK, IInv, call \in {"launched", "entered"}, NEW i \in DOMAIN configs
      PROVE  LET socket == configs[i].socket
                 own == [port |-> builder.bridges[i].guest, socket |-> socket]
                 registered == Range(ctx["add_vsock_port"])
             IN  /\ configs[i].host = builder.bridges[i].host
                 /\ own \in registered
                 /\ \A other \in registered \ {own} :
                      other.socket = socket => other \in Range(builder.vsock)
  <2> DEFINE raw == Items("add_vsock_port")
             bridged == Items("bridge")
             port == builder.bridges[i].guest
             registered == Range(ctx["add_vsock_port"])
  <2>1. i \in 1 .. Len(builder.bridges)
    BY <1>1, AllIsPassedOn, LenProperties DEF TypeOK
  <2>2. /\ configs[i].host = builder.bridges[i].host
        /\ configs[i].socket = <<"workdir", port>>
        /\ BridgePort(port) = [port |-> port, socket |-> configs[i].socket]
    BY <1>1 DEF IInv, ConfigsInv, BridgePort
  <2>3. registered = Range(builder.vsock) \union Range(bridged)
    <3> DEFINE B == {BridgePort(builder.bridges[k].guest) : k \in DOMAIN builder.bridges}
    <3>1. raw = builder.vsock /\ raw \in Seq(RawPorts)
      BY <1>1, BuilderFields DEF Items
    <3>2. raw \in Seq(RawPorts \union B) /\ bridged \in Seq(RawPorts \union B)
      BY <1>1, <3>1, BridgeItems, SeqMonotonic
    <3>3. ctx["add_vsock_port"] = raw \o bridged
      BY <1>1, AllIsPassedOn DEF Settings
    <3> QED
      BY <3>1, <3>2, <3>3, RangeOfConcat
  <2>4. \A w \in Range(bridged) : w.socket = <<"workdir", port>> => w = BridgePort(port)
    <3> TAKE w \in Range(bridged)
    <3>1. PICK k \in 1 .. Len(builder.bridges) :
            w = BridgePort(builder.bridges[k].guest)
      BY <1>1, BridgeItems, LenProperties DEF Range
    <3> QED
      BY <3>1 DEF BridgePort
  <2>5. BridgePort(port) \in Range(bridged)
    <3>1. bridged[i] = BridgePort(port) /\ i \in DOMAIN bridged
      BY <1>1, <2>1, BridgeItems, LenProperties
    <3> QED
      BY <3>1 DEF Range
  <2> HIDE DEF raw, bridged, port, registered
  <2>6. \A other \in registered \ {BridgePort(port)} :
          other.socket = configs[i].socket => other \in Range(builder.vsock)
    BY <2>2, <2>3, <2>4
  <2>7. BridgePort(port) \in registered
    BY <2>3, <2>5
  <2> QED
    BY <2>2, <2>6, <2>7 DEF port, registered
<1>2. TypeOK /\ IInv => BridgeReachesItsPort
  BY <1>1, AllIsPassedOn DEF BridgeReachesItsPort
<1> QED
  BY <1>2, Invariant, TypeCorrect, PTL
=============================================================================
