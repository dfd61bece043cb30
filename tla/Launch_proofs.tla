---------------------------- MODULE Launch_proofs ----------------------------
(***************************************************************************)
(* Proofs about Launch, for any number of launches and any ports.          *)
(***************************************************************************)
EXTENDS Launch, FiniteSetTheorems, SequenceTheorems, TLAPS

USE DEF callVars, ctxVars, guestVars, fileVars, Handles

-----------------------------------------------------------------------------
(* The pipeline.                                                           *)

\* The steps by their index.
LEMMA PipelineSteps ==
  /\ Len(Ports) \in Nat
  /\ Len(Pipeline) = Len(Ports) + 5
  /\ Pipeline[1] = "create_ctx"
  /\ Pipeline[2] = "devices"
  /\ Pipeline[3] = "create_dir"
  /\ \A i \in 1 .. Len(Ports) : Pipeline[i + 3] = Ports[i]
  /\ Pipeline[Len(Ports) + 4] = "options"
  /\ Pipeline[Len(Ports) + 5] = "spawn"
<1> DEFINE S == Range(Ports) \union
                  {"create_ctx", "devices", "create_dir", "options", "spawn"}
           first == <<"create_ctx", "devices", "create_dir">>
           last == <<"options", "spawn">>
<1>1. first \in Seq(S) /\ Len(first) = 3
  OBVIOUS
<1>2. last \in Seq(S) /\ Len(last) = 2
  OBVIOUS
<1>3. Ports \in Seq(S) /\ Len(Ports) \in Nat
  <2>1. Range(Ports) \subseteq S
    OBVIOUS
  <2>2. Ports \in Seq(S)
    BY <2>1, PortsAssumption, SeqMonotonic
  <2> QED
    BY <2>2, LenProperties
<1>4. /\ first \o Ports \in Seq(S)
      /\ Len(first \o Ports) = Len(Ports) + 3
      /\ \A i \in 1 .. Len(Ports) + 3 :
           (first \o Ports)[i] = IF i <= 3 THEN first[i] ELSE Ports[i - 3]
  BY <1>1, <1>3, ConcatProperties
<1>5. /\ Len(Pipeline) = Len(Ports) + 5
      /\ \A i \in 1 .. Len(Ports) + 5 :
           Pipeline[i] = IF i <= Len(Ports) + 3 THEN (first \o Ports)[i]
                         ELSE last[i - (Len(Ports) + 3)]
  <2> HIDE DEF S, first, last
  <2> DEFINE front == first \o Ports
  <2>1. Pipeline = front \o last
    BY DEF Pipeline, first, last
  <2>2. front \in Seq(S) /\ Len(front) = Len(Ports) + 3
    BY <1>4
  <2> HIDE DEF front
  <2>3. /\ Len(front \o last) = Len(front) + Len(last)
        /\ \A i \in 1 .. Len(front) + Len(last) :
             (front \o last)[i] = IF i <= Len(front) THEN front[i]
                                 ELSE last[i - Len(front)]
    BY <1>2, <2>2, ConcatProperties
  <2>4. Len(front) + Len(last) = Len(Ports) + 5
    BY <1>2, <1>3, <2>2
  <2> QED
    BY <2>1, <2>2, <2>3, <2>4, Zenon DEF front
<1>6. \A i \in 1 .. Len(Ports) : Pipeline[i + 3] = Ports[i]
  <2> HIDE DEF S, first, last
  <2> TAKE i \in 1 .. Len(Ports)
  <2>1. /\ i + 3 \in 1 .. Len(Ports) + 5 /\ i + 3 \in 1 .. Len(Ports) + 3
        /\ i + 3 <= Len(Ports) + 3
    BY <1>3
  <2>2. Pipeline[i + 3] = (first \o Ports)[i + 3]
    BY <1>5, <2>1, Zenon
  <2>3. ~(i + 3 <= 3) /\ (i + 3) - 3 = i
    BY <1>3
  <2>4. (first \o Ports)[i + 3] = Ports[(i + 3) - 3]
    BY <1>4, <2>1, <2>3
  <2> QED
    BY <2>2, <2>3, <2>4
<1>7. Pipeline[1] = first[1] /\ Pipeline[2] = first[2] /\ Pipeline[3] = first[3]
  <2> HIDE DEF S, first, last
  <2> QED
    BY <1>3, <1>4, <1>5
<1>8. /\ Pipeline[Len(Ports) + 4] = last[1]
      /\ Pipeline[Len(Ports) + 5] = last[2]
  <2> HIDE DEF S, first, last
  <2> QED
    BY <1>3, <1>5
<1> QED
  BY <1>3, <1>5, <1>6, <1>7, <1>8

\* No step has the name of another.
LEMMA StepNames ==
  ASSUME NEW i \in 1 .. Len(Pipeline)
  PROVE  /\ Pipeline[i] = "create_ctx" <=> i = 1
         /\ Pipeline[i] = "devices" <=> i = 2
         /\ Pipeline[i] = "create_dir" <=> i = 3
         /\ Pipeline[i] \in Range(Ports) <=> i \in 4 .. Len(Ports) + 3
         /\ Pipeline[i] = "options" <=> i = Len(Pipeline) - 1
         /\ Pipeline[i] = "spawn" <=> i = Len(Pipeline)
<1>1. CASE i \in 4 .. Len(Ports) + 3
  <2>1. i - 3 \in 1 .. Len(Ports) /\ (i - 3) + 3 = i
    BY <1>1, PipelineSteps
  <2>2. Pipeline[i] = Ports[i - 3]
    BY <2>1, PipelineSteps
  <2>3. Ports[i - 3] \in Range(Ports)
    BY <2>1, PortsAssumption, LenProperties DEF Range
  <2> QED
    BY <1>1, <2>2, <2>3, PipelineSteps, NamesAssumption
<1>2. CASE i \notin 4 .. Len(Ports) + 3
  <2>1. i \in {1, 2, 3, Len(Ports) + 4, Len(Ports) + 5}
    BY <1>2, PipelineSteps
  <2> QED
    BY <2>1, PipelineSteps, NamesAssumption
<1> QED
  BY <1>1, <1>2

\* Every port has its step.
LEMMA EveryPortIsUnlinked ==
  ASSUME NEW port \in Range(Ports)
  PROVE  \E i \in 4 .. Len(Ports) + 3 : Pipeline[i] = port
<1>1. PICK i \in DOMAIN Ports : Ports[i] = port
  BY DEF Range
<1>2. i \in 1 .. Len(Ports)
  BY PortsAssumption, LenProperties
<1>3. i + 3 \in 4 .. Len(Ports) + 3
  BY <1>2, PipelineSteps
<1> QED
  BY <1>1, <1>2, <1>3, PipelineSteps

-----------------------------------------------------------------------------
(* Contexts and types.                                                     *)

\* A launch that asks for a context is not among those that have one, so
\* that there are fewer of them than launches.
LEMMA ContextsSuffice ==
  ASSUME TypeOK, CtxInv, NEW v \in Vms, At(v, "create_ctx")
  PROVE  /\ step[v] = 1
         /\ nextCtx[Proc[v]] \in 0 .. Cardinality(Vms) - 1
         /\ nextCtx[Proc[v]] + 1 <=
              Cardinality(StartedIn(Proc[v]) \union {v})
<1> DEFINE mine == StartedIn(Proc[v])
<1>1. step[v] = 1
  BY StepNames DEF TypeOK, At
<1>2. v \notin mine
  BY <1>1 DEF StartedIn, Started
<1>3. mine \subseteq Vms /\ IsFiniteSet(mine)
  BY VmsAssumption, FS_Subset DEF StartedIn
<1>4. Cardinality(mine \union {v}) = Cardinality(mine) + 1
  BY <1>2, <1>3, FS_AddElement
<1>5. /\ mine \union {v} \subseteq Vms
      /\ Cardinality(mine \union {v}) <= Cardinality(Vms)
  BY <1>3, VmsAssumption, FS_Subset
<1>6. Cardinality(mine) \in Nat /\ Cardinality(Vms) \in Nat
  BY <1>3, VmsAssumption, FS_CardinalityType
<1>7. nextCtx[Proc[v]] \in Nat /\ nextCtx[Proc[v]] <= Cardinality(mine)
  BY <1>6, ProcAssumption DEF TypeOK, CtxInv
<1> HIDE DEF mine
<1>8. /\ nextCtx[Proc[v]] \in 0 .. Cardinality(Vms) - 1
      /\ nextCtx[Proc[v]] + 1 <= Cardinality(mine \union {v})
  BY <1>4, <1>5, <1>6, <1>7
<1> QED
  BY <1>1, <1>8 DEF mine

LEMMA SomeVms == Cardinality(Vms) \in Nat /\ (Vms # {} => Cardinality(Vms) # 0)
BY VmsAssumption, FS_CardinalityType, FS_EmptySet

LEMMA TypeInit == Init => TypeOK
<1> SUFFICES ASSUME Init PROVE TypeOK
  OBVIOUS
<1>1. step \in [Vms -> 1 .. Len(Pipeline)]
  BY PipelineSteps DEF Init
<1>2. ctx \in [Vms -> CtxIds] /\ nextCtx \in [Procs -> 0 .. Cardinality(Vms)]
  BY SomeVms DEF Init, CtxIds
<1> QED
  BY <1>1, <1>2 DEF Init, TypeOK

LEMMA AdvanceType ==
  ASSUME TypeOK, NEW v \in Vms, step[v] # Len(Pipeline), Advance(v)
  PROVE  step' \in [Vms -> 1 .. Len(Pipeline)] /\ handle' = handle
BY PipelineSteps DEF TypeOK, Advance

Files == [Paths -> {"absent", "dead"} \union Vms]

\* How a start may end: with every socket bound, with one that was there, or
\* without its directory.
LEMMA EnterCases ==
  ASSUME TypeOK, NEW v \in Vms, Enter(v)
  PROVE  /\ guest[v] = "entering"
         /\ UNCHANGED <<callVars, ctxVars, dirs>>
         /\ file' \in Files
         /\ \/ /\ ctx[v] \in dirs \/ Ports = <<>>
               /\ \A q \in SocketsOf(v) : file[q] = "absent"
               /\ \A q \in Paths :
                    file'[q] = IF q \in SocketsOf(v) THEN v ELSE file[q]
               /\ guest' = [guest EXCEPT ![v] = "running"]
               /\ UNCHANGED startErr
            \/ /\ \E q \in SocketsOf(v) : file[q] # "absent"
               /\ \A q \in Paths : file'[q] # file[q] =>
                    q \in SocketsOf(v) /\ file[q] = "absent" /\ file'[q] = "dead"
               /\ guest' = [guest EXCEPT ![v] = "ended"]
               /\ startErr' = [startErr EXCEPT ![v] = "EEXIST"]
            \/ /\ ctx[v] \notin dirs
               /\ guest' = [guest EXCEPT ![v] = "ended"]
               /\ startErr' = [startErr EXCEPT ![v] = "ENOENT"]
               /\ UNCHANGED file
<1> USE DEF Files
<1> DEFINE free == {q \in SocketsOf(v) : file[q] = "absent"}
<1>0. file \in Files
  BY DEF TypeOK
<1>1. free = SocketsOf(v) <=> \A q \in SocketsOf(v) : file[q] = "absent"
  OBVIOUS
<1>2. CASE (ctx[v] \in dirs \/ Ports = <<>>) /\ free = SocketsOf(v)
  <2>1. file' = [q \in Paths |-> IF q \in SocketsOf(v) THEN v ELSE file[q]]
    BY <1>2 DEF Enter
  <2>2. /\ file' \in Files
        /\ \A q \in Paths :
             file'[q] = IF q \in SocketsOf(v) THEN v ELSE file[q]
    BY <1>0, <2>1
  <2> QED
    BY <1>1, <1>2, <2>2 DEF Enter
<1>3. CASE (ctx[v] \in dirs \/ Ports = <<>>) /\ free # SocketsOf(v)
  <2>1. PICK left \in SUBSET free :
          file' = [q \in Paths |-> IF q \in left THEN "dead" ELSE file[q]]
    BY <1>3 DEF Enter
  <2>2. /\ file' \in Files
        /\ \A q \in Paths : file'[q] # file[q] =>
             q \in SocketsOf(v) /\ file[q] = "absent" /\ file'[q] = "dead"
    BY <1>0, <2>1
  <2>3. \E q \in SocketsOf(v) : file[q] # "absent"
    BY <1>1, <1>3
  <2>4. /\ guest[v] = "entering"
        /\ UNCHANGED <<callVars, ctxVars, dirs>>
        /\ guest' = [guest EXCEPT ![v] = "ended"]
        /\ startErr' = [startErr EXCEPT ![v] = "EEXIST"]
    BY <1>3 DEF Enter
  <2> QED
    BY <2>2, <2>3, <2>4
<1>4. CASE ~(ctx[v] \in dirs \/ Ports = <<>>)
  BY <1>0, <1>4 DEF Enter
<1> QED
  BY <1>2, <1>3, <1>4

LEMMA TypeStep ==
  ASSUME TypeOK, CtxInv, [Next]_vars
  PROVE  TypeOK'
<1> USE DEF TypeOK
<1>1. ASSUME NEW v \in Vms, Call(v) PROVE TypeOK'
  BY <1>1 DEF Call
<1>2. ASSUME NEW v \in Vms, CreateCtx(v) PROVE TypeOK'
  <2>1. step[v] # Len(Pipeline)
    BY <1>2, ContextsSuffice, PipelineSteps DEF CreateCtx
  <2>2. ctx' \in [Vms -> CtxIds]
    BY <1>2, ContextsSuffice DEF CreateCtx, CtxIds
  <2>3. nextCtx' \in [Procs -> 0 .. Cardinality(Vms)]
    <3>1. nextCtx[Proc[v]] + 1 \in 0 .. Cardinality(Vms)
      <4>1. nextCtx[Proc[v]] \in 0 .. Cardinality(Vms) - 1
        BY <1>2, ContextsSuffice DEF CreateCtx
      <4> QED
        BY <4>1, SomeVms
    <3> QED
      BY <1>2, <3>1 DEF CreateCtx
  <2> QED
    BY <1>2, <2>1, <2>2, <2>3, AdvanceType DEF CreateCtx
<1>3. ASSUME NEW v \in Vms, Configure(v) PROVE TypeOK'
  BY <1>3, StepNames, PipelineSteps, AdvanceType DEF Configure, At
<1>4. ASSUME NEW v \in Vms, CreateDir(v) PROVE TypeOK'
  BY <1>4, StepNames, PipelineSteps, AdvanceType DEF CreateDir, At
<1>5. ASSUME NEW v \in Vms, AddVsockPort(v) PROVE TypeOK'
  <2>1. PICK port \in Range(Ports) :
          At(v, port) /\ Unlink(<<ctx[v], port>>) /\ Advance(v)
    BY <1>5 DEF AddVsockPort
  <2>2. step[v] # Len(Pipeline)
    BY <2>1, StepNames, PipelineSteps DEF At
  <2>3. file' \in [Paths -> {"absent", "dead"} \union Vms]
    BY <2>1 DEF Unlink
  <2> QED
    BY <1>5, <2>1, <2>2, <2>3, AdvanceType DEF AddVsockPort
<1>6. ASSUME NEW v \in Vms, SpawnThread(v) PROVE TypeOK'
  BY <1>6 DEF SpawnThread
<1>7. ASSUME NEW v \in Vms, LaunchFails(v) PROVE TypeOK'
  BY <1>7 DEF LaunchFails, Unlink
<1>8. ASSUME NEW v \in Vms, Enter(v) PROVE TypeOK'
  BY <1>8, EnterCases DEF Files
<1>9. ASSUME NEW v \in Vms, GuestEnds(v) PROVE TypeOK'
  BY <1>9 DEF GuestEnds, Orphaned
<1>10. ASSUME NEW v \in Vms, Stop(v) PROVE TypeOK'
  BY <1>10 DEF Stop, RemoveWorkdir
<1>11. ASSUME NEW v \in Vms, Drop(v) PROVE TypeOK'
  BY <1>11 DEF Drop, RemoveWorkdir
<1>12. ASSUME NEW p \in Procs, Crash(p) PROVE TypeOK'
  BY <1>12, SomeVms DEF Crash, Orphaned
<1>13. CASE UNCHANGED vars
  BY <1>13 DEF vars
<1> QED
  BY <1>1, <1>2, <1>3, <1>4, <1>5, <1>6, <1>7, <1>8, <1>9, <1>10, <1>11,
     <1>12, <1>13 DEF Next, LaunchStep

-----------------------------------------------------------------------------
(* The parts of the invariant that hold for any number of processes.       *)

\* All that a launch or its guest does, but for asking for a context.
VmStep(v) ==
  Call(v) \/ Configure(v) \/ CreateDir(v) \/ AddVsockPort(v) \/ SpawnThread(v)
    \/ LaunchFails(v) \/ Enter(v) \/ GuestEnds(v) \/ Stop(v) \/ Drop(v)

LEMMA StepIsOneOf ==
  ASSUME [Next]_vars
  PROVE  \/ \E v \in Vms : VmStep(v) \/ CreateCtx(v)
         \/ \E p \in Procs : Crash(p)
         \/ UNCHANGED vars
BY DEF Next, LaunchStep, VmStep

\* Who has a context keeps it, and nobody gets one by another step.
LEMMA VmStepFrame ==
  ASSUME TypeOK, GuestInv, NEW v \in Vms, VmStep(v)
  PROVE  /\ UNCHANGED ctxVars
         /\ \A w \in Vms : Started(w)' <=> Started(w)
         /\ \A w \in Vms \ {v} : /\ handle'[w] = handle[w]
                                /\ step'[w] = step[w]
                                /\ guest'[w] = guest[w]
                                /\ startErr'[w] = startErr[w]
<1> USE DEF TypeOK, GuestInv, Started
<1>0. Len(Pipeline) > 1 /\ \A w \in Vms : step[w] \in Nat
  BY PipelineSteps
<1>1. CASE Call(v)
  BY <1>0, <1>1 DEF Call
<1>2. CASE Configure(v)
  BY <1>0, <1>2, StepNames, PipelineSteps DEF Configure, At, Advance
<1>3. CASE CreateDir(v)
  BY <1>0, <1>3, StepNames DEF CreateDir, At, Advance
<1>4. CASE AddVsockPort(v)
  <2>1. PICK port \in Range(Ports) : At(v, port)
    BY <1>4 DEF AddVsockPort
  <2>2. step[v] > 1
    BY <2>1, StepNames, PipelineSteps DEF At
  <2> QED
    BY <1>0, <1>4, <2>2 DEF AddVsockPort, At, Advance
<1>5. CASE SpawnThread(v)
  BY <1>0, <1>5 DEF SpawnThread, At
<1>6. CASE LaunchFails(v)
  BY <1>0, <1>6 DEF LaunchFails
<1>7. CASE Enter(v)
  BY <1>7, EnterCases
<1>8. CASE GuestEnds(v)
  BY <1>8 DEF GuestEnds
<1>9. CASE Stop(v)
  BY <1>9 DEF Stop
<1>10. CASE Drop(v)
  BY <1>10 DEF Drop
<1> QED
  BY <1>1, <1>2, <1>3, <1>4, <1>5, <1>6, <1>7, <1>8, <1>9, <1>10 DEF VmStep

\* A crash takes the contexts of all launches of its process.
LEMMA CrashFrame ==
  ASSUME TypeOK, NEW p \in Procs, Crash(p)
  PROVE  /\ UNCHANGED <<step, ctx, startErr, dirs>>
         /\ \A w \in Vms : Proc[w] = p => ~Started(w)'
         /\ \A w \in Vms : Proc[w] # p =>
              /\ handle'[w] = handle[w] /\ guest'[w] = guest[w]
              /\ Started(w)' <=> Started(w)
         /\ \A w \in Vms : guest'[w] \in {"entering", "running"} =>
              handle'[w] = handle[w] /\ guest'[w] = guest[w]
BY DEF Crash, Started, TypeOK

LEMMA CtxStep ==
  ASSUME TypeOK, GuestInv, CtxInv, [Next]_vars
  PROVE  CtxInv'
<1>1. ASSUME NEW v \in Vms, VmStep(v) PROVE CtxInv'
  <2>1. \A p \in Procs : StartedIn(p)' = StartedIn(p)
    BY <1>1, VmStepFrame DEF StartedIn
  <2> QED
    BY <1>1, <2>1, VmStepFrame DEF CtxInv
<1>2. ASSUME NEW v \in Vms, CreateCtx(v) PROVE CtxInv'
  <2>1. /\ step[v] = 1 /\ handle[v] = "launching"
        /\ \A w \in Vms : Started(w)' <=> w = v \/ Started(w)
    <3>1. step[v] = 1 /\ handle[v] = "launching"
      BY <1>2, ContextsSuffice DEF CreateCtx, At
    <3>2. handle' = handle /\ step' = [step EXCEPT ![v] = 2]
      BY <1>2, <3>1 DEF CreateCtx, Advance
    <3> QED
      BY <3>1, <3>2 DEF Started, TypeOK
  <2>2. \A p \in Procs : StartedIn(p)' =
          IF p = Proc[v] THEN StartedIn(p) \union {v} ELSE StartedIn(p)
    BY <2>1 DEF StartedIn
  <2>3. /\ nextCtx[Proc[v]] \in Nat
        /\ nextCtx[Proc[v]] + 1 <= Cardinality(StartedIn(Proc[v]) \union {v})
    BY <1>2, ContextsSuffice, SomeVms DEF CreateCtx
  <2>4. /\ \A p \in Procs : nextCtx'[p] = IF p = Proc[v] THEN nextCtx[p] + 1
                                          ELSE nextCtx[p]
        /\ \A w \in Vms : ctx'[w] = IF w = v THEN nextCtx[Proc[v]] ELSE ctx[w]
    BY <1>2, ProcAssumption DEF CreateCtx, TypeOK
  <2>5. \A p \in Procs : nextCtx'[p] <= Cardinality(StartedIn(p)')
    BY <2>2, <2>3, <2>4 DEF CtxInv
  <2>6. \A w \in Vms : /\ Proc[w] \in Procs
                       /\ ctx[w] \in Int /\ nextCtx[Proc[w]] \in Int
    BY SomeVms, ProcAssumption DEF TypeOK, CtxIds
  <2>7. \A w \in Vms : Started(w) \/ w = v => ctx'[w] < nextCtx'[Proc[w]]
    BY <2>4, <2>6 DEF CtxInv
  <2>8. \A w \in Vms : Started(w) /\ Proc[w] = Proc[v] => ctx[w] # nextCtx[Proc[v]]
    BY <2>6 DEF CtxInv
  <2>9. ~Started(v)
    BY <2>1 DEF Started
  <2>10. \A w, u \in Vms :
           (Started(w) \/ w = v) /\ (Started(u) \/ u = v)
             /\ Proc[w] = Proc[u] /\ ctx'[w] = ctx'[u] => w = u
    BY <2>4, <2>8, <2>9 DEF CtxInv
  <2> QED
    BY <2>1, <2>5, <2>7, <2>10 DEF CtxInv
<1>3. ASSUME NEW p \in Procs, Crash(p) PROVE CtxInv'
  <2>1. \A r \in Procs : nextCtx'[r] = IF r = p THEN 0 ELSE nextCtx[r]
    BY <1>3 DEF Crash, TypeOK
  <2>2. \A r \in Procs : r # p => StartedIn(r)' = StartedIn(r)
    BY <1>3, CrashFrame DEF StartedIn
  <2>3. Cardinality(StartedIn(p)') \in Nat
    BY VmsAssumption, FS_Subset, FS_CardinalityType DEF StartedIn
  <2>4. \A r \in Procs : nextCtx'[r] <= Cardinality(StartedIn(r)')
    BY <2>1, <2>2, <2>3 DEF CtxInv
  <2>5. \A w \in Vms : Started(w)' =>
          Started(w) /\ Proc[w] # p /\ nextCtx'[Proc[w]] = nextCtx[Proc[w]]
    BY <1>3, <2>1, CrashFrame, ProcAssumption
  <2> QED
    BY <1>3, <2>4, <2>5, CrashFrame DEF CtxInv
<1>4. CASE UNCHANGED vars
  BY <1>4 DEF vars, CtxInv, StartedIn, Started
<1> QED
  BY <1>1, <1>2, <1>3, <1>4, StepIsOneOf

LEMMA GuestStep ==
  ASSUME TypeOK, GuestInv, [Next]_vars
  PROVE  GuestInv'
<1> USE DEF TypeOK, GuestInv
<1>1. ASSUME NEW v \in Vms, VmStep(v) PROVE GuestInv'
  <2> DEFINE Inv(w) ==
        /\ handle[w] = "none" => step[w] = 1
        /\ handle[w] \in {"none", "launching", "failed"} => guest[w] = "none"
        /\ handle[w] \in {"held", "stopped", "released"} => step[w] = Len(Pipeline)
        /\ handle[w] = "held" => guest[w] # "none"
        /\ handle[w] \in {"stopped", "crashed"} => guest[w] \in {"none", "ended"}
        /\ startErr[w] # "none" => guest[w] = "ended"
  <2>1. \A w \in Vms \ {v} : Inv(w)'
    BY <1>1, VmStepFrame
  <2>2. Inv(v)'
    <3>1. CASE Call(v)
      BY <3>1 DEF Call
    <3>2. CASE Configure(v)
      BY <3>2 DEF Configure, At, Advance
    <3>3. CASE CreateDir(v)
      BY <3>3 DEF CreateDir, At, Advance
    <3>4. CASE AddVsockPort(v)
      BY <3>4 DEF AddVsockPort, At, Advance
    <3>5. CASE SpawnThread(v)
      BY <3>5, StepNames DEF SpawnThread, At
    <3>6. CASE LaunchFails(v)
      BY <3>6 DEF LaunchFails
    <3>7. CASE Enter(v)
      BY <3>7, EnterCases
    <3>8. CASE GuestEnds(v)
      BY <3>8 DEF GuestEnds
    <3>9. CASE Stop(v)
      BY <3>9 DEF Stop
    <3>10. CASE Drop(v)
      BY <3>10 DEF Drop
    <3> QED
      BY <1>1, <3>1, <3>2, <3>3, <3>4, <3>5, <3>6, <3>7, <3>8, <3>9, <3>10
      DEF VmStep
  <2> QED
    BY <2>1, <2>2
<1>2. ASSUME NEW v \in Vms, CreateCtx(v) PROVE GuestInv'
  BY <1>2 DEF CreateCtx, At, Advance
<1>3. ASSUME NEW p \in Procs, Crash(p) PROVE GuestInv'
  BY <1>3 DEF Crash
<1>4. CASE UNCHANGED vars
  BY <1>4 DEF vars
<1> QED
  BY <1>1, <1>2, <1>3, <1>4, StepIsOneOf

\* No step but the start of v makes v listen anywhere.
LEMMA OnlyEnterBinds ==
  ASSUME TypeOK, NEW v \in Vms, NEW q \in Paths, file'[q] = v, [Next]_vars
  PROVE  file[q] = v \/ (Enter(v) /\ q \in SocketsOf(v) /\ guest'[v] = "running")
<1> USE NamesAssumption DEF TypeOK
<1>1. ASSUME NEW w \in Vms, VmStep(w), file[q] # v
      PROVE  Enter(v) /\ q \in SocketsOf(v) /\ guest'[v] = "running"
  <2>1. CASE Call(w) \/ Configure(w) \/ CreateDir(w) \/ SpawnThread(w)
    BY <1>1, <2>1 DEF Call, Configure, CreateDir, SpawnThread
  <2>2. CASE AddVsockPort(w)
    BY <1>1, <2>2 DEF AddVsockPort, Unlink
  <2>3. CASE LaunchFails(w)
    BY <1>1, <2>3 DEF LaunchFails, Unlink
  <2>4. CASE Enter(w)
    BY <1>1, <2>4, EnterCases
  <2>5. CASE GuestEnds(w)
    BY <1>1, <2>5 DEF GuestEnds, Orphaned
  <2>6. CASE Stop(w) \/ Drop(w)
    BY <1>1, <2>6 DEF Stop, Drop, RemoveWorkdir
  <2> QED
    BY <1>1, <2>1, <2>2, <2>3, <2>4, <2>5, <2>6 DEF VmStep
<1>2. ASSUME NEW w \in Vms, CreateCtx(w) PROVE file[q] = v
  BY <1>2 DEF CreateCtx
<1>3. ASSUME NEW p \in Procs, Crash(p) PROVE file[q] = v
  BY <1>3 DEF Crash, Orphaned
<1>4. ASSUME UNCHANGED vars PROVE file[q] = v
  BY <1>4 DEF vars
<1> QED
  BY <1>1, <1>2, <1>3, <1>4, StepIsOneOf

LEMMA FileStep ==
  ASSUME TypeOK, GuestInv, FileInv, [Next]_vars
  PROVE  FileInv'
<1> SUFFICES ASSUME NEW q \in Paths, NEW v \in Vms, file'[q] = v
             PROVE  guest'[v] = "running" /\ q[1] = ctx'[v]
  BY DEF FileInv, Paths, CtxIds
<1> USE NamesAssumption DEF TypeOK
<1>1. CASE Enter(v) /\ q \in SocketsOf(v) /\ guest'[v] = "running"
  BY <1>1, EnterCases DEF SocketsOf
<1>2. CASE file[q] = v
  <2>1. guest[v] = "running" /\ q[1] = ctx[v]
    BY <1>2 DEF FileInv
  <2>2. ASSUME NEW w \in Vms, VmStep(w) PROVE guest'[v] = "running" /\ ctx' = ctx
    <3>1. CASE w # v
      BY <2>1, <2>2, <3>1, VmStepFrame
    <3>2. CASE w = v
      <4>1. ~GuestEnds(v)
        BY <1>2 DEF GuestEnds, Orphaned
      <4>2. ~Enter(v)
        BY <2>1 DEF Enter
      <4> QED
        BY <2>1, <2>2, <3>2, <4>1, <4>2
        DEF VmStep, GuestInv, Call, Configure, CreateDir, AddVsockPort,
            SpawnThread, LaunchFails, Stop, Drop, At
    <3> QED
      BY <3>1, <3>2
  <2>3. ASSUME NEW w \in Vms, CreateCtx(w)
        PROVE  guest'[v] = "running" /\ ctx'[v] = ctx[v]
    <3>1. guest[w] = "none"
      BY <2>3 DEF GuestInv, CreateCtx, At
    <3> QED
      BY <2>1, <2>3, <3>1 DEF CreateCtx
  <2>4. ASSUME NEW p \in Procs, Crash(p) PROVE guest'[v] = "running" /\ ctx' = ctx
    BY <1>2, <2>1, <2>4 DEF Crash, Orphaned
  <2>5. CASE UNCHANGED vars
    BY <2>1, <2>5 DEF vars
  <2> QED
    BY <2>1, <2>2, <2>3, <2>4, <2>5, StepIsOneOf
<1> QED
  BY <1>1, <1>2, OnlyEnterBinds

LEMMA BasicInit == Init => CtxInv /\ GuestInv /\ FileInv
<1> SUFFICES ASSUME Init PROVE CtxInv /\ GuestInv /\ FileInv
  OBVIOUS
<1>1. \A p \in Procs : StartedIn(p) = {}
  BY DEF Init, StartedIn, Started
<1>2. CtxInv
  BY <1>1, FS_EmptySet DEF Init, CtxInv, Started
<1>3. GuestInv
  BY DEF Init, GuestInv
<1>4. FileInv
  BY NamesAssumption DEF Init, FileInv
<1> QED
  BY <1>2, <1>3, <1>4

\* Every variable has its type: in particular no launch ever gets a context id
\* beyond the number of launches, whatever crashes.
THEOREM TypeCorrect == Spec => []TypeOK
<1>1. Init => TypeOK /\ CtxInv /\ GuestInv
  BY TypeInit, BasicInit
<1>2. TypeOK /\ CtxInv /\ GuestInv /\ [Next]_vars
        => (TypeOK /\ CtxInv /\ GuestInv)'
  BY TypeStep, CtxStep, GuestStep
<1> QED
  BY <1>1, <1>2, PTL DEF Spec

-----------------------------------------------------------------------------
(* What holds if the launches are of one process.  With two it does not:   *)
(* the contexts of both start at 0, and so do their directories.           *)

SingleProcess == \A v, w \in Vms : Proc[v] = Proc[w]

Basis == TypeOK /\ CtxInv /\ GuestInv /\ FileInv

LEMMA SocketsArePaths ==
  ASSUME TypeOK, NEW v \in Vms
  PROVE  /\ SocketsOf(v) \subseteq Paths
         /\ \A q \in SocketsOf(v) : q[1] = ctx[v]
         /\ \A port \in Range(Ports) : <<ctx[v], port>> \in SocketsOf(v)
BY DEF TypeOK, SocketsOf, Paths

\* A step of one launch touches no file and no directory of another that has
\* a context.
LEMMA OthersUntouched ==
  ASSUME SingleProcess, Basis, NEW v \in Vms, NEW w \in Vms, w # v, Started(w),
         VmStep(v)
  PROVE  /\ \A q \in SocketsOf(w) : file'[q] = file[q]
         /\ ctx[w] \in dirs => ctx[w] \in dirs'
<1> USE SocketsArePaths DEF Basis, TypeOK
<1>1. Started(v) => ctx[v] # ctx[w]
  BY DEF SingleProcess, CtxInv
<1>2. \A q \in SocketsOf(w) : q \in Paths /\ q[1] = ctx[w]
  OBVIOUS
<1>3. guest[v] \in {"entering", "running"} \/ handle[v] \in {"held", "stopped"}
        => Started(v)
  BY PipelineSteps DEF GuestInv, Started
<1>4. \A port \in Range(Ports) : At(v, port) => Started(v)
  BY StepNames DEF At, Started
<1>5. \A port \in Range(Ports) : Started(v) => <<ctx[v], port>> \notin SocketsOf(w)
  BY <1>1, <1>2
<1>6. CASE Call(v) \/ Configure(v) \/ CreateDir(v) \/ SpawnThread(v)
  BY <1>6 DEF Call, Configure, CreateDir, SpawnThread
<1>7. CASE AddVsockPort(v)
  BY <1>2, <1>4, <1>5, <1>7 DEF AddVsockPort, Unlink
<1>8. CASE LaunchFails(v)
  <2>1. CASE UNCHANGED file
    BY <1>8, <2>1 DEF LaunchFails
  <2>2. ASSUME NEW port \in Range(Ports), At(v, port), Unlink(<<ctx[v], port>>)
        PROVE  \A q \in SocketsOf(w) : file'[q] = file[q]
    BY <1>2, <1>4, <1>5, <2>2 DEF Unlink
  <2> QED
    BY <1>8, <2>1, <2>2 DEF LaunchFails
<1>9. CASE Enter(v)
  <2>1. Started(v)
    BY <1>3, <1>9, EnterCases
  <2> QED
    BY <1>1, <1>2, <1>9, <2>1, EnterCases
<1>10. CASE GuestEnds(v)
  <2>1. Started(v)
    BY <1>3, <1>10 DEF GuestEnds
  <2> QED
    BY <1>1, <1>2, <1>10, <2>1, NamesAssumption DEF GuestEnds, Orphaned, FileInv
<1>11. CASE Stop(v) \/ Drop(v)
  <2>1. Started(v) /\ RemoveWorkdir(v)
    BY <1>3, <1>11 DEF Stop, Drop
  <2> QED
    <3>1. CASE UNCHANGED fileVars
      BY <3>1
    <3>2. CASE /\ dirs' = dirs \ {ctx[v]}
               /\ file' = [q \in Paths |->
                            IF q[1] = ctx[v] THEN "absent" ELSE file[q]]
      BY <1>1, <1>2, <2>1, <3>2
    <3> QED
      BY <2>1, <3>1, <3>2 DEF RemoveWorkdir
<1> QED
  BY <1>6, <1>7, <1>8, <1>9, <1>10, <1>11 DEF VmStep

\* Who launches or enters has a context, or nothing cleared.
LEMMA ClearedFacts ==
  ASSUME TypeOK, NEW v \in Vms
  PROVE  /\ step[v] = 1 => Cleared(v) = {}
         /\ step[v] = Len(Pipeline) => Cleared(v) = Range(Ports)
         /\ step'[v] = step[v] => Cleared(v)' = Cleared(v)
         /\ step'[v] = step[v] + 1 => Cleared(v)' =
              Cleared(v) \union ({Pipeline[step[v]]} \intersect Range(Ports))
<1> USE DEF Cleared
<1>0. step[v] \in 1 .. Len(Pipeline) /\ step[v] \in Nat
  BY PipelineSteps DEF TypeOK
<1>1. step[v] = 1 => 1 .. step[v] - 1 = {}
  OBVIOUS
<1>2. ASSUME step[v] = Len(Pipeline), NEW port \in Range(Ports)
      PROVE  port \in {Pipeline[i] : i \in 1 .. step[v] - 1}
  BY <1>2, EveryPortIsUnlinked, PipelineSteps
<1>3. step'[v] = step[v] + 1 =>
        1 .. step'[v] - 1 = (1 .. step[v] - 1) \union {step[v]}
  BY <1>0
<1> QED
  BY <1>1, <1>2, <1>3

\* A launch or a guest that is still under way: it has no context yet, or one
\* that OthersUntouched speaks of.
LEMMA UnderWay ==
  ASSUME Basis, NEW v \in Vms,
         handle[v] = "launching" \/ guest[v] \in {"entering", "running"}
  PROVE  /\ Started(v) \/ step[v] = 1
         /\ guest[v] # "none" =>
              /\ handle[v] \in {"held", "released"}
              /\ step[v] = Len(Pipeline)
              /\ Started(v)
BY PipelineSteps DEF Basis, TypeOK, GuestInv, Started

LEMMA ClearStep ==
  ASSUME SingleProcess, Basis, ClearInv, [Next]_vars
  PROVE  ClearInv'
<1> USE SocketsArePaths, NamesAssumption DEF Basis, TypeOK
<1> SUFFICES ASSUME NEW u \in Vms,
                    handle'[u] = "launching" \/ guest'[u] = "entering",
                    NEW port \in Cleared(u)'
             PROVE  file'[<<ctx'[u], port>>] = "absent"
  BY DEF ClearInv
<1>1. ASSUME NEW v \in Vms, VmStep(v), u # v
      PROVE  file'[<<ctx'[u], port>>] = "absent"
  <2>1. /\ handle[u] = "launching" \/ guest[u] = "entering"
        /\ port \in Cleared(u)
        /\ ctx' = ctx
    BY <1>1, VmStepFrame, ClearedFacts
  <2>2. file[<<ctx[u], port>>] = "absent" /\ Started(u)
    BY <2>1, UnderWay, ClearedFacts DEF ClearInv
  <2> QED
    BY <1>1, <2>1, <2>2, OthersUntouched DEF Cleared
<1>2. ASSUME NEW v \in Vms, VmStep(v), u = v
      PROVE  file'[<<ctx'[u], port>>] = "absent"
  <2>1. ctx' = ctx /\ Cleared(v) \subseteq Range(Ports)
    BY <1>2, VmStepFrame DEF Cleared
  <2>2. CASE Call(v)
    BY <1>2, <2>2, ClearedFacts DEF Call, GuestInv
  <2>3. CASE Configure(v)
    BY <1>2, <2>1, <2>3, ClearedFacts, StepNames
    DEF Configure, At, Advance, ClearInv
  <2>4. CASE CreateDir(v)
    BY <1>2, <2>1, <2>4, ClearedFacts, StepNames
    DEF CreateDir, At, Advance, ClearInv
  <2>5. CASE AddVsockPort(v)
    <3>1. PICK p \in Range(Ports) :
            At(v, p) /\ Unlink(<<ctx[v], p>>) /\ Advance(v)
      BY <2>5 DEF AddVsockPort
    <3>2. port = p \/ port \in Cleared(v)
      BY <1>2, <3>1, ClearedFacts DEF At, Advance
    <3>3. port \in Cleared(v) => file[<<ctx[v], port>>] = "absent"
      BY <3>1 DEF At, ClearInv
    <3>4. <<ctx[v], port>> \in Paths
      BY <2>1, <3>2
    <3> QED
      BY <1>2, <2>1, <3>1, <3>2, <3>3, <3>4 DEF Unlink
  <2>6. CASE SpawnThread(v)
    BY <1>2, <2>1, <2>6, ClearedFacts DEF SpawnThread, At, ClearInv
  <2>7. CASE LaunchFails(v) \/ Enter(v) \/ GuestEnds(v) \/ Stop(v)
    BY <1>2, <2>7, UnderWay, EnterCases DEF LaunchFails, GuestEnds, Stop, GuestInv
  <2>8. CASE Drop(v)
    <3>1. file[<<ctx[v], port>>] = "absent" /\ <<ctx[v], port>> \in Paths
      BY <1>2, <2>1, <2>8, ClearedFacts DEF Drop, ClearInv
    <3> QED
      BY <1>2, <2>1, <2>8, <3>1 DEF Drop, RemoveWorkdir
  <2> QED
    BY <1>2, <2>2, <2>3, <2>4, <2>5, <2>6, <2>7, <2>8 DEF VmStep
<1>3. ASSUME NEW v \in Vms, CreateCtx(v)
      PROVE  file'[<<ctx'[u], port>>] = "absent"
  <2>1. step[v] = 1 /\ step'[v] = step[v] + 1
    BY <1>3, ContextsSuffice DEF CreateCtx, Advance
  <2>2. u # v
    <3>1. Pipeline[step[v]] \notin Range(Ports)
      BY <2>1, StepNames
    <3>2. Cleared(v)' = {}
      <4>1. Cleared(v) = {}
        BY <2>1, ClearedFacts
      <4>2. Cleared(v)' =
              Cleared(v) \union ({Pipeline[step[v]]} \intersect Range(Ports))
        BY <2>1, ClearedFacts
      <4> QED
        BY <3>1, <4>1, <4>2
    <3> QED
      BY <3>2 DEF Cleared
  <2> QED
    BY <1>3, <2>2, ClearedFacts DEF CreateCtx, Advance, ClearInv
<1>4. ASSUME NEW p \in Procs, Crash(p)
      PROVE  file'[<<ctx'[u], port>>] = "absent"
  <2>1. /\ handle[u] = "launching" \/ guest[u] = "entering"
        /\ port \in Cleared(u)
    BY <1>4, ClearedFacts DEF Crash
  <2>2. file[<<ctx[u], port>>] = "absent" /\ <<ctx[u], port>> \in Paths
    BY <2>1 DEF ClearInv, Cleared
  <2> QED
    BY <1>4, <2>2 DEF Crash, Orphaned
<1>5. CASE UNCHANGED vars
  BY <1>5, ClearedFacts DEF vars, ClearInv
<1> QED
  BY <1>1, <1>2, <1>3, <1>4, <1>5, StepIsOneOf

LEMMA DirStep ==
  ASSUME SingleProcess, Basis, DirInv, [Next]_vars
  PROVE  DirInv'
<1> USE DEF Basis, TypeOK, DirInv
<1> SUFFICES ASSUME NEW u \in Vms, handle'[u] \in {"launching", "held"},
                    step'[u] > 3
             PROVE  ctx'[u] \in dirs'
  OBVIOUS
<1>1. ASSUME NEW v \in Vms, VmStep(v), u # v PROVE ctx'[u] \in dirs'
  <2>1. ctx' = ctx /\ handle'[u] = handle[u] /\ step'[u] = step[u]
    BY <1>1, VmStepFrame
  <2>2. ctx[u] \in dirs /\ Started(u)
    BY <2>1 DEF Started
  <2> QED
    BY <1>1, <2>1, <2>2, OthersUntouched
<1>2. ASSUME NEW v \in Vms, VmStep(v), u = v PROVE ctx'[u] \in dirs'
  <2>1. CASE Call(v)
    BY <1>2, <2>1 DEF Call, GuestInv
  <2>2. CASE Configure(v)
    <3>1. step[v] = 2 \/ step[v] > 3
      BY <2>2, StepNames, PipelineSteps DEF Configure, At
    <3> QED
      BY <1>2, <2>2, <3>1 DEF Configure, At, Advance
  <2>3. CASE CreateDir(v)
    BY <1>2, <2>3 DEF CreateDir
  <2>4. CASE AddVsockPort(v)
    <3>1. handle[v] = "launching" /\ step[v] > 3
      BY <2>4, StepNames DEF AddVsockPort, At
    <3> QED
      BY <1>2, <2>4, <3>1 DEF AddVsockPort
  <2>5. CASE SpawnThread(v)
    BY <1>2, <2>5 DEF SpawnThread, At
  <2>6. CASE Enter(v)
    BY <1>2, <2>6, EnterCases
  <2>7. CASE GuestEnds(v)
    BY <1>2, <2>7 DEF GuestEnds
  <2>8. CASE LaunchFails(v) \/ Stop(v) \/ Drop(v)
    BY <1>2, <2>8 DEF LaunchFails, Stop, Drop
  <2> QED
    BY <1>2, <2>1, <2>2, <2>3, <2>4, <2>5, <2>6, <2>7, <2>8 DEF VmStep
<1>3. ASSUME NEW v \in Vms, CreateCtx(v) PROVE ctx'[u] \in dirs'
  <2>1. step[v] = 1
    BY <1>3, ContextsSuffice DEF CreateCtx
  <2> QED
    BY <1>3, <2>1 DEF CreateCtx, Advance
<1>4. ASSUME NEW p \in Procs, Crash(p) PROVE ctx'[u] \in dirs'
  BY <1>4 DEF Crash
<1>5. CASE UNCHANGED vars
  BY <1>5 DEF vars
<1> QED
  BY <1>1, <1>2, <1>3, <1>4, <1>5, StepIsOneOf

\* A start meets no file: what its launch has cleared is clear.
LEMMA NoStaleStep ==
  ASSUME Basis, ClearInv, NoStaleBind, [Next]_vars
  PROVE  NoStaleBind'
<1> USE DEF Basis, TypeOK, NoStaleBind
<1>1. ASSUME NEW v \in Vms, VmStep(v) PROVE startErr'[v] # "EEXIST"
  <2>1. CASE Enter(v)
    <3>1. Cleared(v) = Range(Ports)
      BY <2>1, UnderWay, EnterCases, ClearedFacts
    <3>2. \A q \in SocketsOf(v) : file[q] = "absent"
      BY <2>1, <3>1, EnterCases DEF ClearInv, SocketsOf
    <3> QED
      BY <2>1, <3>2, EnterCases
  <2>2. CASE ~Enter(v)
    BY <1>1, <2>2
    DEF VmStep, Call, Configure, CreateDir, AddVsockPort, SpawnThread,
        LaunchFails, GuestEnds, Stop, Drop
  <2> QED
    BY <2>1, <2>2
<1>2. ASSUME NEW v \in Vms, VmStep(v) PROVE NoStaleBind'
  BY <1>1, <1>2, VmStepFrame
<1>3. ASSUME NEW v \in Vms, CreateCtx(v) PROVE NoStaleBind'
  BY <1>3 DEF CreateCtx
<1>4. ASSUME NEW p \in Procs, Crash(p) PROVE NoStaleBind'
  BY <1>4 DEF Crash
<1>5. CASE UNCHANGED vars
  BY <1>5 DEF vars
<1> QED
  BY <1>2, <1>3, <1>4, <1>5, StepIsOneOf

LEMMA FindsStep ==
  ASSUME Basis, DirInv, StartFindsDirectory, [Next]_vars
  PROVE  StartFindsDirectory'
<1> USE DEF Basis, TypeOK, StartFindsDirectory
<1>1. ASSUME NEW v \in Vms, VmStep(v)
      PROVE  startErr'[v] = "ENOENT" => handle'[v] \notin {"launching", "held"}
  <2>1. CASE Enter(v)
    <3>1. handle[v] \in {"held", "released"} /\ step[v] > 3
      BY <2>1, UnderWay, EnterCases, PipelineSteps
    <3>2. startErr'[v] = "ENOENT" => ctx[v] \notin dirs \/ startErr[v] = "ENOENT"
      BY <2>1, EnterCases
    <3> QED
      BY <2>1, <3>1, <3>2, EnterCases DEF DirInv
  <2>2. CASE Call(v) \/ SpawnThread(v)
    BY <2>2 DEF Call, SpawnThread, At, GuestInv
  <2>3. CASE ~(Enter(v) \/ Call(v) \/ SpawnThread(v))
    BY <1>1, <2>3
    DEF VmStep, Configure, CreateDir, AddVsockPort, Advance, At,
        LaunchFails, GuestEnds, Stop, Drop
  <2> QED
    BY <2>1, <2>2, <2>3
<1>2. ASSUME NEW v \in Vms, VmStep(v) PROVE StartFindsDirectory'
  BY <1>1, <1>2, VmStepFrame
<1>3. ASSUME NEW v \in Vms, CreateCtx(v) PROVE StartFindsDirectory'
  BY <1>3 DEF CreateCtx, Advance
<1>4. ASSUME NEW p \in Procs, Crash(p) PROVE StartFindsDirectory'
  BY <1>4 DEF Crash
<1>5. CASE UNCHANGED vars
  BY <1>5 DEF vars
<1> QED
  BY <1>2, <1>3, <1>4, <1>5, StepIsOneOf

\* A socket with a guest behind it keeps its file, but for the end of the guest
\* and the drop of its own handle.
LEMMA ListenerKeepsFile ==
  ASSUME SingleProcess, Basis, [Next]_vars,
         NEW q \in Paths, NEW u \in Vms, file[q] = u, file'[q] # u
  PROVE  guest'[u] # "running" \/ handle'[u] = "released"
<1> USE NamesAssumption DEF Basis, TypeOK
<1>1. /\ guest[u] = "running" /\ q[1] = ctx[u] /\ q \in SocketsOf(u)
      /\ Started(u) /\ handle[u] \in {"held", "released"}
  <2>1. guest[u] = "running" /\ q[1] = ctx[u]
    BY DEF FileInv
  <2> QED
    BY <2>1, UnderWay DEF SocketsOf, Paths
<1>2. ASSUME NEW v \in Vms, VmStep(v)
      PROVE  guest'[u] # "running" \/ handle'[u] = "released"
  <2>1. u = v
    BY <1>1, <1>2, OthersUntouched
  <2> QED
    BY <1>1, <1>2, <2>1
    DEF VmStep, Call, Configure, CreateDir, AddVsockPort, SpawnThread,
        LaunchFails, Enter, GuestEnds, Stop, Drop, At
<1>3. ASSUME NEW v \in Vms, CreateCtx(v) PROVE FALSE
  BY <1>3 DEF CreateCtx
<1>4. ASSUME NEW p \in Procs, Crash(p) PROVE guest'[u] # "running"
  BY <1>4 DEF Crash, Orphaned
<1>5. ASSUME UNCHANGED vars PROVE FALSE
  BY <1>5 DEF vars
<1> QED
  BY <1>2, <1>3, <1>4, <1>5, StepIsOneOf

LEMMA ReachableStep ==
  ASSUME SingleProcess, Basis, HeldGuestIsReachable, [Next]_vars
  PROVE  HeldGuestIsReachable'
<1> USE SocketsArePaths DEF Basis, TypeOK
<1> SUFFICES ASSUME NEW u \in Vms, handle'[u] = "held", guest'[u] = "running",
                    NEW q \in SocketsOf(u)'
             PROVE  file'[q] = u
  BY DEF HeldGuestIsReachable
<1>1. CASE handle[u] = "held" /\ guest[u] = "running" /\ ctx'[u] = ctx[u]
  <2>1. q \in SocketsOf(u)
    BY <1>1 DEF SocketsOf
  <2>2. file[q] = u /\ q \in Paths
    BY <1>1, <2>1 DEF HeldGuestIsReachable
  <2> QED
    BY <2>2, ListenerKeepsFile
<1>2. CASE Enter(u)
  BY <1>2, EnterCases DEF SocketsOf
<1>3. ASSUME ~Enter(u)
      PROVE  handle[u] = "held" /\ guest[u] = "running" /\ ctx'[u] = ctx[u]
  <2>1. ASSUME NEW v \in Vms, VmStep(v)
        PROVE  handle[u] = "held" /\ guest[u] = "running" /\ ctx'[u] = ctx[u]
    <3>1. CASE u # v
      BY <2>1, <3>1, VmStepFrame
    <3>2. CASE u = v
      BY <1>3, <2>1, <3>2
      DEF VmStep, Call, Configure, CreateDir, AddVsockPort, Advance, SpawnThread,
          LaunchFails, GuestEnds, Stop, Drop, At, GuestInv
    <3> QED
      BY <3>1, <3>2
  <2>2. ASSUME NEW v \in Vms, CreateCtx(v)
        PROVE  handle[u] = "held" /\ guest[u] = "running" /\ ctx'[u] = ctx[u]
    BY <2>2 DEF CreateCtx, At, Advance, GuestInv
  <2>3. ASSUME NEW p \in Procs, Crash(p)
        PROVE  handle[u] = "held" /\ guest[u] = "running" /\ ctx'[u] = ctx[u]
    BY <2>3 DEF Crash
  <2>4. ASSUME UNCHANGED vars
        PROVE  handle[u] = "held" /\ guest[u] = "running" /\ ctx'[u] = ctx[u]
    BY <2>4 DEF vars
  <2> QED
    BY <2>1, <2>2, <2>3, <2>4, StepIsOneOf
<1> QED
  BY <1>1, <1>2, <1>3

-----------------------------------------------------------------------------
(* The theorems.                                                           *)

LEMMA InductiveInit == Init => IInv
<1> SUFFICES ASSUME Init PROVE IInv
  OBVIOUS
<1>1. \A v \in Vms : handle[v] = "none" /\ guest[v] = "none" /\ startErr[v] = "none"
  BY DEF Init
<1> QED
  BY <1>1, BasicInit
  DEF IInv, ClearInv, DirInv, NoStaleBind, StartFindsDirectory,
      HeldGuestIsReachable

LEMMA InductiveStep ==
  ASSUME SingleProcess, TypeOK, IInv, [Next]_vars
  PROVE  IInv'
<1>1. Basis
  BY DEF Basis, IInv
<1>2. CtxInv' /\ GuestInv' /\ FileInv'
  BY <1>1, CtxStep, GuestStep, FileStep DEF Basis
<1>3. ClearInv' /\ DirInv'
  BY <1>1, ClearStep, DirStep DEF IInv
<1>4. NoStaleBind' /\ StartFindsDirectory' /\ HeldGuestIsReachable'
  BY <1>1, NoStaleStep, FindsStep, ReachableStep DEF IInv
<1> QED
  BY <1>2, <1>3, <1>4 DEF IInv

\* The invariant of the launches of one process, however many, over any ports
\* and any number of crashes and restarts.
THEOREM Invariant ==
  ASSUME SingleProcess
  PROVE  Spec => []IInv
<1>1. Init => TypeOK /\ IInv
  BY TypeInit, InductiveInit
<1>2. TypeOK /\ IInv /\ [Next]_vars => (TypeOK /\ IInv)'
  BY TypeStep, InductiveStep DEF IInv
<1> QED
  BY <1>1, <1>2, PTL DEF Spec

\* No file of an earlier launch ever stops a start.
THEOREM NoStartMeetsAFile ==
  ASSUME SingleProcess
  PROVE  Spec => []NoStaleBind
<1>1. IInv => NoStaleBind
  BY DEF IInv
<1> QED
  BY <1>1, Invariant, PTL

\* A start finds its directory as long as its handle is held.
THEOREM StartsFindTheirDirectory ==
  ASSUME SingleProcess
  PROVE  Spec => []StartFindsDirectory
<1>1. IInv => StartFindsDirectory
  BY DEF IInv
<1> QED
  BY <1>1, Invariant, PTL

\* Behind every socket of a running guest whose handle is held is that guest.
THEOREM HeldGuestsAreReachable ==
  ASSUME SingleProcess
  PROVE  Spec => []HeldGuestIsReachable
<1>1. IInv => HeldGuestIsReachable
  BY DEF IInv
<1> QED
  BY <1>1, Invariant, PTL

\* No step removes the socket of a running guest but the drop of its handle.
THEOREM OnlyStaleFilesGo ==
  ASSUME SingleProcess
  PROVE  Spec => OnlyStaleIsRemoved
<1> DEFINE Keeps == \A q \in Paths, v \in Vms :
                      file[q] = v /\ file'[q] # v =>
                        guest'[v] # "running" \/ handle'[v] = "released"
<1>1. TypeOK /\ IInv /\ [Next]_vars => Keeps
  BY ListenerKeepsFile DEF IInv, Basis
<1>2. Spec => [][Keeps]_vars
  <2> HIDE DEF Keeps
  <2> QED
    BY <1>1, TypeCorrect, Invariant, PTL DEF Spec
<1> QED
  BY <1>2 DEF OnlyStaleIsRemoved
=============================================================================
