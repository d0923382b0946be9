----------------------------- MODULE BootProofs -----------------------------
(* Proofs about module Boot, for every value of its constants.             *)
EXTENDS Boot, FiniteSetTheorems, TLAPS

-----------------------------------------------------------------------------
(* Type correctness.                                                       *)

(* Every log statement goes on to a location of the program.               *)
LEMMA LogSuccFacts ==
  /\ DOMAIN LogSucc \subseteq Locations
  /\ \A l \in DOMAIN LogSucc : LogSucc[l] \in Locations \ {"none"}
BY DEF LogSucc, Locations

(* A jump of the running frame keeps the stack well formed.                *)
LEMMA GotoType ==
  ASSUME StackOK, NEW l \in Locations \ {"none"}, Goto(l)
  PROVE  StackOK'
BY DEF StackOK, Goto, Frame

(* The steps that only move the boot thread or a stub.                     *)
LEMMA StepType ==
  ASSUME TypeOK, NEW from, NEW to \in Locations \ {"none"}, Step(from, to)
  PROVE  TypeOK'
<1>1. StackOK'
  BY GotoType DEF Step, TypeOK
<1> QED
  BY <1>1 DEF Step, TypeOK, cpuTables, irqState, console

(* The refusals of _start before there is a console.                       *)
LEMMA RefuseType ==
  ASSUME TypeOK, NEW from, NEW name \in CheckedNames, Refuse(from, name)
  PROVE  TypeOK'
<1>1. StackOK'
  BY GotoType DEF Refuse, TypeOK, Locations, InPanic
<1>2. Msg(name) \in Messages
  BY DEF Msg, Messages, Reasons
<1> QED
  BY <1>1, <1>2 DEF Refuse, TypeOK, cpuTables, irqState

(* kpanic on the boot thread.                                              *)
LEMMA KpanicType ==
  ASSUME TypeOK, NEW from, NEW name \in CheckedNames, Kpanic(from, name)
  PROVE  TypeOK'
<1>1. /\ "panic_fb" \in Locations /\ 0 \in Vectors
      /\ Top.flags \in BOOLEAN /\ name \in Reasons
  BY SizesAssumption DEF Locations, InPanic, Vectors, Reasons, Top, TypeOK, StackOK, Frame
<1>2. StackOK'
  BY <1>1 DEF Kpanic, TypeOK, StackOK, Frame
<1> QED
  BY <1>2 DEF Kpanic, TypeOK, cpuTables, irqState, console

(* Whatever the CPU does with a vector keeps the stack well formed.        *)
LEMMA RaiseType ==
  ASSUME TypeOK, NEW v \in Vectors, Raise(v)
  PROVE  StackOK' /\ irqOn' \in BOOLEAN /\ lost' \in {"no", "firmware", "shutdown"}
<1>1. CASE Enter(v)
  <2>1. "isr" \in Locations /\ "exception" \in Reasons
    BY DEF Locations, Reasons
  <2>2. irqOn' \in BOOLEAN
    BY <1>1, Zenon DEF Enter, TypeOK
  <2> DEFINE f == [pc |-> "isr", vec |-> v, flags |-> irqOn, why |-> "exception"]
  <2>3. f \in Frame /\ f.pc = "isr" /\ stack' = [stack EXCEPT ![depth + 1] = f]
    <3>1. irqOn \in BOOLEAN
      BY DEF TypeOK
    <3>2. f \in Frame
      BY <2>1, <3>1 DEF Frame
    <3> QED
      BY <1>1, <3>2 DEF Enter
  <2> HIDE DEF f
  <2>4. depth \in 1 .. StackFrames - 1 /\ depth' = depth + 1
    BY <1>1, SizesAssumption DEF Enter, TypeOK, StackOK
  <2>5. StackOK'
    BY <2>3, <2>4, SizesAssumption DEF TypeOK, StackOK
  <2> QED
    BY <1>1, <2>2, <2>5 DEF Enter, TypeOK
<1>2. CASE TripleFault(v)
  BY <1>2 DEF TripleFault, TypeOK, StackOK
<1>3. CASE FirmwareStops
  BY <1>3 DEF FirmwareStops, TypeOK, StackOK
<1> QED
  BY <1>1, <1>2, <1>3 DEF Raise

(* The bootloader's jump to _start.                                        *)
LEMMA InitType == Init => TypeOK
<1> SUFFICES ASSUME Init PROVE TypeOK
  OBVIOUS
<1> USE SizesAssumption, SelectorAssumption
<1>1. 0 \in Vectors
  BY DEF Vectors
<1>2. NoFrame \in Frame
  BY <1>1 DEF NoFrame, Frame, Locations, Reasons
<1>3. StartFrame \in Frame
  BY <1>1 DEF StartFrame, Frame, Locations, Reasons
<1>4. /\ stack = [k \in 1 .. StackFrames |-> IF k = 1 THEN StartFrame ELSE NoFrame]
      /\ depth = 1
  BY DEF Init
<1>5. stack \in [1 .. StackFrames -> Frame]
  BY <1>2, <1>3, <1>4
<1>6. \A k \in 1 .. StackFrames : stack[k].pc = "none" <=> k > depth
  BY <1>4 DEF NoFrame, StartFrame
<1>7. StackOK
  BY <1>4, <1>5, <1>6 DEF StackOK
<1>8. /\ irqOn \in BOOLEAN /\ nmiBlocked \in BOOLEAN /\ ftCtx \in BOOLEAN
  BY Zenon DEF Init
<1>9. gdt \in [0 .. 4 -> 0 .. 255] /\ idt \in [Vectors -> {"absent", "trap", "interrupt"}]
  BY DEF Init
<1>10. /\ inService \subseteq IrqVectors /\ fb \subseteq Messages /\ dbg \subseteq Messages
      /\ cs \in Nat /\ ds \in Nat /\ gate \in 0 .. IdtEntries
      /\ gdtr = "firmware" /\ idtr = "firmware" /\ lost = "no"
  BY DEF Init
<1> QED
  BY <1>7, <1>8, <1>9, <1>10 DEF Init, TypeOK

(* Every action of the specification, one step each.                       *)
LEMMA NextType == TypeOK /\ [Next]_vars => TypeOK'
<1> SUFFICES ASSUME TypeOK, [Next]_vars PROVE TypeOK'
  OBVIOUS
<1> USE SizesAssumption, VectorsAssumption
<1>0. NMI \in Vectors /\ PageFault \in Vectors /\ IrqVectors \subseteq Vectors
  BY DEF Vectors, NMI, PageFault
<1> DEFINE L == Locations \ {"none"}
<1>1. CASE CheckData
  BY <1>1, StepType, RefuseType DEF CheckData, Locations, CheckedNames
<1>2. CASE CheckFramebuffer
  BY <1>2, StepType, RefuseType DEF CheckFramebuffer, Locations, CheckedNames
<1>3. CASE FlantermInit
  <2>1. StackOK'
    BY <1>3, GotoType DEF FlantermInit, TypeOK, Locations
  <2> QED
    BY <1>3, <2>1 DEF FlantermInit, TypeOK, irqState, cpuTables
<1>4. CASE CheckFlanterm
  BY <1>4, StepType, RefuseType DEF CheckFlanterm, Locations, CheckedNames
<1>5. CASE FlantermRefresh
  BY <1>5, StepType, LogSuccFacts DEF FlantermRefresh, LogSucc
<1>6. CASE Log
  <2>1. StackOK'
    BY <1>6, GotoType, LogSuccFacts DEF Log, TypeOK
  <2>2. LogMsgs(Top.pc) \subseteq Messages
    BY <1>6 DEF Log, LogMsgs, Msg, Messages, Reasons
  <2> QED
    BY <1>6, <2>1, <2>2 DEF Log, TypeOK, irqState, cpuTables
<1>7. CASE GdtInit
  <2>1. StackOK'
    BY <1>7, GotoType DEF GdtInit, TypeOK, Locations
  <2> QED
    BY <1>7, <2>1 DEF GdtInit, KernelGdt, TypeOK, irqState, console
<1>8. CASE GdtLgdt
  <2>1. StackOK'
    BY <1>8, GotoType DEF GdtLgdt, TypeOK, Locations
  <2> QED
    BY <1>8, <2>1 DEF GdtLgdt, TypeOK, irqState, console
<1>9. CASE GdtFarReturn
  <2>1. StackOK'
    BY <1>9, GotoType DEF GdtFarReturn, TypeOK, Locations
  <2> QED
    BY <1>9, <2>1 DEF GdtFarReturn, TypeOK, irqState, console
<1>10. CASE GdtLoadData
  <2>1. StackOK'
    BY <1>10, GotoType, LogSuccFacts DEF GdtLoadData, TypeOK, LogSucc
  <2> QED
    BY <1>10, <2>1 DEF GdtLoadData, TypeOK, irqState, console
<1>11. CASE IdtInit
  <2>1. StackOK'
    BY <1>11, GotoType DEF IdtInit, TypeOK, Locations
  <2> QED
    BY <1>11, <2>1 DEF IdtInit, TypeOK, console
<1>12. CASE SetGate
  <2>1. StackOK'
    BY <1>12 DEF SetGate, TypeOK, StackOK
  <2>2. GateType(gate) \in {"absent", "trap", "interrupt"}
    BY DEF GateType
  <2>3. gate' \in 0 .. IdtEntries
    BY <1>12 DEF SetGate, TypeOK
  <2>4. idt' \in [Vectors -> {"absent", "trap", "interrupt"}]
    BY <1>12, <2>2 DEF SetGate, TypeOK
  <2> QED
    BY <1>12, <2>1, <2>3, <2>4 DEF SetGate, TypeOK, irqState, console
<1>13. CASE GatesDone
  BY <1>13, StepType DEF GatesDone, Locations
<1>14. CASE IdtLidt
  <2>1. StackOK'
    BY <1>14, GotoType DEF IdtLidt, TypeOK, Locations
  <2> QED
    BY <1>14, <2>1 DEF IdtLidt, TypeOK, irqState, console
<1>15. CASE IdtSti
  <2>1. StackOK'
    BY <1>15, GotoType DEF IdtSti, TypeOK, Locations
  <2>2. irqOn' \in BOOLEAN
    BY <1>15, Zenon DEF IdtSti
  <2> QED
    BY <1>15, <2>1, <2>2 DEF IdtSti, TypeOK, cpuTables, console
<1>16. CASE IdtCli
  <2>1. StackOK'
    BY <1>16, GotoType, LogSuccFacts DEF IdtCli, TypeOK, LogSucc
  <2>2. irqOn' \in BOOLEAN
    BY <1>16, Zenon DEF IdtCli
  <2> QED
    BY <1>16, <2>1, <2>2 DEF IdtCli, TypeOK, cpuTables, console
<1>17. CASE CheckRamfs
  BY <1>17, StepType, KpanicType, LogSuccFacts DEF CheckRamfs, LogSucc, CheckedNames
<1>18. CASE CheckMemoryMap
  BY <1>18, StepType, KpanicType, LogSuccFacts DEF CheckMemoryMap, LogSucc, CheckedNames
<1>19. CASE EvalInfo
  <2>1. CASE Step("eval_info", "log_info")
    BY <2>1, StepType, LogSuccFacts DEF LogSucc
  <2>2. CASE Fault(PageFault)
    BY <1>0, <2>2, RaiseType DEF Fault, TypeOK, cpuTables, console
  <2> QED
    BY <1>19, <2>1, <2>2 DEF EvalInfo
<1>20. CASE GetFileTar
  <2>1. CASE Step("get_file_tar", "log_setup") \/ Step("get_file_tar", "log_missing")
    BY <2>1, StepType, LogSuccFacts DEF LogSucc
  <2>2. CASE Fault(PageFault)
    BY <1>0, <2>2, RaiseType DEF Fault, TypeOK, cpuTables, console
  <2> QED
    BY <1>20, <2>1, <2>2 DEF GetFileTar
<1>21. CASE EvalMsg
  <2>1. CASE Step("eval_msg", "log_welcome")
    BY <2>1, StepType, LogSuccFacts DEF LogSucc
  <2>2. CASE Fault(PageFault)
    BY <1>0, <2>2, RaiseType DEF Fault, TypeOK, cpuTables, console
  <2> QED
    BY <1>21, <2>1, <2>2 DEF EvalMsg
<1>22. CASE Halt
  BY <1>22, StepType DEF Halt, Locations
<1>23. CASE IsrCli
  <2>1. StackOK'
    BY <1>23, GotoType DEF IsrCli, TypeOK, Locations
  <2>2. irqOn' \in BOOLEAN
    BY <1>23, Zenon DEF IsrCli
  <2> QED
    BY <1>23, <2>1, <2>2 DEF IsrCli, TypeOK, cpuTables, console
<1>24. CASE ExcpHandler
  BY <1>24, StepType DEF ExcpHandler, Locations, InPanic
<1>25. CASE Iretq
  <2>1. NoFrame \in Frame
    BY DEF NoFrame, Frame, Locations, Reasons, Vectors
  <2>2. StackOK' /\ Top.flags \in BOOLEAN
    BY <1>25, <2>1 DEF Iretq, TypeOK, StackOK, NoFrame, Top, Frame
  <2>3. irqOn' \in BOOLEAN /\ nmiBlocked' \in BOOLEAN
    BY <1>25, <2>2, Zenon DEF Iretq
  <2> QED
    BY <1>25, <2>2, <2>3 DEF Iretq, TypeOK, cpuTables, console
<1>26. ASSUME TypeOK PROVE PanicMsg(Top) \in Messages
  BY <1>26 DEF PanicMsg, Messages, TypeOK, StackOK, Top, Frame, Vectors
<1>27. CASE PanicFb
  <2>1. StackOK'
    BY <1>27, GotoType DEF PanicFb, TypeOK, Locations, InPanic
  <2> QED
    BY <1>26, <1>27, <2>1 DEF PanicFb, TypeOK, cpuTables, irqState
<1>28. CASE PanicDbg
  <2>1. StackOK'
    BY <1>28, GotoType DEF PanicDbg, TypeOK, Locations, InPanic
  <2> QED
    BY <1>26, <1>28, <2>1 DEF PanicDbg, TypeOK, cpuTables, irqState
<1>29. CASE FlantermFault
  BY <1>0, <1>29, RaiseType DEF FlantermFault, Fault, TypeOK, cpuTables, console
<1>30. CASE Hcf
  <2>1. StackOK'
    BY <1>30, GotoType DEF Hcf, TypeOK, Locations, InPanic
  <2>2. irqOn' \in BOOLEAN
    BY <1>30, Zenon DEF Hcf
  <2> QED
    BY <1>30, <2>1, <2>2 DEF Hcf, TypeOK, cpuTables, console
<1>31. CASE Nmi
  BY <1>0, <1>31, RaiseType DEF Nmi, TypeOK, cpuTables, console
<1>32. ASSUME NEW v \in IrqVectors, Irq(v) PROVE TypeOK'
  BY <1>0, <1>32, RaiseType DEF Irq, Raise, TypeOK, cpuTables, console
<1>33. CASE UNCHANGED vars
  BY <1>33 DEF vars, TypeOK, StackOK, cpuTables, irqState, console
<1> QED
  BY <1>1, <1>2, <1>3, <1>4, <1>5, <1>6, <1>7, <1>8, <1>9, <1>10, <1>11, <1>12,
     <1>13, <1>14, <1>15, <1>16, <1>17, <1>18, <1>19, <1>20, <1>21, <1>22, <1>23,
     <1>24, <1>25, <1>27, <1>28, <1>29, <1>30, <1>31, <1>32, <1>33
     DEF Next, Cpu, Start, Handler

(* The variables of Boot keep their types in every behaviour.              *)
THEOREM TypeCorrect == Spec => []TypeOK
BY InitType, NextType, PTL DEF Spec

-----------------------------------------------------------------------------
(* The inductive invariant.                                                *)

(* The log statements of _start, by name.                                  *)
LEMMA LogDomain ==
  DOMAIN LogSucc = {"log_flanterm", "log_gdt", "log_idt", "log_ramfs", "log_mmap",
                    "log_screen", "log_info", "log_missing", "log_setup",
                    "log_welcome"}
BY DEF LogSucc

(* The invariant holds at the bootloader's jump.                           *)
LEMMA InitInv == Init => IInv
<1> SUFFICES ASSUME Init PROVE IInv
  OBVIOUS
<1>1. Boot = "check_data" /\ depth = 1 /\ idtr = "firmware"
  BY SizesAssumption DEF Init, Boot, StartFrame
<1>2. irqOn = handoff.irqOn
  BY DEF Init
<1> QED
  BY <1>1, <1>2 DEF Boot, IInv, FramesInv, ConsoleInv, TablesInv, MaskInv, BootOnly,
     BeforeConsole, GdtLoading, IdtLoading, AfterGdt, AfterIdt, Masked

(* The running frame stays and gets to l.                                  *)
Moves(l) == depth' = depth /\ stack'[depth].pc = l

(* A jump of the running frame in these words.                             *)
LEMMA GotoMoves == ASSUME StackOK, NEW l, Goto(l) PROVE Moves(l)
BY DEF StackOK, Goto, Moves, Frame

(* Only a frame at a handler's location can lie above _start's: a location *)
(* of _start alone means that nothing interrupts it.                       *)
LEMMA BootStep ==
  ASSUME TypeOK, FramesInv, NEW from, from \notin HandlerOnly, At(from),
         NEW l \in BootOnly, Moves(l)
  PROVE  depth = 1 /\ depth' = 1 /\ Boot = from /\ Boot' = l /\ FramesInv'
<1>1. depth = 1
  BY DEF TypeOK, StackOK, FramesInv, At, Top
<1> QED
  BY <1>1 DEF TypeOK, StackOK, FramesInv, At, Top, Moves, Boot

(* What is left to show of such a step about interrupts.                   *)
LEMMA BootMask ==
  ASSUME depth' = 1,
         Boot' \in Masked => ~irqOn',
         ~handoff'.irqOn /\ Boot' \notin IdtLoading => ~irqOn'
  PROVE  MaskInv'
BY DEF MaskInv, Boot

(* The steps that change nothing the invariant speaks of but where _start  *)
(* is.                                                                     *)
LEMMA BootPureStep ==
  ASSUME TypeOK, IInv, NEW from, from \notin HandlerOnly, At(from),
         NEW l \in BootOnly, Moves(l),
         UNCHANGED <<handoff, irqOn, cpuTables, ftCtx>>,
         l \in GdtLoading \cup AfterGdt => from \in AfterGdt,
         l \notin BeforeConsole => ftCtx,
         l # "idt_gates" /\ l \in IdtLoading \cup AfterIdt =>
           \A v \in Vectors : idt[v] # "absent",
         l \in {"idt_gates", "idt_sti", "idt_cli"} \cup AfterIdt => from \in AfterIdt,
         from \in {"idt_sti", "idt_cli"} \cup AfterIdt => l \in AfterIdt,
         l \in Masked => from \in Masked,
         l \notin IdtLoading => from \notin IdtLoading
  PROVE  IInv'
<1>1. depth = 1 /\ depth' = 1 /\ Boot = from /\ Boot' = l /\ FramesInv'
  BY BootStep DEF IInv
<1>2. ConsoleInv'
  BY <1>1 DEF IInv, ConsoleInv, cpuTables
<1>3. TablesInv'
  BY <1>1, LogDomain DEF IInv, TablesInv, HandlerOnly, InPanic, BootOnly, BeforeConsole,
     cpuTables, GdtLoading, AfterGdt, IdtLoading, AfterIdt
<1>4. MaskInv'
  <2>1. /\ from \in Masked => ~irqOn
        /\ ~handoff.irqOn /\ from \notin IdtLoading => ~irqOn
    BY <1>1 DEF IInv, MaskInv, Boot
  <2> QED
    BY <1>1, <2>1, BootMask
<1> QED
  BY <1>1, <1>2, <1>3, <1>4 DEF IInv

(* The steps of a stub, a panic and hcf.                                   *)
LEMMA HandlerStep ==
  ASSUME TypeOK, IInv, NEW from \in HandlerOnly, At(from),
         NEW l \in HandlerOnly, Goto(l),
         UNCHANGED <<handoff, cpuTables, ftCtx>>,
         irqOn' => irqOn,
         l \in Masked => ~irqOn',
         from \in BootOnly => l \in BootOnly,
         l \in AfterIdt => from \in AfterIdt \/ from \notin BootOnly
  PROVE  IInv'
<1> USE SizesAssumption DEF IInv
<1>1. /\ depth' = depth /\ depth \in 1 .. StackFrames
      /\ \A k \in 1 .. StackFrames : k # depth => stack'[k] = stack[k]
      /\ stack[depth].pc = from /\ stack'[depth].pc = l
      /\ stack'[depth].flags = stack[depth].flags
  BY DEF Goto, TypeOK, StackOK, At, Top, Frame
<1>2. depth = 1 => Boot = from /\ Boot' = l
  BY <1>1 DEF Boot
<1>3. depth # 1 => Boot' = Boot
  BY <1>1 DEF Boot
<1>4. FramesInv'
  BY <1>1, <1>2, <1>3 DEF FramesInv, cpuTables
<1>5. Boot' = Boot \/ Boot' \in {"hcf", "dead"} \/ (Boot \in AfterIdt /\ Boot' \in AfterIdt)
  <2>1. CASE depth = 1
    <3>1. Boot \in BootOnly /\ l \in BootOnly
      BY <1>2, <2>1 DEF FramesInv
    <3>2. l \in InPanic
      BY <3>1, LogDomain DEF BootOnly, HandlerOnly, BeforeConsole, GdtLoading, AfterGdt,
         AfterIdt, IdtLoading
    <3> QED
      BY <1>2, <2>1, <3>1, <3>2 DEF InPanic, AfterIdt
  <2> QED
    BY <1>3, <2>1
<1>6. ConsoleInv'
  BY <1>5 DEF ConsoleInv, cpuTables, BeforeConsole, AfterIdt
<1>7. TablesInv'
  BY <1>5 DEF TablesInv, cpuTables, GdtLoading, AfterGdt, AfterIdt, IdtLoading
<1>8. MaskInv'
  <2>1. ASSUME NEW k \in 1 .. depth', stack'[k].pc \in Masked
        PROVE  ~irqOn' /\ \A j \in k + 1 .. depth' : ~stack'[j].flags
    <3>1. k # depth => ~irqOn /\ \A j \in k + 1 .. depth : ~stack[j].flags
      BY <1>1, <2>1 DEF MaskInv
    <3>2. \A j \in k + 1 .. depth : j \in 1 .. StackFrames /\ stack'[j].flags = stack[j].flags
      BY <1>1, <2>1
    <3>3. CASE k # depth
      BY <1>1, <3>1, <3>2, <3>3
    <3>4. CASE k = depth
      BY <1>1, <2>1, <3>4
    <3> QED
      BY <3>3, <3>4
  <2>2. ASSUME ~handoff'.irqOn, Boot' \notin IdtLoading
        PROVE  ~irqOn' /\ \A j \in 2 .. depth' : ~stack'[j].flags
    <3>1. Boot \notin IdtLoading
      BY <1>2, <1>3, <2>2 DEF IdtLoading, HandlerOnly, InPanic
    <3> QED
      BY <1>1, <2>2, <3>1 DEF MaskInv, TypeOK, StackOK
  <2> QED
    BY <2>1, <2>2 DEF MaskInv
<1> QED
  BY <1>4, <1>6, <1>7, <1>8

(* An interrupt, an NMI or a fault, served or not.                         *)
LEMMA RaiseInv ==
  ASSUME TypeOK, IInv, NEW v \in Vectors, Raise(v),
         UNCHANGED <<handoff, cpuTables, ftCtx>>
  PROVE  IInv'
<1> USE SizesAssumption DEF IInv
<1>1. CASE Enter(v)
  <2> DEFINE f == [pc |-> "isr", vec |-> v, flags |-> irqOn, why |-> "exception"]
  <2>1. /\ depth \in 1 .. StackFrames - 1 /\ depth' = depth + 1
        /\ \A k \in 1 .. depth : stack'[k] = stack[k]
        /\ stack'[depth'].pc = "isr" /\ stack'[depth'].flags = irqOn
        /\ idtr = "kernel" /\ (irqOn' => irqOn)
    BY <1>1 DEF Enter, TypeOK, StackOK
  <2>2. Boot' = Boot
    BY <2>1 DEF Boot
  <2>3. FramesInv'
    BY <2>1, <2>2 DEF FramesInv, HandlerOnly, cpuTables
  <2>4. ConsoleInv' /\ TablesInv'
    BY <2>2 DEF ConsoleInv, TablesInv, cpuTables
  <2>5. MaskInv'
    <3>1. ASSUME NEW k \in 1 .. depth', stack'[k].pc \in Masked
          PROVE  ~irqOn' /\ \A j \in k + 1 .. depth' : ~stack'[j].flags
      <4>1. k \in 1 .. depth
        BY <2>1, <3>1 DEF Masked, AfterIdt
      <4> QED
        BY <2>1, <3>1, <4>1 DEF MaskInv
    <3>2. ASSUME ~handoff'.irqOn, Boot' \notin IdtLoading
          PROVE  ~irqOn' /\ \A j \in 2 .. depth' : ~stack'[j].flags
      BY <2>1, <2>2, <3>2 DEF MaskInv
    <3> QED
      BY <3>1, <3>2 DEF MaskInv
  <2> QED
    BY <2>3, <2>4, <2>5
<1>2. CASE TripleFault(v) \/ FirmwareStops
  BY <1>2 DEF TripleFault, FirmwareStops, FramesInv, ConsoleInv, TablesInv, MaskInv,
     Boot, cpuTables
<1> QED
  BY <1>1, <1>2 DEF Raise

(* Every action of the specification keeps the invariant.                  *)
LEMMA NextInv == TypeOK /\ IInv /\ [Next]_vars => IInv'
<1> SUFFICES ASSUME TypeOK, IInv, [Next]_vars PROVE IInv'
  OBVIOUS
<1> USE SizesAssumption, VectorsAssumption, LogDomain, GotoMoves
    DEF BootOnly, HandlerOnly, InPanic, BeforeConsole, GdtLoading, IdtLoading, AfterGdt,
        AfterIdt, Masked
<1>1. /\ StackOK /\ FramesInv /\ ConsoleInv /\ TablesInv /\ MaskInv
      /\ NMI \in Vectors /\ PageFault \in Vectors /\ IrqVectors \subseteq Vectors
  BY DEF TypeOK, IInv, Vectors, NMI, PageFault
(* A step of a location of _start finds _start there, undisturbed.         *)
<1>2. ASSUME NEW from, from \notin HandlerOnly, At(from)
      PROVE  depth = 1 /\ Boot = from
  BY <1>1, <1>2 DEF StackOK, FramesInv, At, Top, Boot
<1>3. ASSUME NEW from, from \notin HandlerOnly, NEW l \in BootOnly, Step(from, l),
             l \in GdtLoading \cup AfterGdt => from \in AfterGdt,
             l \notin BeforeConsole => ftCtx,
             l # "idt_gates" /\ l \in IdtLoading \cup AfterIdt =>
               \A v \in Vectors : idt[v] # "absent",
             l \in {"idt_gates", "idt_sti", "idt_cli"} \cup AfterIdt => from \in AfterIdt,
             from \in {"idt_sti", "idt_cli"} \cup AfterIdt => l \in AfterIdt,
         l \in Masked => from \in Masked,
             l \notin IdtLoading => from \notin IdtLoading
      PROVE  IInv'
  <2>1. At(from) /\ Moves(l) /\ UNCHANGED <<handoff, irqOn, cpuTables, ftCtx>>
    BY <1>1, <1>3 DEF Step, irqState, console
  <2> QED
    BY <1>3, <2>1, BootPureStep
<1>4. ASSUME NEW from \in {"check_data", "check_fb", "check_flanterm"},
             NEW name, Refuse(from, name)
      PROVE  IInv'
  <2>1. At(from) /\ Moves("hcf") /\ UNCHANGED <<handoff, irqOn, cpuTables, ftCtx>>
    BY <1>1, <1>4 DEF Refuse, irqState
  <2> QED
    BY <2>1, BootPureStep
<1>5. ASSUME NEW from \in {"check_ramfs", "check_mmap"}, NEW name, Kpanic(from, name)
      PROVE  IInv'
  <2>1. Moves("panic_fb") /\ At(from) /\ UNCHANGED <<handoff, irqOn, cpuTables, ftCtx>>
    BY <1>1, <1>5 DEF Kpanic, Moves, StackOK, irqState, console
  <2>2. depth = 1 /\ Boot = from
    BY <1>2, <2>1
  <2>3. ftCtx /\ \A v \in Vectors : idt[v] # "absent"
    BY <1>1, <2>2 DEF ConsoleInv, TablesInv
  <2> QED
    BY <2>1, <2>3, BootPureStep
<1>6. ASSUME Fault(PageFault) PROVE IInv'
  BY <1>1, <1>6, RaiseInv DEF Fault, console
<1>7. ASSUME Boot \notin BeforeConsole PROVE ftCtx
  BY <1>1, <1>7 DEF ConsoleInv
<1>8. ASSUME Boot \in AfterIdt PROVE \A v \in Vectors : idt[v] # "absent"
  BY <1>1, <1>8 DEF TablesInv
<1>9. CASE CheckData
  BY <1>3, <1>4, <1>9 DEF CheckData
<1>10. CASE CheckFramebuffer
  BY <1>3, <1>4, <1>10 DEF CheckFramebuffer
<1>11. CASE FlantermInit
  <2>1. At("flanterm_init") /\ Moves("check_flanterm")
    BY <1>1, <1>11 DEF FlantermInit
  <2>2. depth' = 1 /\ Boot = "flanterm_init" /\ Boot' = "check_flanterm" /\ FramesInv'
    BY <1>1, <2>1, BootStep
  <2>3. ConsoleInv'
    BY <1>1, <1>11, <2>2 DEF FlantermInit, ConsoleInv, TablesInv, cpuTables
  <2>4. TablesInv'
    BY <1>1, <1>11, <2>2 DEF FlantermInit, TablesInv, cpuTables
  <2>5. MaskInv'
    <3>1. ~handoff.irqOn /\ Boot \notin IdtLoading => ~irqOn
      BY <1>1 DEF MaskInv
    <3> QED
      BY <1>11, <2>2, <3>1, BootMask DEF FlantermInit, irqState
  <2> QED
    BY <2>2, <2>3, <2>4, <2>5 DEF IInv
<1>12. CASE CheckFlanterm
  BY <1>3, <1>4, <1>12 DEF CheckFlanterm
<1>13. CASE FlantermRefresh
  <2>1. ftCtx
    BY <1>2, <1>7, <1>13 DEF FlantermRefresh, Step
  <2> QED
    BY <1>3, <1>13, <2>1 DEF FlantermRefresh
<1>14. CASE Log
  <2> DEFINE l == LogSucc[Top.pc]
  <2>1. At(Top.pc) /\ Moves(l) /\ UNCHANGED <<handoff, irqOn, cpuTables, ftCtx>>
    BY <1>1, <1>14 DEF Log, At, irqState
  <2>2. depth = 1 /\ Boot = Top.pc /\ Top.pc \in DOMAIN LogSucc
    BY <1>2, <1>14, <2>1 DEF Log
  <2>3. ftCtx
    BY <1>7, <2>2
  <2>4. \/ Top.pc = "log_flanterm" /\ l = "gdt_init"
        \/ Top.pc = "log_gdt" /\ l = "idt_init"
        \/ Top.pc \in AfterIdt /\ l \in AfterIdt
    BY <2>2 DEF LogSucc
  <2> QED
    BY <1>8, <2>1, <2>2, <2>3, <2>4, BootPureStep
<1>15. CASE GdtInit
  <2>1. At("gdt_init") /\ Moves("gdt_lgdt")
    BY <1>1, <1>15 DEF GdtInit
  <2>2. depth' = 1 /\ Boot = "gdt_init" /\ Boot' = "gdt_lgdt" /\ FramesInv'
    BY <1>1, <2>1, BootStep
  <2>3. ConsoleInv'
    BY <1>1, <1>15, <2>2 DEF GdtInit, ConsoleInv, console
  <2>4. TablesInv'
    BY <1>1, <1>15, <2>2 DEF GdtInit, TablesInv
  <2>5. MaskInv'
    <3>1. ~handoff.irqOn /\ Boot \notin IdtLoading => ~irqOn
      BY <1>1 DEF MaskInv
    <3> QED
      BY <1>15, <2>2, <3>1, BootMask DEF GdtInit, irqState
  <2> QED
    BY <2>2, <2>3, <2>4, <2>5 DEF IInv
<1>16. CASE GdtLgdt
  <2>1. At("gdt_lgdt") /\ Moves("gdt_cs")
    BY <1>1, <1>16 DEF GdtLgdt
  <2>2. depth' = 1 /\ Boot = "gdt_lgdt" /\ Boot' = "gdt_cs" /\ FramesInv'
    BY <1>1, <2>1, BootStep
  <2>3. ConsoleInv'
    BY <1>1, <1>16, <2>2 DEF GdtLgdt, ConsoleInv, console
  <2>4. TablesInv'
    BY <1>1, <1>16, <2>2 DEF GdtLgdt, TablesInv
  <2>5. MaskInv'
    <3>1. ~handoff.irqOn /\ Boot \notin IdtLoading => ~irqOn
      BY <1>1 DEF MaskInv
    <3> QED
      BY <1>16, <2>2, <3>1, BootMask DEF GdtLgdt, irqState
  <2> QED
    BY <2>2, <2>3, <2>4, <2>5 DEF IInv
<1>17. CASE GdtFarReturn
  <2>1. At("gdt_cs") /\ Moves("gdt_data")
    BY <1>1, <1>17 DEF GdtFarReturn
  <2>2. depth' = 1 /\ Boot = "gdt_cs" /\ Boot' = "gdt_data" /\ FramesInv'
    BY <1>1, <2>1, BootStep
  <2>3. ConsoleInv'
    BY <1>1, <1>17, <2>2 DEF GdtFarReturn, ConsoleInv, console
  <2>4. TablesInv'
    BY <1>1, <1>17, <2>2 DEF GdtFarReturn, TablesInv
  <2>5. MaskInv'
    <3>1. ~handoff.irqOn /\ Boot \notin IdtLoading => ~irqOn
      BY <1>1 DEF MaskInv
    <3> QED
      BY <1>17, <2>2, <3>1, BootMask DEF GdtFarReturn, irqState
  <2> QED
    BY <2>2, <2>3, <2>4, <2>5 DEF IInv
<1>18. CASE GdtLoadData
  <2>1. At("gdt_data") /\ Moves("log_gdt")
    BY <1>1, <1>18 DEF GdtLoadData
  <2>2. depth' = 1 /\ Boot = "gdt_data" /\ Boot' = "log_gdt" /\ FramesInv'
    BY <1>1, <2>1, BootStep
  <2>3. ConsoleInv'
    BY <1>1, <1>18, <2>2 DEF GdtLoadData, ConsoleInv, console
  <2>4. TablesInv'
    BY <1>1, <1>18, <2>2 DEF GdtLoadData, TablesInv
  <2>5. MaskInv'
    <3>1. ~handoff.irqOn /\ Boot \notin IdtLoading => ~irqOn
      BY <1>1 DEF MaskInv
    <3> QED
      BY <1>18, <2>2, <3>1, BootMask DEF GdtLoadData, irqState
  <2> QED
    BY <2>2, <2>3, <2>4, <2>5 DEF IInv
<1>19. CASE IdtInit
  <2>1. At("idt_init") /\ Moves("idt_gates")
    BY <1>1, <1>19 DEF IdtInit
  <2>2. depth' = 1 /\ Boot = "idt_init" /\ Boot' = "idt_gates" /\ FramesInv'
    BY <1>1, <2>1, BootStep
  <2>3. ConsoleInv'
    BY <1>1, <1>19, <2>2 DEF IdtInit, ConsoleInv, console
  <2>4. TablesInv'
    BY <1>1, <1>19, <2>2 DEF IdtInit, TablesInv, Vectors
  <2>5. MaskInv'
    <3>1. ~handoff.irqOn /\ Boot \notin IdtLoading => ~irqOn
      BY <1>1 DEF MaskInv
    <3> QED
      BY <1>19, <2>2, <3>1, BootMask DEF IdtInit, irqState
  <2> QED
    BY <2>2, <2>3, <2>4, <2>5 DEF IInv
<1>20. CASE SetGate
  <2>1. At("idt_gates") /\ Moves("idt_gates") /\ Boot' = Boot
    BY <1>20 DEF SetGate, Moves, At, Top, Boot
  <2>2. depth' = 1 /\ Boot = "idt_gates" /\ FramesInv'
    BY <1>1, <2>1, BootStep
  <2>3. ConsoleInv'
    BY <1>1, <1>20, <2>2 DEF SetGate, ConsoleInv, console
  <2>4. /\ gate \in 0 .. IdtEntries - 1 /\ GateType(gate) # "absent"
        /\ \A v \in Vectors : idt'[v] = IF v = gate THEN GateType(gate) ELSE idt[v]
    BY <1>20 DEF SetGate, TypeOK, GateType
  <2>5. TablesInv'
    BY <1>1, <1>20, <2>1, <2>2, <2>4 DEF SetGate, TablesInv, Vectors
  <2>6. MaskInv'
    BY <1>20, <2>1, <2>2, BootMask DEF SetGate
  <2> QED
    BY <2>2, <2>3, <2>5, <2>6 DEF IInv
<1>21. CASE GatesDone
  <2>1. Boot = "idt_gates" /\ gate = IdtEntries
    BY <1>2, <1>21 DEF GatesDone, Step
  <2>2. ftCtx /\ \A v \in Vectors : idt[v] # "absent"
    BY <1>1, <2>1 DEF ConsoleInv, TablesInv, Vectors
  <2> QED
    BY <1>3, <1>21, <2>2 DEF GatesDone
<1>22. CASE IdtLidt
  <2>1. At("idt_lidt") /\ Moves("idt_sti")
    BY <1>1, <1>22 DEF IdtLidt
  <2>2. depth' = 1 /\ Boot = "idt_lidt" /\ Boot' = "idt_sti" /\ FramesInv'
    BY <1>1, <2>1, BootStep
  <2>3. ConsoleInv'
    BY <1>1, <1>22, <2>2 DEF IdtLidt, ConsoleInv, console
  <2>4. TablesInv'
    BY <1>1, <1>22, <2>2 DEF IdtLidt, TablesInv
  <2>5. MaskInv'
    <3>1. ~handoff.irqOn /\ Boot \notin IdtLoading => ~irqOn
      BY <1>1 DEF MaskInv
    <3> QED
      BY <1>22, <2>2, <3>1, BootMask DEF IdtLidt, irqState
  <2> QED
    BY <2>2, <2>3, <2>4, <2>5 DEF IInv
<1>23. CASE IdtSti
  <2>1. At("idt_sti") /\ Moves("idt_cli")
    BY <1>1, <1>23 DEF IdtSti
  <2>2. depth' = 1 /\ Boot = "idt_sti" /\ Boot' = "idt_cli" /\ FramesInv'
    BY <1>1, <2>1, BootStep
  <2>3. ConsoleInv'
    BY <1>1, <1>23, <2>2 DEF IdtSti, ConsoleInv, cpuTables, console
  <2>4. TablesInv'
    BY <1>1, <1>23, <2>2 DEF IdtSti, TablesInv, cpuTables
  <2>5. MaskInv'
    <3>1. ~handoff.irqOn /\ Boot \notin IdtLoading => ~irqOn
      BY <1>1 DEF MaskInv
    <3> QED
      BY <1>23, <2>2, <3>1, BootMask DEF IdtSti, irqState
  <2> QED
    BY <2>2, <2>3, <2>4, <2>5 DEF IInv
<1>24. CASE IdtCli
  <2>1. At("idt_cli") /\ Moves("log_idt")
    BY <1>1, <1>24 DEF IdtCli
  <2>2. depth' = 1 /\ Boot = "idt_cli" /\ Boot' = "log_idt" /\ FramesInv'
    BY <1>1, <2>1, BootStep
  <2>3. ConsoleInv'
    BY <1>1, <1>24, <2>2 DEF IdtCli, ConsoleInv, cpuTables, console
  <2>4. TablesInv'
    BY <1>1, <1>24, <2>2 DEF IdtCli, TablesInv, cpuTables
  <2>5. MaskInv'
    <3>1. ~handoff.irqOn /\ Boot \notin IdtLoading => ~irqOn
      BY <1>1 DEF MaskInv
    <3> QED
      BY <1>24, <2>2, <3>1, BootMask DEF IdtCli, irqState
  <2> QED
    BY <2>2, <2>3, <2>4, <2>5 DEF IInv
<1>25. CASE CheckRamfs
  <2>1. Boot = "check_ramfs"
    BY <1>2, <1>25 DEF CheckRamfs, Step, Kpanic
  <2>2. ftCtx /\ \A v \in Vectors : idt[v] # "absent"
    BY <1>7, <1>8, <2>1
  <2> QED
    BY <1>3, <1>5, <1>25, <2>2 DEF CheckRamfs
<1>26. CASE CheckMemoryMap
  <2>1. Boot = "check_mmap"
    BY <1>2, <1>26 DEF CheckMemoryMap, Step, Kpanic
  <2>2. ftCtx /\ \A v \in Vectors : idt[v] # "absent"
    BY <1>7, <1>8, <2>1
  <2> QED
    BY <1>3, <1>5, <1>26, <2>2 DEF CheckMemoryMap
<1>27. CASE EvalInfo
  <2>1. Boot = "eval_info"
    BY <1>2, <1>27 DEF EvalInfo, Step, Kpanic
  <2>2. ftCtx /\ \A v \in Vectors : idt[v] # "absent"
    BY <1>7, <1>8, <2>1
  <2> QED
    BY <1>3, <1>6, <1>27, <2>2 DEF EvalInfo
<1>28. CASE GetFileTar
  <2>1. Boot = "get_file_tar"
    BY <1>2, <1>28 DEF GetFileTar, Step, Kpanic
  <2>2. ftCtx /\ \A v \in Vectors : idt[v] # "absent"
    BY <1>7, <1>8, <2>1
  <2> QED
    BY <1>3, <1>6, <1>28, <2>2 DEF GetFileTar
<1>29. CASE EvalMsg
  <2>1. Boot = "eval_msg"
    BY <1>2, <1>29 DEF EvalMsg, Step, Kpanic
  <2>2. ftCtx /\ \A v \in Vectors : idt[v] # "absent"
    BY <1>7, <1>8, <2>1
  <2> QED
    BY <1>3, <1>6, <1>29, <2>2 DEF EvalMsg
<1>30. CASE Halt
  <2>1. Boot = "halt"
    BY <1>2, <1>30 DEF Halt, Step, Kpanic
  <2>2. ftCtx /\ \A v \in Vectors : idt[v] # "absent"
    BY <1>7, <1>8, <2>1
  <2> QED
    BY <1>3, <1>30, <2>2 DEF Halt
<1>31. CASE IsrCli
  <2>1. /\ At("isr") /\ Goto("excp_handler") /\ irqOn' = FALSE
        /\ UNCHANGED <<handoff, cpuTables, ftCtx>>
    BY <1>31 DEF IsrCli, console
  <2> QED
    BY <2>1, HandlerStep
<1>32. CASE ExcpHandler
  <2>1. At("excp_handler") /\ ~irqOn
    BY <1>1, <1>32 DEF ExcpHandler, Step, At, Top, StackOK, MaskInv
  <2>2. PICK l \in {"panic_fb", "iretq"} : Goto(l)
    BY <1>32 DEF ExcpHandler, Step
  <2>3. UNCHANGED <<handoff, irqOn, cpuTables, ftCtx>>
    BY <1>32 DEF ExcpHandler, Step, irqState, console
  <2> QED
    BY <2>1, <2>2, <2>3, HandlerStep
<1>33. CASE Iretq
  <2>1. /\ depth \in 2 .. StackFrames /\ depth' = depth - 1 /\ stack[depth].pc = "iretq"
        /\ \A k \in 1 .. depth' : stack'[k] = stack[k]
        /\ irqOn' = stack[depth].flags /\ Boot' = Boot
        /\ UNCHANGED <<handoff, cpuTables, ftCtx>>
    BY <1>1, <1>33 DEF Iretq, StackOK, At, Top, Boot, console
  <2>2. FramesInv'
    BY <1>1, <2>1 DEF FramesInv, cpuTables
  <2>3. ConsoleInv' /\ TablesInv'
    BY <1>1, <2>1 DEF ConsoleInv, TablesInv, cpuTables
  <2>4. MaskInv'
    <3>1. ASSUME NEW k \in 1 .. depth', stack'[k].pc \in Masked
          PROVE  ~irqOn' /\ \A j \in k + 1 .. depth' : ~stack'[j].flags
      BY <1>1, <2>1, <3>1 DEF MaskInv
    <3>2. ASSUME ~handoff'.irqOn, Boot' \notin IdtLoading
          PROVE  ~irqOn' /\ \A j \in 2 .. depth' : ~stack'[j].flags
      BY <1>1, <2>1, <3>2 DEF MaskInv
    <3> QED
      BY <3>1, <3>2 DEF MaskInv
  <2> QED
    BY <2>2, <2>3, <2>4 DEF IInv
<1>34. CASE PanicFb
  <2>1. At("panic_fb") /\ Goto("panic_dbg") /\ UNCHANGED <<handoff, irqOn, cpuTables, ftCtx>>
    BY <1>34 DEF PanicFb, irqState
  <2>2. ~irqOn
    BY <1>1, <2>1 DEF At, Top, StackOK, MaskInv
  <2> QED
    BY <2>1, <2>2, HandlerStep
<1>35. CASE PanicDbg
  <2>1. At("panic_dbg") /\ Goto("hcf") /\ UNCHANGED <<handoff, irqOn, cpuTables, ftCtx>>
    BY <1>35 DEF PanicDbg, irqState
  <2>2. ~irqOn
    BY <1>1, <2>1 DEF At, Top, StackOK, MaskInv
  <2> QED
    BY <2>1, <2>2, HandlerStep
<1>36. CASE FlantermFault
  BY <1>6, <1>36 DEF FlantermFault
<1>37. CASE Hcf
  <2>1. /\ At("hcf") /\ Goto("dead") /\ irqOn' = FALSE
        /\ UNCHANGED <<handoff, cpuTables, ftCtx>>
    BY <1>37 DEF Hcf, console
  <2> QED
    BY <2>1, HandlerStep
<1>38. CASE Nmi
  BY <1>1, <1>38, RaiseInv DEF Nmi, console
<1>39. ASSUME NEW v \in IrqVectors, Irq(v) PROVE IInv'
  BY <1>1, <1>39, RaiseInv DEF Irq, Raise, console
<1>40. CASE UNCHANGED vars
  BY <1>40 DEF vars, IInv, FramesInv, ConsoleInv, TablesInv, MaskInv, Boot, cpuTables,
     irqState, console
<1> QED
  BY <1>9, <1>10, <1>11, <1>12, <1>13, <1>14, <1>15, <1>16, <1>17, <1>18,
     <1>19, <1>20, <1>21, <1>22, <1>23, <1>24, <1>25, <1>26, <1>27,
     <1>28, <1>29, <1>30, <1>31, <1>32, <1>33, <1>34, <1>35, <1>36,
     <1>37, <1>38, <1>39, <1>40
     DEF Next, Cpu, Start, Handler

(* So it holds in every behaviour.                                         *)
LEMMA Invariant == Spec => [](TypeOK /\ IInv)
BY InitType, InitInv, NextType, NextInv, PTL DEF Spec

-----------------------------------------------------------------------------
(* What the invariant gives.                                               *)

(* Nothing writes to the console before flanterm_fb_init gave a context,   *)
(* whatever interrupts _start and when.                                    *)
THEOREM ConsoleAlwaysReady == Spec => []ConsoleReady
<1>1. TypeOK /\ IInv => ConsoleReady
  BY LogDomain, SizesAssumption DEF TypeOK, StackOK, IInv, FramesInv, ConsoleInv,
     ConsoleReady, InFlanterm, BeforeConsole, Boot
<1> QED
  BY <1>1, Invariant, PTL

(* The tables that DescriptorsUsable asks for are those IInv keeps.         *)
LEMMA UsableInv == TypeOK /\ IInv => DescriptorsUsable
<1>1. ASSUME gdt = KernelGdt, gdtr = "kernel"
      PROVE  /\ LoadableCode(8) /\ Present(gdt[2]) /\ ~IsCode(gdt[2])
  BY <1>1 DEF KernelGdt, LoadableCode, Present, IsCode, Dpl
<1> QED
  BY <1>1 DEF IInv, TablesInv, DescriptorsUsable, GateUsable, GateSelector

(* From lidt on every gate of IDT::idt is present and set_gate's selector, *)
(* cs and the data selectors name descriptors of the GDT in use.           *)
THEOREM DescriptorsAlwaysUsable == Spec => []DescriptorsUsable
BY UsableInv, Invariant, PTL

(* A frame that prints a panic, or is dead, runs with interrupts masked.   *)
THEOREM PanicAlwaysMasked == Spec => []PanicMasked
<1>1. TypeOK /\ IInv => PanicMasked
  BY DEF IInv, MaskInv, PanicMasked, Masked, AfterIdt
<1> QED
  BY <1>1, Invariant, PTL

(* Handed over with interrupts masked, the kernel opens them only in       *)
(* IDT::init.                                                              *)
THEOREM InterruptsOnlyInWindow == Spec => []IrqWindow
<1>1. TypeOK /\ IInv => IrqWindow
  BY DEF IInv, MaskInv, IrqWindow, IdtLoading, Boot
<1> QED
  BY <1>1, Invariant, PTL

(* A frame in a panic or in hcf is never left or popped.                   *)
THEOREM PanicIsFinal == Spec => PanicFinal
<1> DEFINE A == \A k \in 1 .. depth :
                  stack[k].pc \in InPanic => depth' >= k /\ stack'[k].pc \in InPanic
<1>1. ASSUME TypeOK, [Next]_vars PROVE A
  <2> USE SizesAssumption DEF InPanic
  <2>0. StackOK
    BY <1>1 DEF TypeOK
  <2>1. ASSUME NEW l, Goto(l), Top.pc \in InPanic => l \in InPanic PROVE A
    BY <2>0, <2>1 DEF StackOK, Goto, Top, Frame
  <2>2. ASSUME NEW from, from \notin InPanic, NEW l, At(from), Goto(l) PROVE A
    BY <2>1, <2>2 DEF At
  <2>3. ASSUME NEW from, from \notin InPanic, NEW l, Step(from, l) PROVE A
    BY <2>2, <2>3 DEF Step
  <2>4. ASSUME NEW from, from \notin InPanic, NEW name, Refuse(from, name) PROVE A
    BY <2>2, <2>4 DEF Refuse
  <2>5. ASSUME NEW from, from \notin InPanic, NEW name, Kpanic(from, name) PROVE A
    BY <2>0, <2>5 DEF Kpanic, StackOK
  <2>6. ASSUME NEW v, Raise(v) PROVE A
    BY <2>0, <2>6 DEF Raise, Enter, TripleFault, FirmwareStops, StackOK
  <2>7. CASE Iretq
    BY <2>0, <2>7 DEF Iretq, At, Top, StackOK
  <2>8. CASE SetGate \/ UNCHANGED vars
    BY <2>0, <2>8 DEF SetGate, vars, StackOK
  <2>9. CASE Log
    BY <2>2, <2>9, LogDomain DEF Log, At
  <2>10. CASE CheckData \/ CheckFramebuffer \/ CheckFlanterm \/ FlantermRefresh
    BY <2>3, <2>4, <2>10 DEF CheckData, CheckFramebuffer, CheckFlanterm, FlantermRefresh
  <2>11. CASE FlantermInit \/ GdtInit \/ GdtLgdt \/ GdtFarReturn \/ GdtLoadData
    BY <2>2, <2>11 DEF FlantermInit, GdtInit, GdtLgdt, GdtFarReturn, GdtLoadData
  <2>12. CASE IdtInit \/ GatesDone \/ IdtLidt \/ IdtSti \/ IdtCli
    BY <2>2, <2>3, <2>12 DEF IdtInit, GatesDone, IdtLidt, IdtSti, IdtCli
  <2>13. CASE CheckRamfs \/ CheckMemoryMap \/ Halt
    BY <2>3, <2>5, <2>13 DEF CheckRamfs, CheckMemoryMap, Halt
  <2>14. CASE EvalInfo \/ GetFileTar \/ EvalMsg
    BY <2>3, <2>6, <2>14 DEF EvalInfo, GetFileTar, EvalMsg, Fault
  <2>15. CASE IsrCli \/ ExcpHandler
    BY <2>2, <2>3, <2>15 DEF IsrCli, ExcpHandler
  <2>16. CASE PanicFb \/ PanicDbg \/ Hcf
    BY <2>1, <2>16 DEF PanicFb, PanicDbg, Hcf
  <2>17. CASE FlantermFault \/ Nmi
    BY <2>6, <2>17 DEF FlantermFault, Fault, Nmi
  <2>18. ASSUME NEW v \in IrqVectors, Irq(v) PROVE A
    BY <2>6, <2>18 DEF Irq, Raise
  <2> QED
    BY <1>1, <2>7, <2>8, <2>9, <2>10, <2>11, <2>12, <2>13, <2>14, <2>15, <2>16, <2>17,
       <2>18 DEF Next, Cpu, Start, Handler
<1>2. TypeOK /\ [Next]_vars => [A]_vars
  BY <1>1
<1> QED
  BY <1>2, InitType, NextType, PTL DEF Spec, PanicFinal

-----------------------------------------------------------------------------
(* What the machine tells its user, on the screen and on port 0xE9.        *)

(* The inductive invariant.                                                *)

Refusals == {Msg("data"), Msg("framebuffer"), Msg("flanterm")}

(* Every message is on both outputs, is a refusal, or belongs to a panic   *)
(* between its two writes.                                                 *)
OutputInv ==
  /\ \A k \in 1 .. depth : stack[k].pc = "panic_dbg" => PanicMsg(stack[k]) \in fb
  /\ \A m \in fb : m \in dbg \/ \E k \in 1 .. depth : /\ stack[k].pc = "panic_dbg"
                                                      /\ m = PanicMsg(stack[k])
  /\ \A m \in dbg : m \in fb \/ m \in Refusals

(* A handler panics about its exception; only _start has another reason.   *)
ReasonInv ==
  /\ \A k \in 2 .. depth : stack[k].why = "exception"
  /\ Boot \in {"panic_fb", "panic_dbg"} =>
       /\ stack[1].why \in CheckedNames /\ stack[1].vec = 0
       /\ FirstMissing(stack[1].why)

(* What _start has tested by the time it is where it is.                   *)
AfterRamfs == {"log_ramfs", "check_mmap", "log_mmap", "log_screen", "eval_info", "log_info",
               "get_file_tar", "log_missing", "log_setup", "eval_msg", "log_welcome", "halt",
               "done"}
TestedInv ==
  /\ Boot \notin {"check_data", "hcf", "dead"} => handoff.data
  /\ Boot \notin {"check_data", "check_fb", "hcf", "dead"} => handoff.framebuffer
  /\ Boot \in {"check_data", "check_fb", "flanterm_init"} => ~ftCtx
  /\ Boot = "check_flanterm" => ftCtx = handoff.flanterm
  /\ Boot \notin BeforeConsole => handoff.flanterm
  /\ Boot \in AfterRamfs => handoff.ramfs
  /\ Boot \in AfterRamfs \ {"log_ramfs", "check_mmap"} => handoff.memory_map

(* A name on port 0xE9 is that of the first missing pointer, and _start    *)
(* stops in hcf only with that name written.                               *)
ToldInv ==
  /\ \A name \in CheckedNames : Msg(name) \in dbg => FirstMissing(name)
  /\ Boot \in {"hcf", "dead"} =>
       \E name \in CheckedNames :
         FirstMissing(name) /\ Msg(name) \in dbg /\ (ftCtx => Msg(name) \in fb)

OutInv == OutputInv /\ ReasonInv /\ TestedInv /\ ToldInv

-----------------------------------------------------------------------------
(* Lemmas about what a step may leave of it.                               *)

(* The first missing pointer, case by case.                                *)
LEMMA MissingFacts ==
  /\ ~handoff.data => FirstMissing("data")
  /\ handoff.data /\ ~handoff.framebuffer => FirstMissing("framebuffer")
  /\ handoff.data /\ handoff.framebuffer /\ ~handoff.flanterm => FirstMissing("flanterm")
  /\ handoff.data /\ handoff.framebuffer /\ handoff.flanterm /\ ~handoff.ramfs =>
       FirstMissing("ramfs")
  /\ (handoff.data /\ handoff.framebuffer /\ handoff.flanterm /\ handoff.ramfs
        /\ ~handoff.memory_map) => FirstMissing("memory_map")
<1>1. /\ Checked[1] = "data" /\ Checked[2] = "framebuffer" /\ Checked[3] = "flanterm"
      /\ Checked[4] = "ramfs" /\ Checked[5] = "memory_map"
  BY DEF Checked
<1>2. /\ \A j \in 1 .. 1 - 1 : FALSE
      /\ \A j \in 1 .. 2 - 1 : j = 1
      /\ \A j \in 1 .. 3 - 1 : j = 1 \/ j = 2
      /\ \A j \in 1 .. 4 - 1 : j = 1 \/ j = 2 \/ j = 3
      /\ \A j \in 1 .. 5 - 1 : j = 1 \/ j = 2 \/ j = 3 \/ j = 4
  OBVIOUS
<1>3. ~handoff.data => FirstMissing("data")
  BY <1>1, <1>2 DEF FirstMissing
<1>4. handoff.data /\ ~handoff.framebuffer => FirstMissing("framebuffer")
  BY <1>1, <1>2 DEF FirstMissing
<1>5. handoff.data /\ handoff.framebuffer /\ ~handoff.flanterm => FirstMissing("flanterm")
  BY <1>1, <1>2 DEF FirstMissing
<1>6. handoff.data /\ handoff.framebuffer /\ handoff.flanterm /\ ~handoff.ramfs =>
        FirstMissing("ramfs")
  BY <1>1, <1>2 DEF FirstMissing
<1>7. (handoff.data /\ handoff.framebuffer /\ handoff.flanterm /\ handoff.ramfs
        /\ ~handoff.memory_map) => FirstMissing("memory_map")
  BY <1>1, <1>2 DEF FirstMissing
<1> QED
  BY <1>3, <1>4, <1>5, <1>6, <1>7

(* The frames between the two writes of a panic stay, and none joins them. *)
Quiet ==
  /\ \A k \in 1 .. depth : stack[k].pc = "panic_dbg" => k \in 1 .. depth' /\ stack'[k] = stack[k]
  /\ \A k \in 1 .. depth' : stack'[k].pc = "panic_dbg" => k \in 1 .. depth /\ stack'[k] = stack[k]

(* Messages written to both outputs leave them alike.                      *)
LEMMA OutputKept ==
  ASSUME OutputInv, Quiet, NEW S, fb' = fb \cup S, dbg' = dbg \cup S
  PROVE  OutputInv'
<1>1. \A k \in 1 .. depth' : stack'[k].pc = "panic_dbg" => PanicMsg(stack'[k]) \in fb'
  BY DEF OutputInv, Quiet, PanicMsg
<1>2. ASSUME NEW m \in fb', m \notin dbg'
      PROVE  \E k \in 1 .. depth' : stack'[k].pc = "panic_dbg" /\ m = PanicMsg(stack'[k])
  <2>1. m \in fb /\ m \notin dbg
    BY <1>2
  <2>2. PICK k \in 1 .. depth : stack[k].pc = "panic_dbg" /\ m = PanicMsg(stack[k])
    BY <2>1 DEF OutputInv
  <2> QED
    BY <2>2 DEF Quiet
<1>3. \A m \in dbg' : m \in fb' \/ m \in Refusals
  BY DEF OutputInv
<1> QED
  BY <1>1, <1>2, <1>3 DEF OutputInv, PanicMsg, Refusals, Msg

(* A step of _start that writes only log lines and gets neither to a panic *)
(* nor to hcf.                                                             *)
LEMMA StartStep ==
  ASSUME TypeOK, FramesInv, OutInv,
         NEW from, from \notin HandlerOnly, At(from),
         NEW l \in BootOnly, l \notin InPanic, Moves(l), UNCHANGED handoff,
         NEW S, fb' = fb \cup S, dbg' = dbg \cup S,
         \A name \in CheckedNames : Msg(name) \notin S
  PROVE  Boot = from /\ Boot' = l /\ OutputInv' /\ ReasonInv' /\ ToldInv'
<1>1. depth = 1 /\ depth' = 1 /\ Boot = from /\ Boot' = l
  BY BootStep
<1>2. Quiet
  <2>1. stack[1].pc # "panic_dbg" /\ stack'[1].pc # "panic_dbg"
    BY <1>1 DEF Boot, HandlerOnly, InPanic
  <2> QED
    BY <1>1, <2>1 DEF Quiet
<1>3. OutputInv'
  BY <1>2, OutputKept DEF OutInv
<1>4. ReasonInv'
  BY <1>1 DEF ReasonInv, InPanic
<1>5. ToldInv'
  BY <1>1 DEF OutInv, ToldInv, InPanic, FirstMissing, Msg
<1> QED
  BY <1>1, <1>3, <1>4, <1>5

(* A step after which _start is where it was.                              *)
LEMMA BootKept ==
  ASSUME OutInv, stack'[1] = stack[1], UNCHANGED <<handoff, ftCtx>>,
         fb \subseteq fb', dbg \subseteq dbg',
         \A name \in CheckedNames : Msg(name) \in dbg' => Msg(name) \in dbg
  PROVE  /\ TestedInv' /\ ToldInv'
         /\ Boot' \in {"panic_fb", "panic_dbg"} =>
              /\ stack'[1].why \in CheckedNames /\ stack'[1].vec = 0
              /\ FirstMissing(stack[1].why)'
<1>1. Boot' = Boot
  BY DEF Boot
<1>2. TestedInv'
  BY <1>1 DEF OutInv, TestedInv
<1>3. ToldInv'
  BY <1>1 DEF OutInv, ToldInv, FirstMissing, Msg
<1> QED
  BY <1>1, <1>2, <1>3 DEF OutInv, ReasonInv, FirstMissing

(* The bootloader's jump to _start.                                        *)
LEMMA InitOut == Init => OutInv
<1> SUFFICES ASSUME Init PROVE OutInv
  OBVIOUS
<1>1. Boot = "check_data" /\ depth = 1 /\ fb = {} /\ dbg = {} /\ ~ftCtx
  BY SizesAssumption DEF Init, Boot, StartFrame
<1> QED
  BY <1>1 DEF OutInv, OutputInv, ReasonInv, TestedInv, ToldInv, Boot, BeforeConsole, LogSucc,
     AfterRamfs

(* The steps of a stub and of hcf: none of them writes.                    *)
LEMMA HandlerOut ==
  ASSUME TypeOK, FramesInv, OutInv,
         NEW from \in HandlerOnly, At(from), from # "panic_dbg",
         NEW l \in HandlerOnly, Goto(l), l # "panic_dbg",
         UNCHANGED <<handoff, console>>,
         from \in InPanic => from = "hcf" /\ l = "dead"
  PROVE  OutInv'
<1>1. /\ depth' = depth /\ depth \in Nat \ {0}
      /\ \A k \in 1 .. depth : k # depth => stack'[k] = stack[k]
      /\ stack[depth].pc = from /\ stack'[depth].pc = l
      /\ stack'[depth].why = stack[depth].why /\ stack'[depth].vec = stack[depth].vec
  BY SizesAssumption DEF Goto, TypeOK, StackOK, At, Top, Frame
<1>2. OutputInv'
  <2>1. Quiet
    BY <1>1 DEF Quiet
  <2>2. fb' = fb \cup {} /\ dbg' = dbg \cup {}
    BY DEF console
  <2> QED
    BY <2>1, <2>2, OutputKept DEF OutInv
<1>3. \A k \in 2 .. depth' : stack'[k].why = "exception"
  BY <1>1 DEF OutInv, ReasonInv
<1>4. CASE depth # 1
  <2>1. stack'[1] = stack[1]
    BY <1>1, <1>4
  <2>2. /\ TestedInv' /\ ToldInv'
        /\ Boot' \in {"panic_fb", "panic_dbg"} =>
             /\ stack'[1].why \in CheckedNames /\ stack'[1].vec = 0
             /\ FirstMissing(stack[1].why)'
    BY <2>1, BootKept DEF console
  <2> QED
    BY <1>2, <1>3, <2>2 DEF OutInv, ReasonInv
<1>5. CASE depth = 1
  <2>1. Boot = from /\ Boot' = l
    BY <1>1, <1>5 DEF Boot
  <2>2. from \in InPanic
    BY <2>1, LogDomain DEF FramesInv, BootOnly, HandlerOnly, InPanic, BeforeConsole,
       GdtLoading, AfterGdt, AfterIdt, IdtLoading
  <2>3. Boot = "hcf" /\ Boot' = "dead"
    BY <2>1, <2>2
  <2>4. TestedInv'
    BY <2>3 DEF OutInv, TestedInv, console, BeforeConsole, AfterRamfs
  <2>5. ToldInv'
    BY <2>3 DEF OutInv, ToldInv, console, FirstMissing, Msg
  <2> QED
    BY <1>2, <1>3, <2>3, <2>4, <2>5 DEF OutInv, ReasonInv
<1> QED
  BY <1>4, <1>5

(* An interrupt, an NMI or a fault, served or not.                         *)
LEMMA RaiseOut ==
  ASSUME TypeOK, OutInv, NEW v \in Vectors, Raise(v), UNCHANGED <<handoff, console>>
  PROVE  OutInv'
<1>1. stack'[1] = stack[1] /\ Quiet /\ \A k \in 2 .. depth' : stack'[k].why = "exception"
  <2>1. CASE Enter(v)
    <3>1. /\ depth \in 1 .. StackFrames - 1 /\ depth' = depth + 1
          /\ \A k \in 1 .. depth : stack'[k] = stack[k]
          /\ stack'[depth'].pc = "isr" /\ stack'[depth'].why = "exception"
      BY <2>1, SizesAssumption DEF Enter, TypeOK, StackOK
    <3> QED
      BY <3>1 DEF Quiet, OutInv, ReasonInv
  <2>2. CASE TripleFault(v) \/ FirmwareStops
    BY <2>2 DEF TripleFault, FirmwareStops, Quiet, OutInv, ReasonInv
  <2> QED
    BY <2>1, <2>2 DEF Raise
<1>2. fb' = fb \cup {} /\ dbg' = dbg \cup {}
  BY DEF console
<1>3. OutputInv'
  BY <1>1, <1>2, OutputKept DEF OutInv
<1>4. /\ TestedInv' /\ ToldInv'
      /\ Boot' \in {"panic_fb", "panic_dbg"} =>
           /\ stack'[1].why \in CheckedNames /\ stack'[1].vec = 0
           /\ FirstMissing(stack[1].why)'
  BY <1>1, BootKept DEF console
<1> QED
  BY <1>1, <1>3, <1>4 DEF OutInv, ReasonInv

(* A refusal of _start before there is a console.                          *)
LEMMA RefuseOut ==
  ASSUME TypeOK, FramesInv, OutInv, NEW from, from \notin HandlerOnly,
         NEW name \in {"data", "framebuffer", "flanterm"}, Refuse(from, name),
         FirstMissing(name), ~ftCtx
  PROVE  OutInv'
<1>1. /\ At(from) /\ Moves("hcf") /\ "hcf" \in BootOnly
      /\ UNCHANGED <<handoff, ftCtx, fb>> /\ dbg' = dbg \cup {Msg(name)}
  BY GotoMoves DEF Refuse, TypeOK, BootOnly, BeforeConsole
<1>2. depth = 1 /\ depth' = 1 /\ Boot = from /\ Boot' = "hcf"
  BY <1>1, BootStep
<1>3. OutputInv'
  <2>1. stack[1].pc # "panic_dbg" /\ stack'[1].pc # "panic_dbg"
    BY <1>2 DEF Boot, HandlerOnly, InPanic
  <2>2. Msg(name) \in Refusals
    BY DEF Refusals
  <2> QED
    BY <1>1, <1>2, <2>1, <2>2 DEF OutInv, OutputInv, PanicMsg, Refusals, Msg
<1>4. ReasonInv'
  BY <1>2 DEF ReasonInv
<1>5. TestedInv'
  BY <1>2 DEF TestedInv, BeforeConsole, AfterRamfs
<1>6. FirstMissing(name)' /\ name \in CheckedNames
  BY <1>1 DEF FirstMissing, CheckedNames
<1>7. ToldInv'
  <2>1. ASSUME NEW n \in CheckedNames, Msg(n) \in dbg' PROVE FirstMissing(n)'
    <3>1. CASE n = name
      BY <1>6, <3>1
    <3>2. CASE n # name
      BY <1>1, <2>1, <3>2 DEF OutInv, ToldInv, Msg, FirstMissing
    <3> QED
      BY <3>1, <3>2
  <2>2. FirstMissing(name)' /\ Msg(name)' \in dbg' /\ ~ftCtx'
    BY <1>1, <1>6 DEF Msg
  <2> QED
    BY <1>6, <2>1, <2>2 DEF ToldInv, Msg
<1> QED
  BY <1>3, <1>4, <1>5, <1>7 DEF OutInv

(* kpanic on the boot thread.                                              *)
LEMMA KpanicOut ==
  ASSUME TypeOK, IInv, OutInv, NEW from \in {"check_ramfs", "check_mmap"},
         NEW name \in {"ramfs", "memory_map"}, Kpanic(from, name), FirstMissing(name)
  PROVE  OutInv'
<1>1. /\ At(from) /\ from \notin HandlerOnly /\ "panic_fb" \in BootOnly
      /\ UNCHANGED <<handoff, console>>
  BY DEF Kpanic, BootOnly, AfterGdt, AfterIdt, HandlerOnly, InPanic
<1>2. Moves("panic_fb")
  BY DEF Kpanic, Moves, TypeOK, StackOK
<1>3. depth = 1 /\ depth' = 1 /\ Boot = from /\ Boot' = "panic_fb"
  BY <1>1, <1>2, BootStep DEF IInv
<1>4. stack'[1].why = name /\ stack'[1].vec = 0
  BY <1>3, SizesAssumption DEF Kpanic, TypeOK, StackOK
<1>5. OutputInv'
  <2>1. stack[1].pc # "panic_dbg" /\ stack'[1].pc # "panic_dbg"
    BY <1>3 DEF Boot
  <2>2. Quiet
    BY <1>3, <2>1 DEF Quiet
  <2>3. fb' = fb \cup {} /\ dbg' = dbg \cup {}
    BY <1>1 DEF console
  <2> QED
    BY <2>2, <2>3, OutputKept DEF OutInv
<1>6. ReasonInv'
  <2>1. FirstMissing(name)' /\ name \in CheckedNames
    BY <1>1 DEF FirstMissing, CheckedNames
  <2>2. (FirstMissing(stack[1].why))'
    BY <1>4, <2>1 DEF FirstMissing
  <2> QED
    BY <1>3, <1>4, <2>1, <2>2 DEF ReasonInv
<1>7. TestedInv'
  BY <1>1, <1>3 DEF OutInv, TestedInv, console, AfterRamfs, BeforeConsole
<1>8. ToldInv'
  BY <1>1, <1>3 DEF OutInv, ToldInv, console, FirstMissing, Msg
<1> QED
  BY <1>5, <1>6, <1>7, <1>8 DEF OutInv

(* The first write of a panic: the message waits for the second.           *)
LEMMA PanicFbOut ==
  ASSUME TypeOK, FramesInv, OutInv, PanicFb
  PROVE  OutInv'
<1> DEFINE msg == PanicMsg(Top)
<1>1. /\ depth' = depth /\ depth \in Nat \ {0} /\ stack[depth].pc = "panic_fb"
      /\ \A k \in 1 .. depth : k # depth => stack'[k] = stack[k]
      /\ stack'[depth].pc = "panic_dbg"
      /\ stack'[depth].why = stack[depth].why /\ stack'[depth].vec = stack[depth].vec
      /\ fb' = fb \cup {msg} /\ UNCHANGED <<handoff, ftCtx, dbg>>
  BY SizesAssumption DEF PanicFb, Goto, TypeOK, StackOK, At, Top, Frame
<1>2. msg = PanicMsg(stack[depth]) /\ PanicMsg(stack'[depth]) = msg
  BY <1>1 DEF Top, PanicMsg
<1> HIDE DEF msg
<1>3. OutputInv'
  <2>1. \A k \in 1 .. depth' : stack'[k].pc = "panic_dbg" => PanicMsg(stack'[k]) \in fb'
    BY <1>1, <1>2 DEF OutInv, OutputInv
  <2>2. ASSUME NEW m \in fb', m \notin dbg'
        PROVE  \E k \in 1 .. depth' : stack'[k].pc = "panic_dbg" /\ m = PanicMsg(stack'[k])
    <3>1. CASE m = msg
      BY <1>1, <1>2, <3>1
    <3>2. CASE m # msg
      <4>1. PICK k \in 1 .. depth : stack[k].pc = "panic_dbg" /\ m = PanicMsg(stack[k])
        BY <1>1, <2>2, <3>2 DEF OutInv, OutputInv
      <4> QED
        BY <1>1, <4>1
    <3> QED
      BY <3>1, <3>2
  <2>3. \A m \in dbg' : m \in fb' \/ m \in Refusals
    BY <1>1 DEF OutInv, OutputInv
  <2> QED
    BY <2>1, <2>2, <2>3 DEF OutputInv, PanicMsg, Refusals, Msg
<1>4. \A k \in 2 .. depth' : stack'[k].why = "exception"
  BY <1>1 DEF OutInv, ReasonInv
<1>5. Boot' \in {"panic_fb", "panic_dbg"} =>
        /\ stack'[1].why \in CheckedNames /\ stack'[1].vec = 0
        /\ FirstMissing(stack[1].why)'
  BY <1>1 DEF OutInv, ReasonInv, Boot, FirstMissing
<1>6. Boot' = Boot \/ (Boot = "panic_fb" /\ Boot' = "panic_dbg")
  BY <1>1 DEF Boot
<1>7. TestedInv'
  BY <1>1, <1>6 DEF OutInv, TestedInv, BeforeConsole, AfterRamfs
<1>8. ToldInv'
  BY <1>1, <1>6 DEF OutInv, ToldInv, FirstMissing, Msg
<1> QED
  BY <1>3, <1>4, <1>5, <1>7, <1>8 DEF OutInv, ReasonInv

(* Its second write: the message is on both outputs.                       *)
LEMMA PanicDbgOut ==
  ASSUME TypeOK, FramesInv, OutInv, PanicDbg
  PROVE  OutInv'
<1> DEFINE msg == PanicMsg(Top)
<1>1. /\ depth' = depth /\ depth \in Nat \ {0} /\ stack[depth].pc = "panic_dbg"
      /\ \A k \in 1 .. depth : k # depth => stack'[k] = stack[k]
      /\ stack'[depth].pc = "hcf"
      /\ stack'[depth].why = stack[depth].why /\ stack'[depth].vec = stack[depth].vec
      /\ dbg' = dbg \cup {msg} /\ UNCHANGED <<handoff, ftCtx, fb>>
  BY SizesAssumption DEF PanicDbg, Goto, TypeOK, StackOK, At, Top, Frame
<1>2. msg = PanicMsg(stack[depth]) /\ msg \in fb
  BY <1>1 DEF Top, OutInv, OutputInv
<1>3. msg = <<stack[depth].why, stack[depth].vec>>
  BY DEF PanicMsg, Top
<1> HIDE DEF msg
<1>4. OutputInv'
  <2>1. \A k \in 1 .. depth' : stack'[k].pc = "panic_dbg" => PanicMsg(stack'[k]) \in fb'
    BY <1>1 DEF OutInv, OutputInv
  <2>2. ASSUME NEW m \in fb', m \notin dbg'
        PROVE  \E k \in 1 .. depth' : stack'[k].pc = "panic_dbg" /\ m = PanicMsg(stack'[k])
    <3>1. PICK k \in 1 .. depth : stack[k].pc = "panic_dbg" /\ m = PanicMsg(stack[k])
      BY <1>1, <2>2 DEF OutInv, OutputInv
    <3>2. k # depth
      BY <1>1, <1>2, <2>2, <3>1
    <3> QED
      BY <1>1, <3>1, <3>2
  <2>3. \A m \in dbg' : m \in fb' \/ m \in Refusals
    BY <1>1, <1>2 DEF OutInv, OutputInv
  <2> QED
    BY <2>1, <2>2, <2>3 DEF OutputInv, PanicMsg, Refusals, Msg
<1>5. \A k \in 2 .. depth' : stack'[k].why = "exception"
  BY <1>1 DEF OutInv, ReasonInv
<1>6. CASE depth # 1
  <2>1. stack'[1] = stack[1] /\ fb \subseteq fb' /\ dbg \subseteq dbg'
    BY <1>1, <1>6
  <2>2. \A name \in CheckedNames : Msg(name) \in dbg' => Msg(name) \in dbg
    <3>1. stack[depth].why = "exception"
      BY <1>1, <1>6 DEF OutInv, ReasonInv
    <3>2. \A name \in CheckedNames : Msg(name) # msg
      BY <1>3, <3>1 DEF Msg, CheckedNames
    <3> QED
      BY <1>1, <3>2
  <2>3. /\ TestedInv' /\ ToldInv'
        /\ Boot' \in {"panic_fb", "panic_dbg"} =>
             /\ stack'[1].why \in CheckedNames /\ stack'[1].vec = 0
             /\ FirstMissing(stack[1].why)'
    BY <1>1, <2>1, <2>2, BootKept
  <2> QED
    BY <1>4, <1>5, <2>3 DEF OutInv, ReasonInv
<1>7. CASE depth = 1
  <2>1. Boot = "panic_dbg" /\ Boot' = "hcf"
    BY <1>1, <1>7 DEF Boot
  <2>2. TestedInv'
    BY <2>1 DEF TestedInv, BeforeConsole, AfterRamfs
  <2>3. PICK name \in CheckedNames : FirstMissing(name) /\ msg = Msg(name)
    BY <1>3, <1>7, <2>1 DEF OutInv, ReasonInv, Msg
  <2>4. FirstMissing(name)' /\ Msg(name) \in dbg' /\ Msg(name) \in fb'
    BY <1>1, <1>2, <2>3 DEF FirstMissing
  <2>5. ASSUME NEW n \in CheckedNames, Msg(n) \in dbg' PROVE FirstMissing(n)'
    <3>1. CASE n = name
      BY <2>4, <3>1
    <3>2. CASE n # name
      BY <1>1, <2>3, <2>5, <3>2 DEF OutInv, ToldInv, Msg, FirstMissing
    <3> QED
      BY <3>1, <3>2
  <2>6. ToldInv'
    BY <2>4, <2>5 DEF ToldInv, Msg
  <2> QED
    BY <1>4, <1>5, <2>1, <2>2, <2>6 DEF OutInv, ReasonInv
<1> QED
  BY <1>6, <1>7

(* Every action of the specification keeps the invariant.                  *)
LEMMA NextOut == TypeOK /\ IInv /\ OutInv /\ [Next]_vars => OutInv'
<1> SUFFICES ASSUME TypeOK, IInv, OutInv, [Next]_vars PROVE OutInv'
  OBVIOUS
<1> USE GotoMoves
<1>1. /\ StackOK /\ FramesInv /\ ConsoleInv
      /\ NMI \in Vectors /\ PageFault \in Vectors /\ IrqVectors \subseteq Vectors
  BY SizesAssumption, VectorsAssumption DEF TypeOK, IInv, Vectors, NMI, PageFault
<1>2. DOMAIN LogSucc \cup BeforeConsole \cup GdtLoading \cup AfterGdt
        \cup {"flanterm_refresh", "gdt_init"} = BootOnly
  BY DEF BootOnly
(* A silent jump of _start: what is left is what it has tested.            *)
<1>3. ASSUME NEW from, from \notin HandlerOnly, NEW l \in BootOnly, l \notin InPanic,
             At(from), Moves(l), UNCHANGED <<handoff, fb, dbg>>
      PROVE  /\ Boot = from /\ Boot' = l
             /\ TestedInv' => OutInv'
  <2> DEFINE S == {}
  <2>1. /\ fb' = fb \cup S /\ dbg' = dbg \cup S /\ UNCHANGED handoff
        /\ \A name \in CheckedNames : Msg(name) \notin S
    BY <1>3
  <2> HIDE DEF S
  <2>2. Boot = from /\ Boot' = l /\ OutputInv' /\ ReasonInv' /\ ToldInv'
    BY <1>1, <1>3, <2>1, StartStep
  <2> QED
    BY <2>2 DEF OutInv
(* One that tests nothing.                                                 *)
<1>4. ASSUME NEW from, from \notin HandlerOnly, from \notin BeforeConsole,
             NEW l \in BootOnly, l \notin InPanic, l \notin BeforeConsole,
             l \in AfterRamfs => from \in AfterRamfs,
             l \in AfterRamfs \ {"log_ramfs", "check_mmap"} =>
               from \in AfterRamfs \ {"log_ramfs", "check_mmap"},
             At(from), Moves(l), UNCHANGED <<handoff, fb, dbg>>
      PROVE  OutInv'
  <2>1. Boot = from /\ Boot' = l /\ (TestedInv' => OutInv')
    BY <1>3, <1>4
  <2>2. TestedInv'
    BY <1>4, <2>1 DEF OutInv, TestedInv, BeforeConsole
  <2> QED
    BY <2>1, <2>2
<1>5. ASSUME NEW from, NEW l, Step(from, l)
      PROVE  At(from) /\ Goto(l) /\ Moves(l) /\ UNCHANGED <<handoff, ftCtx, fb, dbg>>
  BY <1>1, <1>5 DEF Step, console
<1>6. ASSUME Fault(PageFault) PROVE OutInv'
  BY <1>1, <1>6, RaiseOut DEF Fault, console
<1>7. ASSUME NEW from, from \notin HandlerOnly, At(from)
      PROVE  Boot = from
  BY <1>1, <1>7 DEF StackOK, FramesInv, At, Top, Boot
<1>8. {"check_data", "check_fb", "flanterm_init", "check_flanterm", "flanterm_refresh",
       "gdt_init", "idt_init", "halt", "done"} \cup GdtLoading \cup IdtLoading \cup AfterRamfs
        \cup DOMAIN LogSucc \cup {"check_ramfs"} \subseteq BootOnly \ HandlerOnly
  BY LogDomain DEF BootOnly, HandlerOnly, InPanic, BeforeConsole, GdtLoading, AfterGdt,
     AfterIdt, IdtLoading, AfterRamfs
<1>9. HandlerOnly = {"isr", "excp_handler", "iretq", "panic_fb", "panic_dbg", "hcf", "dead"}
  BY DEF HandlerOnly, InPanic
<1>10. CASE CheckData
  <2>1. CASE handoff.data /\ Step("check_data", "check_fb")
    <3>1. Boot = "check_data" /\ Boot' = "check_fb" /\ (TestedInv' => OutInv')
      BY <1>3, <1>5, <1>8, <2>1 DEF InPanic
    <3>2. TestedInv'
      BY <1>5, <2>1, <3>1 DEF OutInv, TestedInv, BeforeConsole, AfterRamfs
    <3> QED
      BY <3>1, <3>2
  <2>2. CASE ~handoff.data /\ Refuse("check_data", "data")
    <3>1. Boot = "check_data"
      BY <1>7, <1>8, <2>2 DEF Refuse
    <3>2. FirstMissing("data") /\ ~ftCtx
      BY <2>2, <3>1, MissingFacts DEF OutInv, TestedInv
    <3> QED
      BY <1>1, <1>8, <2>2, <3>2, RefuseOut
  <2> QED
    BY <1>10, <2>1, <2>2 DEF CheckData
<1>11. CASE CheckFramebuffer
  <2>1. CASE handoff.framebuffer /\ Step("check_fb", "flanterm_init")
    <3>1. Boot = "check_fb" /\ Boot' = "flanterm_init" /\ (TestedInv' => OutInv')
      BY <1>3, <1>5, <1>8, <2>1 DEF InPanic
    <3>2. TestedInv'
      BY <1>5, <2>1, <3>1 DEF OutInv, TestedInv, BeforeConsole, AfterRamfs
    <3> QED
      BY <3>1, <3>2
  <2>2. CASE ~handoff.framebuffer /\ Refuse("check_fb", "framebuffer")
    <3>1. Boot = "check_fb"
      BY <1>7, <1>8, <2>2 DEF Refuse
    <3>2. handoff.data /\ ~ftCtx
      BY <3>1 DEF OutInv, TestedInv
    <3>3. FirstMissing("framebuffer")
      BY <2>2, <3>2, MissingFacts
    <3> QED
      BY <1>1, <1>8, <2>2, <3>2, <3>3, RefuseOut
  <2> QED
    BY <1>11, <2>1, <2>2 DEF CheckFramebuffer
<1>12. CASE FlantermInit
  <2>1. At("flanterm_init") /\ Moves("check_flanterm") /\ ftCtx' = handoff.flanterm
        /\ UNCHANGED <<handoff, fb, dbg>>
    BY <1>1, <1>12 DEF FlantermInit
  <2>2. Boot = "flanterm_init" /\ Boot' = "check_flanterm" /\ (TestedInv' => OutInv')
    BY <1>3, <1>8, <2>1 DEF InPanic
  <2>3. handoff.data /\ handoff.framebuffer
    BY <2>2 DEF OutInv, TestedInv
  <2>4. TestedInv'
    BY <2>1, <2>2, <2>3 DEF TestedInv, BeforeConsole, AfterRamfs
  <2> QED
    BY <2>2, <2>4
<1>13. CASE CheckFlanterm
  <2>1. CASE ftCtx /\ Step("check_flanterm", "flanterm_refresh")
    <3>1. Boot = "check_flanterm" /\ Boot' = "flanterm_refresh" /\ (TestedInv' => OutInv')
      BY <1>3, <1>5, <1>8, <2>1 DEF InPanic
    <3>2. handoff.data /\ handoff.framebuffer /\ ftCtx = handoff.flanterm
      BY <3>1 DEF OutInv, TestedInv
    <3>3. TestedInv'
      BY <1>5, <2>1, <3>1, <3>2 DEF TestedInv, AfterRamfs
    <3> QED
      BY <3>1, <3>3
  <2>2. CASE ~ftCtx /\ Refuse("check_flanterm", "flanterm")
    <3>1. Boot = "check_flanterm"
      BY <1>7, <1>8, <2>2 DEF Refuse
    <3>2. handoff.data /\ handoff.framebuffer /\ ftCtx = handoff.flanterm
      BY <3>1 DEF OutInv, TestedInv
    <3>3. FirstMissing("flanterm")
      BY <2>2, <3>2, MissingFacts
    <3> QED
      BY <1>1, <1>8, <2>2, <3>3, RefuseOut
  <2> QED
    BY <1>13, <2>1, <2>2 DEF CheckFlanterm
<1>14. CASE FlantermRefresh
  <2>1. /\ At("flanterm_refresh") /\ Moves("log_flanterm")
        /\ UNCHANGED <<handoff, ftCtx, fb, dbg>>
    BY <1>5, <1>14 DEF FlantermRefresh
  <2> QED
    BY <1>4, <1>8, <2>1, LogDomain DEF BeforeConsole, AfterRamfs, InPanic
<1>15. CASE Log
  <2> DEFINE from == Top.pc
             l == LogSucc[from]
             S == LogMsgs(from)
  <2>1. /\ At(from) /\ from \in DOMAIN LogSucc /\ Moves(l) /\ fb' = fb \cup S /\ dbg' = dbg \cup S
        /\ UNCHANGED <<handoff, ftCtx>>
    BY <1>1, <1>15 DEF Log, At
  <2>2. \A name \in CheckedNames : Msg(name) \notin S
    BY <2>1, LogDomain DEF LogMsgs, Msg, CheckedNames
  <2>3. /\ l \in BootOnly /\ l \notin InPanic /\ l \notin BeforeConsole /\ from \notin HandlerOnly
        /\ from \notin BeforeConsole
        /\ l \in AfterRamfs => from \in AfterRamfs
        /\ l \in AfterRamfs \ {"log_ramfs", "check_mmap"} =>
             from \in AfterRamfs \ {"log_ramfs", "check_mmap"}
    BY <1>8, <2>1, LogDomain DEF LogSucc, InPanic, BeforeConsole, AfterRamfs, GdtLoading, IdtLoading
  <2> HIDE DEF from, l, S
  <2>4. Boot = from /\ Boot' = l /\ OutputInv' /\ ReasonInv' /\ ToldInv'
    BY <1>1, <2>1, <2>2, <2>3, StartStep
  <2>5. TestedInv'
    BY <2>1, <2>3, <2>4 DEF OutInv, TestedInv, BeforeConsole
  <2> QED
    BY <2>4, <2>5 DEF OutInv
<1>16. CASE GdtInit \/ GdtLgdt \/ GdtFarReturn \/ GdtLoadData
  <2>1. PICK from \in {"gdt_init", "gdt_lgdt", "gdt_cs", "gdt_data"},
             l \in {"gdt_lgdt", "gdt_cs", "gdt_data", "log_gdt"} : At(from) /\ Goto(l)
    BY <1>16 DEF GdtInit, GdtLgdt, GdtFarReturn, GdtLoadData
  <2>2. UNCHANGED <<handoff, fb, dbg>> /\ Moves(l)
    BY <1>1, <1>16, <2>1 DEF GdtInit, GdtLgdt, GdtFarReturn, GdtLoadData, console
  <2>3. /\ from \notin HandlerOnly /\ from \notin BeforeConsole /\ l \in BootOnly
        /\ l \notin InPanic /\ l \notin BeforeConsole /\ l \notin AfterRamfs
    BY <1>8, <1>9, LogDomain DEF BeforeConsole, AfterRamfs, InPanic, GdtLoading
  <2> QED
    BY <1>4, <2>1, <2>2, <2>3
<1>17. CASE IdtInit \/ SetGate \/ GatesDone \/ IdtLidt \/ IdtSti \/ IdtCli
  <2>1. PICK from \in {"idt_init", "idt_gates", "idt_lidt", "idt_sti", "idt_cli"},
             l \in {"idt_gates", "idt_lidt", "idt_sti", "idt_cli", "log_idt"} :
               At(from) /\ Moves(l)
    BY <1>1, <1>17 DEF IdtInit, SetGate, GatesDone, Step, IdtLidt, IdtSti, IdtCli, Moves, At, Top
  <2>2. UNCHANGED <<handoff, fb, dbg>>
    BY <1>17 DEF IdtInit, SetGate, GatesDone, Step, IdtLidt, IdtSti, IdtCli, console
  <2>3. /\ from \notin HandlerOnly /\ from \notin BeforeConsole /\ l \in BootOnly
        /\ l \notin InPanic /\ l \notin BeforeConsole /\ l \notin AfterRamfs
    BY <1>8, <1>9, LogDomain DEF BeforeConsole, AfterRamfs, InPanic, IdtLoading
  <2> QED
    BY <1>4, <2>1, <2>2, <2>3
<1>18. CASE CheckRamfs
  <2>1. Boot = "check_ramfs"
    BY <1>7, <1>8, <1>18 DEF CheckRamfs, Step, Kpanic
  <2>2. handoff.data /\ handoff.framebuffer /\ handoff.flanterm
    BY <2>1 DEF OutInv, TestedInv, BeforeConsole
  <2>3. CASE handoff.ramfs /\ Step("check_ramfs", "log_ramfs")
    <3>1. Boot' = "log_ramfs" /\ (TestedInv' => OutInv')
      BY <1>3, <1>5, <1>8, <2>3, LogDomain DEF InPanic
    <3>2. TestedInv'
      BY <1>5, <2>2, <2>3, <3>1 DEF TestedInv, AfterRamfs
    <3> QED
      BY <3>1, <3>2
  <2>4. CASE ~handoff.ramfs /\ Kpanic("check_ramfs", "ramfs")
    <3>1. FirstMissing("ramfs")
      BY <2>2, <2>4, MissingFacts
    <3> QED
      BY <2>4, <3>1, KpanicOut
  <2> QED
    BY <1>18, <2>3, <2>4 DEF CheckRamfs
<1>19. CASE CheckMemoryMap
  <2>1. Boot = "check_mmap"
    BY <1>7, <1>8, <1>19 DEF CheckMemoryMap, Step, Kpanic, AfterRamfs
  <2>2. handoff.data /\ handoff.framebuffer /\ handoff.flanterm /\ handoff.ramfs
    BY <2>1 DEF OutInv, TestedInv, BeforeConsole, AfterRamfs
  <2>3. CASE handoff.memory_map /\ Step("check_mmap", "log_mmap")
    <3>1. Boot' = "log_mmap" /\ (TestedInv' => OutInv')
      BY <1>3, <1>5, <1>8, <2>3, LogDomain DEF InPanic, AfterRamfs
    <3>2. TestedInv'
      BY <1>5, <2>2, <2>3, <3>1 DEF TestedInv, AfterRamfs
    <3> QED
      BY <3>1, <3>2
  <2>4. CASE ~handoff.memory_map /\ Kpanic("check_mmap", "memory_map")
    <3>1. FirstMissing("memory_map")
      BY <2>2, <2>4, MissingFacts
    <3> QED
      BY <2>4, <3>1, KpanicOut
  <2> QED
    BY <1>19, <2>3, <2>4 DEF CheckMemoryMap
<1>20. CASE EvalInfo \/ GetFileTar \/ EvalMsg \/ Halt
  <2>1. CASE Fault(PageFault)
    BY <1>6, <2>1
  <2>2. ASSUME NEW from \in {"eval_info", "get_file_tar", "eval_msg", "halt"},
               NEW l \in {"log_info", "log_missing", "log_setup", "log_welcome", "done"},
               Step(from, l)
        PROVE  OutInv'
    <3>1. At(from) /\ Moves(l) /\ UNCHANGED <<handoff, fb, dbg>>
      BY <1>5, <2>2
    <3>2. /\ from \notin HandlerOnly /\ from \notin BeforeConsole /\ l \in BootOnly
          /\ l \notin InPanic /\ l \notin BeforeConsole
          /\ from \in AfterRamfs \ {"log_ramfs", "check_mmap"}
          /\ l \in AfterRamfs \ {"log_ramfs", "check_mmap"}
      BY <1>8, <1>9 DEF BeforeConsole, AfterRamfs, InPanic
    <3> QED
      BY <1>4, <3>1, <3>2
  <2> QED
    BY <1>20, <2>1, <2>2 DEF EvalInfo, GetFileTar, EvalMsg, Halt
<1>21. CASE IsrCli \/ ExcpHandler \/ Hcf
  <2>1. PICK from \in {"isr", "excp_handler", "hcf"},
             l \in {"excp_handler", "panic_fb", "iretq", "dead"} :
               At(from) /\ Goto(l) /\ (from = "hcf" => l = "dead")
    BY <1>21 DEF IsrCli, ExcpHandler, Step, Hcf
  <2>2. UNCHANGED <<handoff, console>>
    BY <1>21 DEF IsrCli, ExcpHandler, Step, Hcf
  <2>3. /\ from \in HandlerOnly /\ l \in HandlerOnly /\ from # "panic_dbg" /\ l # "panic_dbg"
        /\ from \in InPanic => from = "hcf" /\ l = "dead"
    BY <1>9, <2>1 DEF InPanic
  <2> QED
    BY <1>1, <2>1, <2>2, <2>3, HandlerOut
<1>22. CASE Iretq
  <2>1. /\ depth \in 2 .. StackFrames /\ depth' = depth - 1 /\ stack[depth].pc = "iretq"
        /\ \A k \in 1 .. depth' : stack'[k] = stack[k]
        /\ UNCHANGED <<handoff, ftCtx, fb, dbg>>
    BY <1>1, <1>22, SizesAssumption DEF Iretq, StackOK, At, Top, console
  <2>2. Quiet /\ stack'[1] = stack[1]
    BY <2>1, SizesAssumption DEF Quiet
  <2>3. OutputInv'
    <3>1. fb' = fb \cup {} /\ dbg' = dbg \cup {}
      BY <2>1
    <3> QED
      BY <2>2, <3>1, OutputKept DEF OutInv
  <2>4. \A k \in 2 .. depth' : stack'[k].why = "exception"
    BY <2>1, SizesAssumption DEF OutInv, ReasonInv
  <2>5. /\ TestedInv' /\ ToldInv'
        /\ Boot' \in {"panic_fb", "panic_dbg"} =>
             /\ stack'[1].why \in CheckedNames /\ stack'[1].vec = 0
             /\ FirstMissing(stack[1].why)'
    BY <2>1, <2>2, BootKept
  <2> QED
    BY <2>3, <2>4, <2>5 DEF OutInv, ReasonInv
<1>23. CASE PanicFb
  BY <1>1, <1>23, PanicFbOut
<1>24. CASE PanicDbg
  BY <1>1, <1>24, PanicDbgOut
<1>25. CASE FlantermFault
  BY <1>6, <1>25 DEF FlantermFault
<1>26. CASE Nmi
  BY <1>1, <1>26, RaiseOut DEF Nmi
<1>27. ASSUME NEW v \in IrqVectors, Irq(v) PROVE OutInv'
  BY <1>1, <1>27, RaiseOut DEF Irq, Raise
<1>28. CASE UNCHANGED vars
  <2>1. UNCHANGED <<handoff, stack, depth, ftCtx, fb, dbg>>
    BY <1>28 DEF vars, console
  <2>2. OutputInv'
    BY <2>1 DEF OutInv, OutputInv, PanicMsg, Refusals, Msg
  <2>3. ReasonInv'
    BY <2>1 DEF OutInv, ReasonInv, Boot, FirstMissing
  <2>4. TestedInv' /\ ToldInv'
    BY <2>1, BootKept
  <2> QED
    BY <2>2, <2>3, <2>4 DEF OutInv
<1> QED
  BY <1>10, <1>11, <1>12, <1>13, <1>14, <1>15, <1>16, <1>17, <1>18, <1>19, <1>20, <1>21,
     <1>22, <1>23, <1>24, <1>25, <1>26, <1>27, <1>28 DEF Next, Cpu, Start, Handler

(* So it holds in every behaviour.                                         *)
LEMMA OutputInvariant == Spec => [](TypeOK /\ IInv /\ OutInv)
BY InitType, InitInv, InitOut, NextType, NextInv, NextOut, PTL DEF Spec

-----------------------------------------------------------------------------
(* What it gives.                                                          *)

(* Screen and debug port carry the same lines, but for the refusals of a   *)
(* console that is not there and the panics between KMPRINTF's two writes. *)
THEOREM OutputsMirrored == Spec => []Mirrored
<1>1. OutInv => Mirrored
  BY DEF OutInv, OutputInv, Mirrored, Refusals
<1> QED
  BY <1>1, OutputInvariant, PTL

(* _start refuses to go on exactly for the first missing pointer of the    *)
(* hand-off, and the user is told which.                                   *)
THEOREM FirstMissingIsDiagnosed == Spec => []Diagnosis
<1>1. ASSUME OutInv PROVE Diagnosis
  <2>1. Boot = "done" => \A name \in CheckedNames : handoff[name]
    BY <1>1 DEF OutInv, TestedInv, CheckedNames, BeforeConsole, AfterRamfs
  <2> QED
    BY <1>1, <2>1 DEF OutInv, ToldInv, Diagnosis, Boot
<1> QED
  BY <1>1, OutputInvariant, PTL

-----------------------------------------------------------------------------
(* The way to a reset.  The stack is full only after flanterm was entered  *)
(* again: until then each activation is _start's, that of an interrupt     *)
(* which is not acknowledged, of the one NMI that may be pending, or of    *)
(* the page fault of a missing pointer.                                    *)

(* Room for every interrupt the controller may raise, _start and an NMI    *)
(* or a page fault: with less, interrupts alone overflow the stack.        *)
EnoughStack == StackFrames >= 4 /\ StackFrames >= 3 + Cardinality(IrqVectors)

Evals == {"eval_info", "get_file_tar", "eval_msg"}

(* Locations a frame leaves only for a panic, or never.                    *)
Stuck == InFlanterm \cup InPanic

(* Flanterm is entered again if the running frame prints.                  *)
Reentered == \E j \in 1 .. depth - 1 : stack[j].pc \in InFlanterm

(* The user has read of an exception.                                      *)
Told == \E m \in dbg : m[1] = "exception"

ReturnInv == \A k \in 2 .. depth : stack[k].pc = "iretq" => stack[k].vec >= NumExceptions

HcfInv ==
  idtr = "kernel" =>
    \A k \in 1 .. depth : stack[k].pc = "hcf" =>
      ~irqOn /\ \A j \in k + 1 .. depth : ~stack[j].flags

AboveInv ==
  \A j \in 1 .. depth : \A k \in j + 1 .. depth :
    stack[j].pc \in Stuck => nmiBlocked /\ stack[k].vec \in {NMI, PageFault}

RoomInv ==
  /\ ~Reentered /\ Boot \notin Evals =>
       /\ depth <= 2 + Cardinality(inService)
       /\ ~nmiBlocked => depth <= 1 + Cardinality(inService)
  /\ ~Reentered /\ Boot \in Evals => depth <= 3 /\ (~nmiBlocked => depth <= 2)
  /\ \A k \in 2 .. depth :
       stack[k].vec # PageFault => k <= 3 \/ k <= 2 + Cardinality(IrqVectors)

PrintedInv ==
  Told => /\ \E k \in 2 .. depth : stack[k].pc \in {"hcf", "dead"}
          /\ Reentered => Top.pc \in {"hcf", "dead"}

ShutInv == ReturnInv /\ HcfInv /\ AboveInv /\ RoomInv /\ PrintedInv

(* Interrupts in service are some of those the controller may raise.       *)
LEMMA ServiceFacts ==
  ASSUME NEW S, S \subseteq IrqVectors
  PROVE  /\ Cardinality(S) \in Nat /\ Cardinality(IrqVectors) \in Nat
         /\ Cardinality(S) <= Cardinality(IrqVectors)
         /\ \A v \in IrqVectors : v \notin S =>
              /\ S \cup {v} \subseteq IrqVectors
              /\ Cardinality(S \cup {v}) = Cardinality(S) + 1
<1>1. IsFiniteSet(IrqVectors)
  <2>1. IsFiniteSet(0 .. IdtEntries - 1)
    BY FS_Interval, SizesAssumption
  <2> QED
    BY <2>1, FS_Subset, VectorsAssumption
<1>2. IsFiniteSet(S) /\ Cardinality(S) <= Cardinality(IrqVectors)
  BY <1>1, FS_Subset
<1> QED
  BY <1>1, <1>2, FS_CardinalityType, FS_AddElement

(* At the bootloader's jump.                                               *)
LEMMA InitShut == Init => ShutInv /\ ShutdownCause
<1> SUFFICES ASSUME Init PROVE ShutInv /\ ShutdownCause
  OBVIOUS
<1>1. depth = 1 /\ Boot = "check_data" /\ dbg = {} /\ lost = "no" /\ inService = {}
  BY SizesAssumption DEF Init, Boot, StartFrame
<1>2. Cardinality(inService) \in Nat
  BY <1>1, ServiceFacts
<1>3. ReturnInv /\ AboveInv /\ HcfInv
  BY <1>1 DEF ReturnInv, AboveInv, HcfInv, Boot
<1>4. RoomInv
  BY <1>1, <1>2 DEF RoomInv
<1>5. PrintedInv /\ ShutdownCause
  BY <1>1 DEF PrintedInv, Told, ShutdownCause
<1> QED
  BY <1>3, <1>4, <1>5 DEF ShutInv

(* A step of _start, with nothing above it.                                *)
LEMMA BootShut ==
  ASSUME TypeOK', ShutInv, depth = 1, depth' = 1,
         Boot' = "hcf" => idtr' = "firmware",
         \A m \in dbg' : m \in dbg \/ m[1] # "exception"
  PROVE  ShutInv'
<1>1. Cardinality(inService') \in Nat
  BY ServiceFacts DEF TypeOK
<1>2. ReturnInv' /\ AboveInv'
  BY DEF ReturnInv, AboveInv
<1>3. HcfInv'
  BY DEF HcfInv, Boot
<1>4. RoomInv'
  BY <1>1 DEF RoomInv
<1>5. PrintedInv'
  BY DEF ShutInv, PrintedInv, Told
<1> QED
  BY <1>2, <1>3, <1>4, <1>5 DEF ShutInv

(* A step of a stub, a panic or hcf.                                       *)
LEMMA HandlerShut ==
  ASSUME TypeOK, IInv, ShutInv, NEW from \in HandlerOnly, At(from),
         NEW l \in HandlerOnly, Goto(l),
         UNCHANGED <<nmiBlocked, inService, idtr>>, irqOn' => irqOn,
         l = "iretq" => Top.vec >= NumExceptions,
         l = "hcf" => from = "panic_dbg",
         l \in {"hcf", "dead"} \/ (from \notin {"hcf", "dead"} /\ dbg' = dbg),
         depth = 1 => \A m \in dbg' : m \in dbg \/ m[1] # "exception"
  PROVE  ShutInv'
<1> USE SizesAssumption DEF ShutInv
<1>1. /\ depth' = depth /\ depth \in 1 .. StackFrames
      /\ \A k \in 1 .. StackFrames : k # depth => stack'[k] = stack[k]
      /\ stack[depth].pc = from /\ stack'[depth].pc = l
      /\ stack'[depth].flags = stack[depth].flags /\ stack'[depth].vec = stack[depth].vec
  BY DEF Goto, TypeOK, StackOK, At, Top, Frame
<1>2. \A k \in 1 .. depth : /\ stack'[k].vec = stack[k].vec
                            /\ stack'[k].flags = stack[k].flags
  BY <1>1
<1>3. Reentered' <=> Reentered
  BY <1>1 DEF Reentered
<1>4. ReturnInv'
  BY <1>1 DEF ReturnInv, Top
<1>5. HcfInv'
  <2>1. l = "hcf" => ~irqOn
    BY <1>1 DEF IInv, MaskInv, Masked, AfterIdt
  <2> QED
    BY <1>1, <1>2, <2>1 DEF HcfInv
<1>6. AboveInv'
  BY <1>1, <1>2 DEF AboveInv
<1>7. RoomInv'
  <2>1. CASE depth = 1
    <3>1. Cardinality(inService) \in Nat
      BY ServiceFacts DEF TypeOK
    <3> QED
      BY <1>1, <2>1, <3>1 DEF RoomInv
  <2>2. CASE depth # 1
    <3>1. Boot' = Boot
      BY <1>1, <2>2 DEF Boot
    <3> QED
      BY <1>1, <1>2, <1>3, <3>1 DEF RoomInv
  <2> QED
    BY <2>1, <2>2
<1>8. PrintedInv'
  <2>1. SUFFICES ASSUME Told'
        PROVE  /\ \E k \in 2 .. depth' : stack'[k].pc \in {"hcf", "dead"}
               /\ Reentered' => stack'[depth'].pc \in {"hcf", "dead"}
    BY DEF PrintedInv, Top
  <2>2. depth # 1
    BY <2>1 DEF PrintedInv, Told
  <2>3. CASE l \in {"hcf", "dead"}
    BY <1>1, <2>2, <2>3
  <2>4. CASE from \notin {"hcf", "dead"} /\ dbg' = dbg
    <3>1. Told /\ ~Reentered
      BY <1>1, <2>1, <2>4 DEF PrintedInv, Told, Top
    <3>2. PICK k \in 2 .. depth : stack[k].pc \in {"hcf", "dead"}
      BY <3>1 DEF PrintedInv
    <3> QED
      BY <1>1, <1>3, <2>4, <3>1, <3>2
  <2> QED
    BY <2>3, <2>4
<1> QED
  BY <1>4, <1>5, <1>6, <1>7, <1>8

(* The return of an interrupt: no frame under it prints or is halted.      *)
LEMMA IretqShut ==
  ASSUME TypeOK, ShutInv, Iretq
  PROVE  ShutInv'
<1> USE SizesAssumption DEF ShutInv
<1>1. /\ depth \in 2 .. StackFrames /\ depth' = depth - 1 /\ stack[depth].pc = "iretq"
      /\ \A k \in 1 .. depth' : stack'[k] = stack[k]
      /\ UNCHANGED <<inService, idtr, dbg>>
  BY DEF Iretq, TypeOK, StackOK, At, Top, console, cpuTables
<1>2. \A j \in 1 .. depth - 1 : stack[j].pc \notin Stuck
  <2>1. stack[depth].vec >= NumExceptions /\ stack[depth].vec \in Nat
    BY <1>1 DEF ReturnInv, TypeOK, StackOK, Frame, Vectors
  <2>2. stack[depth].vec \notin {NMI, PageFault}
    BY <2>1 DEF NMI, PageFault
  <2> QED
    BY <1>1, <2>2 DEF AboveInv
<1>3. ReturnInv' /\ HcfInv' /\ AboveInv'
  BY <1>1, <1>2 DEF ReturnInv, HcfInv, AboveInv, Stuck, InPanic
<1>4. ~Reentered /\ ~Reentered'
  BY <1>1, <1>2 DEF Reentered, Stuck
<1>5. RoomInv'
  <2>1. Boot' = Boot
    BY <1>1 DEF Boot
  <2>2. Cardinality(inService) \in Nat
    BY ServiceFacts DEF TypeOK
  <2> QED
    BY <1>1, <1>4, <2>1, <2>2 DEF RoomInv
<1>6. PrintedInv'
  <2>1. ~Told
    BY <1>1, <1>2 DEF PrintedInv, Stuck, InPanic
  <2> QED
    BY <1>1, <2>1 DEF PrintedInv, Told
<1> QED
  BY <1>3, <1>5, <1>6

(* Through the kernel's IDT no interrupt comes while a frame prints or is  *)
(* halted.                                                                 *)
LEMMA StuckMasked ==
  ASSUME TypeOK, IInv, HcfInv, idtr = "kernel",
         NEW k \in 1 .. depth, stack[k].pc \in Stuck
  PROVE  ~irqOn
<1> USE LogDomain DEF IInv
<1>1. stack[k].pc = "hcf" => ~irqOn
  BY DEF HcfInv
<1>2. stack[k].pc \in Masked => ~irqOn
  BY DEF MaskInv
<1>3. stack[k].pc \in Masked \cup {"hcf"}
  <2>1. CASE k = 1
    <3>1. stack[1].pc \in {"idt_sti", "idt_cli", "hcf", "dead"} \cup AfterIdt
      BY DEF TablesInv, Boot
    <3> QED
      BY <2>1, <3>1 DEF Stuck, InFlanterm, InPanic, Masked
  <2>2. CASE k # 1
    <3>1. stack[k].pc \in HandlerOnly
      BY <2>2, SizesAssumption DEF FramesInv, TypeOK, StackOK
    <3> QED
      BY <3>1 DEF Stuck, InFlanterm, HandlerOnly, InPanic, Masked, AfterIdt
  <2> QED
    BY <2>1, <2>2
<1> QED
  BY <1>1, <1>2, <1>3

(* A vector that is served: a new activation above the running one.        *)
LEMMA EnterShut ==
  ASSUME TypeOK, ShutInv, NEW v \in Vectors, Enter(v), UNCHANGED <<idtr, dbg>>,
         \A j \in 1 .. depth : stack[j].pc \in Stuck => nmiBlocked' /\ v \in {NMI, PageFault},
         ~(Told /\ Reentered'),
         v # PageFault => depth + 1 <= 3 \/ depth + 1 <= 2 + Cardinality(IrqVectors),
         ~Reentered' /\ Boot \notin Evals =>
           /\ depth + 1 <= 2 + Cardinality(inService')
           /\ ~nmiBlocked' => depth + 1 <= 1 + Cardinality(inService'),
         ~Reentered' /\ Boot \in Evals => depth + 1 <= 3 /\ (~nmiBlocked' => depth + 1 <= 2)
  PROVE  ShutInv'
<1> USE SizesAssumption DEF ShutInv
<1>1. /\ depth \in 1 .. StackFrames - 1 /\ depth' = depth + 1
      /\ \A k \in 1 .. depth : stack'[k] = stack[k]
      /\ stack'[depth'].pc = "isr" /\ stack'[depth'].flags = irqOn /\ stack'[depth'].vec = v
      /\ (irqOn' => irqOn)
  BY DEF Enter, TypeOK, StackOK
<1>2. ReturnInv'
  BY <1>1 DEF ReturnInv
<1>3. HcfInv'
  BY <1>1 DEF HcfInv
<1>4. AboveInv'
  BY <1>1 DEF AboveInv
<1>5. Boot' = Boot
  BY <1>1 DEF Boot
<1>6. RoomInv'
  <2>1. \A k \in 2 .. depth' :
          stack'[k].vec # PageFault => k <= 3 \/ k <= 2 + Cardinality(IrqVectors)
    BY <1>1 DEF RoomInv
  <2> QED
    BY <1>1, <1>5, <2>1 DEF RoomInv
<1>7. PrintedInv'
  <2>1. Told' => \E k \in 2 .. depth' : stack'[k].pc \in {"hcf", "dead"}
    BY <1>1 DEF PrintedInv, Told
  <2>2. ~(Told' /\ Reentered')
    BY DEF Told
  <2> QED
    BY <2>1, <2>2 DEF PrintedInv
<1> QED
  BY <1>2, <1>3, <1>4, <1>6, <1>7

(* A vector that stops the machine.                                        *)
LEMMA LostShut ==
  ASSUME TypeOK, TypeOK', ShutInv, UNCHANGED <<stack, depth, irqOn, idtr, dbg>>,
         nmiBlocked => nmiBlocked', Cardinality(inService) <= Cardinality(inService')
  PROVE  ShutInv'
<1>1. Cardinality(inService) \in Nat /\ Cardinality(inService') \in Nat
  BY ServiceFacts DEF TypeOK
<1>2. ReturnInv' /\ HcfInv' /\ AboveInv'
  BY DEF ShutInv, ReturnInv, HcfInv, AboveInv
<1>3. (Reentered' <=> Reentered) /\ (Told' <=> Told) /\ Boot' = Boot /\ Top' = Top
  BY DEF Reentered, Told, Boot, Top
<1>4. RoomInv'
  BY <1>1, <1>3 DEF ShutInv, RoomInv, TypeOK, StackOK
<1>5. PrintedInv'
  BY <1>3 DEF ShutInv, PrintedInv
<1> QED
  BY <1>2, <1>4, <1>5 DEF ShutInv

(* Under a frame that is inside flanterm an NMI is being served.           *)
LEMMA ReenteredFacts ==
  ASSUME TypeOK, ShutInv, Reentered
  PROVE  nmiBlocked /\ \E j \in 1 .. depth : stack[j].pc \in Stuck
<1>1. PICK j \in 1 .. depth - 1 : stack[j].pc \in InFlanterm
  BY DEF Reentered
<1>2. depth \in Nat /\ j \in 1 .. depth /\ depth \in j + 1 .. depth
  BY SizesAssumption DEF TypeOK, StackOK
<1> QED
  BY <1>1, <1>2 DEF ShutInv, AboveInv, Stuck

(* What a new activation makes of it.                                      *)
LEMMA ReenteredNext ==
  ASSUME TypeOK, NEW v, Enter(v)
  PROVE  Reentered' <=> (Reentered \/ Top.pc \in InFlanterm)
<1>1. /\ depth \in 1 .. StackFrames - 1 /\ depth' = depth + 1
      /\ \A k \in 1 .. depth : stack'[k] = stack[k]
  BY SizesAssumption DEF Enter, TypeOK, StackOK
<1> QED
  BY <1>1 DEF Reentered, Top

(* An NMI finds the stack with room for it.                                *)
LEMMA NmiShut ==
  ASSUME TypeOK, TypeOK', IInv, ShutInv, Nmi
  PROVE  ShutInv' /\ (depth <= 2 \/ depth <= 1 + Cardinality(IrqVectors))
<1> USE SizesAssumption
<1>1. /\ ~nmiBlocked /\ nmiBlocked' /\ Raise(NMI) /\ NMI \in Vectors
      /\ UNCHANGED <<inService, idtr, dbg>>
  BY DEF Nmi, cpuTables, console, NMI, Vectors
<1>2. /\ Cardinality(inService) \in Nat /\ Cardinality(IrqVectors) \in Nat
      /\ Cardinality(inService) <= Cardinality(IrqVectors) /\ depth \in Nat
  BY ServiceFacts DEF TypeOK, StackOK
<1>3. ~Reentered
  BY <1>1, ReenteredFacts
<1>4. /\ Boot \notin Evals => depth <= 1 + Cardinality(inService)
      /\ Boot \in Evals => depth <= 2
  BY <1>1, <1>3 DEF ShutInv, RoomInv
<1>5. CASE Enter(NMI)
  <2>1. ~(Told /\ Reentered')
    <3>1. SUFFICES ASSUME Told, Reentered' PROVE FALSE
      OBVIOUS
    <3>2. Top.pc \in InFlanterm
      BY <1>3, <1>5, <3>1, ReenteredNext
    <3>3. PICK k \in 2 .. depth : stack[k].pc \in {"hcf", "dead"}
      BY <3>1 DEF ShutInv, PrintedInv
    <3>4. k = depth
      <4>1. k \in 1 .. depth /\ stack[k].pc \in Stuck
        BY <3>3 DEF Stuck, InPanic
      <4>2. k < depth => depth \in k + 1 .. depth
        BY <1>2
      <4> QED
        BY <1>1, <1>2, <4>1, <4>2 DEF ShutInv, AboveInv
    <3> QED
      BY <3>2, <3>3, <3>4, LogDomain DEF Top, InFlanterm
  <2>2. /\ depth + 1 <= 3 \/ depth + 1 <= 2 + Cardinality(IrqVectors)
        /\ Boot \notin Evals => depth + 1 <= 2 + Cardinality(inService')
        /\ Boot \in Evals => depth + 1 <= 3
    BY <1>1, <1>2, <1>4
  <2> QED
    BY <1>1, <1>2, <1>4, <1>5, <2>1, <2>2, EnterShut
<1>6. CASE TripleFault(NMI) \/ FirmwareStops
  BY <1>1, <1>2, <1>4, <1>6, LostShut DEF TripleFault, FirmwareStops
<1> QED
  BY <1>1, <1>2, <1>4, <1>5, <1>6 DEF Raise

(* So does an interrupt.                                                   *)
LEMMA IrqShut ==
  ASSUME TypeOK, TypeOK', IInv, ShutInv, NEW v \in IrqVectors, Irq(v)
  PROVE  /\ ShutInv'
         /\ idtr = "kernel" => depth <= 1 + Cardinality(IrqVectors)
<1> USE SizesAssumption
<1>1. /\ irqOn /\ v \notin inService /\ inService' = inService \cup {v} /\ v \in Vectors
      /\ UNCHANGED <<nmiBlocked, idtr, dbg>>
  BY VectorsAssumption DEF Irq, cpuTables, console, Vectors
<1>2. /\ Cardinality(inService) \in Nat /\ Cardinality(IrqVectors) \in Nat /\ depth \in Nat
      /\ Cardinality(inService') = Cardinality(inService) + 1
      /\ Cardinality(inService') <= Cardinality(IrqVectors)
  <2>1. inService \subseteq IrqVectors /\ inService' \subseteq IrqVectors /\ depth \in Nat
    BY DEF TypeOK, StackOK
  <2>2. Cardinality(inService \cup {v}) = Cardinality(inService) + 1
    BY <1>1, <2>1, ServiceFacts
  <2>3. /\ Cardinality(inService) \in Nat /\ Cardinality(IrqVectors) \in Nat
        /\ Cardinality(inService') <= Cardinality(IrqVectors)
    BY <2>1, ServiceFacts
  <2> QED
    BY <1>1, <2>1, <2>2, <2>3
<1>3. ASSUME idtr = "kernel"
      PROVE  /\ \A j \in 1 .. depth : stack[j].pc \notin Stuck
             /\ ~Reentered /\ Boot \notin Evals
  <2>1. \A j \in 1 .. depth : stack[j].pc \notin Stuck
    BY <1>1, <1>3, StuckMasked DEF ShutInv
  <2>2. ~Reentered
    BY <2>1, ReenteredFacts
  <2>3. Boot \notin Evals
    BY <1>1 DEF IInv, MaskInv, Boot, Evals, Masked, AfterIdt, TypeOK, StackOK
  <2> QED
    BY <2>1, <2>2, <2>3
<1>4. ASSUME idtr = "kernel"
      PROVE  /\ depth <= 2 + Cardinality(inService)
             /\ ~nmiBlocked => depth <= 1 + Cardinality(inService)
  BY <1>3, <1>4 DEF ShutInv, RoomInv
<1>5. CASE Enter(v)
  <2>1. idtr = "kernel"
    BY <1>5 DEF Enter
  <2>2. ~(Told /\ Reentered')
    <3>1. ~Told
      BY <1>3, <2>1 DEF ShutInv, PrintedInv, Stuck, InPanic
    <3> QED
      BY <3>1
  <2>3. /\ Boot \notin Evals
        /\ \A j \in 1 .. depth : stack[j].pc \in Stuck => nmiBlocked' /\ v \in {NMI, PageFault}
    BY <1>3, <2>1
  <2>4. ~Reentered' /\ Boot \notin Evals =>
          /\ depth + 1 <= 2 + Cardinality(inService')
          /\ ~nmiBlocked' => depth + 1 <= 1 + Cardinality(inService')
    BY <1>1, <1>2, <1>4, <2>1
  <2>5. depth + 1 <= 2 + Cardinality(IrqVectors)
    BY <1>2, <1>4, <2>1
  <2>6. v \in Vectors /\ UNCHANGED <<idtr, dbg>>
    BY <1>1
  <2>7. ShutInv'
    BY <1>5, <2>2, <2>3, <2>4, <2>5, <2>6, EnterShut
  <2> QED
    BY <1>2, <2>5, <2>7
<1>6. CASE TripleFault(v)
  BY <1>1, <1>2, <1>4, <1>6, LostShut DEF TripleFault
<1> QED
  BY <1>2, <1>4, <1>5, <1>6 DEF Irq

(* A page fault of _start or of flanterm.                                  *)
LEMMA FaultShut ==
  ASSUME TypeOK, TypeOK', IInv, ShutInv, Fault(PageFault),
         \/ At("eval_info") \/ At("get_file_tar") \/ At("eval_msg")
         \/ At("panic_fb") /\ Reentered
  PROVE  ShutInv'
<1> USE SizesAssumption
<1>1. /\ Raise(PageFault) /\ PageFault \in Vectors
      /\ UNCHANGED <<nmiBlocked, inService, idtr, dbg>>
  BY DEF Fault, cpuTables, console, PageFault, Vectors
<1>2. Cardinality(inService) \in Nat /\ depth \in Nat \ {0}
  BY ServiceFacts DEF TypeOK, StackOK
<1>3. CASE TripleFault(PageFault) \/ FirmwareStops
  BY <1>1, <1>2, <1>3, LostShut DEF TripleFault, FirmwareStops
<1>4. CASE Enter(PageFault) /\ (At("eval_info") \/ At("get_file_tar") \/ At("eval_msg"))
  <2>1. depth = 1 /\ Boot \in Evals
    <3>1. stack[depth].pc \in Evals
      BY <1>4 DEF At, Top, Evals
    <3>2. stack[depth].pc \notin HandlerOnly
      BY <3>1 DEF Evals, HandlerOnly, InPanic
    <3>3. depth = 1
      BY <1>2, <3>2 DEF IInv, FramesInv
    <3> QED
      BY <3>1, <3>3 DEF Boot
  <2>2. stack[1].pc \notin Stuck
    BY <2>1, LogDomain DEF Boot, Evals, Stuck, InFlanterm, InPanic
  <2>3. ~Told
    BY <2>1 DEF ShutInv, PrintedInv
  <2> QED
    BY <1>1, <1>4, <2>1, <2>2, <2>3, EnterShut
<1>5. CASE Enter(PageFault) /\ At("panic_fb") /\ Reentered
  <2>1. Reentered' /\ nmiBlocked
    BY <1>5, ReenteredNext, ReenteredFacts
  <2>2. ~Told
    BY <1>5 DEF ShutInv, PrintedInv, At
  <2> QED
    BY <1>1, <1>5, <2>1, <2>2, EnterShut
<1> QED
  BY <1>1, <1>3, <1>4, <1>5 DEF Raise

(* Every action of the specification keeps the invariant.                  *)
LEMMA NextShut == TypeOK /\ TypeOK' /\ IInv /\ OutInv /\ ShutInv /\ [Next]_vars => ShutInv'
<1> SUFFICES ASSUME TypeOK, TypeOK', IInv, OutInv, ShutInv, [Next]_vars PROVE ShutInv'
  OBVIOUS
<1> USE GotoMoves
<1>1. StackOK /\ FramesInv /\ TablesInv /\ depth \in Nat \ {0}
  BY SizesAssumption DEF TypeOK, StackOK, IInv
<1>2. HandlerOnly = {"isr", "excp_handler", "iretq", "panic_fb", "panic_dbg", "hcf", "dead"}
  BY DEF HandlerOnly, InPanic
<1>3. {"check_data", "check_fb", "flanterm_init", "check_flanterm", "flanterm_refresh",
       "gdt_init", "idt_init", "halt", "done"} \cup GdtLoading \cup IdtLoading \cup AfterRamfs
        \cup DOMAIN LogSucc \cup {"check_ramfs"} \subseteq BootOnly \ HandlerOnly
  BY LogDomain DEF BootOnly, HandlerOnly, InPanic, BeforeConsole, GdtLoading, AfterGdt,
     AfterIdt, IdtLoading, AfterRamfs
(* A jump of _start other than to hcf, and what it may write.              *)
<1>4. ASSUME NEW from, from \notin HandlerOnly, NEW l \in BootOnly, l # "hcf",
             At(from), Moves(l), \A m \in dbg' : m \in dbg \/ m[1] # "exception"
      PROVE  ShutInv'
  <2>1. depth = 1 /\ depth' = 1 /\ Boot' = l
    BY <1>1, <1>4, BootStep
  <2> QED
    BY <1>4, <2>1, BootShut
<1>5. ASSUME NEW from, from \notin HandlerOnly, NEW l \in BootOnly, l # "hcf", Step(from, l)
      PROVE  ShutInv'
  BY <1>1, <1>4, <1>5 DEF Step, console
<1>6. ASSUME NEW from \in {"check_data", "check_fb", "check_flanterm"},
             NEW name \in CheckedNames, Refuse(from, name)
      PROVE  ShutInv'
  <2>1. At(from) /\ Moves("hcf") /\ dbg' = dbg \cup {Msg(name)} /\ idtr' = idtr
    BY <1>1, <1>6 DEF Refuse, cpuTables
  <2>2. depth = 1 /\ depth' = 1 /\ Boot = from
    BY <1>1, <1>3, <2>1, BootStep DEF BootOnly, BeforeConsole
  <2>3. idtr = "firmware"
    BY <1>1, <2>2 DEF TablesInv, TypeOK, AfterIdt
  <2>4. \A m \in dbg' : m \in dbg \/ m[1] # "exception"
    BY <2>1 DEF Msg, CheckedNames
  <2> QED
    BY <2>1, <2>2, <2>3, <2>4, BootShut
<1>7. ASSUME NEW from \in {"check_ramfs", "check_mmap"}, NEW name, Kpanic(from, name)
      PROVE  ShutInv'
  <2>1. /\ At(from) /\ Moves("panic_fb") /\ dbg' = dbg
        /\ "panic_fb" \in BootOnly /\ from \notin HandlerOnly
    BY <1>1, <1>3, <1>7 DEF Kpanic, Moves, StackOK, console, AfterRamfs, BootOnly, AfterGdt, AfterIdt
  <2> QED
    BY <1>4, <2>1
<1>8. CASE CheckData
  BY <1>3, <1>5, <1>6, <1>8 DEF CheckData, CheckedNames
<1>9. CASE CheckFramebuffer
  BY <1>3, <1>5, <1>6, <1>9 DEF CheckFramebuffer, CheckedNames
<1>10. CASE FlantermInit
  <2>1. At("flanterm_init") /\ Moves("check_flanterm") /\ dbg' = dbg
    BY <1>1, <1>10 DEF FlantermInit
  <2> QED
    BY <1>3, <1>4, <2>1
<1>11. CASE CheckFlanterm
  BY <1>3, <1>5, <1>6, <1>11 DEF CheckFlanterm, CheckedNames
<1>12. CASE FlantermRefresh
  BY <1>3, <1>5, <1>12, LogDomain DEF FlantermRefresh
<1>13. CASE Log
  <2> DEFINE from == Top.pc
             l == LogSucc[from]
  <2>1. At(from) /\ from \in DOMAIN LogSucc /\ Moves(l) /\ dbg' = dbg \cup LogMsgs(from)
    BY <1>1, <1>13 DEF Log, At
  <2>2. \A m \in dbg' : m \in dbg \/ m[1] # "exception"
    BY <2>1, LogDomain DEF LogMsgs, Msg
  <2>3. from \notin HandlerOnly /\ l \in BootOnly /\ l # "hcf"
    BY <1>3, <2>1, LogDomain DEF LogSucc, AfterRamfs
  <2> HIDE DEF from, l
  <2> QED
    BY <1>4, <2>1, <2>2, <2>3
<1>14. CASE GdtInit \/ GdtLgdt \/ GdtFarReturn \/ GdtLoadData
  <2>1. PICK from \in {"gdt_init", "gdt_lgdt", "gdt_cs", "gdt_data"},
             l \in {"gdt_lgdt", "gdt_cs", "gdt_data", "log_gdt"} : At(from) /\ Goto(l)
    BY <1>14 DEF GdtInit, GdtLgdt, GdtFarReturn, GdtLoadData
  <2>2. Moves(l) /\ dbg' = dbg
    BY <1>1, <1>14, <2>1 DEF GdtInit, GdtLgdt, GdtFarReturn, GdtLoadData, console
  <2>3. from \notin HandlerOnly /\ l \in BootOnly /\ l # "hcf"
    BY <1>3, LogDomain DEF GdtLoading
  <2> QED
    BY <1>4, <2>1, <2>2, <2>3
<1>15. CASE IdtInit \/ SetGate \/ GatesDone \/ IdtLidt \/ IdtSti \/ IdtCli
  <2>1. PICK from \in {"idt_init", "idt_gates", "idt_lidt", "idt_sti", "idt_cli"},
             l \in {"idt_gates", "idt_lidt", "idt_sti", "idt_cli", "log_idt"} :
               At(from) /\ Moves(l)
    BY <1>1, <1>15 DEF IdtInit, SetGate, GatesDone, Step, IdtLidt, IdtSti, IdtCli, Moves, At, Top
  <2>2. dbg' = dbg
    BY <1>15 DEF IdtInit, SetGate, GatesDone, Step, IdtLidt, IdtSti, IdtCli, console
  <2>3. from \notin HandlerOnly /\ l \in BootOnly /\ l # "hcf"
    BY <1>3, LogDomain DEF IdtLoading
  <2> QED
    BY <1>4, <2>1, <2>2, <2>3
<1>16. CASE CheckRamfs
  BY <1>3, <1>5, <1>7, <1>16, LogDomain DEF CheckRamfs
<1>17. CASE CheckMemoryMap
  BY <1>3, <1>5, <1>7, <1>17, LogDomain DEF CheckMemoryMap, AfterRamfs
<1>18. CASE EvalInfo \/ GetFileTar \/ EvalMsg \/ Halt
  <2>1. CASE Fault(PageFault) /\ (At("eval_info") \/ At("get_file_tar") \/ At("eval_msg"))
    BY <2>1, FaultShut
  <2>2. ASSUME NEW from \in {"eval_info", "get_file_tar", "eval_msg", "halt"},
               NEW l \in {"log_info", "log_missing", "log_setup", "log_welcome", "done"},
               Step(from, l)
        PROVE  ShutInv'
    <3>1. from \notin HandlerOnly /\ l \in BootOnly /\ l # "hcf"
      BY <1>3, LogDomain DEF AfterRamfs
    <3> QED
      BY <1>5, <2>2, <3>1
  <2> QED
    BY <1>18, <2>1, <2>2 DEF EvalInfo, GetFileTar, EvalMsg, Halt
<1>19. CASE IsrCli \/ ExcpHandler \/ PanicFb \/ Hcf
  <2>1. PICK from \in {"isr", "excp_handler", "panic_fb", "hcf"},
             l \in {"excp_handler", "panic_fb", "iretq", "panic_dbg", "dead"} :
               /\ At(from) /\ Goto(l) /\ (from = "hcf" => l = "dead")
               /\ l = "iretq" => Top.vec >= NumExceptions
    BY <1>19 DEF IsrCli, ExcpHandler, Step, PanicFb, Hcf
  <2>2. UNCHANGED <<nmiBlocked, inService, idtr, dbg>>
    BY <1>19 DEF IsrCli, ExcpHandler, Step, PanicFb, Hcf, irqState, cpuTables, console
  <2>3. irqOn' => irqOn
    BY <1>19 DEF IsrCli, ExcpHandler, Step, PanicFb, Hcf, irqState
  <2>4. from \in HandlerOnly /\ l \in HandlerOnly
    BY <1>2
  <2> QED
    BY <2>1, <2>2, <2>3, <2>4, HandlerShut
<1>20. CASE PanicDbg
  <2>1. /\ At("panic_dbg") /\ Goto("hcf") /\ dbg' = dbg \cup {PanicMsg(Top)}
        /\ UNCHANGED <<nmiBlocked, inService, idtr>> /\ (irqOn' => irqOn)
    BY <1>20 DEF PanicDbg, irqState, cpuTables
  <2>2. depth = 1 => \A m \in dbg' : m \in dbg \/ m[1] # "exception"
    <3>1. depth = 1 => Top.why \in CheckedNames
      BY <2>1 DEF OutInv, ReasonInv, At, Top, Boot
    <3> QED
      BY <2>1, <3>1 DEF PanicMsg, CheckedNames
  <2> QED
    BY <1>2, <2>1, <2>2, HandlerShut
<1>21. CASE Iretq
  BY <1>21, IretqShut
<1>22. CASE FlantermFault
  BY <1>22, FaultShut DEF FlantermFault, Reentered
<1>23. CASE Nmi
  BY <1>23, NmiShut
<1>24. ASSUME NEW v \in IrqVectors, Irq(v) PROVE ShutInv'
  BY <1>24, IrqShut
<1>25. CASE UNCHANGED vars
  <2>1. UNCHANGED <<stack, depth, irqOn, nmiBlocked, inService, idtr, dbg>>
    BY <1>25 DEF vars, irqState, cpuTables, console
  <2>2. Cardinality(inService) <= Cardinality(inService')
    BY <2>1, ServiceFacts DEF TypeOK
  <2> QED
    BY <2>1, <2>2, LostShut
<1> QED
  BY <1>8, <1>9, <1>10, <1>11, <1>12, <1>13, <1>14, <1>15, <1>16, <1>17, <1>18, <1>19,
     <1>20, <1>21, <1>22, <1>23, <1>24, <1>25 DEF Next, Cpu, Start, Handler

(* A machine that has stopped does nothing more.                           *)
LEMMA LostStays == ASSUME lost # "no", [Next]_vars PROVE UNCHANGED vars
<1> USE DEF At
<1>1. ~Start
  BY DEF Start, CheckData, CheckFramebuffer, FlantermInit, CheckFlanterm, FlantermRefresh,
     Log, GdtInit, GdtLgdt, GdtFarReturn, GdtLoadData, IdtInit, SetGate, GatesDone, IdtLidt,
     IdtSti, IdtCli, CheckRamfs, CheckMemoryMap, EvalInfo, GetFileTar, EvalMsg, Halt,
     Step, Refuse, Kpanic
<1>2. ~Handler
  BY DEF Handler, IsrCli, ExcpHandler, Iretq, PanicFb, PanicDbg, FlantermFault, Hcf, Step
<1>3. ~Nmi /\ \A v \in IrqVectors : ~Irq(v)
  BY DEF Nmi, Irq
<1> QED
  BY <1>1, <1>2, <1>3 DEF Next, Cpu

(* Only the delivery of a vector stops it.                                 *)
LEMMA LostBy ==
  ASSUME lost = "no", [Next]_vars, lost' # "no"
  PROVE  \/ Fault(PageFault) /\ (At("eval_info") \/ At("get_file_tar") \/ At("eval_msg"))
         \/ Fault(PageFault) /\ At("panic_fb") /\ Reentered
         \/ Nmi
         \/ \E v \in IrqVectors : Irq(v)
<1>1. CASE Start
  <2>1. \/ EvalInfo
        \/ GetFileTar
        \/ EvalMsg
    BY <1>1 DEF Start, CheckData, CheckFramebuffer, FlantermInit, CheckFlanterm,
       FlantermRefresh, Log, GdtInit, GdtLgdt, GdtFarReturn, GdtLoadData, IdtInit, SetGate,
       GatesDone, IdtLidt, IdtSti, IdtCli, CheckRamfs, CheckMemoryMap, Halt,
       Step, Refuse, Kpanic
  <2> QED
    BY <2>1 DEF EvalInfo, GetFileTar, EvalMsg, Step
<1>2. CASE Handler
  BY <1>2 DEF Handler, IsrCli, ExcpHandler, Iretq, PanicFb, PanicDbg, FlantermFault, Hcf, Step,
     Reentered
<1>3. CASE UNCHANGED vars
  BY <1>3 DEF vars
<1> QED
  BY <1>1, <1>2, <1>3 DEF Next, Cpu

(* Between lgdt and lidt the kernel's GDT is in use under the firmware's   *)
(* IDT; until lidt no interrupt is served but by the firmware.             *)
Window == {"gdt_cs", "gdt_data", "log_gdt", "idt_init", "idt_gates", "idt_lidt"}

EarlyInv ==
  /\ gdtr = "kernel" /\ idtr = "firmware" => Boot \in Window
  /\ lost = "no" /\ idtr = "firmware" => inService = {}

(* At the bootloader's jump.                                               *)
LEMMA InitEarly == Init => EarlyInv
BY DEF Init, EarlyInv

(* Who writes the table registers and the interrupts in service.           *)
LEMMA TableWriters ==
  ASSUME [Next]_vars
  PROVE  /\ idtr' = idtr \/ idtr' = "kernel"
         /\ gdtr' = gdtr \/ GdtLgdt
         /\ inService' = inService \/ \E v \in IrqVectors : Irq(v)
<1>1. CASE Start
  BY <1>1 DEF Start, CheckData, CheckFramebuffer, FlantermInit, CheckFlanterm,
     FlantermRefresh, Log, GdtInit, GdtLgdt, GdtFarReturn, GdtLoadData, IdtInit, SetGate,
     GatesDone, IdtLidt, IdtSti, IdtCli, CheckRamfs, CheckMemoryMap, EvalInfo, GetFileTar,
     EvalMsg, Halt, Step, Refuse, Kpanic, Fault, irqState, cpuTables
<1>2. CASE Handler
  BY <1>2 DEF Handler, IsrCli, ExcpHandler, Iretq, PanicFb, PanicDbg, FlantermFault, Hcf,
     Step, Fault, irqState, cpuTables
<1>3. CASE Nmi
  BY <1>3 DEF Nmi, cpuTables
<1>4. ASSUME NEW v \in IrqVectors, Irq(v)
      PROVE  idtr' = idtr /\ gdtr' = gdtr
  BY <1>4 DEF Irq, cpuTables
<1>5. CASE UNCHANGED vars
  BY <1>5 DEF vars, irqState, cpuTables
<1> QED
  BY <1>1, <1>2, <1>3, <1>4, <1>5 DEF Next, Cpu

(* In the window _start moves on inside it, up to lidt.                    *)
LEMMA WindowStep ==
  ASSUME StackOK, depth = 1, Boot \in Window, lost = "no", idtr' = "firmware", [Next]_vars
  PROVE  Boot' \in Window
<1> USE SizesAssumption DEF Boot, Window
<1>1. Top = stack[1] /\ DOMAIN stack = 1 .. StackFrames /\ 1 \in 1 .. StackFrames
  BY DEF Top, StackOK
<1>2. ASSUME NEW l, Goto(l) PROVE stack'[1].pc = l
  BY <1>1, <1>2 DEF StackOK, Goto, Frame
<1>3. ASSUME NEW v, Raise(v), idtr' = idtr PROVE stack' = stack
  BY <1>3 DEF Raise, Enter, TripleFault, FirmwareStops
<1>4. CASE GdtFarReturn \/ GdtLoadData \/ IdtInit
  BY <1>2, <1>4 DEF GdtFarReturn, GdtLoadData, IdtInit
<1>5. CASE SetGate \/ GatesDone
  BY <1>2, <1>5 DEF SetGate, GatesDone, Step
<1>6. CASE Log
  <2>1. Top.pc = "log_gdt"
    BY <1>1, <1>6, LogDomain DEF Log
  <2> QED
    BY <1>2, <1>6, <2>1 DEF Log, LogSucc
<1>7. ~Handler
  BY <1>1 DEF Handler, IsrCli, ExcpHandler, Iretq, PanicFb, PanicDbg, FlantermFault, Hcf,
     Step, At
<1>8. ~IdtLidt
  BY DEF IdtLidt
<1>9. \/ ~Start
      \/ GdtFarReturn \/ GdtLoadData \/ IdtInit
      \/ SetGate \/ GatesDone \/ Log
  BY <1>1, <1>8 DEF Start, CheckData, CheckFramebuffer, FlantermInit, CheckFlanterm,
     FlantermRefresh, GdtInit, GdtLgdt, IdtSti, IdtCli, CheckRamfs, CheckMemoryMap,
     EvalInfo, GetFileTar, EvalMsg, Halt, Step, Refuse, Kpanic, At
<1>10. CASE Nmi
  BY <1>3, <1>10 DEF Nmi, cpuTables
<1>11. ASSUME NEW v \in IrqVectors, Irq(v) PROVE Boot' \in Window
  BY <1>3, <1>11 DEF Irq, Raise, cpuTables
<1>12. CASE UNCHANGED vars
  BY <1>12 DEF vars
<1> QED
  BY <1>4, <1>5, <1>6, <1>7, <1>9, <1>10, <1>11, <1>12 DEF Next, Cpu

(* Every action of the specification keeps the invariant.                  *)
LEMMA NextEarly == TypeOK /\ IInv /\ EarlyInv /\ [Next]_vars => EarlyInv'
<1> SUFFICES ASSUME TypeOK, IInv, EarlyInv, [Next]_vars PROVE EarlyInv'
  OBVIOUS
<1>1. CASE lost # "no"
  <2>1. UNCHANGED vars
    BY <1>1, LostStays
  <2> QED
    BY <2>1 DEF EarlyInv, Boot, vars, irqState, cpuTables
<1>2. CASE lost = "no" /\ idtr' = "firmware"
  <2>1. idtr = "firmware" /\ inService = {}
    BY <1>2, TableWriters DEF EarlyInv, TypeOK
  <2>2. lost' = "no" => inService' = {}
    <3>1. ASSUME NEW v \in IrqVectors, Irq(v) PROVE lost' = "shutdown"
      BY <2>1, <3>1 DEF Irq, Enter, TripleFault
    <3> QED
      BY <2>1, <3>1, TableWriters
  <2>3. depth = 1 /\ StackOK
    BY <2>1 DEF IInv, FramesInv, TypeOK, StackOK
  <2>4. CASE GdtLgdt
    <3>1. Boot' = "gdt_cs"
      BY <2>3, <2>4, SizesAssumption DEF GdtLgdt, Goto, Boot, StackOK, Frame
    <3> QED
      BY <2>2, <3>1 DEF EarlyInv, Window
  <2>5. CASE gdtr' = gdtr
    <3>1. gdtr = "kernel" => Boot' \in Window
      BY <1>2, <2>1, <2>3, WindowStep DEF EarlyInv
    <3> QED
      BY <2>2, <2>5, <3>1 DEF EarlyInv
  <2> QED
    BY <2>4, <2>5, TableWriters
<1>3. CASE idtr' # "firmware"
  BY <1>3 DEF EarlyInv
<1> QED
  BY <1>1, <1>2, <1>3

(* The first reason: the stack is full of flanterm's faults.               *)
FullCause ==
  /\ idtr = "kernel"
  /\ depth = StackFrames /\ Top.pc = "panic_fb" /\ Top.vec = PageFault
  /\ Reentered /\ ~Told

(* With the room it needs, only those faults fill it.                      *)
LEMMA LateCause ==
  ASSUME EnoughStack, TypeOK, TypeOK', IInv, ShutInv, [Next]_vars,
         lost = "no", lost' = "shutdown", idtr = "kernel"
  PROVE  FullCause'
<1> USE SizesAssumption
<1>1. /\ Cardinality(IrqVectors) \in Nat /\ depth \in 1 .. StackFrames
      /\ NMI \in Vectors /\ PageFault \in Vectors /\ IrqVectors \subseteq Vectors
  BY ServiceFacts, VectorsAssumption DEF TypeOK, StackOK, NMI, PageFault, Vectors
<1>2. ASSUME NEW v \in Vectors, Raise(v)
      PROVE  depth = StackFrames /\ UNCHANGED <<stack, depth>>
  <2>1. TripleFault(v)
    BY <1>2 DEF Raise, Enter, FirmwareStops
  <2>2. GateUsable(v)
    BY UsableInv DEF DescriptorsUsable
  <2> QED
    BY <2>1, <2>2 DEF TripleFault
<1>3. CASE Fault(PageFault) /\ (At("eval_info") \/ At("get_file_tar") \/ At("eval_msg"))
  <2>1. stack[depth].pc \notin HandlerOnly
    BY <1>3 DEF At, Top, HandlerOnly, InPanic
  <2>2. depth = 1
    BY <1>1, <2>1 DEF IInv, FramesInv
  <2> QED
    BY <1>1, <1>2, <1>3, <2>2 DEF Fault
<1>4. CASE Fault(PageFault) /\ At("panic_fb") /\ Reentered
  <2>1. depth = StackFrames /\ UNCHANGED <<stack, depth, dbg, idtr>>
    BY <1>1, <1>2, <1>4 DEF Fault, cpuTables, console
  <2>2. stack[depth].vec = PageFault
    BY <1>1, <2>1 DEF EnoughStack, ShutInv, RoomInv
  <2>3. stack[depth].pc = "panic_fb"
    BY <1>4 DEF At, Top
  <2>4. ~Told
    BY <1>4, <2>3 DEF ShutInv, PrintedInv, Top
  <2> QED
    BY <1>4, <2>1, <2>2, <2>3, <2>4 DEF FullCause, Told, Reentered, Top
<1>5. CASE Nmi
  <2>1. depth <= 2 \/ depth <= 1 + Cardinality(IrqVectors)
    BY <1>5, NmiShut
  <2>2. depth = StackFrames
    BY <1>1, <1>2, <1>5 DEF Nmi
  <2> QED
    BY <1>1, <2>1, <2>2 DEF EnoughStack
<1>6. ASSUME NEW v \in IrqVectors, Irq(v) PROVE FALSE
  <2>1. Raise(v)
    BY <1>6 DEF Irq, Raise
  <2>2. depth <= 1 + Cardinality(IrqVectors)
    BY <1>6, IrqShut
  <2>3. depth = StackFrames
    BY <1>1, <1>2, <2>1
  <2> QED
    BY <1>1, <2>2, <2>3 DEF EnoughStack
<1> QED
  BY <1>3, <1>4, <1>5, <1>6, LostBy

(* The second: the kernel's GDT is in use, and not yet its IDT.            *)
WindowCause ==
  /\ idtr = "firmware" /\ gdtr = "kernel" /\ Boot \in Window
  /\ inService # {} => handoff.irqOn \/ Boot \in {"idt_gates", "idt_lidt"}

(* The firmware's selector is good until lgdt.                             *)
LEMMA EarlyCause ==
  ASSUME TypeOK, IInv, EarlyInv, [Next]_vars,
         lost = "no", lost' = "shutdown", idtr = "firmware"
  PROVE  WindowCause'
<1>1. ASSUME NEW v, Raise(v), UNCHANGED <<handoff, cpuTables>>
      PROVE  /\ gdtr = "kernel" /\ Boot \in Window
             /\ Boot' = Boot /\ UNCHANGED <<handoff, idtr, gdtr>>
  <2>1. TripleFault(v)
    BY <1>1 DEF Raise, Enter, FirmwareStops
  <2>2. gdtr # "firmware"
    BY <2>1 DEF TripleFault, LoadableCode
  <2> QED
    BY <1>1, <2>1, <2>2 DEF TripleFault, TypeOK, EarlyInv, Boot, cpuTables
<1>2. CASE Fault(PageFault) \/ Nmi
  <2>1. PICK v \in {NMI, PageFault} : Raise(v)
    BY <1>2 DEF Fault, Nmi
  <2>2. inService' = {} /\ UNCHANGED <<handoff, cpuTables>>
    BY <1>2 DEF Fault, Nmi, EarlyInv
  <2> QED
    BY <1>1, <2>1, <2>2 DEF WindowCause
<1>3. ASSUME NEW v \in IrqVectors, Irq(v) PROVE WindowCause'
  <2>1. Raise(v) /\ irqOn /\ UNCHANGED <<handoff, cpuTables>>
    BY <1>3 DEF Irq, Raise
  <2>2. gdtr = "kernel" /\ Boot \in Window /\ Boot' = Boot /\ UNCHANGED <<handoff, idtr, gdtr>>
    BY <1>1, <2>1
  <2>3. handoff.irqOn \/ Boot \in IdtLoading
    BY <2>1 DEF IInv, MaskInv
  <2>4. handoff.irqOn \/ Boot \in {"idt_gates", "idt_lidt"}
    BY <2>2, <2>3 DEF IdtLoading, Window
  <2> QED
    BY <2>2, <2>4 DEF WindowCause
<1> QED
  BY <1>2, <1>3, LostBy

(* There is no third.                                                      *)
LEMMA NextCause ==
  ASSUME EnoughStack
  PROVE  /\ TypeOK /\ TypeOK' /\ IInv /\ ShutInv /\ EarlyInv /\ ShutdownCause /\ [Next]_vars
         => ShutdownCause'
<1> SUFFICES ASSUME TypeOK, TypeOK', IInv, ShutInv, EarlyInv, ShutdownCause, [Next]_vars
             PROVE  ShutdownCause'
  OBVIOUS
<1>1. CASE lost # "no"
  <2>1. UNCHANGED vars
    BY <1>1, LostStays
  <2> QED
    BY <2>1 DEF ShutdownCause, Top, Boot, vars, irqState, cpuTables, console
<1>2. CASE lost = "no" /\ lost' = "shutdown" /\ idtr = "kernel"
  BY <1>2, LateCause DEF FullCause, ShutdownCause, Reentered, Told
<1>3. CASE lost = "no" /\ lost' = "shutdown" /\ idtr = "firmware"
  BY <1>3, EarlyCause DEF WindowCause, ShutdownCause, Window
<1>4. CASE lost' # "shutdown"
  BY <1>4 DEF ShutdownCause
<1> QED
  BY <1>1, <1>2, <1>3, <1>4 DEF TypeOK

(* The machine resets for two reasons only.  After lidt: flanterm, entered *)
(* again by a panic, faults until the stack is full, and has told nobody.  *)
(* Before it: an NMI, or an interrupt that the bootloader or IDT::init's   *)
(* early sti let in, between lgdt and lidt.  It holds of every stack that  *)
(* has room for the interrupts the firmware left on.                       *)
THEOREM ResetOnlyForTwoReasons ==
  ASSUME EnoughStack
  PROVE  Spec => []ShutdownCause
<1> DEFINE J == TypeOK /\ IInv /\ OutInv /\ ShutInv /\ EarlyInv /\ ShutdownCause
<1>1. Init => J
  BY InitType, InitInv, InitOut, InitShut, InitEarly
<1>2. J /\ [Next]_vars => J'
  BY NextType, NextInv, NextOut, NextShut, NextEarly, NextCause
<1>3. J => ShutdownCause
  OBVIOUS
<1> HIDE DEF J
<1> QED
  BY <1>1, <1>2, <1>3, PTL DEF Spec

=============================================================================
