-------------------------------- MODULE Boot --------------------------------
(***************************************************************************)
(* The kernel from the bootloader's jump to _start until it stops:         *)
(* kernel.cpp (_start), gdt.cpp (init, reload), idt.cpp (init, set_gate,   *)
(* excp_handler), cpu.cpp (_kpanic_handler) and cpu.hpp (halt, hcf), on    *)
(* one CPU that NMIs, interrupts and faults may divert between any two     *)
(* steps.  The stack is a stack of activations: frame 1 is _start, every   *)
(* frame above it an interrupt or exception being served.  Only the top    *)
(* frame executes.  The instruction level of a stub (pushes, pops, iretq)  *)
(* is module InterruptStub; here a stub is the steps that change what      *)
(* other frames can see.                                                   *)
(***************************************************************************)
EXTENDS Integers

CONSTANTS
  IdtEntries,    \* IDT_ENTRIES, 256
  NumExceptions, \* 0x20: excp_handler panics on every vector below it
  IrqVectors,    \* vectors the interrupt controller may raise; no code here
                 \* programs it, so they are what the firmware left
  FwCS,          \* code selector of the firmware's own gates and of its cs
  StackFrames    \* activations the boot stack has room for

ASSUME SizesAssumption ==
  /\ IdtEntries \in Nat /\ NumExceptions \in Nat
  /\ 14 < NumExceptions /\ NumExceptions <= IdtEntries
  /\ StackFrames \in Nat /\ StackFrames >= 2
ASSUME VectorsAssumption == IrqVectors \subseteq 0 .. IdtEntries - 1
ASSUME SelectorAssumption == FwCS \in Nat

VARIABLES
  handoff,    \* which pointers of boot_t are there, what the ramfs holds
  stack,      \* the activations, 1 .. StackFrames
  depth,      \* the frame that executes
  irqOn,      \* rflags.IF
  nmiBlocked, \* NMIs are held back from an NMI's delivery to the next iretq
  inService,  \* interrupts taken and never acknowledged (the code sends no EOI)
  gdt, gdtr,  \* GDT::gdt, and whose table the CPU uses
  cs, ds,     \* selectors in cs and in es, ss, ds
  idt, idtr,  \* IDT::idt, and whose table the CPU uses
  gate,       \* the loop variable i of IDT::init
  ftCtx,      \* is the flanterm context there?
  fb, dbg,    \* messages completely written to the framebuffer, to port 0xE9
  lost        \* control lost to the firmware's handlers, or a triple fault

cpuTables == <<gdt, gdtr, cs, ds, idt, idtr, gate>>
irqState  == <<irqOn, nmiBlocked, inService>>
console   == <<ftCtx, fb, dbg>>
vars == <<handoff, stack, depth, irqState, cpuTables, console, lost>>

-----------------------------------------------------------------------------
(* Locations, vectors and messages.                                        *)

Vectors   == 0 .. IdtEntries - 1
NMI       == 2
PageFault == 14

(* Pointers of the hand-off that _start tests, in the order it does.       *)
Checked == <<"data", "framebuffer", "flanterm", "ramfs", "memory_map">>
CheckedNames == {"data", "framebuffer", "flanterm", "ramfs", "memory_map"}

(* Every logger.log / printf of _start writes the framebuffer console and  *)
(* the debug port and goes on to the statement after it.                   *)
LogSucc ==
  [log_flanterm |-> "gdt_init",     log_gdt     |-> "idt_init",
   log_idt      |-> "check_ramfs",  log_ramfs   |-> "check_mmap",
   log_mmap     |-> "log_screen",   log_screen  |-> "eval_info",
   log_info     |-> "get_file_tar", log_missing |-> "log_setup",
   log_setup    |-> "eval_msg",     log_welcome |-> "halt"]

InPanic == {"panic_fb", "panic_dbg", "hcf", "dead"}

(* Locations at which the frame is inside flanterm, which is not           *)
(* re-entrant.                                                             *)
InFlanterm == DOMAIN LogSucc \cup {"flanterm_refresh", "panic_fb"}

Locations ==
  DOMAIN LogSucc \cup InPanic \cup
  {"check_data", "check_fb", "flanterm_init", "check_flanterm",
   "flanterm_refresh", "gdt_init", "gdt_lgdt", "gdt_cs", "gdt_data",
   "idt_init", "idt_gates", "idt_lidt", "idt_sti", "idt_cli",
   "check_ramfs", "check_mmap", "eval_info", "get_file_tar", "eval_msg",
   "halt", "done", "isr", "excp_handler", "iretq", "none"}

Reasons == CheckedNames \cup {"exception", "none"}
Messages == (DOMAIN LogSucc \cup Reasons \cup {"welcome"}) \X Nat
Msg(kind) == <<kind, 0>>

Frame == [pc : Locations, vec : Vectors, flags : BOOLEAN, why : Reasons]
StartFrame == [pc |-> "check_data", vec |-> 0, flags |-> FALSE, why |-> "none"]
NoFrame == [pc |-> "none", vec |-> 0, flags |-> FALSE, why |-> "none"]

Top   == stack[depth]
At(l) == lost = "no" /\ Top.pc = l
Goto(l) == stack' = [stack EXCEPT ![depth].pc = l] /\ depth' = depth

-----------------------------------------------------------------------------
(* Descriptor tables.                                                      *)

(* The access bytes GDT::init writes, and what the CPU reads in them.      *)
KernelGdt == [e \in 0 .. 4 |-> IF e = 1 THEN 154 ELSE IF e = 2 THEN 146
                          ELSE IF e = 3 THEN 250 ELSE IF e = 4 THEN 242 ELSE 0]
Present(a) == (a \div 128) % 2 = 1
Dpl(a)     == (a \div 32) % 4
IsCode(a)  == (a \div 8) % 2 = 1

\* Mutant: the selector of the data segment.
GateSelectorOfData == 16

GateSelector == 8

LoadableCode(s) ==
  IF gdtr = "firmware"
    THEN s = FwCS
    ELSE /\ s \div 8 \in 1 .. 4
         /\ Present(gdt[s \div 8]) /\ IsCode(gdt[s \div 8])
         /\ Dpl(gdt[s \div 8]) = 0

(* set_gate's flags: trap gates (0x8F) for exceptions, interrupt gates     *)
(* (0x8E) for the rest.                                                    *)
GateType(v) == IF v < NumExceptions THEN "trap" ELSE "interrupt"

-----------------------------------------------------------------------------
(* Interrupt delivery by the CPU.                                          *)

GateUsable(v) == idt[v] # "absent" /\ LoadableCode(GateSelector)

(* Through the kernel's IDT: a new activation at the stub of the vector.   *)
Enter(v) ==
  /\ idtr = "kernel" /\ GateUsable(v) /\ depth < StackFrames
  /\ depth' = depth + 1
  /\ stack' = [stack EXCEPT ![depth + 1] =
                 [pc |-> "isr", vec |-> v, flags |-> irqOn, why |-> "exception"]]
  /\ irqOn' = (irqOn /\ idt[v] = "trap")
  /\ UNCHANGED lost

(* The gate, its selector or the stack is unusable: the fault of the       *)
(* delivery cannot be delivered either and the CPU shuts down.             *)
TripleFault(v) ==
  /\ IF idtr = "kernel" THEN ~GateUsable(v) \/ depth = StackFrames
                        ELSE ~LoadableCode(FwCS)
  /\ lost' = "shutdown"
  /\ UNCHANGED <<stack, depth, irqOn>>

(* Still the firmware's IDT, and its selector is loadable: its default     *)
(* handler stops the machine on a fault or an NMI.                         *)
FirmwareStops ==
  /\ idtr = "firmware" /\ LoadableCode(FwCS)
  /\ lost' = "firmware"
  /\ UNCHANGED <<stack, depth, irqOn>>

Raise(v) == Enter(v) \/ TripleFault(v) \/ FirmwareStops

(* A fault of the instruction the top frame executes.                      *)
Fault(v) ==
  /\ Raise(v)
  /\ UNCHANGED <<handoff, nmiBlocked, inService, cpuTables, console>>

Nmi ==
  /\ lost = "no" /\ ~nmiBlocked
  /\ Raise(NMI)
  /\ nmiBlocked' = TRUE
  /\ UNCHANGED <<handoff, inService, cpuTables, console>>

(* A firmware handler would serve the interrupt, acknowledge it and        *)
(* return: nothing the kernel sees changes, so that case is no step.       *)
Irq(v) ==
  /\ lost = "no" /\ irqOn /\ v \notin inService
  /\ Enter(v) \/ TripleFault(v)
  /\ inService' = inService \cup {v}
  /\ UNCHANGED <<handoff, nmiBlocked, cpuTables, console>>

-----------------------------------------------------------------------------
(* _start up to the console.                                               *)

Step(from, to) ==
  /\ At(from) /\ Goto(to)
  /\ UNCHANGED <<handoff, irqState, cpuTables, console, lost>>

(* A NULL the console cannot report yet: kdprintf and hcf.                 *)
Refuse(from, name) ==
  /\ At(from) /\ Goto("hcf")
  /\ dbg' = dbg \cup {Msg(name)}
  /\ UNCHANGED <<handoff, irqState, cpuTables, ftCtx, fb, lost>>

CheckData ==
  \/ handoff.data /\ Step("check_data", "check_fb")
  \/ ~handoff.data /\ Refuse("check_data", "data")

CheckFramebuffer ==
  \/ handoff.framebuffer /\ Step("check_fb", "flanterm_init")
  \/ ~handoff.framebuffer /\ Refuse("check_fb", "framebuffer")

FlantermInit ==
  /\ At("flanterm_init") /\ Goto("check_flanterm")
  /\ ftCtx' = handoff.flanterm
  /\ UNCHANGED <<handoff, irqState, cpuTables, fb, dbg, lost>>

\* Mutant: no test of ftCtx.
CheckFlantermDropped == Step("check_flanterm", "flanterm_refresh")

CheckFlanterm ==
  \/ ftCtx /\ Step("check_flanterm", "flanterm_refresh")
  \/ ~ftCtx /\ Refuse("check_flanterm", "flanterm")

FlantermRefresh == Step("flanterm_refresh", "log_flanterm")

(* printf drops a text that does not fit its buffer, the welcome file's    *)
(* included.                                                               *)
LogMsgs(l) ==
  IF l # "log_welcome" \/ handoff.file = "missing" THEN {Msg(l)}
  ELSE IF handoff.file = "short" THEN {Msg("welcome")} ELSE {}

Log ==
  /\ lost = "no" /\ Top.pc \in DOMAIN LogSucc
  /\ Goto(LogSucc[Top.pc])
  /\ fb' = fb \cup LogMsgs(Top.pc)
  /\ dbg' = dbg \cup LogMsgs(Top.pc)
  /\ UNCHANGED <<handoff, irqState, cpuTables, ftCtx, lost>>

-----------------------------------------------------------------------------
(* GDT::init and GDT::reload.                                              *)

GdtInit ==
  /\ At("gdt_init") /\ Goto("gdt_lgdt")
  /\ gdt' = KernelGdt
  /\ UNCHANGED <<handoff, irqState, gdtr, cs, ds, idt, idtr, gate, console, lost>>

GdtLgdt ==
  /\ At("gdt_lgdt") /\ Goto("gdt_cs")
  /\ gdtr' = "kernel"
  /\ UNCHANGED <<handoff, irqState, gdt, cs, ds, idt, idtr, gate, console, lost>>

GdtFarReturn ==
  /\ At("gdt_cs") /\ Goto("gdt_data")
  /\ cs' = 8
  /\ UNCHANGED <<handoff, irqState, gdt, gdtr, ds, idt, idtr, gate, console, lost>>

GdtLoadData ==
  /\ At("gdt_data") /\ Goto("log_gdt")
  /\ ds' = 16
  /\ UNCHANGED <<handoff, irqState, gdt, gdtr, cs, idt, idtr, gate, console, lost>>

-----------------------------------------------------------------------------
(* IDT::init and load_idt.                                                 *)

IdtInit ==
  /\ At("idt_init") /\ Goto("idt_gates")
  /\ gate' = 0
  /\ irqOn' = TRUE
  /\ UNCHANGED <<handoff, nmiBlocked, inService, gdt, gdtr, cs, ds, idt, idtr,
                 console, lost>>

\* Mutant: the loop variable has the type of the vector, uint8_t.
SetGateByteCounter ==
  /\ At("idt_gates") /\ gate < IdtEntries
  /\ idt' = [idt EXCEPT ![gate] = GateType(gate)]
  /\ gate' = (gate + 1) % 256
  /\ UNCHANGED <<handoff, stack, depth, irqState, gdt, gdtr, cs, ds, idtr,
                 console, lost>>

\* Mutant: i <= IDT_ENTRIES.
SetGateOneMore ==
  /\ At("idt_gates") /\ gate <= IdtEntries
  /\ idt' = [idt EXCEPT ![gate] = GateType(gate)]
  /\ gate' = gate + 1
  /\ UNCHANGED <<handoff, stack, depth, irqState, gdt, gdtr, cs, ds, idtr,
                 console, lost>>

SetGate ==
  /\ At("idt_gates") /\ gate < IdtEntries
  /\ idt' = [idt EXCEPT ![gate] = GateType(gate)]
  /\ gate' = gate + 1
  /\ UNCHANGED <<handoff, stack, depth, irqState, gdt, gdtr, cs, ds, idtr,
                 console, lost>>

\* Mutant: i < IDT_ENTRIES - 1.
GatesDoneOneShort == gate = IdtEntries - 1 /\ Step("idt_gates", "idt_lidt")

GatesDone == gate = IdtEntries /\ Step("idt_gates", "idt_lidt")

IdtLidt ==
  /\ At("idt_lidt") /\ Goto("idt_sti")
  /\ idtr' = "kernel"
  /\ UNCHANGED <<handoff, irqState, gdt, gdtr, cs, ds, idt, gate, console, lost>>

IdtSti ==
  /\ At("idt_sti") /\ Goto("idt_cli")
  /\ irqOn' = TRUE
  /\ UNCHANGED <<handoff, nmiBlocked, inService, cpuTables, console, lost>>

\* Mutant: IDT::init without its last cli.
IdtCliDropped == Step("idt_cli", "log_idt")

IdtCli ==
  /\ At("idt_cli") /\ Goto("log_idt")
  /\ irqOn' = FALSE
  /\ UNCHANGED <<handoff, nmiBlocked, inService, cpuTables, console, lost>>

-----------------------------------------------------------------------------
(* _start from the IDT on.                                                 *)

(* kpanic(nullptr, reason) on the boot thread.                             *)
Kpanic(from, reason) ==
  /\ At(from)
  /\ stack' = [stack EXCEPT ![depth] =
                 [pc |-> "panic_fb", vec |-> 0, flags |-> Top.flags, why |-> reason]]
  /\ UNCHANGED <<handoff, depth, irqState, cpuTables, console, lost>>

\* Mutant: the second test, copied.
CheckRamfsOther ==
  \/ handoff.memory_map /\ Step("check_ramfs", "log_ramfs")
  \/ ~handoff.memory_map /\ Kpanic("check_ramfs", "ramfs")

CheckRamfs ==
  \/ handoff.ramfs /\ Step("check_ramfs", "log_ramfs")
  \/ ~handoff.ramfs /\ Kpanic("check_ramfs", "ramfs")

CheckMemoryMap ==
  \/ handoff.memory_map /\ Step("check_mmap", "log_mmap")
  \/ ~handoff.memory_map /\ Kpanic("check_mmap", "memory_map")

(* bootInfo->info->name without a test of info: with NULL the code reads   *)
(* what page 0 holds, and what it takes there for a string may not be      *)
(* mapped either.                                                          *)
EvalInfo ==
  \/ (handoff.info \/ handoff.page0) /\ Step("eval_info", "log_info")
  \/ ~handoff.info /\ At("eval_info") /\ Fault(PageFault)

(* get_file_tar walks the archive at ramfs->address, NULL not excepted:    *)
(* then, too, what page 0 holds, where a walk finds or does not find the   *)
(* file, or comes to what is not mapped.                                   *)
GetFileTar ==
  \/ /\ handoff.archive \/ handoff.page0
     /\ \/ handoff.file # "missing" /\ Step("get_file_tar", "log_setup")
        \/ handoff.file = "missing" /\ Step("get_file_tar", "log_missing")
  \/ ~handoff.archive /\ At("get_file_tar") /\ Fault(PageFault)

(* printf of msg.data, which is NULL when the file was not found.          *)
EvalMsg ==
  \/ (handoff.file # "missing" \/ handoff.page0) /\ Step("eval_msg", "log_welcome")
  \/ handoff.file = "missing" /\ ~handoff.page0 /\ At("eval_msg") /\ Fault(PageFault)

Halt == Step("halt", "done")

-----------------------------------------------------------------------------
(* A stub, excp_handler, _kpanic_handler and hcf.                          *)

\* Mutant: a stub without cli.
IsrCliDropped == Step("isr", "excp_handler")

IsrCli ==
  /\ At("isr") /\ Goto("excp_handler")
  /\ irqOn' = FALSE
  /\ UNCHANGED <<handoff, nmiBlocked, inService, cpuTables, console, lost>>

\* Mutant: exceptions return like IRQs.
ExcpHandlerReturns == Step("excp_handler", "iretq")

ExcpHandler ==
  \/ Top.vec < NumExceptions /\ Step("excp_handler", "panic_fb")
  \/ Top.vec >= NumExceptions /\ Step("excp_handler", "iretq")

Iretq ==
  /\ At("iretq") /\ depth > 1
  /\ stack' = [stack EXCEPT ![depth] = NoFrame]
  /\ depth' = depth - 1
  /\ irqOn' = Top.flags
  /\ nmiBlocked' = FALSE
  /\ UNCHANGED <<handoff, inService, cpuTables, console, lost>>

PanicMsg(f) == <<f.why, f.vec>>

(* KMPRINTF: the framebuffer first, then the debug port.                   *)
PanicFb ==
  /\ At("panic_fb") /\ Goto("panic_dbg")
  /\ fb' = fb \cup {PanicMsg(Top)}
  /\ UNCHANGED <<handoff, irqState, cpuTables, ftCtx, dbg, lost>>

\* Mutant: KPRINTF for KMPRINTF.
PanicDbgDropped == Step("panic_dbg", "hcf")

PanicDbg ==
  /\ At("panic_dbg") /\ Goto("hcf")
  /\ dbg' = dbg \cup {PanicMsg(Top)}
  /\ UNCHANGED <<handoff, irqState, cpuTables, ftCtx, fb, lost>>

(* Flanterm entered again while a frame below is inside it: what it does   *)
(* then is undefined, a fault included.                                    *)
FlantermFault ==
  /\ At("panic_fb")
  /\ \E j \in 1 .. depth - 1 : stack[j].pc \in InFlanterm
  /\ Fault(PageFault)

\* Mutant: hcf without halt.
HcfReturns == Step("hcf", "iretq")

Hcf ==
  /\ At("hcf") /\ Goto("dead")
  /\ irqOn' = FALSE
  /\ UNCHANGED <<handoff, nmiBlocked, inService, cpuTables, console, lost>>

-----------------------------------------------------------------------------
Init ==
  /\ handoff \in [data : BOOLEAN, framebuffer : BOOLEAN, flanterm : BOOLEAN,
                  ramfs : BOOLEAN, memory_map : BOOLEAN, info : BOOLEAN, archive : BOOLEAN,
                  file : {"missing", "short", "long"}, page0 : BOOLEAN, irqOn : BOOLEAN]
  /\ stack = [k \in 1 .. StackFrames |->
                IF k = 1 THEN StartFrame ELSE NoFrame]
  /\ depth = 1
  /\ irqOn = handoff.irqOn /\ nmiBlocked = FALSE /\ inService = {}
  /\ gdt = [e \in 0 .. 4 |-> 0] /\ gdtr = "firmware"
  /\ cs = FwCS /\ ds = 0
  /\ idt = [v \in Vectors |-> "absent"] /\ idtr = "firmware"
  /\ gate = 0
  /\ ftCtx = FALSE /\ fb = {} /\ dbg = {}
  /\ lost = "no"

Start ==
  \/ CheckData \/ CheckFramebuffer \/ FlantermInit \/ CheckFlanterm
  \/ FlantermRefresh \/ Log
  \/ GdtInit \/ GdtLgdt \/ GdtFarReturn \/ GdtLoadData
  \/ IdtInit \/ SetGate \/ GatesDone \/ IdtLidt \/ IdtSti \/ IdtCli
  \/ CheckRamfs \/ CheckMemoryMap \/ EvalInfo \/ GetFileTar \/ EvalMsg \/ Halt

Handler ==
  \/ IsrCli \/ ExcpHandler \/ Iretq
  \/ PanicFb \/ PanicDbg \/ FlantermFault \/ Hcf

Cpu == Start \/ Handler

Next == Cpu \/ Nmi \/ \E v \in IrqVectors : Irq(v)

(* The CPU keeps executing instructions; interrupts need never come.       *)
Spec == Init /\ [][Next]_vars /\ WF_vars(Cpu)

-----------------------------------------------------------------------------
(* The inductive invariant, in the order the boot thread establishes it.   *)

BeforeConsole == {"check_data", "check_fb", "flanterm_init", "check_flanterm",
                  "hcf", "dead"}
GdtLoading == {"gdt_lgdt", "gdt_cs", "gdt_data"}
IdtLoading == {"idt_gates", "idt_lidt", "idt_sti", "idt_cli"}
AfterIdt == {"log_idt", "check_ramfs", "log_ramfs", "check_mmap", "log_mmap",
             "log_screen", "eval_info", "log_info", "get_file_tar",
             "log_missing", "log_setup", "eval_msg", "log_welcome", "halt",
             "done", "panic_fb", "panic_dbg"}
AfterGdt == {"log_gdt", "idt_init"} \cup IdtLoading \cup AfterIdt
BootOnly == DOMAIN LogSucc \cup BeforeConsole \cup GdtLoading \cup AfterGdt
              \cup {"flanterm_refresh", "gdt_init"}
HandlerOnly == {"isr", "excp_handler", "iretq"} \cup InPanic

Boot == stack[1].pc

FramesInv ==
  /\ Boot \in BootOnly
  /\ \A k \in 2 .. depth : stack[k].pc \in HandlerOnly
  /\ depth > 1 => idtr = "kernel"

ConsoleInv == (Boot \notin BeforeConsole \/ idtr = "kernel") => ftCtx

TablesInv ==
  /\ Boot \in GdtLoading \cup AfterGdt => gdt = KernelGdt
  /\ Boot \in (GdtLoading \ {"gdt_lgdt"}) \cup AfterGdt => gdtr = "kernel"
  /\ Boot \in {"gdt_data"} \cup AfterGdt => cs = 8
  /\ Boot \in AfterGdt => ds = 16
  /\ Boot = "idt_gates" => \A v \in Vectors : v < gate => idt[v] # "absent"
  /\ Boot \in (IdtLoading \ {"idt_gates"}) \cup AfterIdt =>
       \A v \in Vectors : idt[v] # "absent"
  /\ Boot \in {"idt_sti", "idt_cli"} \cup AfterIdt => idtr = "kernel"
  /\ idtr = "kernel" =>
       /\ Boot \in {"idt_sti", "idt_cli", "hcf", "dead"} \cup AfterIdt
       /\ gdt = KernelGdt /\ gdtr = "kernel" /\ cs = 8 /\ ds = 16
       /\ \A v \in Vectors : idt[v] # "absent"

(* Frames that run with interrupts masked, and under which no frame keeps  *)
(* saved flags that would open them.                                       *)
Masked == AfterIdt \cup {"excp_handler", "iretq", "dead"}
MaskInv ==
  /\ \A k \in 1 .. depth : stack[k].pc \in Masked =>
       ~irqOn /\ \A j \in k + 1 .. depth : ~stack[j].flags
  /\ ~handoff.irqOn /\ Boot \notin IdtLoading =>
       ~irqOn /\ \A j \in 2 .. depth : ~stack[j].flags

IInv == FramesInv /\ ConsoleInv /\ TablesInv /\ MaskInv

-----------------------------------------------------------------------------
(* Properties.                                                             *)

StackOK ==
  /\ stack \in [1 .. StackFrames -> Frame]
  /\ depth \in 1 .. StackFrames
  /\ \A k \in 1 .. StackFrames : stack[k].pc = "none" <=> k > depth

(* Every variable keeps its type: frames above depth are empty, the loop   *)
(* of IDT::init stays inside the table.                                    *)
TypeOK ==
  /\ handoff \in [data : BOOLEAN, framebuffer : BOOLEAN, flanterm : BOOLEAN,
                  ramfs : BOOLEAN, memory_map : BOOLEAN, info : BOOLEAN, archive : BOOLEAN,
                  file : {"missing", "short", "long"}, page0 : BOOLEAN, irqOn : BOOLEAN]
  /\ StackOK
  /\ irqOn \in BOOLEAN /\ nmiBlocked \in BOOLEAN /\ inService \subseteq IrqVectors
  /\ gdt \in [0 .. 4 -> 0 .. 255] /\ gdtr \in {"firmware", "kernel"}
  /\ cs \in Nat /\ ds \in Nat
  /\ idt \in [Vectors -> {"absent", "trap", "interrupt"}]
  /\ idtr \in {"firmware", "kernel"}
  /\ gate \in 0 .. IdtEntries
  /\ ftCtx \in BOOLEAN /\ fb \subseteq Messages /\ dbg \subseteq Messages
  /\ lost \in {"no", "firmware", "shutdown"}

(* Nothing writes to the framebuffer console before flanterm_fb_init gave  *)
(* a context: not _start's log lines, and not a panic of an exception or   *)
(* interrupt at any moment.                                                *)
ConsoleReady ==
  \A k \in 1 .. depth : stack[k].pc \in InFlanterm \cup {"panic_dbg"} => ftCtx

(* While the CPU uses IDT::idt, every one of its gates leads somewhere: it *)
(* is present, and set_gate's selector, cs and the data selectors all name *)
(* descriptors of the table the CPU uses.                                  *)
DescriptorsUsable ==
  idtr = "kernel" =>
    /\ \A v \in Vectors : GateUsable(v)
    /\ LoadableCode(cs)
    /\ Present(gdt[ds \div 8]) /\ ~IsCode(gdt[ds \div 8])

(* Exceptions go through trap gates, so only the stub's cli masks          *)
(* interrupts: whoever is printing a panic or halted does so masked.       *)
PanicMasked ==
  (\E k \in 1 .. depth : stack[k].pc \in {"panic_fb", "panic_dbg", "dead"}) => ~irqOn

(* If the bootloader hands over with interrupts masked, they are open only *)
(* in IDT::init, between its sti and its cli; no return from an interrupt  *)
(* that came in there reopens them later.                                  *)
IrqWindow ==
  (~handoff.irqOn /\ irqOn) =>
    stack[1].pc \in {"idt_gates", "idt_lidt", "idt_sti", "idt_cli"}

(* The boot thread stops in hcf exactly because of the first checked       *)
(* pointer that is missing, port 0xE9 names it, and the screen too once    *)
(* there is one.                                                           *)
FirstMissing(name) ==
  \E k \in 1 .. 5 : /\ Checked[k] = name /\ ~handoff[name]
                    /\ \A j \in 1 .. k - 1 : handoff[Checked[j]]
Diagnosis ==
  /\ \A name \in CheckedNames : Msg(name) \in dbg => FirstMissing(name)
  /\ stack[1].pc = "dead" =>
       \E name \in CheckedNames :
         /\ FirstMissing(name) /\ Msg(name) \in dbg
         /\ ftCtx => Msg(name) \in fb
  /\ stack[1].pc = "done" => \A name \in CheckedNames : handoff[name]

(* The machine resets for two reasons only.  Once the CPU uses IDT::idt:   *)
(* flanterm, entered again by a panic, faults, and so does each panic about*)
(* that fault until the stack is full; nothing was printed on the way, a   *)
(* machine that told its user of an exception never resets after it.       *)
(* Before: between lgdt and lidt the firmware's gates name a table that is *)
(* gone; and there an interrupt, unlike an NMI, is to blame only on a      *)
(* bootloader that left interrupts open, or on IDT::init's early sti.      *)
ShutdownCause ==
  lost = "shutdown" =>
    \/ /\ idtr = "kernel"
       /\ depth = StackFrames /\ Top.pc = "panic_fb" /\ Top.vec = PageFault
       /\ \E k \in 1 .. depth - 1 : stack[k].pc \in InFlanterm
       /\ \A m \in dbg : m[1] # "exception"
    \/ /\ idtr = "firmware" /\ gdtr = "kernel"
       /\ Boot \in {"gdt_cs", "gdt_data", "log_gdt", "idt_init", "idt_gates", "idt_lidt"}
       /\ inService # {} => handoff.irqOn \/ Boot \in {"idt_gates", "idt_lidt"}

(* A frame in a panic or in hcf is never left: it only goes down its own   *)
(* path, and no frame under it runs again.                                 *)
PanicFinal ==
  [][\A k \in 1 .. depth :
       stack[k].pc \in InPanic => depth' >= k /\ stack'[k].pc \in InPanic]_vars

(* Debug port and screen show the same lines, but for the refusals of a    *)
(* console that is not there and the panics whose second write is pending. *)
Mirrored ==
  /\ fb \ dbg \subseteq {PanicMsg(stack[k]) : k \in {j \in 1 .. depth : stack[j].pc = "panic_dbg"}}
  /\ dbg \ fb \subseteq {Msg("data"), Msg("framebuffer"), Msg("flanterm")}

(* Whatever the hand-off and whatever interrupts it, the machine comes to  *)
(* rest: halted, dead, or lost to the firmware or a reset.                 *)
AtRest == lost # "no" \/ Top.pc \in {"done", "dead"}
ComesToRest == <>[]AtRest

(* With a complete hand-off and no interrupt or NMI served, _start reaches *)
(* its halt with the welcome text on both outputs.                         *)
GoodHandoff ==
  /\ \A name \in CheckedNames : handoff[name]
  /\ handoff.info /\ handoff.archive /\ handoff.file = "short"
BootCompletes ==
  (GoodHandoff /\ [](depth = 1 /\ lost = "no")) =>
    <>(Top.pc = "done" /\ Msg("welcome") \in fb \cap dbg)

(* What _start takes from the hand-off without a test, bootInfo->info, the *)
(* archive's address and the file that get_file_tar did not find, does not *)
(* go wrong in silence where page 0 is not mapped: if nothing interrupts   *)
(* it, the boot ends in the panic of a page fault, on both outputs.        *)
Untested == ~handoff.info \/ ~handoff.archive \/ handoff.file = "missing"
NullReported ==
  ((\A name \in CheckedNames : handoff[name]) /\ Untested /\ ~handoff.page0
     /\ [](~nmiBlocked /\ inService = {})) =>
    <>(Top.pc = "dead" /\ <<"exception", PageFault>> \in fb \cap dbg)

=============================================================================
