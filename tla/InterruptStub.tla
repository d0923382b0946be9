--------------------------- MODULE InterruptStub ----------------------------
(***************************************************************************)
(* idt-stub.asm, instruction by instruction, between the CPU that delivers *)
(* an interrupt through a gate of idt.cpp and the iretq that ends it:      *)
(* isr_N, _int_stub, pushaq, excp_handler, popaq.  The stack is a sequence *)
(* of 8-byte words, its last element the word at rsp.  A word, a register  *)
(* and an instruction pointer are pairs <<what, number>>; an rip is the    *)
(* location it points to.  acts is what no register holds: for each        *)
(* activation, what it interrupted.                                        *)
(***************************************************************************)
EXTENDS Naturals, Sequences

CONSTANTS
  Data,        \* words the interrupted program computes with
  RegFiles,    \* register contents of the interrupted program
  Locals,      \* words it may have on the stack
  IrqVectors,  \* vectors the interrupt controller raises
  Exceptions,  \* vectors of the faults the interrupted program may run into
  MaxActs      \* activations the stack has room for

ASSUME VectorsAssumption ==
  IrqVectors \subseteq 0 .. 255 /\ Exceptions \subseteq 0 .. 31
ASSUME ActsAssumption == MaxActs \in Nat \ {0}

VARIABLES pc, regs, cr2, stack, irqOn, nmiBlocked, inService,
          last_rbp,
          acts, \* the interrupted contexts, innermost last
          work  \* parity of the steps of the interrupted program

vars == <<pc, regs, cr2, stack, irqOn, nmiBlocked, inService, last_rbp, acts, work>>

-----------------------------------------------------------------------------
\* Mutant: rsi and rdi in the wrong order.
PushOrderSwapped ==
  <<"rax", "rbx", "rcx", "rdx", "rdi", "rsi", "rbp", "r8", "r9",
    "r10", "r11", "r12", "r13", "r14", "r15", "cr3", "cr2", "ds">>

(* pushaq, from the first push to the last.                                *)
PushOrder == <<"rax", "rbx", "rcx", "rdx", "rsi", "rdi", "rbp", "r8", "r9",
               "r10", "r11", "r12", "r13", "r14", "r15", "cr3", "cr2", "ds">>
Pushes == 1 .. Len(PushOrder)

\* Mutant: rcx and rdx in the wrong order.
PopOrderSwapped ==
  <<"rax", "rax", "rax", "r15", "r14", "r13", "r12", "r11", "r10", "r9",
    "r8", "rbp", "rdi", "rsi", "rcx", "rdx", "rbx", "rax">>

(* popaq, from the first pop to the last.                                  *)
PopOrder == <<"rax", "rax", "rax", "r15", "r14", "r13", "r12", "r11", "r10", "r9",
              "r8", "rbp", "rdi", "rsi", "rdx", "rcx", "rbx", "rax">>

(* int_frame_t, from its lowest address up.                                *)
int_frame_t == <<"ds", "cr2", "cr3", "r15", "r14", "r13", "r12", "r11", "r10",
                 "r9", "r8", "rbp", "rdi", "rsi", "rdx", "rcx", "rbx", "rax",
                 "vector", "err", "rip", "cs", "rflags", "rsp", "ss">>

Gprs == {"rax", "rbx", "rcx", "rdx", "rsi", "rdi", "rbp", "r8", "r9", "r10",
         "r11", "r12", "r13", "r14", "r15"}

(* What the stubs and the CPU put into words and registers: what it is, and *)
(* a number.                                                               *)
Locations ==
  {"main", "isr_cli", "push_err", "push_vector", "_int_stub", "pushaq", "call",
   "excp_handler", "kpanic", "popaq", "add_rsp", "iretq"}
Word ==
  Data \cup (({"pad", "ss", "rsp", "rflags", "cs", "err", "vector", "rbp", "cr2", "cr3", "ds",
               "scratch"} \cup Locations) \X Nat)
ASSUME ContentsAssumption == RegFiles \subseteq [Gprs -> Data] /\ Locals \subseteq Seq(Data)

(* What a C++ function may change: the registers it need not preserve.     *)
CallerSaved == {"rax", "rcx", "rdx", "rsi", "rdi", "r8", "r9", "r10", "r11"}

(* Vectors with an error code, for the CPU and for the stubs.              *)
CpuPushesErr == {8, 10, 11, 12, 13, 14, 17, 21, 29, 30}
\* Mutant: _isr_err for the first interrupt too.
IsrErrOneMore == {8, 10, 11, 12, 13, 14, 17, 30, 32}

IsrErr       == {8, 10, 11, 12, 13, 14, 17, 30}

NMI == 2
PageFault == 14

Flags(b)  == <<"rflags", IF b THEN 1 ELSE 0>>
InMain    == pc[1] = "main"
Top       == stack[Len(stack)]
Drop(n)   == SubSeq(stack, 1, Len(stack) - n)

(* The word a push of pushaq stores.                                       *)
Pushed(name) ==
  IF name \in Gprs THEN regs[name] ELSE IF name = "cr2" THEN cr2 ELSE <<name, 0>>

-----------------------------------------------------------------------------
(* Delivery: rsp is aligned to 16 bytes, five words and perhaps an error   *)
(* code are pushed, and a gate below 32 is a trap gate, which leaves IF    *)
(* alone.                                                                  *)
Aligned == IF Len(stack) % 2 = 0 THEN stack ELSE Append(stack, <<"pad", 0>>)

Deliver(v, errPushed) ==
  /\ Len(acts) < MaxActs
  /\ acts' = Append(acts, [pc |-> pc, regs |-> regs, rsp |-> Len(stack), stk |-> stack,
                           irqOn |-> irqOn, vec |-> v, errPushed |-> errPushed])
  /\ stack' = Aligned \o <<<<"ss", 16>>, <<"rsp", Len(stack)>>, Flags(irqOn), <<"cs", 8>>, pc>>
                      \o (IF errPushed THEN <<<<"err", 1>>>> ELSE <<>>)
  /\ pc' = <<"isr_cli", v>>
  /\ irqOn' = (irqOn /\ v < 32)
  /\ UNCHANGED <<regs, last_rbp, work>>

(* The controller does not raise again what nobody acknowledged.           *)
Irq(v) ==
  /\ irqOn /\ v \notin inService
  /\ Deliver(v, FALSE)
  /\ inService' = inService \cup {v}
  /\ UNCHANGED <<cr2, nmiBlocked>>

Nmi ==
  /\ ~nmiBlocked
  /\ Deliver(NMI, FALSE)
  /\ nmiBlocked' = TRUE
  /\ UNCHANGED <<cr2, inService>>

Exception(v) ==
  /\ InMain
  /\ Deliver(v, v \in CpuPushesErr)
  /\ cr2' = IF v = PageFault THEN <<"cr2", 1>> ELSE cr2
  /\ UNCHANGED <<nmiBlocked, inService>>

-----------------------------------------------------------------------------
(* The interrupted program: any computation, sti and cli included.         *)
MainStep ==
  /\ InMain
  /\ pc' = <<"main", 1 - pc[2]>> /\ work' = 1 - work
  /\ regs' \in RegFiles /\ stack' \in Locals /\ irqOn' \in BOOLEAN
  /\ UNCHANGED <<cr2, nmiBlocked, inService, last_rbp, acts>>

-----------------------------------------------------------------------------
(* isr_N.                                                                  *)

At(name) == pc[1] = name
Rest == <<cr2, nmiBlocked, inService, acts, work>>

\* Mutant: a stub without cli.
IsrCliDropped ==
  /\ At("isr_cli")
  /\ pc' = IF pc[2] \in IsrErr THEN <<"push_vector", pc[2]>> ELSE <<"push_err", pc[2]>>
  /\ UNCHANGED <<regs, stack, irqOn, last_rbp, Rest>>

IsrCli ==
  /\ At("isr_cli")
  /\ irqOn' = FALSE
  /\ pc' = IF pc[2] \in IsrErr THEN <<"push_vector", pc[2]>> ELSE <<"push_err", pc[2]>>
  /\ UNCHANGED <<regs, stack, last_rbp, Rest>>

IsrPushErr ==
  /\ At("push_err")
  /\ stack' = Append(stack, <<"err", 0>>)
  /\ pc' = <<"push_vector", pc[2]>>
  /\ UNCHANGED <<regs, irqOn, last_rbp, Rest>>

IsrPushVector ==
  /\ At("push_vector")
  /\ stack' = Append(stack, <<"vector", pc[2]>>)
  /\ pc' = <<"_int_stub", 0>>
  /\ UNCHANGED <<regs, irqOn, last_rbp, Rest>>

-----------------------------------------------------------------------------
(* _int_stub.                                                              *)

SaveRbp ==
  /\ At("_int_stub")
  /\ last_rbp' = regs["rbp"]
  /\ pc' = <<"pushaq", 1>>
  /\ UNCHANGED <<regs, stack, irqOn, Rest>>

(* The last three go through rax.                                          *)
Pushaq ==
  /\ At("pushaq")
  /\ LET name == PushOrder[pc[2]] IN
     /\ stack' = Append(stack, Pushed(name))
     /\ regs' = IF name \in Gprs THEN regs ELSE [regs EXCEPT !["rax"] = Pushed(name)]
  /\ pc' = IF pc[2] = Len(PushOrder) THEN <<"call", 0>> ELSE <<"pushaq", pc[2] + 1>>
  /\ UNCHANGED <<irqOn, last_rbp, Rest>>

Call ==
  /\ At("call")
  /\ stack' = Append(stack, <<"popaq", 1>>)
  /\ pc' = <<"excp_handler", 0>>
  /\ UNCHANGED <<regs, irqOn, last_rbp, Rest>>

(* The frame is the argument, right above the return address.              *)
Field(name) ==
  stack[Len(stack) - CHOOSE k \in 1 .. Len(int_frame_t) : int_frame_t[k] = name]

\* Mutant: frame.vector <= 0x20.
ExcpHandlerOneMore ==
  /\ At("excp_handler")
  /\ IF Field("vector")[2] <= 32
       THEN pc' = <<"kpanic", 0>> /\ UNCHANGED <<regs, stack>>
       ELSE /\ pc' = Top
            /\ stack' = Drop(1)
            /\ regs' = [r \in Gprs |-> IF r \in CallerSaved THEN <<"scratch", 0>> ELSE regs[r]]
  /\ UNCHANGED <<irqOn, last_rbp, Rest>>

ExcpHandler ==
  /\ At("excp_handler")
  /\ IF Field("vector")[2] < 32
       THEN pc' = <<"kpanic", 0>> /\ UNCHANGED <<regs, stack>>
       ELSE /\ pc' = Top
            /\ stack' = Drop(1)
            /\ regs' = [r \in Gprs |-> IF r \in CallerSaved THEN <<"scratch", 0>> ELSE regs[r]]
  /\ UNCHANGED <<irqOn, last_rbp, Rest>>

Popaq ==
  /\ At("popaq")
  /\ regs' = [regs EXCEPT ![PopOrder[pc[2]]] = Top]
  /\ stack' = Drop(1)
  /\ pc' = IF pc[2] = Len(PopOrder) THEN <<"add_rsp", 0>> ELSE <<"popaq", pc[2] + 1>>
  /\ UNCHANGED <<irqOn, last_rbp, Rest>>

AddRsp ==
  /\ At("add_rsp")
  /\ stack' = Drop(2)
  /\ pc' = <<"iretq", 0>>
  /\ UNCHANGED <<regs, irqOn, last_rbp, Rest>>

(* Takes rip, rflags and rsp from wherever rsp points; NMIs come again.    *)
Iretq ==
  /\ At("iretq")
  /\ LET n == Len(stack) IN
     /\ pc' = stack[n]
     /\ irqOn' = (stack[n - 2] = Flags(TRUE))
     /\ stack' = SubSeq(stack, 1, stack[n - 3][2])
  /\ nmiBlocked' = FALSE
  /\ acts' = SubSeq(acts, 1, Len(acts) - 1)
  /\ UNCHANGED <<regs, cr2, inService, last_rbp, work>>

-----------------------------------------------------------------------------
Init ==
  /\ pc = <<"main", 0>> /\ work = 0
  /\ regs \in RegFiles /\ stack \in Locals /\ irqOn \in BOOLEAN
  /\ cr2 = <<"cr2", 0>> /\ last_rbp = <<"rbp", 0>>
  /\ nmiBlocked = FALSE /\ inService = {} /\ acts = <<>>

Stub ==
  \/ IsrCli \/ IsrPushErr \/ IsrPushVector
  \/ SaveRbp \/ Pushaq \/ Call \/ ExcpHandler \/ Popaq \/ AddRsp \/ Iretq

Next ==
  \/ MainStep \/ Stub \/ Nmi
  \/ \E v \in IrqVectors : Irq(v)
  \/ \E v \in Exceptions : Exception(v)

(* The CPU goes on executing the stub; the interrupted program may stop.   *)
Spec == Init /\ [][Next]_vars /\ WF_vars(Stub)

-----------------------------------------------------------------------------
(* Properties.                                                             *)

(* The types; an activation per stub that runs.                            *)
TypeOK ==
  /\ pc[1] \in Locations /\ pc[2] \in 0 .. 255
  /\ DOMAIN regs = Gprs
  /\ irqOn \in BOOLEAN /\ nmiBlocked \in BOOLEAN /\ inService \subseteq IrqVectors
  /\ Len(acts) <= MaxActs /\ (InMain <=> acts = <<>>)
  /\ work \in {0, 1}

Current == acts[Len(acts)]
Agrees  == Current.errPushed = (Current.vec \in IsrErr)

(* What excp_handler reads in its int_frame_t is what was interrupted, if  *)
(* the CPU pushed an error code exactly for the vectors whose stub expects *)
(* one; the vector is right even if not, so that the reason printed is.    *)
FrameFaithful ==
  At("excp_handler") =>
    /\ Field("vector") = <<"vector", Current.vec>>
    /\ Agrees =>
         /\ \A r \in Gprs : Field(r) = Current.regs[r]
         /\ Field("rip") = Current.pc /\ Field("rsp") = <<"rsp", Current.rsp>>
         /\ Field("rflags") = Flags(Current.irqOn)
         /\ Field("cs") = <<"cs", 8>> /\ Field("ss") = <<"ss", 16>>
         /\ Field("cr2") = cr2 /\ Field("cr3") = <<"cr3", 0>> /\ Field("ds") = <<"ds", 0>>

(* An iretq finds the frame the CPU pushed for the very activation it      *)
(* ends; activations whose error code the stub gets wrong never come to    *)
(* one.                                                                    *)
ReturnAligned ==
  At("iretq") =>
    /\ Agrees
    /\ Top = Current.pc
    /\ stack[Len(stack) - 3] = <<"rsp", Current.rsp>>
    /\ SubSeq(stack, 1, Current.rsp) = Current.stk

(* Interrupts do not pile up: one comes on top of another activation only  *)
(* at the first instruction of an exception's or an NMI's stub, before its *)
(* cli.                                                                    *)
IrqNotNested ==
  \A k \in 2 .. Len(acts) :
    acts[k].irqOn => acts[k].pc[1] = "isr_cli" /\ acts[k].pc[2] < 32

(* What is interrupted does not notice: registers, stack, instruction      *)
(* pointer and interrupt flag are its own doing, however interrupts nest.  *)
Main == INSTANCE MainProgram WITH
  rip  <- IF acts = <<>> THEN pc ELSE acts[1].pc,
  regs <- IF acts = <<>> THEN regs ELSE acts[1].regs,
  stk  <- IF acts = <<>> THEN stack ELSE acts[1].stk,
  flag <- IF acts = <<>> THEN irqOn ELSE acts[1].irqOn
Transparent == Main!Spec

(* Interrupted by nothing but interrupts from 32 on, the program always    *)
(* gets the CPU back.                                                      *)
MainResumes ==
  [](\A k \in 1 .. Len(acts) : acts[k].vec >= 32) => []<>InMain

=============================================================================
