------------------------ MODULE InterruptStubProofs -------------------------
(* Proofs about module InterruptStub, for every value of its constants.    *)
EXTENDS InterruptStub, SequenceTheorems, TLAPS

-----------------------------------------------------------------------------
(* The inductive invariant.  Activation k is described from outside, as    *)
(* the context above it saved it: the innermost one by the CPU's registers *)
(* and stack, any other by what acts[k + 1] interrupted, the interrupted   *)
(* program by what acts[1] did.  A delivery or an iretq then changes no    *)
(* description, and a stub instruction only the innermost.                 *)

PcOf(k)   == IF k = Len(acts) THEN pc ELSE acts[k + 1].pc
RegsOf(k) == IF k = Len(acts) THEN regs ELSE acts[k + 1].regs
StkOf(k)  == IF k = Len(acts) THEN stack ELSE acts[k + 1].stk
IrqOf(k)  == IF k = Len(acts) THEN irqOn ELSE acts[k + 1].irqOn

Activation ==
  [pc : Locations \X (0 .. 255), regs : [Gprs -> Word], rsp : Nat, stk : Seq(Word),
   irqOn : BOOLEAN, vec : 0 .. 255, errPushed : BOOLEAN]

Types ==
  /\ pc \in Locations \X (0 .. 255) /\ regs \in [Gprs -> Word]
  /\ cr2 \in Word /\ stack \in Seq(Word)
  /\ irqOn \in BOOLEAN /\ nmiBlocked \in BOOLEAN /\ inService \subseteq IrqVectors
  /\ acts \in Seq(Activation) /\ Len(acts) <= MaxActs
  /\ work \in {0, 1}

(* Where the words of activation a are on its stack: behind Base(a) what   *)
(* the CPU pushed, at VectorAt(a) the stub's vector, then pushaq's words   *)
(* and the return address of the call.                                     *)
Base(a)     == a.rsp + (a.rsp % 2)
CpuTop(a)   == Base(a) + (IF a.errPushed THEN 6 ELSE 5)
VectorAt(a) == CpuTop(a) + (IF a.vec \in IsrErr THEN 1 ELSE 2)

Saved(a, c, name) ==
  IF name \in Gprs THEN a.regs[name] ELSE IF name = "cr2" THEN c ELSE <<name, 0>>

(* The word that belongs at index n of the stack while activation a runs;  *)
(* c is the content of cr2.                                                *)
WordAt(a, c, n) ==
  IF n <= a.rsp THEN a.stk[n]
  ELSE IF n <= Base(a) THEN <<"pad", 0>>
  ELSE IF n <= CpuTop(a)
    THEN <<<<"ss", 16>>, <<"rsp", a.rsp>>, Flags(a.irqOn), <<"cs", 8>>, a.pc,
           <<"err", 1>>>>[n - Base(a)]
  ELSE IF n < VectorAt(a) THEN <<"err", 0>>
  ELSE IF n = VectorAt(a) THEN <<"vector", a.vec>>
  ELSE IF n <= VectorAt(a) + 18 THEN Saved(a, c, PushOrder[n - VectorAt(a)])
  ELSE <<"popaq", 1>>
Words(a, s, c) == \A n \in 1 .. Len(s) : s[n] = WordAt(a, c, n)

(* How far the stub has come: what is in rip, and how many words are on    *)
(* the stack.  Only an interrupt from 32 on gets behind excp_handler.      *)
Progress(a, p, s) ==
  \/ p[1] = "isr_cli" /\ p[2] = a.vec /\ Len(s) = CpuTop(a)
  \/ p[1] = "push_err" /\ p[2] = a.vec /\ a.vec \notin IsrErr /\ Len(s) = CpuTop(a)
  \/ p[1] = "push_vector" /\ p[2] = a.vec /\ Len(s) = VectorAt(a) - 1
  \/ p[1] = "_int_stub" /\ Len(s) = VectorAt(a)
  \/ p[1] = "pushaq" /\ p[2] \in Pushes /\ Len(s) = VectorAt(a) + p[2] - 1
  \/ p[1] = "call" /\ Len(s) = VectorAt(a) + 18
  \/ p[1] \in {"excp_handler", "kpanic"} /\ Len(s) = VectorAt(a) + 19
  \/ p[1] = "popaq" /\ p[2] \in Pushes /\ Len(s) = VectorAt(a) + 19 - p[2] /\ a.vec >= 32
  \/ p[1] = "add_rsp" /\ Len(s) = VectorAt(a) /\ a.vec >= 32
  \/ p[1] = "iretq" /\ Len(s) = VectorAt(a) - 2 /\ a.vec >= 32

(* Which registers hold what the interrupted context left in them.         *)
Intact(a, p, r) ==
  LET same == {name \in Gprs : r[name] = a.regs[name]}
  IN  CASE p[1] \in {"isr_cli", "push_err", "push_vector", "_int_stub"} -> same = Gprs
        [] p[1] = "pushaq" -> /\ Gprs \ {"rax"} \subseteq same
                              /\ p[2] = 1 => same = Gprs
        [] p[1] \in {"call", "excp_handler", "kpanic"} -> Gprs \ {"rax"} \subseteq same
        [] p[1] = "popaq" -> /\ Gprs \ CallerSaved \subseteq same
                             /\ \A j \in 4 .. p[2] - 1 : PopOrder[j] \in same
        [] p[1] \in {"add_rsp", "iretq"} -> same = Gprs

Shape(a, p, r, s, f, c) ==
  /\ a.rsp = Len(a.stk)
  /\ a.errPushed => a.vec \in CpuPushesErr
  /\ Words(a, s, c) /\ Progress(a, p, s) /\ Intact(a, p, r)
  /\ f => p[1] = "isr_cli" /\ a.vec < 32

IInv ==
  /\ Types
  /\ \A k \in 1 .. Len(acts) :
       Shape(acts[k], PcOf(k), RegsOf(k), StkOf(k), IrqOf(k), cr2)
  /\ PcOf(0) \in {"main"} \X {0, 1}

-----------------------------------------------------------------------------
(* Sequences, and the orders of pushaq and popaq.                          *)

(* A push: the words below it stay.                                        *)
LEMMA PushFacts ==
  ASSUME NEW W, NEW s \in Seq(W), NEW w \in W
  PROVE  /\ Append(s, w) \in Seq(W) /\ Len(Append(s, w)) = Len(s) + 1
         /\ \A n \in 1 .. Len(s) : Append(s, w)[n] = s[n]
         /\ Append(s, w)[Len(s) + 1] = w
OBVIOUS

(* Pops: the words below them stay.                                        *)
LEMMA PopFacts ==
  ASSUME NEW W, NEW s \in Seq(W), NEW m \in 0 .. Len(s)
  PROVE  /\ SubSeq(s, 1, m) \in Seq(W) /\ Len(SubSeq(s, 1, m)) = m
         /\ \A n \in 1 .. m : SubSeq(s, 1, m)[n] = s[n]
OBVIOUS

(* The first fifteen pushes save every general register, rax first; the    *)
(* other three go through rax.                                             *)
LEMMA PushOrderFacts ==
  /\ Pushes = 1 .. 18
  /\ \A j \in 1 .. 15 : PushOrder[j] \in Gprs
  /\ \A j \in 16 .. 18 : PushOrder[j] \notin Gprs
  /\ PushOrder[17] = "cr2" /\ PushOrder[16] = "cr3" /\ PushOrder[18] = "ds"
  /\ \A j \in Pushes : PushOrder[j] = "rax" => j = 1
BY DEF PushOrder, Pushes, Gprs

(* popaq pops what pushaq pushed, in the opposite order, and gets every    *)
(* general register back from its own word.                                *)
LEMMA PopOrderFacts ==
  /\ Len(PopOrder) = 18
  /\ \A j \in Pushes : PopOrder[j] \in Gprs
  /\ \A j \in 4 .. 18 : PopOrder[j] = PushOrder[19 - j]
  /\ \A i, j \in 4 .. 18 : PopOrder[i] = PopOrder[j] => i = j
  /\ \A j \in 1 .. 3 : PopOrder[j] = "rax"
  /\ \A r \in Gprs : \E j \in 4 .. 18 : PopOrder[j] = r
<1>1. /\ Len(PopOrder) = 18 /\ \A j \in Pushes : PopOrder[j] \in Gprs
      /\ \A j \in 1 .. 3 : PopOrder[j] = "rax"
  BY DEF PopOrder, Pushes, PushOrder, Gprs
<1>2. \A j \in 4 .. 18 : PopOrder[j] = PushOrder[19 - j]
  BY DEF PopOrder, PushOrder
<1>3. \A i, j \in 4 .. 18 : PopOrder[i] = PopOrder[j] => i = j
  BY DEF PopOrder
<1>4. \A r \in Gprs : \E j \in 4 .. 18 : PopOrder[j] = r
  BY DEF PopOrder, Gprs
<1> QED
  BY <1>1, <1>2, <1>3, <1>4

-----------------------------------------------------------------------------
(* The words of an activation.                                             *)

(* Where the parts of the stack are.                                       *)
LEMMA Places ==
  ASSUME NEW a \in Activation
  PROVE  /\ Base(a) \in Nat /\ a.rsp \in Nat /\ a.rsp <= Base(a)
         /\ CpuTop(a) \in Nat /\ VectorAt(a) \in Nat
         /\ CpuTop(a) \in {Base(a) + 5, Base(a) + 6}
         /\ VectorAt(a) \in {CpuTop(a) + 1, CpuTop(a) + 2}
         /\ a.vec \in IsrErr <=> VectorAt(a) = CpuTop(a) + 1
         /\ a.errPushed <=> CpuTop(a) = Base(a) + 6
BY DEF Activation, Base, CpuTop, VectorAt

(* The words above the CPU's frame.                                        *)
LEMMA WordAtFacts ==
  ASSUME NEW a \in Activation, NEW c
  PROVE  /\ WordAt(a, c, VectorAt(a)) = <<"vector", a.vec>>
         /\ \A i \in 1 .. 18 : WordAt(a, c, VectorAt(a) + i) = Saved(a, c, PushOrder[i])
         /\ WordAt(a, c, VectorAt(a) + 19) = <<"popaq", 1>>
<1>1. /\ a.rsp \in Nat /\ Base(a) \in Nat /\ CpuTop(a) \in Nat /\ VectorAt(a) \in Nat
      /\ a.rsp <= Base(a) /\ Base(a) < CpuTop(a) /\ CpuTop(a) < VectorAt(a)
  BY Places
<1>2. WordAt(a, c, VectorAt(a)) = <<"vector", a.vec>>
  <2>1. /\ ~(VectorAt(a) <= a.rsp) /\ ~(VectorAt(a) <= Base(a))
        /\ ~(VectorAt(a) <= CpuTop(a)) /\ ~(VectorAt(a) < VectorAt(a))
    BY <1>1
  <2> QED
    BY <2>1 DEF WordAt
<1>3. ASSUME NEW i \in 1 .. 18
      PROVE  WordAt(a, c, VectorAt(a) + i) = Saved(a, c, PushOrder[i])
  <2> DEFINE n == VectorAt(a) + i
  <2>1. /\ ~(n <= a.rsp) /\ ~(n <= Base(a)) /\ ~(n <= CpuTop(a)) /\ ~(n < VectorAt(a))
        /\ n # VectorAt(a) /\ n <= VectorAt(a) + 18 /\ n - VectorAt(a) = i
    BY <1>1
  <2> HIDE DEF n
  <2>2. WordAt(a, c, n) = Saved(a, c, PushOrder[i])
    BY <2>1 DEF WordAt
  <2> QED
    BY <2>2 DEF n
<1>4. WordAt(a, c, VectorAt(a) + 19) = <<"popaq", 1>>
  <2> DEFINE n == VectorAt(a) + 19
  <2>1. /\ ~(n <= a.rsp) /\ ~(n <= Base(a)) /\ ~(n <= CpuTop(a)) /\ ~(n < VectorAt(a))
        /\ n # VectorAt(a) /\ ~(n <= VectorAt(a) + 18)
    BY <1>1
  <2> HIDE DEF n
  <2>2. WordAt(a, c, n) = <<"popaq", 1>>
    BY <2>1 DEF WordAt
  <2> QED
    BY <2>2 DEF n
<1> QED
  BY <1>2, <1>3, <1>4

(* A push of the right word keeps the words right.                         *)
LEMMA WordsPush ==
  ASSUME NEW a, NEW s \in Seq(Word), NEW w \in Word, NEW c,
         Words(a, s, c), w = WordAt(a, c, Len(s) + 1)
  PROVE  Words(a, Append(s, w), c)
<1>1. \A n \in 1 .. Len(Append(s, w)) :
        \/ n \in 1 .. Len(s) /\ Append(s, w)[n] = s[n]
        \/ n = Len(s) + 1 /\ Append(s, w)[n] = w
  BY PushFacts
<1> QED
  BY <1>1 DEF Words

(* Pops keep the words right.                                              *)
LEMMA WordsPop ==
  ASSUME NEW a, NEW s \in Seq(Word), NEW c, Words(a, s, c),
         NEW m \in 0 .. Len(s)
  PROVE  Words(a, SubSeq(s, 1, m), c)
<1>1. /\ Len(SubSeq(s, 1, m)) = m /\ 1 .. m \subseteq 1 .. Len(s)
      /\ \A n \in 1 .. m : SubSeq(s, 1, m)[n] = s[n]
  BY PopFacts
<1> QED
  BY <1>1 DEF Words

(* The words of the CPU's frame, wherever a stub is.                       *)
LEMMA FrameWords ==
  ASSUME NEW a \in Activation, NEW s \in Seq(Word), NEW c, Words(a, s, c),
         Len(s) >= Base(a) + 5
  PROVE  /\ \A n \in 1 .. a.rsp : s[n] = a.stk[n]
         /\ s[Base(a) + 1] = <<"ss", 16>> /\ s[Base(a) + 2] = <<"rsp", a.rsp>>
         /\ s[Base(a) + 3] = Flags(a.irqOn) /\ s[Base(a) + 4] = <<"cs", 8>>
         /\ s[Base(a) + 5] = a.pc
<1>1. /\ Base(a) \in Nat /\ a.rsp \in Nat /\ a.rsp <= Base(a)
      /\ CpuTop(a) \in Nat /\ CpuTop(a) >= Base(a) + 5 /\ Len(s) \in Nat
  BY Places
<1> DEFINE f == <<<<"ss", 16>>, <<"rsp", a.rsp>>, Flags(a.irqOn), <<"cs", 8>>, a.pc,
                  <<"err", 1>>>>
<1>2. /\ f[1] = <<"ss", 16>> /\ f[2] = <<"rsp", a.rsp>> /\ f[3] = Flags(a.irqOn)
      /\ f[4] = <<"cs", 8>> /\ f[5] = a.pc
  OBVIOUS
<1>3. \A n \in Nat : n > Base(a) /\ n <= CpuTop(a) => WordAt(a, c, n) = f[n - Base(a)]
  BY <1>1 DEF WordAt
<1> HIDE DEF f
<1>4. \A j \in 1 .. 5 : s[Base(a) + j] = f[j]
  <2> TAKE j \in 1 .. 5
  <2>1. /\ Base(a) + j \in 1 .. Len(s) /\ Base(a) + j \in Nat
        /\ Base(a) + j > Base(a) /\ Base(a) + j <= CpuTop(a)
        /\ (Base(a) + j) - Base(a) = j
    BY <1>1
  <2>2. s[Base(a) + j] = WordAt(a, c, Base(a) + j)
    BY <2>1 DEF Words
  <2> QED
    BY <2>1, <2>2, <1>3
<1>5. \A n \in 1 .. a.rsp : s[n] = a.stk[n]
  BY <1>1 DEF Words, WordAt
<1> QED
  BY <1>2, <1>4, <1>5

-----------------------------------------------------------------------------
(* The steps of a stub.                                                    *)

Last == acts[Len(acts)]
Innermost(p, r, s, f) == Shape(Last, p, r, s, f, cr2)

(* While a stub runs there is an innermost activation, and the CPU is in   *)
(* it.                                                                     *)
LEMMA InStub ==
  ASSUME IInv, pc[1] # "main"
  PROVE  /\ Len(acts) \in Nat /\ Len(acts) >= 1 /\ Last \in Activation
         /\ Innermost(pc, regs, stack, irqOn)
<1>1. acts \in Seq(Activation) /\ Len(acts) \in Nat
  BY DEF IInv, Types
<1>2. Len(acts) # 0
  <2>1. CASE Len(acts) = 0
    <3>1. pc \in {"main"} \X {0, 1}
      BY <2>1 DEF IInv, PcOf
    <3> QED
      BY <3>1
  <2> QED
    BY <2>1
<1>3. Len(acts) \in 1 .. Len(acts)
  BY <1>1, <1>2
<1>4. Last \in Activation
  BY <1>1, <1>3 DEF Last
<1>5. Shape(acts[Len(acts)], PcOf(Len(acts)), RegsOf(Len(acts)), StkOf(Len(acts)),
            IrqOf(Len(acts)), cr2)
  BY <1>3 DEF IInv
<1> QED
  BY <1>1, <1>3, <1>4, <1>5 DEF Innermost, Last, PcOf, RegsOf, StkOf, IrqOf

(* A step of a stub that keeps the innermost activation in shape keeps the *)
(* invariant: it touches no other.                                         *)
LEMMA InnermostStep ==
  ASSUME IInv, pc[1] # "main", UNCHANGED <<acts, cr2>>, Types',
         Innermost(pc', regs', stack', irqOn')
  PROVE  IInv'
<1>1. Len(acts) \in Nat /\ Len(acts) >= 1
  BY InStub
<1>2. ASSUME NEW k \in 1 .. Len(acts)
      PROVE  Shape(acts[k], PcOf(k)', RegsOf(k)', StkOf(k)', IrqOf(k)', cr2)
  <2>1. CASE k = Len(acts)
    BY <2>1 DEF Innermost, Last, PcOf, RegsOf, StkOf, IrqOf
  <2>2. CASE k # Len(acts)
    <3>1. /\ PcOf(k)' = PcOf(k) /\ RegsOf(k)' = RegsOf(k)
          /\ StkOf(k)' = StkOf(k) /\ IrqOf(k)' = IrqOf(k)
      BY <2>2 DEF PcOf, RegsOf, StkOf, IrqOf
    <3>2. Shape(acts[k], PcOf(k), RegsOf(k), StkOf(k), IrqOf(k), cr2)
      BY DEF IInv
    <3> QED
      BY <3>1, <3>2
  <2> QED
    BY <2>1, <2>2
<1>3. PcOf(0)' \in {"main"} \X {0, 1}
  <2>1. PcOf(0)' = PcOf(0)
    BY <1>1 DEF PcOf
  <2> QED
    BY <2>1 DEF IInv
<1> QED
  BY <1>2, <1>3 DEF IInv

(* What all the instructions of the stubs know when they begin.            *)
LEMMA StubFacts ==
  ASSUME IInv, pc[1] # "main"
  PROVE  /\ pc[1] \in Locations /\ pc[2] \in 0 .. 255 /\ pc = <<pc[1], pc[2]>>
         /\ regs \in [Gprs -> Word] /\ cr2 \in Word /\ stack \in Seq(Word)
         /\ Len(stack) \in Nat
         /\ Last \in Activation /\ Words(Last, stack, cr2)
         /\ Progress(Last, pc, stack) /\ Intact(Last, pc, regs)
         /\ Last.rsp = Len(Last.stk) /\ (Last.errPushed => Last.vec \in CpuPushesErr)
         /\ Last.vec \in 0 .. 255
BY InStub DEF IInv, Types, Innermost, Shape, Activation

(* The same of the places on its stack.                                    *)
LEMMA LastPlaces ==
  ASSUME IInv, pc[1] # "main"
  PROVE  /\ Base(Last) \in Nat /\ CpuTop(Last) \in Nat /\ VectorAt(Last) \in Nat
         /\ CpuTop(Last) \in {Base(Last) + 5, Base(Last) + 6}
         /\ VectorAt(Last) \in {CpuTop(Last) + 1, CpuTop(Last) + 2}
         /\ Len(stack) \in Nat
<1>1. Last \in Activation /\ Len(stack) \in Nat
  BY StubFacts
<1> QED
  BY <1>1, Places

(* What is on the stack at each instruction.                               *)
LEMMA AtEach ==
  ASSUME IInv, pc[1] # "main"
  PROVE  /\ pc[1] = "isr_cli" => pc[2] = Last.vec /\ Len(stack) = CpuTop(Last)
         /\ pc[1] = "push_err" => /\ pc[2] = Last.vec /\ Last.vec \notin IsrErr
                                 /\ Len(stack) = CpuTop(Last)
         /\ pc[1] = "push_vector" => pc[2] = Last.vec /\ Len(stack) = VectorAt(Last) - 1
         /\ pc[1] = "_int_stub" => Len(stack) = VectorAt(Last)
         /\ pc[1] = "pushaq" => pc[2] \in Pushes /\ Len(stack) = VectorAt(Last) + pc[2] - 1
         /\ pc[1] = "call" => Len(stack) = VectorAt(Last) + 18
         /\ pc[1] = "excp_handler" => Len(stack) = VectorAt(Last) + 19
         /\ pc[1] = "popaq" => /\ pc[2] \in Pushes /\ Len(stack) = VectorAt(Last) + 19 - pc[2]
                              /\ Last.vec >= 32
         /\ pc[1] = "add_rsp" => Len(stack) = VectorAt(Last) /\ Last.vec >= 32
         /\ pc[1] = "iretq" => Len(stack) = VectorAt(Last) - 2 /\ Last.vec >= 32
<1>1. Progress(Last, pc, stack)
  BY StubFacts
<1> QED
  BY <1>1 DEF Progress

(* cli, the first instruction of every isr_N.                              *)
LEMMA IsrCliInv == ASSUME IInv, IsrCli PROVE IInv'
<1>1. pc[1] = "isr_cli" /\ pc[1] # "main"
  BY DEF IsrCli, At
<1>2. /\ pc' = (IF pc[2] \in IsrErr THEN <<"push_vector", pc[2]>> ELSE <<"push_err", pc[2]>>)
      /\ irqOn' = FALSE /\ UNCHANGED <<regs, stack, cr2, nmiBlocked, inService, acts, work>>
  BY DEF IsrCli, Rest
<1>3. pc[2] = Last.vec /\ Len(stack) = CpuTop(Last) /\ Last.vec \in 0 .. 255
  BY <1>1, AtEach, StubFacts
<1>4. Types'
  BY <1>2, <1>3 DEF IInv, Types, Locations
<1>5. Progress(Last, pc', stack')
  BY <1>1, <1>2, <1>3, StubFacts, Places DEF Progress, VectorAt
<1>6. Intact(Last, pc', regs')
  BY <1>1, <1>2, StubFacts DEF Intact
<1>7. Words(Last, stack', cr2)
  BY <1>1, <1>2, StubFacts
<1>8. Innermost(pc', regs', stack', irqOn')
  BY <1>1, <1>2, <1>5, <1>6, <1>7, StubFacts DEF Innermost, Shape
<1> QED
  BY <1>1, <1>2, <1>4, <1>8, InnermostStep

(* push 0, the error code of the vectors that have none.                   *)
LEMMA IsrPushErrInv == ASSUME IInv, IsrPushErr PROVE IInv'
<1>1. pc[1] = "push_err" /\ pc[1] # "main"
  BY DEF IsrPushErr, At
<1>2. /\ stack' = Append(stack, <<"err", 0>>) /\ pc' = <<"push_vector", pc[2]>>
      /\ UNCHANGED <<regs, irqOn, cr2, nmiBlocked, inService, acts, work>>
  BY DEF IsrPushErr, Rest
<1>3. /\ pc[2] = Last.vec /\ Last.vec \notin IsrErr /\ Len(stack) = CpuTop(Last)
      /\ Last.vec \in 0 .. 255
  BY <1>1, AtEach, StubFacts
<1>4. <<"err", 0>> \in Word
  BY DEF Word
<1>5. stack' \in Seq(Word) /\ Len(stack') = Len(stack) + 1
  BY <1>1, <1>2, <1>4, StubFacts, PushFacts
<1>6. Types'
  BY <1>2, <1>3, <1>5 DEF IInv, Types, Locations
<1>7. Progress(Last, pc', stack')
  BY <1>1, <1>2, <1>3, <1>5, StubFacts, Places DEF Progress, VectorAt
<1>8. Intact(Last, pc', regs')
  BY <1>1, <1>2, StubFacts DEF Intact
<1>9. WordAt(Last, cr2, Len(stack) + 1) = <<"err", 0>>
  BY SMTT(20), <1>1, <1>3, StubFacts, Places DEF WordAt, VectorAt
<1>10. Words(Last, stack', cr2)
  BY <1>1, <1>2, <1>4, <1>9, StubFacts, WordsPush
<1>11. Innermost(pc', regs', stack', irqOn')
  BY <1>1, <1>2, <1>7, <1>8, <1>10, StubFacts, InStub DEF Innermost, Shape
<1> QED
  BY <1>1, <1>2, <1>6, <1>11, InnermostStep

(* push N, the vector.                                                     *)
LEMMA IsrPushVectorInv == ASSUME IInv, IsrPushVector PROVE IInv'
<1>1. pc[1] = "push_vector" /\ pc[1] # "main"
  BY DEF IsrPushVector, At
<1>2. /\ stack' = Append(stack, <<"vector", pc[2]>>) /\ pc' = <<"_int_stub", 0>>
      /\ UNCHANGED <<regs, irqOn, cr2, nmiBlocked, inService, acts, work>>
  BY DEF IsrPushVector, Rest
<1>3. pc[2] = Last.vec /\ Len(stack) = VectorAt(Last) - 1 /\ Last.vec \in 0 .. 255
  BY <1>1, AtEach, StubFacts
<1>4. <<"vector", pc[2]>> \in Word
  <2>1. PICK v \in 0 .. 255 : pc[2] = v
    BY <1>3
  <2> QED
    BY <2>1 DEF Word
<1>5. stack' \in Seq(Word) /\ Len(stack') = Len(stack) + 1
  BY <1>1, <1>2, <1>4, StubFacts, PushFacts
<1>6. Types'
  BY <1>2, <1>5 DEF IInv, Types, Locations
<1>7. Progress(Last, pc', stack')
  BY <1>1, <1>2, <1>3, <1>5, StubFacts, Places DEF Progress
<1>8. Intact(Last, pc', regs')
  BY <1>1, <1>2, StubFacts DEF Intact
<1>9. WordAt(Last, cr2, Len(stack) + 1) = <<"vector", pc[2]>>
  <2>1. Len(stack) + 1 = VectorAt(Last) /\ Last \in Activation
    BY <1>1, <1>3, StubFacts, LastPlaces
  <2> QED
    BY <1>3, <2>1, WordAtFacts
<1>10. Words(Last, stack', cr2)
  BY <1>1, <1>2, <1>4, <1>9, StubFacts, WordsPush
<1>11. Innermost(pc', regs', stack', irqOn')
  BY <1>1, <1>2, <1>7, <1>8, <1>10, StubFacts, InStub DEF Innermost, Shape
<1> QED
  BY <1>1, <1>2, <1>6, <1>11, InnermostStep

(* mov [last_rbp], rbp: a variable nobody reads.                           *)
LEMMA SaveRbpInv == ASSUME IInv, SaveRbp PROVE IInv'
<1>1. pc[1] = "_int_stub" /\ pc[1] # "main"
  BY DEF SaveRbp, At
<1>2. /\ pc' = <<"pushaq", 1>>
      /\ UNCHANGED <<regs, stack, irqOn, cr2, nmiBlocked, inService, acts, work>>
  BY DEF SaveRbp, Rest
<1>3. Len(stack) = VectorAt(Last)
  BY <1>1, AtEach
<1>4. Types'
  BY <1>2 DEF IInv, Types, Locations
<1>5. Progress(Last, pc', stack')
  BY <1>1, <1>2, <1>3, StubFacts, Places, PushOrderFacts DEF Progress
<1>6. Intact(Last, pc', regs')
  BY <1>1, <1>2, StubFacts DEF Intact
<1>7. Words(Last, stack', cr2)
  BY <1>1, <1>2, StubFacts
<1>8. Innermost(pc', regs', stack', irqOn')
  BY <1>1, <1>2, <1>5, <1>6, <1>7, StubFacts, InStub DEF Innermost, Shape
<1> QED
  BY <1>1, <1>2, <1>4, <1>8, InnermostStep

(* One push of pushaq.                                                     *)
LEMMA PushaqInv == ASSUME IInv, Pushaq PROVE IInv'
<1>1. pc[1] = "pushaq" /\ pc[1] # "main"
  BY DEF Pushaq, At
<1>0. PICK i \in 1 .. 18 : pc[2] = i
  BY <1>1, AtEach, PushOrderFacts
<1> DEFINE name == PushOrder[i]
<1>2. /\ stack' = Append(stack, Pushed(name))
      /\ regs' = (IF name \in Gprs THEN regs ELSE [regs EXCEPT !["rax"] = Pushed(name)])
      /\ pc' = (IF i = Len(PushOrder) THEN <<"call", 0>> ELSE <<"pushaq", i + 1>>)
      /\ UNCHANGED <<irqOn, cr2, nmiBlocked, inService, acts, work>>
  BY <1>0 DEF Pushaq, Rest
<1>3. i \in 1 .. 18 /\ Len(stack) = VectorAt(Last) + i - 1 /\ Len(PushOrder) = 18
  BY <1>0, <1>1, AtEach, PushOrderFacts DEF PushOrder
<1>4. /\ \A g \in Gprs \ {"rax"} : regs[g] = Last.regs[g]
      /\ i = 1 => \A g \in Gprs : regs[g] = Last.regs[g]
  <2>1. Intact(Last, pc, regs)
    BY <1>1, StubFacts
  <2> QED
    BY <1>0, <1>1, <2>1 DEF Intact
<1>5. Pushed(name) = Saved(Last, cr2, name)
  BY <1>3, <1>4, PushOrderFacts DEF Pushed, Saved
<1>6. Pushed(name) \in Word
  <2>1. CASE name \in Gprs
    BY <1>1, <2>1, StubFacts DEF Pushed
  <2>2. CASE name \notin Gprs
    <3>1. i \in 16 .. 18
      BY <1>3, <2>2, PushOrderFacts
    <3>2. name \in {"cr2", "cr3", "ds"}
      BY <3>1, PushOrderFacts
    <3>3. <<"cr3", 0>> \in Word /\ <<"ds", 0>> \in Word /\ cr2 \in Word
      BY <1>1, StubFacts DEF Word
    <3> QED
      BY <2>2, <3>2, <3>3 DEF Pushed
  <2> QED
    BY <2>1, <2>2
<1>7. stack' \in Seq(Word) /\ Len(stack') = Len(stack) + 1
  BY <1>1, <1>2, <1>6, StubFacts, PushFacts
<1>8. regs' \in [Gprs -> Word] /\ \A g \in Gprs \ {"rax"} : regs'[g] = regs[g]
  BY <1>1, <1>2, <1>6, StubFacts
<1>9. pc' \in Locations \X (0 .. 255)
  <2>1. <<"call", 0>> \in Locations \X (0 .. 255)
    BY DEF Locations
  <2>2. i + 1 \in 0 .. 255 /\ "pushaq" \in Locations
    BY <1>3 DEF Locations
  <2> QED
    BY <1>2, <2>1, <2>2
<1>10. Types'
  BY <1>2, <1>7, <1>8, <1>9 DEF IInv, Types
<1>11. Progress(Last, pc', stack')
  <2>1. CASE i = 18
    BY <2>1, <1>1, <1>2, <1>3, <1>7, StubFacts, Places DEF Progress
  <2>2. CASE i # 18
    <3>1. pc'[1] = "pushaq" /\ pc'[2] = i + 1 /\ i + 1 \in Pushes
      BY <2>2, <1>2, <1>3, PushOrderFacts
    <3>2. Len(stack') = VectorAt(Last) + (i + 1) - 1
      BY <1>1, <1>3, <1>7, LastPlaces
    <3> QED
      BY <3>1, <3>2 DEF Progress
  <2> QED
    BY <2>1, <2>2
<1>12. Intact(Last, pc', regs')
  <2>1. /\ pc'[1] \in {"pushaq", "call"} /\ (pc'[1] = "pushaq" => pc'[2] # 1)
    BY <1>2, <1>3
  <2>2. Gprs \ {"rax"} \subseteq {g \in Gprs : regs'[g] = Last.regs[g]}
    BY <1>4, <1>8
  <2> QED
    BY <2>1, <2>2 DEF Intact
<1>13. WordAt(Last, cr2, Len(stack) + 1) = Saved(Last, cr2, name)
  <2>1. Len(stack) + 1 = VectorAt(Last) + i
    BY <1>1, <1>3, LastPlaces
  <2>2. Last \in Activation
    BY <1>1, StubFacts
  <2> QED
    BY <1>3, <2>1, <2>2, WordAtFacts
<1>14. Words(Last, stack', cr2)
  BY <1>1, <1>2, <1>5, <1>6, <1>13, StubFacts, WordsPush
<1>15. Innermost(pc', regs', stack', irqOn')
  <2>1. irqOn = FALSE \/ irqOn = TRUE
    BY Zenon DEF IInv, Types
  <2>2. ~irqOn
    BY <1>1, InStub DEF Innermost, Shape
  <2> QED
    BY <1>1, <1>2, <2>2, <1>11, <1>12, <1>14, StubFacts DEF Innermost, Shape
<1> QED
  BY <1>1, <1>2, <1>10, <1>15, InnermostStep

(* call excp_handler.                                                      *)
LEMMA CallInv == ASSUME IInv, Call PROVE IInv'
<1>1. pc[1] = "call" /\ pc[1] # "main"
  BY DEF Call, At
<1>2. /\ stack' = Append(stack, <<"popaq", 1>>) /\ pc' = <<"excp_handler", 0>>
      /\ UNCHANGED <<regs, irqOn, cr2, nmiBlocked, inService, acts, work>>
  BY DEF Call, Rest
<1>3. Len(stack) = VectorAt(Last) + 18
  BY <1>1, AtEach
<1>4. <<"popaq", 1>> \in Word
  BY DEF Word, Locations
<1>5. stack' \in Seq(Word) /\ Len(stack') = Len(stack) + 1
  BY <1>1, <1>2, <1>4, StubFacts, PushFacts
<1>6. Types'
  BY <1>2, <1>5 DEF IInv, Types, Locations
<1>7. Progress(Last, pc', stack')
  BY <1>1, <1>2, <1>3, <1>5, StubFacts, Places DEF Progress
<1>8. Intact(Last, pc', regs')
  BY <1>1, <1>2, StubFacts DEF Intact
<1>9. WordAt(Last, cr2, Len(stack) + 1) = <<"popaq", 1>>
  <2>1. Len(stack) + 1 = VectorAt(Last) + 19 /\ Last \in Activation
    BY <1>1, <1>3, StubFacts, LastPlaces
  <2> QED
    BY <2>1, WordAtFacts
<1>10. Words(Last, stack', cr2)
  BY <1>1, <1>2, <1>4, <1>9, StubFacts, WordsPush
<1>11. Innermost(pc', regs', stack', irqOn')
  BY <1>1, <1>2, <1>7, <1>8, <1>10, StubFacts, InStub DEF Innermost, Shape
<1> QED
  BY <1>1, <1>2, <1>6, <1>11, InnermostStep

(* A member of int_frame_t is read where the order of its members has it.  *)
LEMMA FieldPlace ==
  ASSUME NEW k \in 1 .. 25
  PROVE  Field(int_frame_t[k]) = stack[Len(stack) - k]
<1>1. Len(int_frame_t) = 25 /\ \A i, j \in 1 .. 25 : int_frame_t[i] = int_frame_t[j] => i = j
  BY DEF int_frame_t
<1>2. (CHOOSE j \in 1 .. Len(int_frame_t) : int_frame_t[j] = int_frame_t[k]) = k
  BY <1>1
<1> QED
  BY <1>2 DEF Field

(* The vector excp_handler finds is the one the CPU delivered, also when   *)
(* the error code is one too few.                                          *)
LEMMA VectorField ==
  ASSUME IInv, pc[1] = "excp_handler"
  PROVE  Field("vector") = <<"vector", Last.vec>>
<1>1. Last \in Activation /\ Words(Last, stack, cr2)
  BY StubFacts
<1>2. Len(stack) = VectorAt(Last) + 19
  BY AtEach
<1>3. int_frame_t[19] = "vector" /\ 19 \in 1 .. 25
  BY DEF int_frame_t
<1>4. Field("vector") = stack[Len(stack) - 19]
  BY <1>3, FieldPlace
<1>5. Len(stack) - 19 = VectorAt(Last) /\ VectorAt(Last) \in 1 .. Len(stack)
  BY <1>2, LastPlaces
<1>6. stack[VectorAt(Last)] = WordAt(Last, cr2, VectorAt(Last))
  BY <1>1, <1>5 DEF Words
<1> QED
  BY <1>1, <1>4, <1>5, <1>6, WordAtFacts

(* excp_handler: a panic, or its ret.                                      *)
LEMMA ExcpHandlerInv == ASSUME IInv, ExcpHandler PROVE IInv'
<1>1. pc[1] = "excp_handler" /\ pc[1] # "main"
  BY DEF ExcpHandler, At
<1>2. UNCHANGED <<irqOn, cr2, nmiBlocked, inService, acts, work>>
  BY DEF ExcpHandler, Rest
<1>3. PICK v \in 0 .. 255 : Last.vec = v
  BY <1>1, StubFacts
<1>4. Field("vector")[2] = v
  BY <1>1, <1>3, VectorField
<1>5. /\ Len(stack) = VectorAt(Last) + 19 /\ VectorAt(Last) \in Nat /\ Len(stack) \in Nat
  BY <1>1, AtEach, LastPlaces
<1>6. CASE v < 32
  <2>1. pc' = <<"kpanic", 0>> /\ UNCHANGED <<regs, stack>>
    BY <1>4, <1>6 DEF ExcpHandler
  <2>2. Types'
    BY <1>2, <2>1 DEF IInv, Types, Locations
  <2>3. Progress(Last, pc', stack')
    BY <1>5, <2>1 DEF Progress
  <2>4. Intact(Last, pc', regs')
    BY <1>1, <2>1, StubFacts DEF Intact
  <2>5. Words(Last, stack', cr2)
    BY <1>1, <2>1, StubFacts
  <2>6. Innermost(pc', regs', stack', irqOn')
    BY <1>1, <1>2, <2>3, <2>4, <2>5, StubFacts, InStub DEF Innermost, Shape
  <2> QED
    BY <1>1, <1>2, <2>2, <2>6, InnermostStep
<1>7. CASE ~(v < 32)
  <2>1. /\ pc' = Top /\ stack' = SubSeq(stack, 1, Len(stack) - 1)
        /\ regs' = [r \in Gprs |-> IF r \in CallerSaved THEN <<"scratch", 0>> ELSE regs[r]]
    BY <1>4, <1>7 DEF ExcpHandler, Drop
  <2>2. Last \in Activation /\ Words(Last, stack, cr2) /\ stack \in Seq(Word)
    BY <1>1, StubFacts
  <2>3. pc' = <<"popaq", 1>>
    <3>1. Len(stack) \in 1 .. Len(stack)
      BY <1>5
    <3>2. stack[Len(stack)] = WordAt(Last, cr2, Len(stack))
      BY <2>2, <3>1 DEF Words
    <3> QED
      BY <1>5, <2>1, <2>2, <3>2, WordAtFacts DEF Top
  <2>4. /\ stack' \in Seq(Word) /\ Len(stack') = Len(stack) - 1
        /\ Words(Last, stack', cr2)
    <3>1. Len(stack) - 1 \in 0 .. Len(stack)
      BY <1>5
    <3> QED
      BY <2>1, <2>2, <3>1, PopFacts, WordsPop
  <2>5. regs' \in [Gprs -> Word]
    <3>1. <<"scratch", 0>> \in Word /\ regs \in [Gprs -> Word]
      BY <1>1, StubFacts DEF Word
    <3> QED
      BY <2>1, <3>1
  <2>6. Types'
    BY <1>2, <2>3, <2>4, <2>5 DEF IInv, Types, Locations
  <2>7. Progress(Last, pc', stack')
    <3>1. Len(stack') = VectorAt(Last) + 19 - 1 /\ Last.vec >= 32
      BY <1>3, <1>5, <1>7, <2>4
    <3> QED
      BY <2>3, <3>1, PushOrderFacts DEF Progress
  <2>8. Intact(Last, pc', regs')
    <3>1. Gprs \ {"rax"} \subseteq {g \in Gprs : regs[g] = Last.regs[g]}
      BY <1>1, StubFacts DEF Intact
    <3>2. "rax" \in CallerSaved
      BY DEF CallerSaved
    <3>3. Gprs \ CallerSaved \subseteq {g \in Gprs : regs'[g] = Last.regs[g]}
      BY <2>1, <3>1, <3>2
    <3> QED
      BY <2>3, <3>3 DEF Intact
  <2>9. Innermost(pc', regs', stack', irqOn')
    BY <1>1, <1>2, <2>4, <2>7, <2>8, StubFacts, InStub DEF Innermost, Shape
  <2> QED
    BY <1>1, <1>2, <2>6, <2>9, InnermostStep
<1> QED
  BY <1>6, <1>7

(* One pop of popaq.                                                       *)
LEMMA PopaqInv == ASSUME IInv, Popaq PROVE IInv'
<1>1. pc[1] = "popaq" /\ pc[1] # "main"
  BY DEF Popaq, At
<1>2. PICK i \in 1 .. 18 : pc[2] = i
  BY <1>1, AtEach, PushOrderFacts
<1>3. /\ regs' = [regs EXCEPT ![PopOrder[i]] = Top] /\ stack' = SubSeq(stack, 1, Len(stack) - 1)
      /\ pc' = (IF i = 18 THEN <<"add_rsp", 0>> ELSE <<"popaq", i + 1>>)
      /\ UNCHANGED <<irqOn, cr2, nmiBlocked, inService, acts, work>>
  BY <1>2, PopOrderFacts DEF Popaq, Rest, Drop
<1>4. /\ Len(stack) = VectorAt(Last) + 19 - i /\ VectorAt(Last) \in Nat /\ Last.vec >= 32
      /\ Len(stack) \in Nat
  BY <1>1, <1>2, AtEach, LastPlaces
<1>5. /\ Last \in Activation /\ Words(Last, stack, cr2) /\ stack \in Seq(Word)
      /\ regs \in [Gprs -> Word]
  BY <1>1, StubFacts
<1>6. Top \in Word /\ Top = Saved(Last, cr2, PushOrder[19 - i])
  <2>1. /\ Len(stack) \in 1 .. Len(stack) /\ Len(stack) = VectorAt(Last) + (19 - i)
        /\ 19 - i \in 1 .. 18
    BY <1>4
  <2>2. stack[Len(stack)] = WordAt(Last, cr2, Len(stack)) /\ stack[Len(stack)] \in Word
    BY <1>5, <2>1 DEF Words
  <2> QED
    BY <1>5, <2>1, <2>2, WordAtFacts DEF Top
<1>7. /\ stack' \in Seq(Word) /\ Len(stack') = Len(stack) - 1 /\ Words(Last, stack', cr2)
  <2>1. Len(stack) - 1 \in 0 .. Len(stack)
    BY <1>4
  <2> QED
    BY <1>3, <1>5, <2>1, PopFacts, WordsPop
<1>8. regs' \in [Gprs -> Word]
  BY <1>3, <1>5, <1>6
<1>9. pc' \in Locations \X (0 .. 255)
  <2>1. <<"add_rsp", 0>> \in Locations \X (0 .. 255)
    BY DEF Locations
  <2>2. i + 1 \in 0 .. 255 /\ "popaq" \in Locations
    BY DEF Locations
  <2> QED
    BY <1>3, <2>1, <2>2
<1>10. Types'
  BY <1>3, <1>7, <1>8, <1>9 DEF IInv, Types
<1>11. Progress(Last, pc', stack')
  <2>1. CASE i = 18
    <3>1. Len(stack') = VectorAt(Last)
      BY <1>4, <1>7, <2>1
    <3> QED
      BY <1>3, <1>4, <2>1, <3>1 DEF Progress
  <2>2. CASE i # 18
    <3>1. pc'[1] = "popaq" /\ pc'[2] = i + 1 /\ i + 1 \in Pushes
      BY <1>3, <2>2, PushOrderFacts
    <3>2. Len(stack') = VectorAt(Last) + 19 - (i + 1)
      BY <1>4, <1>7
    <3> QED
      BY <1>4, <3>1, <3>2 DEF Progress
  <2> QED
    BY <2>1, <2>2
<1> DEFINE same  == {g \in Gprs : regs[g] = Last.regs[g]}
           same2 == {g \in Gprs : regs'[g] = Last.regs[g]}
<1>12. /\ Gprs \ CallerSaved \subseteq same /\ \A j \in 4 .. i - 1 : PopOrder[j] \in same
  <2>1. Intact(Last, pc, regs)
    BY <1>1, StubFacts
  <2> QED
    BY <1>1, <1>2, <2>1 DEF Intact
<1>13. i >= 4 => PopOrder[i] \in same2
  <2>1. ASSUME i >= 4 PROVE PopOrder[i] \in same2
    <3>1. i \in 4 .. 18 /\ 19 - i \in 1 .. 15
      BY <2>1
    <3>2. PopOrder[i] = PushOrder[19 - i] /\ PopOrder[i] \in Gprs
      BY <3>1, PopOrderFacts, PushOrderFacts
    <3>3. Top = Last.regs[PopOrder[i]]
      BY <1>6, <3>2 DEF Saved
    <3> QED
      BY <1>3, <1>5, <3>2, <3>3
  <2> QED
    BY <2>1
<1>14. \A g \in same : g # PopOrder[i] => g \in same2
  BY <1>3, <1>5
<1>15. Gprs \ CallerSaved \subseteq same2
  <2> SUFFICES ASSUME NEW g \in Gprs \ CallerSaved PROVE g \in same2
    OBVIOUS
  <2>1. CASE g # PopOrder[i]
    BY <1>12, <1>14, <2>1
  <2>2. CASE g = PopOrder[i]
    <3>1. "rax" \in CallerSaved
      BY DEF CallerSaved
    <3>2. i >= 4
      BY <2>2, <3>1, PopOrderFacts
    <3> QED
      BY <1>13, <2>2, <3>2
  <2> QED
    BY <2>1, <2>2
<1>16. \A j \in 4 .. i : PopOrder[j] \in same2
  <2> SUFFICES ASSUME NEW j \in 4 .. i PROVE PopOrder[j] \in same2
    OBVIOUS
  <2>1. CASE j = i
    BY <1>13, <2>1
  <2>2. CASE j # i
    <3>1. j \in 4 .. i - 1 /\ j \in 4 .. 18 /\ i \in 4 .. 18
      BY <2>2
    <3>2. PopOrder[j] # PopOrder[i]
      BY <2>2, <3>1, PopOrderFacts
    <3> QED
      BY <1>12, <1>14, <3>1, <3>2
  <2> QED
    BY <2>1, <2>2
<1>17. Intact(Last, pc', regs')
  <2>1. CASE i = 18
    <3>1. pc'[1] = "add_rsp"
      BY <1>3, <2>1
    <3>2. \A g \in Gprs : g \in same2
      BY <1>16, <2>1, PopOrderFacts
    <3>3. same2 = Gprs
      BY <3>2
    <3> QED
      BY <3>1, <3>3 DEF Intact
  <2>2. CASE i # 18
    <3>1. pc'[1] = "popaq" /\ pc'[2] = i + 1 /\ (i + 1) - 1 = i
      BY <1>3, <2>2
    <3> QED
      BY <1>15, <1>16, <3>1 DEF Intact
  <2> QED
    BY <2>1, <2>2
<1>18. Innermost(pc', regs', stack', irqOn')
  BY <1>1, <1>3, <1>7, <1>11, <1>17, StubFacts, InStub DEF Innermost, Shape
<1> QED
  BY <1>1, <1>3, <1>10, <1>18, InnermostStep

(* add rsp, 16: past the vector and the error code.                        *)
LEMMA AddRspInv == ASSUME IInv, AddRsp PROVE IInv'
<1>1. pc[1] = "add_rsp" /\ pc[1] # "main"
  BY DEF AddRsp, At
<1>2. /\ stack' = SubSeq(stack, 1, Len(stack) - 2) /\ pc' = <<"iretq", 0>>
      /\ UNCHANGED <<regs, irqOn, cr2, nmiBlocked, inService, acts, work>>
  BY DEF AddRsp, Rest, Drop
<1>3. Len(stack) = VectorAt(Last) /\ Last.vec >= 32 /\ Len(stack) - 2 \in 0 .. Len(stack)
  BY <1>1, AtEach, LastPlaces
<1>4. /\ stack \in Seq(Word) /\ Words(Last, stack, cr2)
  BY <1>1, StubFacts
<1>5. /\ stack' \in Seq(Word) /\ Len(stack') = Len(stack) - 2 /\ Words(Last, stack', cr2)
  BY <1>2, <1>3, <1>4, PopFacts, WordsPop
<1>6. Types'
  BY <1>2, <1>5 DEF IInv, Types, Locations
<1>7. Progress(Last, pc', stack')
  <2>1. Len(stack') = VectorAt(Last) - 2
    BY <1>3, <1>5
  <2> QED
    BY <1>2, <1>3, <2>1 DEF Progress
<1>8. Intact(Last, pc', regs')
  BY <1>1, <1>2, StubFacts DEF Intact
<1>9. Innermost(pc', regs', stack', irqOn')
  BY <1>1, <1>2, <1>5, <1>7, <1>8, StubFacts, InStub DEF Innermost, Shape
<1> QED
  BY <1>1, <1>2, <1>6, <1>9, InnermostStep

-----------------------------------------------------------------------------
(* The return.                                                             *)

(* At iretq the stack ends with the frame the CPU pushed for the           *)
(* activation that ends, and the registers are back.                       *)
LEMMA AtIretq ==
  ASSUME IInv, pc[1] = "iretq"
  PROVE  /\ Len(stack) = Base(Last) + 5 /\ Base(Last) \in Nat
         /\ Last.rsp \in Nat /\ Last.rsp <= Base(Last)
         /\ stack[Len(stack)] = Last.pc /\ stack[Len(stack) - 2] = Flags(Last.irqOn)
         /\ stack[Len(stack) - 3] = <<"rsp", Last.rsp>>
         /\ SubSeq(stack, 1, Last.rsp) = Last.stk
         /\ regs = Last.regs
         /\ Last.vec \notin IsrErr /\ ~Last.errPushed
<1>1. /\ Last \in Activation /\ stack \in Seq(Word) /\ Words(Last, stack, cr2)
      /\ regs \in [Gprs -> Word] /\ Last.rsp = Len(Last.stk) /\ Len(stack) \in Nat
  BY StubFacts
<1>2. /\ Len(stack) = VectorAt(Last) - 2 /\ Last.vec >= 32
  BY AtEach
<1>3. Last.vec \notin IsrErr /\ Last.vec \notin CpuPushesErr
  <2>1. PICK v \in 0 .. 255 : Last.vec = v /\ v >= 32
    BY <1>2, StubFacts
  <2> QED
    BY <2>1 DEF IsrErr, CpuPushesErr
<1>4. ~Last.errPushed
  BY <1>3, StubFacts
<1>5. /\ Base(Last) \in Nat /\ Last.rsp \in Nat /\ Last.rsp <= Base(Last)
      /\ CpuTop(Last) = Base(Last) + 5 /\ VectorAt(Last) = CpuTop(Last) + 2
  <2>1. /\ Base(Last) \in Nat /\ Last.rsp \in Nat /\ Last.rsp <= Base(Last)
    BY <1>1, Places
  <2> QED
    BY <1>3, <1>4, <2>1 DEF CpuTop, VectorAt
<1>6. Len(stack) = Base(Last) + 5
  BY <1>2, <1>5
<1>7. /\ \A n \in 1 .. Last.rsp : stack[n] = Last.stk[n]
      /\ stack[Base(Last) + 2] = <<"rsp", Last.rsp>>
      /\ stack[Base(Last) + 3] = Flags(Last.irqOn)
      /\ stack[Base(Last) + 5] = Last.pc
  BY SMTT(20), <1>1, <1>5, <1>6, FrameWords
<1>8. SubSeq(stack, 1, Last.rsp) = Last.stk
  <2>1. Last.rsp \in 0 .. Len(stack) /\ Last.stk \in Seq(Word)
    BY <1>1, <1>5, <1>6 DEF Activation
  <2> DEFINE t == SubSeq(stack, 1, Last.rsp)
  <2>2. /\ t \in Seq(Word) /\ Len(t) = Last.rsp
        /\ \A n \in 1 .. Last.rsp : t[n] = stack[n]
    BY <1>1, <2>1, PopFacts
  <2> HIDE DEF t
  <2>3. Len(t) = Len(Last.stk) /\ \A n \in 1 .. Len(t) : t[n] = Last.stk[n]
    BY <1>1, <1>7, <2>2
  <2>4. t = Last.stk
    BY <2>1, <2>2, <2>3, SeqEqual
  <2> QED
    BY <2>4 DEF t
<1>9. regs = Last.regs
  <2>1. {g \in Gprs : regs[g] = Last.regs[g]} = Gprs
    BY StubFacts DEF Intact
  <2>2. \A g \in Gprs : regs[g] = Last.regs[g]
    BY <2>1
  <2>3. Last.regs \in [Gprs -> Word]
    BY <1>1 DEF Activation
  <2> QED
    BY <1>1, <2>2, <2>3
<1>10. /\ stack[Len(stack)] = Last.pc /\ stack[Len(stack) - 2] = Flags(Last.irqOn)
       /\ stack[Len(stack) - 3] = <<"rsp", Last.rsp>>
  <2>1. Len(stack) - 2 = Base(Last) + 3 /\ Len(stack) - 3 = Base(Last) + 2
    BY <1>5, <1>6
  <2> QED
    BY <1>6, <1>7, <2>1
<1> QED
  BY <1>3, <1>4, <1>5, <1>6, <1>8, <1>9, <1>10

(* iretq restores exactly what the activation that ends interrupted.       *)
LEMMA IretqRestores ==
  ASSUME IInv, Iretq
  PROVE  /\ pc' = Last.pc /\ regs' = Last.regs /\ stack' = Last.stk
         /\ irqOn' = Last.irqOn
<1>1. pc[1] = "iretq" /\ pc[1] # "main"
  BY DEF Iretq, At
<1>2. /\ pc' = stack[Len(stack)] /\ irqOn' = (stack[Len(stack) - 2] = Flags(TRUE))
      /\ stack' = SubSeq(stack, 1, stack[Len(stack) - 3][2]) /\ regs' = regs
  BY DEF Iretq
<1>3. pc' = Last.pc /\ stack' = Last.stk /\ regs' = Last.regs
  <2>1. stack[Len(stack) - 3][2] = Last.rsp
    BY <1>1, AtIretq
  <2> QED
    BY <1>1, <1>2, <2>1, AtIretq
<1>4. irqOn' = Last.irqOn
  <2>1. irqOn' = (Flags(Last.irqOn) = Flags(TRUE))
    BY <1>1, <1>2, AtIretq
  <2>2. Last.irqOn \in BOOLEAN
    BY <1>1, StubFacts DEF Activation
  <2>3. Flags(TRUE) # Flags(FALSE)
    BY DEF Flags
  <2> QED
    BY <2>1, <2>2, <2>3, Zenon
<1> QED
  BY <1>3, <1>4

(* After an iretq the contexts of the activations that are left are        *)
(* described as before.                                                    *)
LEMMA IretqViews ==
  ASSUME IInv, Iretq, NEW k \in 0 .. Len(acts) - 1
  PROVE  /\ acts' \in Seq(Activation) /\ Len(acts') = Len(acts) - 1
         /\ k \in 1 .. Len(acts) => acts'[k] = acts[k]
         /\ PcOf(k)' = PcOf(k) /\ RegsOf(k)' = RegsOf(k)
         /\ StkOf(k)' = StkOf(k) /\ IrqOf(k)' = IrqOf(k)
<1>1. pc[1] = "iretq" /\ pc[1] # "main"
  BY DEF Iretq, At
<1>2. /\ acts \in Seq(Activation) /\ Len(acts) \in Nat /\ Len(acts) >= 1
  BY <1>1, InStub DEF IInv, Types
<1>3. acts' = SubSeq(acts, 1, Len(acts) - 1)
  BY DEF Iretq
<1>4. /\ acts' \in Seq(Activation) /\ Len(acts') = Len(acts) - 1
      /\ \A j \in 1 .. Len(acts) - 1 : acts'[j] = acts[j]
  <2>1. Len(acts) - 1 \in 0 .. Len(acts)
    BY <1>2
  <2> QED
    BY <1>2, <1>3, <2>1, PopFacts
<1>5. CASE k = Len(acts) - 1
  <2>1. k = Len(acts') /\ k # Len(acts) /\ k + 1 = Len(acts)
    BY <1>2, <1>4, <1>5
  <2>2. /\ PcOf(k)' = pc' /\ RegsOf(k)' = regs' /\ StkOf(k)' = stack' /\ IrqOf(k)' = irqOn'
    BY <2>1 DEF PcOf, RegsOf, StkOf, IrqOf
  <2>3. /\ PcOf(k) = Last.pc /\ RegsOf(k) = Last.regs /\ StkOf(k) = Last.stk
        /\ IrqOf(k) = Last.irqOn
    BY <2>1 DEF PcOf, RegsOf, StkOf, IrqOf, Last
  <2> QED
    BY <1>2, <1>4, <2>2, <2>3, IretqRestores
<1>6. CASE k # Len(acts) - 1
  <2>1. /\ k # Len(acts') /\ k # Len(acts) /\ k + 1 \in 1 .. Len(acts) - 1
    BY <1>2, <1>4, <1>6
  <2>2. acts'[k + 1] = acts[k + 1]
    BY <1>4, <2>1
  <2>3. /\ PcOf(k)' = PcOf(k) /\ RegsOf(k)' = RegsOf(k)
        /\ StkOf(k)' = StkOf(k) /\ IrqOf(k)' = IrqOf(k)
    BY <2>1, <2>2 DEF PcOf, RegsOf, StkOf, IrqOf
  <2> QED
    BY <1>2, <1>4, <2>1, <2>3
<1> QED
  BY <1>5, <1>6

(* The return keeps the invariant.                                         *)
LEMMA IretqInv == ASSUME IInv, Iretq PROVE IInv'
<1>1. pc[1] = "iretq" /\ pc[1] # "main"
  BY DEF Iretq, At
<1>2. /\ Last \in Activation /\ Len(acts) \in Nat /\ Len(acts) >= 1 /\ Len(acts) <= MaxActs
  BY <1>1, InStub DEF IInv, Types
<1>3. /\ acts' \in Seq(Activation) /\ Len(acts') = Len(acts) - 1
  <2>1. 0 \in 0 .. Len(acts) - 1
    BY <1>2
  <2> QED
    BY <2>1, IretqViews
<1>4. Types'
  <2>1. /\ pc' \in Locations \X (0 .. 255) /\ regs' \in [Gprs -> Word]
        /\ stack' \in Seq(Word)
    BY <1>2, IretqRestores DEF Activation
  <2>2. irqOn' \in BOOLEAN /\ nmiBlocked' \in BOOLEAN
    <3>1. Last.irqOn \in BOOLEAN
      BY <1>2 DEF Activation
    <3>2. nmiBlocked' = FALSE
      BY DEF Iretq
    <3> QED
      BY <3>1, <3>2, IretqRestores, Zenon
  <2>3. /\ cr2' \in Word /\ inService' \subseteq IrqVectors /\ work' \in {0, 1}
    BY DEF Iretq, IInv, Types
  <2>4. Len(acts') <= MaxActs
    BY <1>2, <1>3, ActsAssumption
  <2> QED
    BY <1>3, <2>1, <2>2, <2>3, <2>4 DEF Types
<1>5. ASSUME NEW k \in 1 .. Len(acts')
      PROVE  Shape(acts'[k], PcOf(k)', RegsOf(k)', StkOf(k)', IrqOf(k)', cr2')
  <2>1. k \in 0 .. Len(acts) - 1 /\ k \in 1 .. Len(acts)
    BY <1>2, <1>3
  <2>2. Shape(acts[k], PcOf(k), RegsOf(k), StkOf(k), IrqOf(k), cr2)
    BY <2>1 DEF IInv
  <2>3. cr2' = cr2
    BY DEF Iretq
  <2>4. /\ acts'[k] = acts[k] /\ PcOf(k)' = PcOf(k) /\ RegsOf(k)' = RegsOf(k)
        /\ StkOf(k)' = StkOf(k) /\ IrqOf(k)' = IrqOf(k)
    BY <2>1, IretqViews
  <2> QED
    BY <2>2, <2>3, <2>4
<1>6. PcOf(0)' \in {"main"} \X {0, 1}
  <2>1. 0 \in 0 .. Len(acts) - 1
    BY <1>2
  <2> QED
    BY <2>1, IretqViews DEF IInv
<1> QED
  BY <1>4, <1>5, <1>6 DEF IInv

-----------------------------------------------------------------------------
(* A delivery.                                                             *)

(* The alignment of rsp.                                                   *)
LEMMA AlignedFacts ==
  ASSUME stack \in Seq(Word)
  PROVE  /\ Aligned \in Seq(Word) /\ Len(Aligned) = Len(stack) + (Len(stack) % 2)
         /\ \A n \in 1 .. Len(Aligned) :
              Aligned[n] = IF n <= Len(stack) THEN stack[n] ELSE <<"pad", 0>>
<1>1. <<"pad", 0>> \in Word /\ Len(stack) \in Nat
  BY DEF Word
<1>2. CASE Len(stack) % 2 = 0
  <2>1. Aligned = stack
    BY <1>2 DEF Aligned
  <2> QED
    BY <1>1, <1>2, <2>1
<1>3. CASE Len(stack) % 2 # 0
  <2>1. Aligned = Append(stack, <<"pad", 0>>) /\ Len(stack) % 2 = 1
    BY <1>1, <1>3 DEF Aligned
  <2>2. /\ Aligned \in Seq(Word) /\ Len(Aligned) = Len(stack) + 1
        /\ \A n \in 1 .. Len(stack) : Aligned[n] = stack[n]
        /\ Aligned[Len(stack) + 1] = <<"pad", 0>>
    BY <1>1, <2>1, PushFacts
  <2> QED
    BY <1>1, <2>1, <2>2
<1> QED
  BY <1>2, <1>3

(* The words the CPU pushes.                                               *)
CpuFrame(a) ==
  <<<<"ss", 16>>, <<"rsp", a.rsp>>, Flags(a.irqOn), <<"cs", 8>>, a.pc>>

(* They are words.                                                         *)
LEMMA CpuFrameFacts ==
  ASSUME NEW a \in Activation
  PROVE  /\ CpuFrame(a) \in Seq(Word) /\ Len(CpuFrame(a)) = 5
         /\ \A j \in 1 .. 5 : \A c : WordAt(a, c, Base(a) + j) = CpuFrame(a)[j]
<1>1. /\ <<"ss", 16>> \in Word /\ <<"cs", 8>> \in Word
      /\ <<"rflags", 0>> \in Word /\ <<"rflags", 1>> \in Word
  BY DEF Word
<1>2. <<"rsp", a.rsp>> \in Word
  BY Places DEF Word
<1>3. Flags(a.irqOn) \in Word
  BY <1>1 DEF Flags
<1>4. a.pc \in Word
  <2>1. a.pc \in Locations \X (0 .. 255) /\ 0 .. 255 \subseteq Nat
    BY DEF Activation
  <2> QED
    BY <2>1 DEF Word
<1>5. CpuFrame(a) \in Seq(Word) /\ Len(CpuFrame(a)) = 5
  BY <1>1, <1>2, <1>3, <1>4 DEF CpuFrame
<1>6. ASSUME NEW j \in 1 .. 5, NEW c PROVE WordAt(a, c, Base(a) + j) = CpuFrame(a)[j]
  <2> DEFINE n == Base(a) + j
             g == <<<<"ss", 16>>, <<"rsp", a.rsp>>, Flags(a.irqOn), <<"cs", 8>>, a.pc,
                    <<"err", 1>>>>
  <2>1. ~(n <= a.rsp) /\ ~(n <= Base(a)) /\ n <= CpuTop(a) /\ n - Base(a) = j
    BY Places
  <2>2. g[1] = CpuFrame(a)[1] /\ g[2] = CpuFrame(a)[2] /\ g[3] = CpuFrame(a)[3]
        /\ g[4] = CpuFrame(a)[4] /\ g[5] = CpuFrame(a)[5]
    BY DEF CpuFrame
  <2>3. g[j] = CpuFrame(a)[j]
    BY <2>2
  <2> HIDE DEF n
  <2>4. WordAt(a, c, n) = g[n - Base(a)]
    BY <2>1 DEF WordAt
  <2> QED
    BY <2>1, <2>3, <2>4 DEF n
<1> QED
  BY <1>5, <1>6

(* The stack at the first instruction of the new activation's stub.        *)
LEMMA DeliverWords ==
  ASSUME NEW a \in Activation, NEW c, NEW h \in Seq(Word),
         stack \in Seq(Word), a.stk = stack, a.rsp = Len(stack),
         CpuTop(a) = Base(a) + 5 + Len(h), Len(h) \in {0, 1},
         Len(h) = 1 => h[1] = <<"err", 1>>
  PROVE  /\ (Aligned \o CpuFrame(a)) \o h \in Seq(Word)
         /\ Len((Aligned \o CpuFrame(a)) \o h) = CpuTop(a)
         /\ Words(a, (Aligned \o CpuFrame(a)) \o h, c)
<1>1. /\ Base(a) \in Nat /\ a.rsp \in Nat /\ a.rsp <= Base(a)
      /\ CpuTop(a) \in Nat /\ VectorAt(a) > CpuTop(a) /\ VectorAt(a) \in Nat
  BY Places
<1>2. Base(a) = Len(stack) + (Len(stack) % 2)
  BY DEF Base
<1>3. /\ Aligned \in Seq(Word) /\ Len(Aligned) = Base(a)
      /\ \A n \in 1 .. Base(a) : Aligned[n] = WordAt(a, c, n)
  <2>1. Aligned \in Seq(Word) /\ Len(Aligned) = Base(a)
    BY <1>2, AlignedFacts
  <2>2. ASSUME NEW n \in 1 .. Base(a) PROVE Aligned[n] = WordAt(a, c, n)
    <3>1. Aligned[n] = IF n <= a.rsp THEN stack[n] ELSE <<"pad", 0>>
      BY <2>1, AlignedFacts
    <3> QED
      BY <1>1, <3>1 DEF WordAt
  <2> QED
    BY <2>1, <2>2
<1> DEFINE f == CpuFrame(a)
           u == Aligned \o f
           t == u \o h
<1>4. /\ f \in Seq(Word) /\ Len(f) = 5
      /\ \A j \in 1 .. 5 : f[j] = WordAt(a, c, Base(a) + j)
  BY CpuFrameFacts
<1> HIDE DEF f
<1>6. /\ u \in Seq(Word) /\ Len(u) = Len(Aligned) + Len(f)
      /\ \A n \in 1 .. Len(Aligned) + Len(f) :
           u[n] = IF n <= Len(Aligned) THEN Aligned[n] ELSE f[n - Len(Aligned)]
  <2>1. Aligned \in Seq(Word) /\ f \in Seq(Word)
    BY <1>3, <1>4
  <2> QED
    BY <2>1, ConcatProperties
<1> HIDE DEF u
<1>7. /\ t \in Seq(Word) /\ Len(t) = Len(u) + Len(h)
      /\ \A n \in 1 .. Len(u) + Len(h) :
           t[n] = IF n <= Len(u) THEN u[n] ELSE h[n - Len(u)]
  BY <1>6, ConcatProperties
<1> HIDE DEF t
<1>8. Len(u) = Base(a) + 5 /\ Len(t) = CpuTop(a) /\ Len(t) = Len(u) + Len(h)
  BY <1>3, <1>4, <1>6, <1>7
<1>9. ASSUME NEW n \in 1 .. Len(t) PROVE t[n] = WordAt(a, c, n)
  <2>1. CASE n <= Base(a)
    <3>1. n <= Len(u) /\ n <= Len(Aligned) /\ n \in 1 .. Base(a)
          /\ n \in 1 .. Len(Aligned) + Len(f)
      BY <1>1, <1>3, <1>4, <1>8, <2>1
    <3>2. t[n] = Aligned[n]
      BY <1>6, <1>7, <1>8, <3>1
    <3> QED
      BY <1>3, <3>1, <3>2
  <2>2. CASE n > Base(a) /\ n <= Base(a) + 5
    <3>1. PICK j \in 1 .. 5 : n = Base(a) + j
      <4>1. n - Base(a) \in 1 .. 5 /\ n = Base(a) + (n - Base(a))
        BY SMTT(20), <1>1, <2>2
      <4> QED
        BY <4>1
    <3>2. n <= Len(u) /\ ~(n <= Len(Aligned)) /\ n - Len(Aligned) = j
          /\ n \in 1 .. Len(Aligned) + Len(f)
      BY SMTT(20), <1>1, <1>3, <1>4, <1>8, <2>2, <3>1
    <3>3. t[n] = f[j]
      BY <1>6, <1>7, <1>8, <3>2
    <3> QED
      BY <1>4, <3>1, <3>3
  <2>3. CASE n > Base(a) + 5
    <3>0. Len(h) = 1 /\ n = Base(a) + 6 /\ n <= CpuTop(a)
      <4>1. n \in Nat /\ n <= CpuTop(a)
        BY <1>1, <1>8
      <4>2. CpuTop(a) = (Base(a) + 5) + Len(h)
        BY <1>8
      <4>3. Len(h) = 1
        BY <1>1, <2>3, <4>1, <4>2
      <4> QED
        BY <1>1, <2>3, <4>1, <4>2, <4>3
    <3>1. /\ ~(n <= Len(u)) /\ n - Len(u) = 1 /\ n \in 1 .. Len(u) + Len(h)
          /\ n - Base(a) = 6 /\ ~(n <= Base(a)) /\ ~(n <= a.rsp)
      BY <1>1, <1>8, <3>0
    <3>2. t[n] = <<"err", 1>>
      BY <1>7, <3>0, <3>1
    <3>3. WordAt(a, c, n) = <<"err", 1>>
      BY SMTT(20), <3>0, <3>1 DEF WordAt
    <3> QED
      BY <3>2, <3>3
  <2> QED
    BY <1>1, <1>8, <2>1, <2>2, <2>3
<1> QED
  BY <1>7, <1>8, <1>9 DEF Words, t, u, f

(* The activation a delivery begins.                                       *)
Begun(v, e) ==
  [pc |-> pc, regs |-> regs, rsp |-> Len(stack), stk |-> stack,
   irqOn |-> irqOn, vec |-> v, errPushed |-> e]

(* It has the types of an activation.                                      *)
LEMMA BegunType ==
  ASSUME Types, NEW v \in 0 .. 255, NEW e \in BOOLEAN
  PROVE  Begun(v, e) \in Activation
<1>1. /\ pc \in Locations \X (0 .. 255) /\ regs \in [Gprs -> Word] /\ Len(stack) \in Nat
      /\ stack \in Seq(Word)
  BY DEF Types
<1>2. irqOn \in BOOLEAN
  BY DEF Types
<1> QED
  BY <1>1, <1>2 DEF Begun, Activation

(* A delivery changes no description of what was there before.             *)
LEMMA DeliverViews ==
  ASSUME acts \in Seq(Activation), NEW b \in Activation, acts' = Append(acts, b),
         b.pc = pc, b.regs = regs, b.stk = stack, b.irqOn = irqOn,
         NEW k \in 0 .. Len(acts)
  PROVE  /\ acts' \in Seq(Activation) /\ Len(acts') = Len(acts) + 1
         /\ k \in 1 .. Len(acts) => acts'[k] = acts[k]
         /\ PcOf(k)' = PcOf(k) /\ RegsOf(k)' = RegsOf(k)
         /\ StkOf(k)' = StkOf(k) /\ IrqOf(k)' = IrqOf(k)
<1>1. /\ acts' \in Seq(Activation) /\ Len(acts') = Len(acts) + 1 /\ Len(acts) \in Nat
      /\ \A j \in 1 .. Len(acts) : acts'[j] = acts[j]
      /\ acts'[Len(acts) + 1] = b
  BY PushFacts
<1>2. k # Len(acts')
  BY <1>1
<1>3. /\ PcOf(k)' = acts'[k + 1].pc /\ RegsOf(k)' = acts'[k + 1].regs
      /\ StkOf(k)' = acts'[k + 1].stk /\ IrqOf(k)' = acts'[k + 1].irqOn
  BY <1>2 DEF PcOf, RegsOf, StkOf, IrqOf
<1>4. CASE k = Len(acts)
  <2>1. acts'[k + 1] = b
    BY <1>1, <1>4
  <2>2. PcOf(k) = pc /\ RegsOf(k) = regs /\ StkOf(k) = stack /\ IrqOf(k) = irqOn
    BY <1>4 DEF PcOf, RegsOf, StkOf, IrqOf
  <2> QED
    BY <1>1, <1>3, <2>1, <2>2
<1>5. CASE k # Len(acts)
  <2>1. k + 1 \in 1 .. Len(acts)
    BY <1>1, <1>5
  <2>2. acts'[k + 1] = acts[k + 1]
    BY <1>1, <2>1
  <2>3. /\ PcOf(k) = acts[k + 1].pc /\ RegsOf(k) = acts[k + 1].regs
        /\ StkOf(k) = acts[k + 1].stk /\ IrqOf(k) = acts[k + 1].irqOn
    BY <1>5 DEF PcOf, RegsOf, StkOf, IrqOf
  <2> QED
    BY <1>1, <1>3, <2>2, <2>3
<1> QED
  BY <1>4, <1>5

(* A delivery keeps the invariant, whatever the vector.                    *)
LEMMA DeliverInv ==
  ASSUME IInv, NEW v \in 0 .. 255, NEW e \in BOOLEAN, Deliver(v, e),
         e => v \in CpuPushesErr, cr2' \in Word, cr2' = cr2 \/ Len(acts) = 0,
         nmiBlocked' \in BOOLEAN, inService' \subseteq IrqVectors
  PROVE  IInv'
<1> DEFINE b == Begun(v, e)
           h == IF e THEN <<<<"err", 1>>>> ELSE <<>>
<1>1. Types
  BY DEF IInv
<1>2. /\ Len(acts) < MaxActs /\ acts' = Append(acts, b) /\ pc' = <<"isr_cli", v>>
      /\ regs' = regs /\ work' = work
  BY DEF Deliver, Begun
<1>3. irqOn' = (irqOn /\ v < 32)
  BY DEF Deliver
<1>4. stack' = (Aligned \o CpuFrame(b)) \o h
  BY DEF Deliver, Begun, CpuFrame
<1>5. /\ b \in Activation /\ b.pc = pc /\ b.regs = regs /\ b.stk = stack
      /\ b.rsp = Len(stack) /\ b.vec = v
  BY <1>1, BegunType DEF Begun
<1>6. b.irqOn = irqOn /\ b.errPushed = e
  BY DEF Begun
<1> HIDE DEF b
<1>7. acts \in Seq(Activation) /\ Len(acts) \in Nat /\ Len(acts) <= MaxActs
  BY <1>1 DEF Types
<1>8. \A k \in 0 .. Len(acts) :
         /\ acts' \in Seq(Activation) /\ Len(acts') = Len(acts) + 1
         /\ k \in 1 .. Len(acts) => acts'[k] = acts[k]
         /\ PcOf(k)' = PcOf(k) /\ RegsOf(k)' = RegsOf(k)
         /\ StkOf(k)' = StkOf(k) /\ IrqOf(k)' = IrqOf(k)
  BY <1>2, <1>5, <1>6, <1>7, DeliverViews
<1>9. 0 \in 0 .. Len(acts) /\ acts' \in Seq(Activation) /\ Len(acts') = Len(acts) + 1
  BY <1>7, <1>8
<1>10. acts'[Len(acts) + 1] = b
  BY <1>2, <1>5, <1>7, PushFacts
<1>11. /\ stack' \in Seq(Word) /\ Len(stack') = CpuTop(b) /\ Words(b, stack', cr2')
  <2>1. <<"err", 1>> \in Word
    BY DEF Word
  <2>2. CASE e
    <3>1. h = <<<<"err", 1>>>>
      BY <2>2
    <3>2. h \in Seq(Word) /\ Len(h) = 1 /\ h[1] = <<"err", 1>>
      BY <2>1, <3>1
    <3>3. CpuTop(b) = Base(b) + 5 + Len(h)
      <4>1. CpuTop(b) = Base(b) + 6 /\ Base(b) \in Nat
        BY <1>5, <1>6, <2>2, Places DEF CpuTop
      <4> QED
        BY <3>2, <4>1
    <3> HIDE DEF h
    <3>4. stack \in Seq(Word) /\ b.stk = stack /\ b.rsp = Len(stack) /\ b \in Activation
      BY <1>1, <1>5 DEF Types
    <3>5. /\ (Aligned \o CpuFrame(b)) \o h \in Seq(Word)
          /\ Len((Aligned \o CpuFrame(b)) \o h) = CpuTop(b)
          /\ Words(b, (Aligned \o CpuFrame(b)) \o h, cr2')
      BY <3>2, <3>3, <3>4, DeliverWords
    <3> QED
      BY <1>4, <3>5
  <2>3. CASE ~e
    <3>1. h = <<>>
      BY <2>3
    <3>2. h \in Seq(Word) /\ Len(h) = 0 /\ Len(h) \in {0, 1} /\ Len(h) # 1
      BY <3>1
    <3>3. CpuTop(b) = Base(b) + 5 + Len(h)
      <4>1. CpuTop(b) = Base(b) + 5 /\ Base(b) \in Nat
        BY <1>5, <1>6, <2>3, Places DEF CpuTop
      <4> QED
        BY <3>2, <4>1
    <3> HIDE DEF h
    <3>4. stack \in Seq(Word) /\ b.stk = stack /\ b.rsp = Len(stack) /\ b \in Activation
      BY <1>1, <1>5 DEF Types
    <3>5. /\ (Aligned \o CpuFrame(b)) \o h \in Seq(Word)
          /\ Len((Aligned \o CpuFrame(b)) \o h) = CpuTop(b)
          /\ Words(b, (Aligned \o CpuFrame(b)) \o h, cr2')
      BY <3>2, <3>3, <3>4, DeliverWords
    <3> QED
      BY <1>4, <3>5
  <2> QED
    BY <2>2, <2>3
<1>12. Types'
  <2>1. irqOn' \in BOOLEAN
    BY <1>1, <1>3, Zenon DEF Types
  <2>2. pc' \in Locations \X (0 .. 255)
    BY <1>2 DEF Locations
  <2>3. Len(acts') <= MaxActs
    BY <1>2, <1>7, <1>9, ActsAssumption
  <2>4. regs' \in [Gprs -> Word] /\ work' \in {0, 1}
    BY <1>1, <1>2 DEF Types
  <2> QED
    BY <1>9, <1>11, <2>1, <2>2, <2>3, <2>4 DEF Types
<1>13. Shape(b, pc', regs', stack', irqOn', cr2')
  <2>1. Progress(b, pc', stack')
    BY <1>2, <1>5, <1>11 DEF Progress
  <2>2. Intact(b, pc', regs')
    <3>1. {g \in Gprs : regs'[g] = b.regs[g]} = Gprs
      BY <1>2, <1>5
    <3> QED
      BY <1>2, <3>1 DEF Intact
  <2>3. b.rsp = Len(b.stk)
    BY <1>5
  <2>4. b.errPushed => b.vec \in CpuPushesErr
    BY <1>5, <1>6
  <2>5. irqOn' => pc'[1] = "isr_cli" /\ b.vec < 32
    BY <1>2, <1>3, <1>5
  <2> QED
    BY <1>11, <2>1, <2>2, <2>3, <2>4, <2>5 DEF Shape
<1>14. ASSUME NEW k \in 1 .. Len(acts')
       PROVE  Shape(acts'[k], PcOf(k)', RegsOf(k)', StkOf(k)', IrqOf(k)', cr2')
  <2>1. CASE k = Len(acts')
    <3>1. acts'[k] = b
      BY <1>9, <1>10, <2>1
    <3>2. PcOf(k)' = pc' /\ RegsOf(k)' = regs' /\ StkOf(k)' = stack' /\ IrqOf(k)' = irqOn'
      BY <2>1 DEF PcOf, RegsOf, StkOf, IrqOf
    <3> QED
      BY <1>13, <3>1, <3>2
  <2>2. CASE k # Len(acts')
    <3>1. k \in 0 .. Len(acts) /\ k \in 1 .. Len(acts) /\ Len(acts) # 0
      BY <1>7, <1>9, <2>2
    <3>2. Shape(acts[k], PcOf(k), RegsOf(k), StkOf(k), IrqOf(k), cr2)
      BY <3>1 DEF IInv
    <3>3. /\ acts'[k] = acts[k] /\ PcOf(k)' = PcOf(k) /\ RegsOf(k)' = RegsOf(k)
          /\ StkOf(k)' = StkOf(k) /\ IrqOf(k)' = IrqOf(k) /\ cr2' = cr2
      BY <1>8, <3>1
    <3> QED
      BY <3>2, <3>3
  <2> QED
    BY <2>1, <2>2
<1>15. PcOf(0)' \in {"main"} \X {0, 1}
  BY <1>8, <1>9 DEF IInv
<1> QED
  BY <1>12, <1>14, <1>15 DEF IInv

-----------------------------------------------------------------------------
(* The invariant.                                                          *)

(* In the interrupted program nothing is being served.                     *)
LEMMA InMainFacts ==
  ASSUME IInv, InMain
  PROVE  Len(acts) = 0 /\ acts = <<>> /\ pc \in {"main"} \X {0, 1}
<1>1. acts \in Seq(Activation) /\ Len(acts) \in Nat /\ pc[1] = "main"
  BY DEF IInv, Types, InMain
<1>2. CASE Len(acts) # 0
  <2>1. Len(acts) \in 1 .. Len(acts)
    BY <1>1, <1>2
  <2>2. Shape(acts[Len(acts)], PcOf(Len(acts)), RegsOf(Len(acts)), StkOf(Len(acts)),
              IrqOf(Len(acts)), cr2)
    BY <2>1 DEF IInv
  <2>3. Progress(acts[Len(acts)], pc, StkOf(Len(acts)))
    BY <2>2 DEF Shape, PcOf
  <2> QED
    BY <1>1, <2>3 DEF Progress
<1>3. CASE Len(acts) = 0
  <2>1. acts = <<>>
    BY <1>1, <1>3, EmptySeq
  <2>2. pc \in {"main"} \X {0, 1}
    BY <1>3 DEF IInv, PcOf
  <2> QED
    BY <1>3, <2>1, <2>2
<1> QED
  BY <1>2, <1>3

(* A step of the interrupted program.                                      *)
LEMMA MainStepInv == ASSUME IInv, MainStep PROVE IInv'
<1>1. Len(acts) = 0 /\ pc \in {"main"} \X {0, 1}
  BY InMainFacts DEF MainStep
<1>2. /\ pc' = <<"main", 1 - pc[2]>> /\ work' = 1 - work
      /\ regs' \in RegFiles /\ stack' \in Locals
      /\ UNCHANGED <<cr2, nmiBlocked, inService, acts>>
  BY DEF MainStep
<1>3. irqOn' \in BOOLEAN
  BY DEF MainStep
<1>4. pc' \in {"main"} \X {0, 1} /\ pc' \in Locations \X (0 .. 255)
  <2>1. PICK n \in {0, 1} : pc = <<"main", n>>
    BY <1>1
  <2>2. pc' = <<"main", 1 - n>> /\ 1 - n \in {0, 1} /\ 1 - n \in 0 .. 255
    BY <1>2, <2>1
  <2> QED
    BY <2>2 DEF Locations
<1>5. regs' \in [Gprs -> Word] /\ stack' \in Seq(Word)
  <2>1. Data \subseteq Word
    BY DEF Word
  <2>2. regs' \in [Gprs -> Data] /\ stack' \in Seq(Data)
    BY <1>2, ContentsAssumption
  <2>3. stack' \in Seq(Word)
    BY <2>1, <2>2, SeqMonotonic
  <2> QED
    BY <2>1, <2>2, <2>3
<1>6. work' \in {0, 1}
  BY <1>2 DEF IInv, Types
<1>7. Types'
  BY <1>2, <1>3, <1>4, <1>5, <1>6 DEF IInv, Types
<1>8. PcOf(0)' = pc' /\ Len(acts') = 0
  BY <1>1, <1>2 DEF PcOf
<1>9. \A k \in 1 .. Len(acts') : FALSE
  BY <1>8
<1> QED
  BY <1>4, <1>7, <1>8, <1>9 DEF IInv

(* Interrupts, NMIs and faults.                                            *)
LEMMA NmiInv == ASSUME IInv, Nmi PROVE IInv'
<1>1. NMI \in 0 .. 255
  BY DEF NMI
<1>2. Deliver(NMI, FALSE) /\ UNCHANGED <<cr2, inService>> /\ nmiBlocked' = TRUE
  BY DEF Nmi
<1>3. cr2 \in Word /\ inService \subseteq IrqVectors
  BY DEF IInv, Types
<1> QED
  BY <1>1, <1>2, <1>3, DeliverInv

(* A vector from the controller.                                           *)
LEMMA IrqInv == ASSUME IInv, NEW v \in IrqVectors, Irq(v) PROVE IInv'
<1>1. v \in 0 .. 255
  BY VectorsAssumption
<1>2. Deliver(v, FALSE) /\ UNCHANGED <<cr2, nmiBlocked>> /\ inService' = inService \cup {v}
  BY DEF Irq
<1>3. cr2 \in Word /\ inService \subseteq IrqVectors /\ nmiBlocked \in BOOLEAN
  BY DEF IInv, Types
<1> QED
  BY <1>1, <1>2, <1>3, DeliverInv

(* A fault of the interrupted program.                                     *)
LEMMA ExceptionInv == ASSUME IInv, NEW v \in Exceptions, Exception(v) PROVE IInv'
<1>1. v \in 0 .. 255
  BY VectorsAssumption
<1>2. /\ Deliver(v, v \in CpuPushesErr) /\ UNCHANGED <<nmiBlocked, inService>>
      /\ cr2' = IF v = PageFault THEN <<"cr2", 1>> ELSE cr2
      /\ InMain
  BY DEF Exception
<1>3. cr2 \in Word /\ inService \subseteq IrqVectors /\ nmiBlocked \in BOOLEAN
  BY DEF IInv, Types
<1>4. cr2' \in Word
  <2>1. <<"cr2", 1>> \in Word
    BY DEF Word
  <2> QED
    BY <1>2, <1>3, <2>1
<1>5. Len(acts) = 0
  BY <1>2, InMainFacts
<1>6. (v \in CpuPushesErr) \in BOOLEAN
  OBVIOUS
<1> QED
  BY <1>1, <1>2, <1>3, <1>4, <1>5, <1>6, DeliverInv, Zenon

(* The interrupted program as it begins.                                   *)
LEMMA InitInv == Init => IInv
<1> SUFFICES ASSUME Init PROVE IInv
  OBVIOUS
<1>1. acts = <<>> /\ Len(acts) = 0 /\ acts \in Seq(Activation)
  BY DEF Init
<1>2. regs \in [Gprs -> Word] /\ stack \in Seq(Word)
  <2>1. Data \subseteq Word
    BY DEF Word
  <2>2. regs \in [Gprs -> Data] /\ stack \in Seq(Data)
    BY ContentsAssumption DEF Init
  <2>3. stack \in Seq(Word)
    BY <2>1, <2>2, SeqMonotonic
  <2> QED
    BY <2>1, <2>2, <2>3
<1>3. pc \in {"main"} \X {0, 1} /\ pc \in Locations \X (0 .. 255)
  BY DEF Init, Locations
<1>4. irqOn \in BOOLEAN /\ nmiBlocked \in BOOLEAN
  BY Zenon DEF Init
<1>5. cr2 \in Word /\ inService \subseteq IrqVectors /\ work \in {0, 1} /\ Len(acts) <= MaxActs
  BY <1>1, ActsAssumption DEF Init, Word
<1>6. Types
  BY <1>1, <1>2, <1>3, <1>4, <1>5 DEF Types
<1>7. PcOf(0) = pc
  BY <1>1 DEF PcOf
<1>8. \A k \in 1 .. Len(acts) : FALSE
  BY <1>1
<1> QED
  BY <1>3, <1>6, <1>7, <1>8 DEF IInv

(* Every action of the specification.                                      *)
LEMMA NextInv == IInv /\ [Next]_vars => IInv'
<1> SUFFICES ASSUME IInv, [Next]_vars PROVE IInv'
  OBVIOUS
<1>1. CASE MainStep
  BY <1>1, MainStepInv
<1>2. CASE Stub
  BY <1>2, IsrCliInv, IsrPushErrInv, IsrPushVectorInv, SaveRbpInv, PushaqInv, CallInv,
     ExcpHandlerInv, PopaqInv, AddRspInv, IretqInv DEF Stub
<1>3. CASE Nmi
  BY <1>3, NmiInv
<1>4. CASE \E v \in IrqVectors : Irq(v)
  BY <1>4, IrqInv
<1>5. CASE \E v \in Exceptions : Exception(v)
  BY <1>5, ExceptionInv
<1>6. CASE UNCHANGED vars
  BY <1>6 DEF vars, IInv, Types, PcOf, RegsOf, StkOf, IrqOf
<1> QED
  BY <1>1, <1>2, <1>3, <1>4, <1>5, <1>6 DEF Next

(* The inductive invariant holds throughout.                               *)
THEOREM Invariant == Spec => []IInv
BY InitInv, NextInv, PTL DEF Spec

-----------------------------------------------------------------------------
(* The properties.                                                         *)

(* Every variable keeps its type, and there is an activation exactly while *)
(* a stub runs (idt-stub.asm).                                             *)
THEOREM TypeCorrect == Spec => []TypeOK
<1>1. ASSUME IInv PROVE TypeOK
  <2>1. /\ pc[1] \in Locations /\ pc[2] \in 0 .. 255 /\ DOMAIN regs = Gprs
        /\ inService \subseteq IrqVectors /\ Len(acts) <= MaxActs /\ work \in {0, 1}
    BY <1>1 DEF IInv, Types
  <2>2. irqOn \in BOOLEAN /\ nmiBlocked \in BOOLEAN
    BY <1>1 DEF IInv, Types
  <2>3. InMain => acts = <<>>
    BY <1>1, InMainFacts
  <2>4. acts = <<>> => InMain
    BY <1>1 DEF IInv, PcOf, InMain
  <2> QED
    BY <2>1, <2>2, <2>3, <2>4 DEF TypeOK
<1> QED
  BY <1>1, Invariant, PTL

(* The words excp_handler finds below its return address.                  *)
LEMMA FrameInMemory ==
  ASSUME IInv, pc[1] = "excp_handler", NEW k \in 1 .. 18
  PROVE  Field(int_frame_t[k]) = Saved(Last, cr2, PushOrder[19 - k])
<1>1. Last \in Activation /\ Words(Last, stack, cr2)
  BY StubFacts
<1>2. Len(stack) = VectorAt(Last) + 19 /\ VectorAt(Last) \in Nat
  BY AtEach, LastPlaces
<1>3. Field(int_frame_t[k]) = stack[Len(stack) - k]
  <2>1. k \in 1 .. 25
    OBVIOUS
  <2> QED
    BY <2>1, FieldPlace
<1>4. /\ Len(stack) - k = VectorAt(Last) + (19 - k) /\ 19 - k \in 1 .. 18
      /\ Len(stack) - k \in 1 .. Len(stack)
  BY <1>2
<1>5. stack[Len(stack) - k] = WordAt(Last, cr2, Len(stack) - k)
  BY <1>1, <1>4 DEF Words
<1> QED
  BY <1>1, <1>3, <1>4, <1>5, WordAtFacts

(* int_frame_t lists in memory order what pushaq pushes.                   *)
LEMMA FrameOrder ==
  /\ \A k \in 1 .. 18 : int_frame_t[k] = PushOrder[19 - k]
  /\ int_frame_t[21] = "rip" /\ int_frame_t[22] = "cs" /\ int_frame_t[23] = "rflags"
  /\ int_frame_t[24] = "rsp" /\ int_frame_t[25] = "ss"
  /\ \A r \in Gprs : \E k \in 4 .. 18 : int_frame_t[k] = r
<1>1. /\ \A k \in 1 .. 18 : int_frame_t[k] = PushOrder[19 - k]
      /\ int_frame_t[21] = "rip" /\ int_frame_t[22] = "cs" /\ int_frame_t[23] = "rflags"
      /\ int_frame_t[24] = "rsp" /\ int_frame_t[25] = "ss"
  BY DEF int_frame_t, PushOrder
<1>2. \A r \in Gprs : \E k \in 4 .. 18 : int_frame_t[k] = r
  BY DEF int_frame_t, Gprs
<1> QED
  BY <1>1, <1>2

(* If the error code is there exactly when the stub expects it, the vector *)
(* is seven words above the base of the frame.                             *)
LEMMA AgreesPlace ==
  ASSUME NEW a \in Activation, a.errPushed = (a.vec \in IsrErr)
  PROVE  VectorAt(a) = Base(a) + 7
<1>1. Base(a) \in Nat
  BY Places
<1>2. CASE a.vec \in IsrErr
  <2>1. a.errPushed
    BY <1>2
  <2>2. CpuTop(a) = Base(a) + 6 /\ VectorAt(a) = CpuTop(a) + 1
    BY <1>2, <2>1 DEF CpuTop, VectorAt
  <2> QED
    BY <1>1, <2>2
<1>3. CASE a.vec \notin IsrErr
  <2>1. ~a.errPushed
    BY <1>3
  <2>2. CpuTop(a) = Base(a) + 5 /\ VectorAt(a) = CpuTop(a) + 2
    BY <1>3, <2>1 DEF CpuTop, VectorAt
  <2> QED
    BY <1>1, <2>2
<1> QED
  BY <1>2, <1>3

(* excp_handler reads in its int_frame_t what was interrupted, if the CPU  *)
(* pushed an error code exactly where isr_N counts on one; the vector is   *)
(* right in any case (idt-stub.asm, excp_handler).                         *)
THEOREM FrameIsFaithful == Spec => []FrameFaithful
<1>1. ASSUME IInv PROVE FrameFaithful
  <2> SUFFICES ASSUME pc[1] = "excp_handler"
               PROVE  /\ Field("vector") = <<"vector", Current.vec>>
                      /\ Agrees =>
                           /\ \A r \in Gprs : Field(r) = Current.regs[r]
                           /\ Field("rip") = Current.pc /\ Field("rsp") = <<"rsp", Current.rsp>>
                           /\ Field("rflags") = Flags(Current.irqOn)
                           /\ Field("cs") = <<"cs", 8>> /\ Field("ss") = <<"ss", 16>>
                           /\ Field("cr2") = cr2 /\ Field("cr3") = <<"cr3", 0>>
                           /\ Field("ds") = <<"ds", 0>>
    BY DEF FrameFaithful, At
  <2>1. Current = Last
    BY DEF Current, Last
  <2>2. Field("vector") = <<"vector", Last.vec>>
    BY <1>1, VectorField
  <2>3. \A k \in 1 .. 18 : Field(int_frame_t[k]) = Saved(Last, cr2, PushOrder[19 - k])
    BY <1>1, FrameInMemory
  <2>4. \A r \in Gprs : Field(r) = Last.regs[r]
    <3> TAKE r \in Gprs
    <3>1. PICK k \in 4 .. 18 : int_frame_t[k] = r
      BY FrameOrder
    <3>2. k \in 1 .. 18 /\ PushOrder[19 - k] = r
      BY <3>1, FrameOrder
    <3> QED
      BY <2>3, <3>1, <3>2 DEF Saved
  <2>5. Field("cr2") = cr2 /\ Field("cr3") = <<"cr3", 0>> /\ Field("ds") = <<"ds", 0>>
    <3>1. /\ int_frame_t[1] = "ds" /\ int_frame_t[2] = "cr2" /\ int_frame_t[3] = "cr3"
          /\ PushOrder[19 - 1] = "ds" /\ PushOrder[19 - 2] = "cr2" /\ PushOrder[19 - 3] = "cr3"
      BY DEF int_frame_t, PushOrder
    <3>2. "ds" \notin Gprs /\ "cr2" \notin Gprs /\ "cr3" \notin Gprs
      BY DEF Gprs
    <3>3. /\ Field(int_frame_t[1]) = Saved(Last, cr2, PushOrder[19 - 1])
          /\ Field(int_frame_t[2]) = Saved(Last, cr2, PushOrder[19 - 2])
          /\ Field(int_frame_t[3]) = Saved(Last, cr2, PushOrder[19 - 3])
      BY <2>3
    <3> QED
      BY <3>1, <3>2, <3>3 DEF Saved
  <2>6. ASSUME Agrees
        PROVE  /\ Field("rip") = Last.pc /\ Field("rsp") = <<"rsp", Last.rsp>>
               /\ Field("rflags") = Flags(Last.irqOn)
               /\ Field("cs") = <<"cs", 8>> /\ Field("ss") = <<"ss", 16>>
    <3>1. Last \in Activation /\ Words(Last, stack, cr2) /\ stack \in Seq(Word)
      BY <1>1, StubFacts
    <3>2. Base(Last) \in Nat /\ Len(stack) = VectorAt(Last) + 19
      BY <1>1, AtEach, LastPlaces
    <3>3. VectorAt(Last) = Base(Last) + 7
      BY <2>1, <2>6, <3>1, AgreesPlace DEF Agrees
    <3>4. /\ Len(stack) >= Base(Last) + 5
          /\ Len(stack) - 21 = Base(Last) + 5 /\ Len(stack) - 22 = Base(Last) + 4
          /\ Len(stack) - 23 = Base(Last) + 3 /\ Len(stack) - 24 = Base(Last) + 2
          /\ Len(stack) - 25 = Base(Last) + 1
      BY <3>2, <3>3
    <3>5. /\ Field(int_frame_t[21]) = stack[Len(stack) - 21]
          /\ Field(int_frame_t[22]) = stack[Len(stack) - 22]
          /\ Field(int_frame_t[23]) = stack[Len(stack) - 23]
          /\ Field(int_frame_t[24]) = stack[Len(stack) - 24]
          /\ Field(int_frame_t[25]) = stack[Len(stack) - 25]
      BY FieldPlace
    <3>6. /\ stack[Base(Last) + 1] = <<"ss", 16>> /\ stack[Base(Last) + 2] = <<"rsp", Last.rsp>>
          /\ stack[Base(Last) + 3] = Flags(Last.irqOn) /\ stack[Base(Last) + 4] = <<"cs", 8>>
          /\ stack[Base(Last) + 5] = Last.pc
      BY <3>1, <3>4, FrameWords
    <3>7. /\ int_frame_t[21] = "rip" /\ int_frame_t[22] = "cs" /\ int_frame_t[23] = "rflags"
          /\ int_frame_t[24] = "rsp" /\ int_frame_t[25] = "ss"
      BY FrameOrder
    <3>8. /\ stack[Len(stack) - 21] = Last.pc /\ stack[Len(stack) - 22] = <<"cs", 8>>
          /\ stack[Len(stack) - 23] = Flags(Last.irqOn)
          /\ stack[Len(stack) - 24] = <<"rsp", Last.rsp>>
          /\ stack[Len(stack) - 25] = <<"ss", 16>>
      BY <3>4, <3>6, Zenon
    <3> QED
      BY <3>5, <3>7, <3>8, Zenon
  <2> QED
    BY <2>1, <2>2, <2>4, <2>5, <2>6
<1> QED
  BY <1>1, Invariant, PTL

(* The iretq of a stub finds the frame the CPU pushed for its own          *)
(* activation, and the interrupted stack below it (idt-stub.asm).          *)
THEOREM ReturnIsAligned == Spec => []ReturnAligned
<1>1. ASSUME IInv PROVE ReturnAligned
  <2> SUFFICES ASSUME pc[1] = "iretq"
               PROVE  /\ Agrees
                      /\ Top = Current.pc
                      /\ stack[Len(stack) - 3] = <<"rsp", Current.rsp>>
                      /\ SubSeq(stack, 1, Current.rsp) = Current.stk
    BY DEF ReturnAligned, At
  <2>1. Current = Last
    BY DEF Current, Last
  <2>2. Agrees
    <3>1. Last.vec \notin IsrErr /\ ~Last.errPushed /\ Last.errPushed \in BOOLEAN
      BY <1>1, AtIretq, StubFacts DEF Activation
    <3>2. (Last.vec \in IsrErr) = FALSE
      BY <3>1
    <3>3. Last.errPushed = FALSE
      BY <3>1
    <3> QED
      BY <2>1, <3>2, <3>3, Zenon DEF Agrees
  <2> QED
    BY <1>1, <2>1, <2>2, AtIretq DEF Top
<1> QED
  BY <1>1, Invariant, PTL

(* An interrupt comes on top of another activation only before the cli of  *)
(* an exception's or an NMI's stub (idt-stub.asm, the gate types of        *)
(* idt.cpp).                                                               *)
THEOREM IrqsDoNotNest == Spec => []IrqNotNested
<1>1. ASSUME IInv PROVE IrqNotNested
  <2> SUFFICES ASSUME NEW k \in 2 .. Len(acts), acts[k].irqOn
               PROVE  acts[k].pc[1] = "isr_cli" /\ acts[k].pc[2] < 32
    BY DEF IrqNotNested
  <2>1. acts \in Seq(Activation) /\ Len(acts) \in Nat
    BY <1>1 DEF IInv, Types
  <2>2. k - 1 \in 1 .. Len(acts) /\ k - 1 # Len(acts) /\ (k - 1) + 1 = k
    BY <2>1
  <2>3. Shape(acts[k - 1], PcOf(k - 1), RegsOf(k - 1), StkOf(k - 1), IrqOf(k - 1), cr2)
    BY <1>1, <2>2 DEF IInv
  <2>4. PcOf(k - 1) = acts[k].pc /\ IrqOf(k - 1) = acts[k].irqOn
    BY <2>2 DEF PcOf, IrqOf
  <2>5. acts[k].pc[1] = "isr_cli" /\ acts[k - 1].vec < 32
    BY <2>3, <2>4 DEF Shape
  <2>6. Progress(acts[k - 1], acts[k].pc, StkOf(k - 1))
    BY <2>3, <2>4 DEF Shape
  <2>7. acts[k].pc[2] = acts[k - 1].vec
    BY <2>5, <2>6 DEF Progress
  <2> QED
    BY <2>5, <2>7
<1> QED
  BY <1>1, Invariant, PTL

-----------------------------------------------------------------------------
(* The refinement.                                                         *)

(* What the mapping takes for the program's state.                         *)
Program == <<PcOf(0), RegsOf(0), StkOf(0), IrqOf(0), work>>

(* The mapping is the description of the outermost context.                *)
LEMMA MappedIsOutermost ==
  ASSUME acts \in Seq(Activation)
  PROVE  /\ (IF acts = <<>> THEN pc ELSE acts[1].pc) = PcOf(0)
         /\ (IF acts = <<>> THEN regs ELSE acts[1].regs) = RegsOf(0)
         /\ (IF acts = <<>> THEN stack ELSE acts[1].stk) = StkOf(0)
         /\ (IF acts = <<>> THEN irqOn ELSE acts[1].irqOn) = IrqOf(0)
<1>1. acts = <<>> <=> 0 = Len(acts)
  BY EmptySeq
<1>2. 0 + 1 = 1
  OBVIOUS
<1> QED
  BY <1>1, <1>2, Zenon DEF PcOf, RegsOf, StkOf, IrqOf

(* A delivery is no step of the program.                                   *)
LEMMA DeliverIsStutter ==
  ASSUME IInv, NEW v \in 0 .. 255, NEW e \in BOOLEAN, Deliver(v, e)
  PROVE  UNCHANGED Program
<1> DEFINE b == Begun(v, e)
<1>1. acts \in Seq(Activation) /\ b \in Activation /\ 0 \in 0 .. Len(acts)
  <2>1. Types
    BY DEF IInv
  <2>2. b \in Activation
    BY <2>1, BegunType
  <2>3. acts \in Seq(Activation)
    BY <2>1 DEF Types
  <2>4. 0 \in 0 .. Len(acts)
    BY <2>3
  <2> QED
    BY <2>2, <2>3, <2>4
<1>2. /\ acts' = Append(acts, b) /\ work' = work
      /\ b.pc = pc /\ b.regs = regs /\ b.stk = stack
  BY DEF Deliver, Begun
<1>3. b.irqOn = irqOn
  BY DEF Begun
<1> HIDE DEF b
<1>4. /\ PcOf(0)' = PcOf(0) /\ RegsOf(0)' = RegsOf(0)
      /\ StkOf(0)' = StkOf(0) /\ IrqOf(0)' = IrqOf(0)
  BY <1>1, <1>2, <1>3, DeliverViews
<1> QED
  BY <1>2, <1>4 DEF Program

(* Nor is an instruction of a stub.                                        *)
LEMMA StubIsStutter ==
  ASSUME IInv, Stub
  PROVE  UNCHANGED Program
<1>1. pc[1] # "main"
  BY DEF Stub, IsrCli, IsrPushErr, IsrPushVector, SaveRbp, Pushaq, Call, ExcpHandler,
         Popaq, AddRsp, Iretq, At
<1>2. Len(acts) \in Nat /\ Len(acts) >= 1
  BY <1>1, InStub
<1>3. CASE Iretq
  <2>1. 0 \in 0 .. Len(acts) - 1 /\ work' = work
    BY <1>2, <1>3 DEF Iretq
  <2> QED
    BY <1>3, <2>1, IretqViews DEF Program
<1>4. CASE ~Iretq
  <2>1. UNCHANGED <<acts, work>>
    BY <1>4 DEF Stub, IsrCli, IsrPushErr, IsrPushVector, SaveRbp, Pushaq, Call, ExcpHandler,
                Popaq, AddRsp, Rest
  <2> QED
    BY <1>2, <2>1 DEF Program, PcOf, RegsOf, StkOf, IrqOf
<1> QED
  BY <1>3, <1>4

(* Every step is a step of the program or none of it.                      *)
LEMMA StepIsMainStep ==
  ASSUME IInv, [Next]_vars
  PROVE  [Main!Step]_(Main!vars)
<1>1. IInv'
  BY NextInv
<1>2. acts \in Seq(Activation) /\ acts' \in Seq(Activation)
  BY <1>1 DEF IInv, Types
<1>3. /\ (IF acts = <<>> THEN pc ELSE acts[1].pc)' = PcOf(0)'
      /\ (IF acts = <<>> THEN regs ELSE acts[1].regs)' = RegsOf(0)'
      /\ (IF acts = <<>> THEN stack ELSE acts[1].stk)' = StkOf(0)'
      /\ (IF acts = <<>> THEN irqOn ELSE acts[1].irqOn)' = IrqOf(0)'
  <2>1. acts' = <<>> <=> 0 = Len(acts')
    BY <1>2, EmptySeq
  <2>2. 0 + 1 = 1
    OBVIOUS
  <2> QED
    BY <2>1, <2>2, Zenon DEF PcOf, RegsOf, StkOf, IrqOf
<1>4. CASE UNCHANGED Program
  <2>1. UNCHANGED Main!vars
    BY <1>2, <1>3, <1>4, MappedIsOutermost DEF Main!vars, Program
  <2> QED
    BY <2>1
<1>5. CASE MainStep
  <2>1. Len(acts) = 0 /\ acts = <<>> /\ acts' = <<>>
    BY <1>5, InMainFacts DEF MainStep
  <2>2. Main!Step
    BY <1>5, <2>1, Zenon DEF Main!Step, MainStep
  <2> QED
    BY <2>2
<1>6. CASE Stub
  BY <1>4, <1>6, StubIsStutter
<1>7. CASE Nmi
  <2>1. Deliver(NMI, FALSE)
    BY <1>7 DEF Nmi
  <2>2. NMI \in 0 .. 255
    BY DEF NMI
  <2> QED
    BY <1>4, <2>1, <2>2, DeliverIsStutter
<1>8. CASE \E v \in IrqVectors : Irq(v)
  <2>1. PICK v \in 0 .. 255 : Deliver(v, FALSE)
    BY <1>8, VectorsAssumption DEF Irq
  <2> QED
    BY <1>4, <2>1, DeliverIsStutter
<1>9. CASE \E v \in Exceptions : Exception(v)
  <2>1. PICK v \in 0 .. 255 : Deliver(v, v \in CpuPushesErr)
    BY <1>9, VectorsAssumption DEF Exception
  <2>2. (v \in CpuPushesErr) \in BOOLEAN
    OBVIOUS
  <2>3. UNCHANGED Program
    BY <2>1, <2>2, DeliverIsStutter, Zenon
  <2> QED
    BY <1>4, <2>3
<1>10. CASE UNCHANGED vars
  BY <1>4, <1>10 DEF vars, Program, PcOf, RegsOf, StkOf, IrqOf
<1> QED
  BY <1>5, <1>6, <1>7, <1>8, <1>9, <1>10 DEF Next

(* The interrupted program runs as if there were no interrupts: the stubs, *)
(* however they nest and whatever they interrupt, implement MainProgram,   *)
(* whose only steps are the program's own (idt-stub.asm, excp_handler).    *)
THEOREM InterruptsAreTransparent == Spec => Transparent
<1>1. Init => Main!Init
  <2> SUFFICES ASSUME Init PROVE Main!Init
    OBVIOUS
  <2>1. acts = <<>>
    BY DEF Init
  <2> QED
    BY <2>1, Zenon DEF Init, Main!Init
<1>2. IInv /\ [Next]_vars => [Main!Step]_(Main!vars)
  BY StepIsMainStep
<1> QED
  BY <1>1, <1>2, Invariant, PTL DEF Spec, Transparent, Main!Spec

=============================================================================
