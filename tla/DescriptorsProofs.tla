-------------------------- MODULE DescriptorsProofs --------------------------
(* Proofs about module Descriptors, for every value of its constants.      *)
EXTENDS Descriptors, TLAPS

-----------------------------------------------------------------------------
(* The inductive invariant.                                                *)

(* The gate the loops set for a vector.                                    *)
GateOf(v) == idt_entry_t(isrTable[v], Int8(IF v < NumExceptions THEN 143 ELSE 142))

(* What gdt.cpp has done once init has left it, and reload too.            *)
GdtInv ==
  /\ pc # "GDT::init" =>
       gdt = Segments /\ gdtr = table_pointer_t(SizeofDescriptor * 5 - 1, GdtAddress)
  /\ pc \in {"IDT::init", "set_gate", "done"} => GDTR = TenBytes(gdtr)

(* The gates below the loop index are set, the pointer before all of them, *)
(* and the CPU's register behind them.                                     *)
IdtInv ==
  /\ isrTable \in [0 .. IdtEntries - 1 -> Word]
  /\ i \in 0 .. IdtEntries /\ DOMAIN idt = 0 .. IdtEntries - 1
  /\ pc \in {"set_gate", "done"} =>
       /\ idt_p = table_pointer_t(SizeofEntry * IdtEntries - 1, IdtAddress)
       /\ \A v \in 0 .. i - 1 : idt[v] = GateOf(v)
  /\ pc = "done" => i = IdtEntries /\ IDTR = TenBytes(idt_p)

IInv == GdtInv /\ IdtInv

-----------------------------------------------------------------------------
(* What the CPU makes of the bytes.                                        *)

(* A byte is its own remainder.                                            *)
LEMMA ByteMod ==
  ASSUME NEW x \in Nat, x <= 255
  PROVE  x % 256 = x
OBVIOUS

(* A pointer that is packed reads back as the limit and the base it was    *)
(* made of.                                                                *)
LEMMA PointerReadsBack ==
  ASSUME NEW limit \in Nat, limit <= 65535, NEW base \in Word
  PROVE  /\ Limit(TenBytes(table_pointer_t(limit, base))) = limit
         /\ Base(TenBytes(table_pointer_t(limit, base))) = base
<1> DEFINE s == table_pointer_t(limit, base)
<1>1. s = <<limit % 256, (limit \div 256) % 256,
            base[1], base[2], base[3], base[4], base[5], base[6], base[7], base[8]>>
  BY DEF table_pointer_t
<1> HIDE DEF s
<1>2. s[1] = limit % 256 /\ s[2] = (limit \div 256) % 256
  BY <1>1
<1>3. \A k \in 1 .. 8 : s[k + 2] = base[k]
  <2>1. /\ s[3] = base[1] /\ s[4] = base[2] /\ s[5] = base[3] /\ s[6] = base[4]
        /\ s[7] = base[5] /\ s[8] = base[6] /\ s[9] = base[7] /\ s[10] = base[8]
    BY <1>1
  <2> QED
    BY <2>1
<1>4. Base(TenBytes(s)) = [k \in 1 .. 8 |-> s[k + 2]]
  BY DEF Base, TenBytes
<1>5. Base(TenBytes(s)) = base
  <2>1. Base(TenBytes(s)) = [k \in 1 .. 8 |-> base[k]]
    BY <1>3, <1>4
  <2> QED
    BY <2>1 DEF Word
<1>6. Limit(TenBytes(s)) = (limit % 256) + 256 * ((limit \div 256) % 256)
  BY <1>2 DEF Limit, TenBytes
<1>7. (limit % 256) + 256 * ((limit \div 256) % 256) = limit
  <2> DEFINE h == limit \div 256
             l == limit % 256
  <2>1. h \in Int /\ l \in 0 .. 255
    OBVIOUS
  <2>2. limit = 256 * h + l
    OBVIOUS
  <2> HIDE DEF h, l
  <2>3. h \in Nat /\ h <= 255
    BY <2>1, <2>2
  <2>4. h % 256 = h
    BY <2>3, ByteMod
  <2>5. l + 256 * (h % 256) = limit
    BY <2>1, <2>2, <2>3, <2>4
  <2> QED
    BY <2>5 DEF h, l
<1> QED
  BY <1>5, <1>6, <1>7 DEF s

(* The int8_t that set_gate takes loses nothing of the flags: each gate is *)
(* present, of ring 0 and of its type, and holds its stub's whole address. *)
LEMMA GateReadsBack ==
  ASSUME NEW v, idt[v] = GateOf(v), isrTable[v] \in Word
  PROVE  /\ Len(idt[v]) = SizeofEntry
         /\ Gate(v) = [offset |-> isrTable[v], selector |-> 8, ist |-> 0,
                       type |-> IF v < NumExceptions THEN 15 ELSE 14, dpl |-> 0, present |-> TRUE]
<1> DEFINE a == isrTable[v]
           flags == IF v < NumExceptions THEN 143 ELSE 142
<1>1. Int8(flags) % 256 = flags
  BY DEF Int8
<1>2. flags % 16 = (IF v < NumExceptions THEN 15 ELSE 14) /\ (flags \div 32) % 4 = 0 /\ flags >= 128
  OBVIOUS
<1>3. idt[v] = <<a[1], a[2], 8, 0, 0, flags, a[3], a[4], a[5], a[6], a[7], a[8], 0, 0, 0, 0>>
  BY <1>1 DEF GateOf, idt_entry_t
<1>4. a = <<a[1], a[2], a[3], a[4], a[5], a[6], a[7], a[8]>>
  BY DEF Word
<1> HIDE DEF a, flags
<1>5. Len(idt[v]) = SizeofEntry
  BY <1>3 DEF SizeofEntry
<1>6. Gate(v) = [offset |-> a, selector |-> 8, ist |-> 0, type |-> flags % 16,
                 dpl |-> (flags \div 32) % 4, present |-> flags >= 128]
  BY <1>3, <1>4 DEF Gate
<1> QED
  BY <1>2, <1>5, <1>6 DEF a

-----------------------------------------------------------------------------
(* IInv is an invariant of init.                                           *)
THEOREM Invariant == Spec => []IInv
<1> USE EntriesAssumption
<1>1. Init => IInv
  <2> SUFFICES ASSUME Init
               PROVE  IInv
    OBVIOUS
  <2>1. GdtInv
    BY DEF Init, GdtInv
  <2>2. IdtInv
    BY AddressAssumption DEF Init, IdtInv
  <2> QED
    BY <2>1, <2>2 DEF IInv
<1>2. IInv /\ [Next]_vars => IInv'
  <2> SUFFICES ASSUME GdtInv, IdtInv, [Next]_vars
               PROVE  GdtInv' /\ IdtInv'
    BY DEF IInv
  <2>1. CASE GdtInit
    <3>1. gdt' = Segments /\ gdtr' = table_pointer_t(SizeofDescriptor * 5 - 1, GdtAddress)
      BY <2>1 DEF GdtInit, Segments
    <3>2. GdtInv'
      BY <2>1, <3>1 DEF GdtInit, GdtInv
    <3>3. IdtInv'
      BY <2>1 DEF GdtInit, IdtInv
    <3> QED
      BY <3>2, <3>3
  <2>2. CASE Lgdt
    <3>1. GdtInv'
      BY <2>2 DEF Lgdt, GdtInv, TenBytes
    <3>2. IdtInv'
      BY <2>2 DEF Lgdt, IdtInv
    <3> QED
      BY <3>1, <3>2
  <2>3. CASE IdtInit
    <3>1. GdtInv'
      BY <2>3 DEF IdtInit, GdtInv, TenBytes
    <3>2. IdtInv'
      BY <2>3 DEF IdtInit, IdtInv
    <3> QED
      BY <3>1, <3>2
  <2>4. CASE SetGate
    <3>1. GdtInv'
      BY <2>4 DEF SetGate, GdtInv, TenBytes
    <3>2. pc' = "set_gate" /\ i < IdtEntries /\ i' = i + 1 /\ idt_p' = idt_p /\ isrTable' = isrTable
          /\ pc = "set_gate"
      BY <2>4 DEF SetGate
    <3>3. idt' = [idt EXCEPT ![i] = GateOf(i)]
      <4>1. i % 256 = i
        BY <3>2 DEF IdtInv
      <4> QED
        BY <2>4, <4>1 DEF SetGate, GateOf
    <3>4. i \in 0 .. IdtEntries - 1 /\ DOMAIN idt = 0 .. IdtEntries - 1
      BY <3>2 DEF IdtInv
    <3>5. \A v \in 0 .. i : idt'[v] = GateOf(v)
      BY <3>2, <3>3, <3>4 DEF IdtInv
    <3>6. \A v : GateOf(v)' = GateOf(v)
      BY <3>2 DEF GateOf
    <3>7. \A v \in 0 .. i' - 1 : idt'[v] = GateOf(v)'
      BY <3>2, <3>4, <3>5, <3>6
    <3>8. i' \in 0 .. IdtEntries /\ DOMAIN idt' = 0 .. IdtEntries - 1
      BY <3>2, <3>3, <3>4
    <3>9. IdtInv'
      BY <3>2, <3>7, <3>8 DEF IdtInv
    <3> QED
      BY <3>1, <3>9
  <2>5. CASE Lidt
    <3>1. GdtInv'
      BY <2>5 DEF Lidt, GdtInv, TenBytes
    <3>2. IdtInv'
      BY <2>5 DEF Lidt, IdtInv, TenBytes, GateOf
    <3> QED
      BY <3>1, <3>2
  <2>6. CASE UNCHANGED vars
    <3>1. GdtInv'
      BY <2>6 DEF vars, GdtInv, TenBytes
    <3>2. IdtInv'
      BY <2>6 DEF vars, IdtInv, TenBytes, GateOf
    <3> QED
      BY <3>1, <3>2
  <2> QED
    BY <2>1, <2>2, <2>3, <2>4, <2>5, <2>6 DEF Next
<1> QED
  BY <1>1, <1>2, PTL DEF Spec

(* Wherever the linker places the stubs and the tables, and however many   *)
(* gates there are, each vector leads to its own stub once init is done,   *)
(* and a vector behind the last gate to none.                              *)
THEOREM GatesAlwaysLead == Spec => []GatesLead
<1> USE EntriesAssumption
<1>1. IInv => GatesLead
  <2> SUFFICES ASSUME IInv, pc = "done"
               PROVE  /\ Base(IDTR) = IdtAddress
                      /\ \A v \in 0 .. 255 : HasGate(v) <=> v < IdtEntries
                      /\ \A v \in 0 .. IdtEntries - 1 :
                           /\ Len(idt[v]) = SizeofEntry
                           /\ Gate(v) = [offset |-> isrTable[v], selector |-> 8, ist |-> 0,
                                         type |-> IF v < NumExceptions THEN 15 ELSE 14,
                                         dpl |-> 0, present |-> TRUE]
    BY DEF GatesLead
  <2>1. /\ IDTR = TenBytes(table_pointer_t(SizeofEntry * IdtEntries - 1, IdtAddress))
        /\ \A v \in 0 .. IdtEntries - 1 : idt[v] = GateOf(v) /\ isrTable[v] \in Word
    BY DEF IInv, IdtInv
  <2>2. SizeofEntry * IdtEntries - 1 \in Nat /\ SizeofEntry * IdtEntries - 1 <= 65535
    BY DEF SizeofEntry
  <2>3. Base(IDTR) = IdtAddress /\ Limit(IDTR) = SizeofEntry * IdtEntries - 1
    <3>1. IdtAddress \in Word
      BY AddressAssumption
    <3> QED
      BY <2>1, <2>2, <3>1, PointerReadsBack
  <2>4. \A v \in 0 .. 255 : HasGate(v) <=> v < IdtEntries
    BY <2>3 DEF HasGate, SizeofEntry
  <2> QED
    BY <2>1, <2>3, <2>4, GateReadsBack
<1> QED
  BY <1>1, Invariant, PTL

(* From lgdt on the selectors mean what kernel, stubs and a later user     *)
(* mode take them to mean, wherever the table is.                          *)
THEOREM SegmentsAlwaysFlat == Spec => []SegmentsFlat
<1>1. IInv => SegmentsFlat
  <2> SUFFICES ASSUME IInv, pc \in {"IDT::init", "set_gate", "done"}
               PROVE  /\ Base(GDTR) = GdtAddress /\ Limit(GDTR) = 8 * 5 - 1 /\ Len(gdt) = 5
                      /\ \A k \in 1 .. 8 : gdt[1][k] = 0
                      /\ Segment(1) = Flat(26, 0) /\ Segment(2) = Flat(18, 0)
                      /\ Segment(3) = Flat(26, 3) /\ Segment(4) = Flat(18, 3)
    BY DEF SegmentsFlat
  <2>1. gdt = Segments /\ GDTR = TenBytes(table_pointer_t(39, GdtAddress))
    BY DEF IInv, GdtInv, SizeofDescriptor
  <2>2. Base(GDTR) = GdtAddress /\ Limit(GDTR) = 39
    <3>1. GdtAddress \in Word /\ 39 \in Nat /\ 39 <= 65535
      BY AddressAssumption
    <3> QED
      BY <2>1, <3>1, PointerReadsBack
  <2>3. Len(gdt) = 5 /\ gdt[1] = <<0, 0, 0, 0, 0, 0, 0, 0>>
    BY <2>1 DEF Segments, descriptor_t
  <2>4. /\ gdt[2] = <<0, 0, 0, 0, 0, 154, 160, 0>> /\ gdt[3] = <<0, 0, 0, 0, 0, 146, 160, 0>>
        /\ gdt[4] = <<0, 0, 0, 0, 0, 250, 160, 0>> /\ gdt[5] = <<0, 0, 0, 0, 0, 242, 160, 0>>
    BY <2>1 DEF Segments, descriptor_t
  <2>5. ASSUME NEW n \in 1 .. 4, NEW a \in 128 .. 255, gdt[n + 1] = <<0, 0, 0, 0, 0, a, 160, 0>>
        PROVE  Segment(n) = Flat(a % 32, (a \div 32) % 4)
    <3> DEFINE b == gdt[n + 1]
    <3>1. /\ b[3] = 0 /\ b[4] = 0 /\ b[5] = 0 /\ b[8] = 0 /\ b[6] = a /\ b[7] = 160
      BY <2>5
    <3> HIDE DEF b
    <3>2. (160 \div 32) % 2 = 1 /\ a >= 128
      OBVIOUS
    <3>3. Segment(n) = [base |-> <<b[3], b[4], b[5], b[8]>>, type |-> b[6] % 32,
                        dpl |-> (b[6] \div 32) % 4, present |-> b[6] >= 128,
                        long |-> (b[7] \div 32) % 2 = 1]
      BY DEF Segment, b
    <3>4. (b[6] >= 128) = TRUE /\ ((b[7] \div 32) % 2 = 1) = TRUE
      BY <3>1, <3>2
    <3> QED
      BY <3>1, <3>3, <3>4, Zenon DEF Flat
  <2>6. Segment(1) = Flat(26, 0) /\ Segment(2) = Flat(18, 0)
    BY SMTT(20), <2>4, <2>5
  <2>7. Segment(3) = Flat(26, 3) /\ Segment(4) = Flat(18, 3)
    BY SMTT(20), <2>4, <2>5
  <2> QED
    BY <2>2, <2>3, <2>6, <2>7
<1> QED
  BY <1>1, Invariant, PTL

=============================================================================
