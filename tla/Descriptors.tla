---------------------------- MODULE Descriptors -----------------------------
(***************************************************************************)
(* gdt.cpp and idt.cpp at the level of bytes: the tables and the pointers  *)
(* to them as packed structures in memory, and what the CPU makes of these *)
(* bytes.  Boot has the order of the steps and what may come between them; *)
(* here they are to leave the tables Boot takes them to leave.  A number   *)
(* of 64 bits is its eight bytes, least significant first.                 *)
(***************************************************************************)
EXTENDS Integers, Sequences

CONSTANTS
  IdtEntries,    \* IDT_ENTRIES, 256
  NumExceptions, \* gates set by the first loop, 32
  Tables,        \* contents isrTable may have, as the linker places the stubs
  IdtAddress, GdtAddress

Byte == 0 .. 255
Word == [1 .. 8 -> Byte]

ASSUME EntriesAssumption == IdtEntries \in 1 .. 256 /\ NumExceptions \in 0 .. IdtEntries
ASSUME AddressAssumption ==
  /\ IdtAddress \in Word /\ GdtAddress \in Word
  /\ Tables \subseteq [0 .. IdtEntries - 1 -> Word]

VARIABLES
  pc, i,       \* where init is, and its loop index
  isrTable,    \* addresses of the stubs
  gdt, gdtr,   \* bytes of each entry of GDT::gdt, and of GDT::gdtr
  idt, idt_p,  \* bytes of each entry of IDT::idt, and of IDT::idt_p
  GDTR, IDTR   \* the CPU's registers, ten bytes each

vars == <<pc, i, isrTable, gdt, gdtr, idt, idt_p, GDTR, IDTR>>

-----------------------------------------------------------------------------
(* Structures.                                                             *)

(* A number passed as an int8_t.                                           *)
Int8(n) == ((n + 128) % 256) - 128

\* Mutant: without __packed the base is aligned to eight bytes.
table_pointer_unpacked(limit, base) ==
  <<limit % 256, (limit \div 256) % 256, 0, 0, 0, 0, 0, 0>> \o base

(* gdtr_t and idt_pointer_t: a limit of 16 bits and a base.                *)
table_pointer_t(limit, base) ==
  <<limit % 256, (limit \div 256) % 256,
    base[1], base[2], base[3], base[4], base[5], base[6], base[7], base[8]>>

(* descriptor_t with limit and base 0.                                     *)
descriptor_t(access_byte, limit_high_and_flags) ==
  <<0, 0, 0, 0, 0, access_byte, limit_high_and_flags, 0>>

\* Mutant: the two upper parts of the address are swapped.
idt_entry_swapped(base, flags) ==
  <<base[1], base[2], 8, 0, 0, flags % 256, base[5], base[6],
    base[3], base[4], base[7], base[8], 0, 0, 0, 0>>

(* idt_entry_t as set_gate fills it: base & 0xFFFF, the selector, ist, an  *)
(* int8_t in a uint8_t, (base >> 16) & 0xFFFF, (base >> 32) & 0xFFFFFFFF,  *)
(* and zero.                                                               *)
idt_entry_t(base, flags) ==
  <<base[1], base[2], 8, 0, 0, flags % 256, base[3], base[4],
    base[5], base[6], base[7], base[8], 0, 0, 0, 0>>

SizeofDescriptor == 8
SizeofEntry == 16

-----------------------------------------------------------------------------
(* Null, kernel code 0b10011010 and data 0b10010010, user code 0b11111010  *)
(* and data 0b11110010, each with flags 0b10100000.                        *)
Segments ==
  <<descriptor_t(0, 0), descriptor_t(154, 160), descriptor_t(146, 160),
    descriptor_t(250, 160), descriptor_t(242, 160)>>

GdtInit ==
  /\ pc = "GDT::init" /\ pc' = "GDT::reload"
  /\ gdt' = Segments
  /\ gdtr' = table_pointer_t(SizeofDescriptor * Len(Segments) - 1, GdtAddress)
  /\ UNCHANGED <<i, isrTable, idt, idt_p, GDTR, IDTR>>

TenBytes(pointer) == [k \in 1 .. 10 |-> pointer[k]]

(* lgdt reads ten bytes.                                                   *)
Lgdt ==
  /\ pc = "GDT::reload" /\ pc' = "IDT::init" /\ GDTR' = TenBytes(gdtr)
  /\ UNCHANGED <<i, isrTable, gdt, gdtr, idt, idt_p, IDTR>>

IdtInit ==
  /\ pc = "IDT::init" /\ pc' = "set_gate" /\ i' = 0
  /\ idt_p' = table_pointer_t(SizeofEntry * IdtEntries - 1, IdtAddress)
  /\ UNCHANGED <<isrTable, gdt, gdtr, idt, GDTR, IDTR>>

(* The two loops: trap gates 0b10001111, then interrupt gates 0b10001110.  *)
SetGate ==
  /\ pc = "set_gate" /\ i < IdtEntries /\ i' = i + 1
  /\ idt' = [idt EXCEPT ![i % 256] =
               idt_entry_t(isrTable[i], Int8(IF i < NumExceptions THEN 143 ELSE 142))]
  /\ UNCHANGED <<pc, isrTable, gdt, gdtr, idt_p, GDTR, IDTR>>

(* load_idt: lidt reads ten bytes.                                         *)
Lidt ==
  /\ pc = "set_gate" /\ i = IdtEntries /\ pc' = "done" /\ IDTR' = TenBytes(idt_p)
  /\ UNCHANGED <<i, isrTable, gdt, gdtr, idt, idt_p, GDTR>>

Init ==
  /\ pc = "GDT::init" /\ i = 0 /\ isrTable \in Tables
  /\ gdt = [k \in 1 .. 5 |-> descriptor_t(0, 0)] /\ gdtr = [k \in 1 .. 10 |-> 0]
  /\ idt = [v \in 0 .. IdtEntries - 1 |-> [k \in 1 .. SizeofEntry |-> 0]]
  /\ idt_p = [k \in 1 .. 10 |-> 0]
  /\ GDTR = [k \in 1 .. 10 |-> 0] /\ IDTR = [k \in 1 .. 10 |-> 0]

Next == GdtInit \/ Lgdt \/ IdtInit \/ SetGate \/ Lidt

Spec == Init /\ [][Next]_vars

-----------------------------------------------------------------------------
(* What the CPU reads.                                                     *)

Limit(register) == register[1] + 256 * register[2]
Base(register)  == [k \in 1 .. 8 |-> register[k + 2]]

(* A vector whose sixteen bytes are not within the limit has no gate.      *)
HasGate(v) == 16 * v + 15 <= Limit(IDTR)

Gate(v) ==
  LET b == idt[v]
  IN  [offset |-> <<b[1], b[2], b[7], b[8], b[9], b[10], b[11], b[12]>>,
       selector |-> b[3] + 256 * b[4],
       ist |-> b[5] % 8, type |-> b[6] % 16, dpl |-> (b[6] \div 32) % 4,
       present |-> b[6] >= 128]

Segment(n) ==
  LET b == gdt[n + 1]
  IN  [base |-> <<b[3], b[4], b[5], b[8]>>, type |-> b[6] % 32, dpl |-> (b[6] \div 32) % 4,
       present |-> b[6] >= 128, long |-> (b[7] \div 32) % 2 = 1]

-----------------------------------------------------------------------------
(* Properties.                                                             *)

(* When init is done every vector there is leads, through a present gate   *)
(* of the kernel's code segment, to its own stub, all of its address taken *)
(* together again: exceptions through trap gates, the others through       *)
(* interrupt gates; and the limit ends the table at its last gate.         *)
GatesLead ==
  pc = "done" =>
    /\ Base(IDTR) = IdtAddress
    /\ \A v \in 0 .. 255 : HasGate(v) <=> v < IdtEntries
    /\ \A v \in 0 .. IdtEntries - 1 :
         /\ Len(idt[v]) = SizeofEntry
         /\ Gate(v) = [offset |-> isrTable[v], selector |-> 8, ist |-> 0,
                       type |-> IF v < NumExceptions THEN 15 ELSE 14, dpl |-> 0, present |-> TRUE]

(* Once lgdt is done the selectors 8 and 16 mean 64-bit code and writable  *)
(* data of ring 0, 24 and 32 the same of ring 3, all from base 0; the      *)
(* first descriptor is null and the limit ends the table at the last.      *)
Flat(type, dpl) ==
  [base |-> <<0, 0, 0, 0>>, type |-> type, dpl |-> dpl, present |-> TRUE, long |-> TRUE]
SegmentsFlat ==
  pc \in {"IDT::init", "set_gate", "done"} =>
    /\ Base(GDTR) = GdtAddress /\ Limit(GDTR) = 8 * 5 - 1 /\ Len(gdt) = 5
    /\ \A k \in 1 .. 8 : gdt[1][k] = 0
    /\ Segment(1) = Flat(26, 0) /\ Segment(2) = Flat(18, 0)
    /\ Segment(3) = Flat(26, 3) /\ Segment(4) = Flat(18, 3)

=============================================================================
