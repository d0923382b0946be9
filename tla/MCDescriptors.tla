--------------------------- MODULE MCDescriptors ----------------------------
(* Instances of Descriptors for TLC: all 256 gates, with stubs of five and *)
(* of eight bytes one after the other in the top 2 GiB, as the linker      *)
(* script places them, across a multiple of 64 KiB, and all over memory.   *)
EXTENDS Descriptors

(* Sixteen bits in memory, the low byte first.                             *)
Word16(n) == <<n % 256, (n \div 256) % 256>>

(* Where the stub of a vector is: the upper half, and the lower 32 bits    *)
(* from two numbers of 16 bits, with the carry.                            *)
Stub(high, middle, low) ==
  Word16(low) \o Word16(middle + low \div 65536) \o high

TopHalf == <<255, 255, 255, 255>>
MCTables ==
  {[v \in 0 .. 255 |-> Stub(TopHalf, 32768, 8192 + 5 * v)],
   [v \in 0 .. 255 |-> Stub(TopHalf, 32799, 65000 + 8 * v)],
   [v \in 0 .. 255 |-> Stub(<<v, 255 - v, (7 * v) % 256, 128>>, 251 * v, 65535 - v)]}

MCIdtAddress == Stub(TopHalf, 32770, 64)
MCGdtAddress == Stub(TopHalf, 32771, 4096)
=============================================================================
