------------------------------- MODULE Memory -------------------------------
(***************************************************************************)
(* The functions of string.cpp that write memory, one step per iteration:  *)
(* memset, memcpy, memmove, strcpy, strcat and strncpy.  A behaviour is    *)
(* one call.  Memory is a function on addresses 0 .. Bytes - 1, a byte is  *)
(* 0 (NUL) or one of a few others.                                         *)
(***************************************************************************)
EXTENDS Integers

CONSTANTS
  Bytes, \* addresses of the memory
  Chars  \* values of a byte, NUL among them

ASSUME BytesAssumption == Bytes \in Nat
ASSUME CharsAssumption == 0 \in Chars /\ Chars \subseteq 0 .. 255

Addr == 0 .. Bytes - 1

VARIABLES
  call, \* the function and its arguments: destination, source, value, count
  old,  \* memory when the function was called
  mem,  \* memory now
  pc,   \* the loop the function is in
  p, q, \* where the next byte goes to and comes from
  n     \* the count left

vars == <<call, old, mem, pc, p, q, n>>

-----------------------------------------------------------------------------
(* Which calls are legal: every byte read or written is in memory, strings *)
(* end, and only memmove's areas may overlap.                              *)

Area(a, len) == a .. a + len - 1
Disjoint(A, B) == A \cap B = {}
Min2(i, j) == IF i < j THEN i ELSE j

IsString(a)  == \E e \in Addr : e >= a /\ old[e] = 0
Strlen(a)    == CHOOSE k \in 0 .. Bytes : /\ old[a + k] = 0
                                        /\ \A j \in 0 .. k - 1 : old[a + j] # 0

(* The bytes the function may write, and those it reads from the source.   *)
WriteArea ==
  CASE call.fn \in {"memset", "memcpy", "memmove", "strncpy"} -> Area(call.d, call.n)
    [] call.fn = "strcpy" -> Area(call.d, Strlen(call.s) + 1)
    [] call.fn = "strcat" -> Area(call.d + Strlen(call.d), Strlen(call.s) + 1)
ReadArea ==
  CASE call.fn = "memset" -> {}
    [] call.fn \in {"memcpy", "memmove"} -> Area(call.s, call.n)
    [] call.fn = "strncpy" -> Area(call.s, Min2(Strlen(call.s) + 1, call.n))
    [] OTHER -> Area(call.s, Strlen(call.s) + 1)

Legal ==
  /\ call.fn \in {"strcpy", "strcat", "strncpy"} => IsString(call.s)
  /\ call.fn = "strcat" => IsString(call.d)
  /\ WriteArea \subseteq Addr /\ ReadArea \subseteq Addr
  /\ call.fn # "memmove" => Disjoint(WriteArea, ReadArea)
  /\ call.fn = "strcat" => call.s \notin Area(call.d, Strlen(call.d) + 1)

(* The ints memset may be given, negative ones and ones beyond a byte too. *)
Ints == {i \in -256 .. 511 : i % 256 \in Chars}

Call == [fn : {"memset"}, d : Addr, s : {0}, c : Ints, n : 0 .. Bytes]
   \cup [fn : {"memcpy", "memmove", "strncpy"}, d : Addr, s : Addr, c : {0}, n : 0 .. Bytes]
   \cup [fn : {"strcpy", "strcat"}, d : Addr, s : Addr, c : {0}, n : {0}]

-----------------------------------------------------------------------------

\* Mutant: memmove copies downwards from the lower area.
FirstLoopSwapped ==
  CASE call.fn = "memset" -> "set"
    [] call.fn = "memcpy" -> "forward"
    [] call.fn = "memmove" -> IF call.d > call.s THEN "forward" ELSE "backward"
    [] call.fn = "strcat" -> "find"
    [] call.fn = "strcpy" -> "string"
    [] call.fn = "strncpy" -> "counted"

(* The function's first loop; memmove chooses its direction.               *)
FirstLoop ==
  CASE call.fn = "memset" -> "set"
    [] call.fn = "memcpy" -> "forward"
    [] call.fn = "memmove" -> IF call.d < call.s THEN "forward" ELSE "backward"
    [] call.fn = "strcat" -> "find"
    [] call.fn = "strcpy" -> "string"
    [] call.fn = "strncpy" -> "counted"

Backward == FirstLoop = "backward"

Init ==
  /\ old \in [Addr -> Chars] /\ call \in Call /\ Legal
  /\ mem = old /\ pc = FirstLoop
  /\ p = IF Backward THEN call.d + call.n ELSE call.d
  /\ q = IF Backward THEN call.s + call.n ELSE call.s
  /\ n = call.n

Write(a, v) == mem' = [mem EXCEPT ![a] = v]

(* memset's loop, with static_cast<unsigned char>(c); the forward one of   *)
(* memcpy and memmove.                                                     *)
Set ==
  /\ pc = "set" /\ n > 0
  /\ Write(p, call.c % 256) /\ p' = p + 1 /\ n' = n - 1
  /\ UNCHANGED <<call, old, pc, q>>

Forward ==
  /\ pc = "forward" /\ n > 0
  /\ Write(p, mem[q]) /\ p' = p + 1 /\ q' = q + 1 /\ n' = n - 1
  /\ UNCHANGED <<call, old, pc>>

\* Mutant: the pointers move afterwards.
DownAfterwards ==
  /\ pc = "backward" /\ n > 0
  /\ mem' = [a \in Addr |-> IF a = p THEN mem[Min2(q, Bytes - 1)] ELSE mem[a]]
  /\ p' = p - 1 /\ q' = q - 1 /\ n' = n - 1
  /\ UNCHANGED <<call, old, pc>>

(* memmove's loop downwards: the pointers move first.                      *)
Down ==
  /\ pc = "backward" /\ n > 0
  /\ Write(p - 1, mem[q - 1]) /\ p' = p - 1 /\ q' = q - 1 /\ n' = n - 1
  /\ UNCHANGED <<call, old, pc>>

\* Mutant: the pointer to the destination's end does not move.
FindStuck ==
  /\ pc = "find"
  /\ p' = p /\ pc' = IF mem[p] # 0 THEN pc ELSE "string"
  /\ UNCHANGED <<call, old, mem, q, n>>

(* strcat looks for the end of the destination.                            *)
Find ==
  /\ pc = "find"
  /\ IF mem[p] # 0 THEN p' = p + 1 /\ pc' = pc ELSE p' = p /\ pc' = "string"
  /\ UNCHANGED <<call, old, mem, q, n>>

(* A byte and, unless it was the NUL, the next one: strcpy's whole body.   *)
CopyString ==
  /\ pc = "string"
  /\ Write(p, mem[q]) /\ p' = p + 1 /\ q' = q + 1
  /\ pc' = IF mem[q] = 0 THEN "done" ELSE pc
  /\ UNCHANGED <<call, old, n>>

(* strncpy's first loop: the count does not go down with the NUL.          *)
CopyCounted ==
  /\ pc = "counted" /\ n > 0
  /\ Write(p, mem[q]) /\ p' = p + 1 /\ q' = q + 1
  /\ IF mem[q] = 0 THEN n' = n /\ pc' = "pad" ELSE n' = n - 1 /\ pc' = pc
  /\ UNCHANGED <<call, old>>

(* strncpy's second loop, while (--n).                                     *)
Pad ==
  /\ pc = "pad" /\ n > 1
  /\ Write(p, 0) /\ p' = p + 1 /\ n' = n - 1
  /\ UNCHANGED <<call, old, pc, q>>

(* The counted loops run out.                                              *)
Return ==
  /\ \/ pc \in {"set", "forward", "backward", "counted"} /\ n = 0
     \/ pc = "pad" /\ n = 1
  /\ pc' = "done"
  /\ UNCHANGED <<call, old, mem, p, q, n>>

Next == \/ Set \/ Forward \/ Down \/ Find \/ CopyString
        \/ CopyCounted \/ Pad \/ Return

Spec == Init /\ [][Next]_vars /\ WF_vars(Next)

-----------------------------------------------------------------------------
(* Properties.                                                             *)

(* The pointers never leave memory by more than the one address behind it. *)
TypeOK ==
  /\ call \in Call /\ old \in [Addr -> Chars] /\ mem \in [Addr -> Chars]
  /\ pc \in {"set", "forward", "backward", "find", "string", "counted", "pad", "done"}
  /\ p \in 0 .. Bytes /\ q \in 0 .. Bytes /\ n \in 0 .. Bytes

(* No iteration of any of the functions changes a byte outside the area    *)
(* its caller gave it.                                                     *)
InArea == \A a \in Addr \ WriteArea : mem[a] = old[a]

(* What memory holds when the function is back, as the C library has it:   *)
(* the source as it was at the call, overlapping or not, the end of a      *)
(* string included, and NULs up to strncpy's count.                        *)
Wanted(k) == \* the k-th byte written, from 0
  CASE call.fn = "memset" -> call.c % 256
    [] call.fn = "strncpy" -> IF k > Strlen(call.s) THEN 0 ELSE old[call.s + k]
    [] OTHER -> old[call.s + k]
FirstWritten == IF call.fn = "strcat" THEN call.d + Strlen(call.d) ELSE call.d
Result ==
  pc = "done" => \A a \in WriteArea : mem[a] = Wanted(a - FirstWritten)

(* Every legal call returns.                                               *)
Returns == <>(pc = "done")

=============================================================================
