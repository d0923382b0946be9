---------------------------- MODULE StringProofs -----------------------------
(* Proofs about string.cpp, for every value of the constants: of module    *)
(* Memory, the functions that write, and of CString, those that read.      *)
EXTENDS Memory, CString, FiniteSetTheorems, SequenceTheorems, TLAPS

-----------------------------------------------------------------------------
(* Memory: the inductive invariant.                                        *)

(* The area a call may write, as its first address and its length.         *)
Counts     == call.fn \in {"memset", "memcpy", "memmove", "strncpy"}
WriteLen   == IF Counts THEN call.n ELSE Strlen(call.s) + 1
Static     == call \in Call /\ old \in [Addr -> Chars] /\ Legal

(* Memory is as it was, but for what the call wants from lo up to hi - 1.  *)
Written(lo, hi) ==
  mem = [a \in Addr |-> IF a \in lo .. hi - 1 THEN Wanted(a - FirstWritten) ELSE old[a]]

(* Where each loop is, and what it has written: from the first address up, *)
(* or, downwards, from the last.                                           *)
InSet ==
  /\ pc = "set" /\ call.fn = "memset"
  /\ n \in 0 .. call.n /\ p = call.d + (call.n - n) /\ Written(call.d, p)
InForward ==
  /\ pc = "forward" /\ call.fn \in {"memcpy", "memmove"}
  /\ call.fn = "memmove" => call.d < call.s
  /\ n \in 0 .. call.n /\ p = call.d + (call.n - n) /\ q = call.s + (call.n - n)
  /\ Written(call.d, p)
InBackward ==
  /\ pc = "backward" /\ call.fn = "memmove" /\ call.s <= call.d
  /\ n \in 0 .. call.n /\ p = call.d + n /\ q = call.s + n
  /\ Written(p, call.d + call.n)
InFind ==
  /\ pc = "find" /\ call.fn = "strcat"
  /\ p \in call.d .. call.d + Strlen(call.d) /\ q = call.s /\ mem = old
InString ==
  /\ pc = "string" /\ call.fn \in {"strcpy", "strcat"}
  /\ q \in call.s .. call.s + Strlen(call.s) /\ p = FirstWritten + (q - call.s)
  /\ Written(FirstWritten, p)

(* strncpy's count is down by what is copied; before it pads, it has met   *)
(* the NUL, and the count is one behind.                                   *)
InCounted ==
  /\ pc = "counted" /\ call.fn = "strncpy"
  /\ q \in call.s .. call.s + Strlen(call.s) /\ p = call.d + (q - call.s)
  /\ n \in 0 .. call.n /\ n = call.n - (q - call.s)
  /\ Written(call.d, p)
InPad ==
  /\ pc = "pad" /\ call.fn = "strncpy"
  /\ n \in 1 .. call.n /\ p = call.d + (call.n - n) + 1
  /\ p > call.d + Strlen(call.s)
  /\ Written(call.d, p)
IsDone ==
  /\ pc = "done"
  /\ mem = [a \in Addr |-> IF a \in WriteArea THEN Wanted(a - FirstWritten) ELSE old[a]]

Loop == \/ InSet \/ InForward \/ InBackward \/ InFind
        \/ InString \/ InCounted \/ InPad \/ IsDone

IInv == Static /\ Loop

-----------------------------------------------------------------------------
(* The operators of the module.                                            *)

(* A set of naturals that is not empty has a least element.                *)
LEMMA Least ==
  ASSUME NEW T, T \subseteq Nat, T # {}
  PROVE  \E x \in T : \A y \in T : x <= y
<1>1. PICK e \in T : TRUE
  OBVIOUS
<1> DEFINE S == 0 .. e
           U == {0 .. k : k \in {k \in T : k <= e}}
           R == StrictSubsetOrdering(S)
<1>2. IsFiniteSet(S)
  BY <1>1, FS_Interval
<1>3. IsWellFoundedOn(R, FiniteSubsetsOf(S))
  BY FS_StrictSubsetOrderingWellFounded
<1>4. IsWellFoundedOn(R, SUBSET S)
  BY <1>2, <1>3, FS_FiniteSubsetsOfFinite
<1>5. U \subseteq SUBSET S /\ U # {}
  BY <1>1
<1>6. PICK u \in U : \A v \in U : <<v, u>> \notin R
  <2> HIDE DEF U, R, S
  <2> QED
    BY <1>4, <1>5, WFMin
<1>7. PICK x \in T : x <= e /\ u = 0 .. x
  BY <1>6
<1>8. ASSUME NEW y \in T, y < x
      PROVE  FALSE
  <2>1. 0 .. y \in U /\ 0 .. y \subseteq 0 .. x /\ 0 .. y # 0 .. x
    BY <1>7, <1>8, x \in 0 .. x, x \notin 0 .. y
  <2>2. <<0 .. y, 0 .. x>> \in R
    BY <1>5, <1>6, <1>7, <2>1 DEF StrictSubsetOrdering
  <2> QED
    BY <1>6, <1>7, <2>1, <2>2
<1>9. \A y \in T : x <= y
  BY <1>7, <1>8
<1> QED
  BY <1>9

(* Where a string ends.                                                    *)
LEMMA StrlenFacts ==
  ASSUME old \in [Addr -> Chars], NEW a \in Addr, IsString(a)
  PROVE  /\ Strlen(a) \in Nat /\ a + Strlen(a) \in Addr /\ old[a + Strlen(a)] = 0
         /\ \A j \in 0 .. Strlen(a) - 1 : old[a + j] # 0
<1> USE BytesAssumption DEF Addr
<1> DEFINE T == {k \in Nat : a + k < Bytes /\ old[a + k] = 0}
           IsLen(k) == /\ old[a + k] = 0
                       /\ \A j \in 0 .. k - 1 : old[a + j] # 0
<1>1. PICK e \in Addr : e >= a /\ old[e] = 0
  BY DEF IsString
<1>2. e - a \in T
  BY <1>1
<1>3. PICK k \in T : \A j \in T : k <= j
  <2>1. T \subseteq Nat /\ T # {}
    BY <1>2
  <2> HIDE DEF T
  <2> QED
    BY <2>1, Least
<1>4. k \in 0 .. Bytes /\ IsLen(k)
  BY <1>3
<1>5. Strlen(a) \in 0 .. Bytes /\ IsLen(Strlen(a))
  <2>1. Strlen(a) = CHOOSE l \in 0 .. Bytes : IsLen(l)
    BY DEF Strlen
  <2> HIDE DEF IsLen
  <2> QED
    BY <1>4, <2>1
<1>6. Strlen(a) <= k
  <2>1. ~(k < Strlen(a))
    BY <1>4, <1>5
  <2> QED
    BY <1>3, <1>5, <2>1
<1> QED
  BY <1>3, <1>5, <1>6

(* The fields of a call.                                                   *)
LEMMA CallFacts ==
  ASSUME call \in Call
  PROVE  /\ call.fn \in {"memset", "memcpy", "memmove", "strncpy", "strcpy", "strcat"}
         /\ call.d \in Addr /\ call.d \in Nat /\ call.n \in Nat /\ call.s \in Nat
         /\ call.fn # "memset" => call.s \in Addr
BY BytesAssumption DEF Call, Addr

(* memset's int, as a byte.                                                *)
LEMMA ByteFacts ==
  ASSUME call \in Call, call.fn = "memset"
  PROVE  call.c % 256 \in Chars
<1>1. call.c \in Ints
  BY DEF Call
<1> QED
  BY <1>1 DEF Ints

(* What a legal call may write and read, address by address.               *)
LEMMA LegalFacts ==
  ASSUME Static
  PROVE  /\ FirstWritten \in Nat /\ WriteLen \in Nat
         /\ WriteArea = FirstWritten .. FirstWritten + WriteLen - 1
         /\ \A k \in 0 .. WriteLen - 1 : FirstWritten + k \in Addr
         /\ call.fn # "strcat" => FirstWritten = call.d
         /\ call.fn \in {"memcpy", "memmove"} => \A k \in 0 .. call.n - 1 : call.s + k \in Addr
         /\ call.fn \in {"strcpy", "strcat", "strncpy"} =>
              /\ Strlen(call.s) \in Nat /\ old[call.s + Strlen(call.s)] = 0
              /\ \A j \in 0 .. Strlen(call.s) : call.s + j \in Addr
              /\ \A j \in 0 .. Strlen(call.s) - 1 : old[call.s + j] # 0
         /\ call.fn = "strcat" =>
              /\ Strlen(call.d) \in Nat /\ FirstWritten = call.d + Strlen(call.d)
              /\ old[call.d + Strlen(call.d)] = 0
              /\ \A j \in 0 .. Strlen(call.d) - 1 : old[call.d + j] # 0
         /\ call.fn \in {"memcpy", "strncpy", "strcpy", "strcat"} =>
              \A k \in 0 .. WriteLen - 1 :
                (call.fn = "strncpy" => k <= Strlen(call.s)) => call.s + k \notin WriteArea
<1>1. call \in Call /\ old \in [Addr -> Chars] /\ Legal
  BY DEF Static
<1>2. /\ call.fn \in {"memset", "memcpy", "memmove", "strncpy", "strcpy", "strcat"}
      /\ call.d \in Addr /\ call.d \in Nat /\ call.n \in Nat /\ call.s \in Nat
      /\ call.fn # "memset" => call.s \in Addr
  BY <1>1, CallFacts
<1>3. ASSUME call.fn \in {"strcpy", "strcat", "strncpy"}
      PROVE  /\ Strlen(call.s) \in Nat /\ old[call.s + Strlen(call.s)] = 0
             /\ call.s + Strlen(call.s) \in Addr
             /\ \A j \in 0 .. Strlen(call.s) : call.s + j \in Addr
             /\ \A j \in 0 .. Strlen(call.s) - 1 : old[call.s + j] # 0
  <2>1. IsString(call.s) /\ call.s \in Addr
    BY <1>1, <1>2, <1>3 DEF Legal
  <2>2. /\ Strlen(call.s) \in Nat /\ call.s + Strlen(call.s) \in Addr
        /\ old[call.s + Strlen(call.s)] = 0
        /\ \A j \in 0 .. Strlen(call.s) - 1 : old[call.s + j] # 0
    BY <1>1, <2>1, StrlenFacts
  <2>3. \A j \in 0 .. Strlen(call.s) : call.s + j \in Addr
    BY <2>2, <1>2, BytesAssumption DEF Addr
  <2> QED
    BY <2>2, <2>3
<1>4. ASSUME call.fn = "strcat"
      PROVE  /\ Strlen(call.d) \in Nat /\ FirstWritten = call.d + Strlen(call.d)
             /\ old[call.d + Strlen(call.d)] = 0
             /\ \A j \in 0 .. Strlen(call.d) - 1 : old[call.d + j] # 0
  <2>1. IsString(call.d)
    BY <1>1, <1>4 DEF Legal
  <2> QED
    BY <1>1, <1>2, <1>4, <2>1, StrlenFacts DEF FirstWritten
<1>5. call.fn # "strcat" => FirstWritten = call.d
  BY DEF FirstWritten
<1>6. FirstWritten \in Nat
  BY <1>2, <1>4, <1>5
<1>7. WriteLen \in Nat
  BY <1>2, <1>3 DEF WriteLen, Counts
<1>8. WriteArea = FirstWritten .. FirstWritten + WriteLen - 1
  <2>1. CASE Counts
    BY <1>2, <2>1 DEF WriteArea, FirstWritten, WriteLen, Counts, Area
  <2>2. CASE call.fn = "strcpy"
    BY <1>2, <2>2 DEF WriteArea, FirstWritten, WriteLen, Counts, Area
  <2>3. CASE call.fn = "strcat"
    BY <1>2, <2>3 DEF WriteArea, FirstWritten, WriteLen, Counts, Area
  <2> QED
    BY <1>2, <2>1, <2>2, <2>3 DEF Counts
<1>9. \A k \in 0 .. WriteLen - 1 : FirstWritten + k \in Addr
  <2>1. WriteArea \subseteq Addr
    BY <1>1 DEF Legal
  <2> QED
    BY <1>6, <1>7, <1>8, <2>1
<1>10. ASSUME call.fn \in {"memcpy", "memmove"}, NEW k \in 0 .. call.n - 1
       PROVE  call.s + k \in Addr
  <2>1. ReadArea = call.s .. call.s + call.n - 1
    BY <1>10 DEF ReadArea, Area
  <2>2. ReadArea \subseteq Addr
    BY <1>1 DEF Legal
  <2> QED
    BY <1>2, <1>10, <2>1, <2>2
<1>11. ASSUME call.fn \in {"memcpy", "strncpy", "strcpy", "strcat"},
              NEW k \in 0 .. WriteLen - 1, call.fn = "strncpy" => k <= Strlen(call.s)
       PROVE  call.s + k \notin WriteArea
  <2>1. WriteArea \cap ReadArea = {}
    BY <1>1, <1>11 DEF Legal, Disjoint
  <2>2. call.s + k \in ReadArea
    <3>1. CASE call.fn = "memcpy"
      BY <1>2, <1>11, <3>1 DEF ReadArea, Area, WriteLen, Counts
    <3>2. CASE call.fn = "strncpy"
      BY <1>2, <1>3, <1>11, <3>2 DEF ReadArea, Area, WriteLen, Counts, Min2
    <3>3. CASE call.fn \in {"strcpy", "strcat"}
      BY <1>2, <1>3, <1>11, <3>3 DEF ReadArea, Area, WriteLen, Counts
    <3> QED
      BY <1>11, <3>1, <3>2, <3>3
  <2> QED
    BY <2>1, <2>2
<1> QED
  BY <1>3, <1>4, <1>5, <1>6, <1>7, <1>8, <1>9, <1>10, <1>11

(* No action changes the call or the memory it found, so that what the     *)
(* call may write, and wants to, stays what it was.                        *)
LEMMA StaticStep ==
  ASSUME Static, UNCHANGED <<call, old>>
  PROVE  /\ Static'
         /\ WriteLen' = WriteLen /\ FirstWritten' = FirstWritten /\ WriteArea' = WriteArea
         /\ \A k : Wanted(k)' = Wanted(k)
         /\ \A a : Strlen(a)' = Strlen(a)
<1>1. call' = call /\ old' = old
  OBVIOUS
<1>2. \A a : Strlen(a)' = Strlen(a)
  BY <1>1 DEF Strlen
<1>3. WriteLen' = WriteLen /\ FirstWritten' = FirstWritten
  BY <1>1, <1>2 DEF WriteLen, FirstWritten, Counts
<1>4. WriteArea' = WriteArea /\ ReadArea' = ReadArea
  BY <1>1, <1>2 DEF WriteArea, ReadArea
<1>5. \A k : Wanted(k)' = Wanted(k)
  BY <1>1, <1>2 DEF Wanted
<1>6. \A a : IsString(a)' <=> IsString(a)
  BY <1>1 DEF IsString
<1>7. Legal'
  BY <1>1, <1>2, <1>4, <1>6 DEF Legal, Static
<1> QED
  BY <1>1, <1>2, <1>3, <1>4, <1>5, <1>7 DEF Static

(* One more byte above those written, and one more below.                  *)
LEMMA WriteUp ==
  ASSUME old \in [Addr -> Chars], NEW lo \in Int, NEW hi \in Int, lo <= hi, Written(lo, hi),
         Write(hi, Wanted(hi - FirstWritten))
  PROVE  mem' = [a \in Addr |-> IF a \in lo .. hi THEN Wanted(a - FirstWritten) ELSE old[a]]
<1> DEFINE W(a) == Wanted(a - FirstWritten)
<1>1. Addr \subseteq Int
  BY BytesAssumption DEF Addr
<1>2. mem = [a \in Addr |-> IF a \in lo .. hi - 1 THEN W(a) ELSE old[a]]
  BY DEF Written
<1>3. mem' = [mem EXCEPT ![hi] = W(hi)]
  BY DEF Write
<1> HIDE DEF W
<1>4. mem' = [a \in Addr |-> IF a = hi THEN W(hi) ELSE mem[a]]
  BY <1>2, <1>3
<1>5. \A a \in Addr : (IF a = hi THEN W(hi) ELSE mem[a])
                       = IF a \in lo .. hi THEN W(a) ELSE old[a]
  BY <1>1, <1>2
<1>6. mem' = [a \in Addr |-> IF a \in lo .. hi THEN W(a) ELSE old[a]]
  BY <1>4, <1>5
<1> QED
  BY <1>6 DEF W

(* The same for the iteration of memmove's other loop, from the end down.  *)
LEMMA WriteDown ==
  ASSUME old \in [Addr -> Chars], NEW lo \in Int, NEW hi \in Int, lo <= hi, Written(lo, hi),
         Write(lo - 1, Wanted(lo - 1 - FirstWritten))
  PROVE  mem' = [a \in Addr |-> IF a \in lo - 1 .. hi - 1 THEN Wanted(a - FirstWritten) ELSE old[a]]
<1> DEFINE W(a) == Wanted(a - FirstWritten)
<1>1. Addr \subseteq Int
  BY BytesAssumption DEF Addr
<1>2. mem = [a \in Addr |-> IF a \in lo .. hi - 1 THEN W(a) ELSE old[a]]
  BY DEF Written
<1>3. mem' = [mem EXCEPT ![lo - 1] = W(lo - 1)]
  BY DEF Write
<1> HIDE DEF W
<1>4. mem' = [a \in Addr |-> IF a = lo - 1 THEN W(lo - 1) ELSE mem[a]]
  BY <1>2, <1>3
<1>5. \A a \in Addr : (IF a = lo - 1 THEN W(lo - 1) ELSE mem[a])
                       = IF a \in lo - 1 .. hi - 1 THEN W(a) ELSE old[a]
  BY <1>1, <1>2
<1>6. mem' = [a \in Addr |-> IF a \in lo - 1 .. hi - 1 THEN W(a) ELSE old[a]]
  BY <1>4, <1>5
<1> QED
  BY <1>6 DEF W

(* A byte outside those written is the one the call found.                 *)
LEMMA Untouched ==
  ASSUME NEW lo, NEW hi, Written(lo, hi), NEW a \in Addr, a \notin lo .. hi - 1
  PROVE  mem[a] = old[a]
BY DEF Written

(* Every step of the loop that copies, fills or pads keeps its account.    *)
LEMMA SetStep ==
  ASSUME IInv, Set
  PROVE  InSet'
<1>1. Static /\ InSet /\ n > 0 /\ Write(p, call.c % 256) /\ p' = p + 1 /\ n' = n - 1
      /\ UNCHANGED <<call, old, pc>>
  BY DEF IInv, Loop, Set, InSet, InForward, InBackward, InFind, InString, InCounted, InPad, IsDone
<1>2. FirstWritten = call.d /\ call.d \in Nat /\ call.n \in Nat
  BY <1>1, LegalFacts, CallFacts DEF Static, InSet
<1>3. Wanted(p - FirstWritten) = call.c % 256
  BY <1>1 DEF Wanted, InSet
<1>4. p \in Int /\ n \in Int /\ call.d <= p /\ Written(call.d, p)
  BY <1>1, <1>2 DEF InSet
<1>5. mem' = [a \in Addr |-> IF a \in call.d .. p THEN Wanted(a - FirstWritten) ELSE old[a]]
  BY <1>1, <1>2, <1>3, <1>4, WriteUp DEF Static
<1>6. Written(call.d, p)'
  <2>1. p' - 1 = p
    BY <1>1, <1>4
  <2> QED
    BY <1>1, <1>5, <2>1, StaticStep DEF Written
<1>7. pc' = "set" /\ call' = call /\ call.fn = "memset"
  BY <1>1 DEF InSet
<1>8. n' \in 0 .. call.n /\ p' = call.d + (call.n - n')
  BY <1>1, <1>2, <1>4 DEF InSet
<1> QED
  BY <1>6, <1>7, <1>8 DEF InSet

(* The bytes ahead are untouched: the areas are disjoint, or memmove's     *)
(* source lies above its destination.                                      *)
LEMMA ForwardStep ==
  ASSUME IInv, Forward
  PROVE  InForward'
<1>1. Static /\ InForward /\ n > 0 /\ Write(p, mem[q]) /\ p' = p + 1 /\ q' = q + 1 /\ n' = n - 1
      /\ UNCHANGED <<call, old, pc>>
  BY DEF IInv, Loop, Forward, InSet, InForward, InBackward, InFind, InString, InCounted, InPad, IsDone
<1>2. FirstWritten = call.d /\ call.d \in Nat /\ call.n \in Nat /\ call.s \in Nat
  BY <1>1, LegalFacts, CallFacts DEF Static, InForward
<1>3. p \in Int /\ q \in Int /\ n \in Int /\ call.d <= p /\ Written(call.d, p)
  BY <1>1, <1>2 DEF InForward
<1> DEFINE k == call.n - n
<1>4. k \in 0 .. call.n - 1 /\ p = call.d + k /\ q = call.s + k
  BY <1>1, <1>2, <1>3 DEF InForward
<1> HIDE DEF k
<1>5. q \in Addr
  BY <1>1, <1>4, LegalFacts DEF InForward
<1>6. q \notin call.d .. p - 1
  <2>1. CASE call.fn = "memmove"
    BY <1>1, <1>2, <1>4, <2>1 DEF InForward
  <2>2. CASE call.fn = "memcpy"
    <3>1. k \in 0 .. WriteLen - 1 /\ WriteLen = call.n
      BY <1>4, <2>2 DEF WriteLen, Counts
    <3>2. q \notin WriteArea
      BY <1>1, <1>4, <2>2, <3>1, LegalFacts
    <3>3. WriteArea = call.d .. call.d + call.n - 1
      BY <1>1, <1>2, <3>1, LegalFacts
    <3> QED
      BY <1>2, <1>3, <1>4, <3>2, <3>3
  <2> QED
    BY <1>1, <2>1, <2>2 DEF InForward
<1>7. mem[q] = old[q]
  BY <1>3, <1>5, <1>6, Untouched
<1>8. Wanted(p - FirstWritten) = mem[q]
  <2>1. p - FirstWritten = k
    BY <1>2, <1>4
  <2> QED
    BY <1>1, <1>4, <1>7, <2>1 DEF Wanted, InForward
<1>9. mem' = [a \in Addr |-> IF a \in call.d .. p THEN Wanted(a - FirstWritten) ELSE old[a]]
  BY <1>1, <1>2, <1>3, <1>8, WriteUp DEF Static
<1>10. Written(call.d, p)'
  <2>1. p' - 1 = p
    BY <1>1, <1>3
  <2> QED
    BY <1>1, <1>9, <2>1, StaticStep DEF Written
<1>11. n' \in 0 .. call.n /\ p' = call.d + (call.n - n') /\ q' = call.s + (call.n - n')
  BY <1>1, <1>2, <1>3 DEF InForward
<1> QED
  BY <1>1, <1>10, <1>11 DEF InForward

(* Downwards, the bytes below are untouched: memmove's source does not lie *)
(* above its destination.                                                  *)
LEMMA DownStep ==
  ASSUME IInv, Down
  PROVE  InBackward'
<1>1. Static /\ InBackward /\ n > 0 /\ Write(p - 1, mem[q - 1])
      /\ p' = p - 1 /\ q' = q - 1 /\ n' = n - 1 /\ UNCHANGED <<call, old, pc>>
  BY DEF IInv, Loop, Down, InSet, InForward, InBackward, InFind, InString, InCounted, InPad, IsDone
<1>2. FirstWritten = call.d /\ call.d \in Nat /\ call.n \in Nat /\ call.s \in Nat
  BY <1>1, LegalFacts, CallFacts DEF Static, InBackward
<1> DEFINE hi == call.d + call.n
<1>3. p \in Int /\ q \in Int /\ n \in Int /\ hi \in Int /\ p <= hi /\ Written(p, hi)
  BY <1>1, <1>2 DEF InBackward
<1>4. n - 1 \in 0 .. call.n - 1 /\ p - 1 = call.d + (n - 1) /\ q - 1 = call.s + (n - 1)
  BY <1>1, <1>2, <1>3 DEF InBackward
<1>5. q - 1 \in Addr
  BY <1>1, <1>4, LegalFacts DEF InBackward
<1>6. q - 1 \notin p .. hi - 1
  BY <1>1, <1>2, <1>3 DEF InBackward
<1>7. mem[q - 1] = old[q - 1]
  BY <1>3, <1>5, <1>6, Untouched
<1>8. Wanted(p - 1 - FirstWritten) = mem[q - 1]
  <2>1. p - 1 - FirstWritten = n - 1
    BY <1>2, <1>3, <1>4
  <2> QED
    BY <1>1, <1>4, <1>7, <2>1 DEF Wanted, InBackward
<1>9. mem' = [a \in Addr |-> IF a \in p - 1 .. hi - 1 THEN Wanted(a - FirstWritten) ELSE old[a]]
  <2> HIDE DEF hi
  <2> QED
    BY <1>1, <1>3, <1>8, WriteDown DEF Static
<1>10. Written(p, call.d + call.n)'
  BY <1>1, <1>9, StaticStep DEF Written
<1>11. n' \in 0 .. call.n /\ p' = call.d + n' /\ q' = call.s + n'
  BY <1>1, <1>2, <1>3 DEF InBackward
<1> QED
  BY <1>1, <1>10, <1>11 DEF InBackward

(* strcat stays inside its destination until it is at the NUL.             *)
LEMMA FindStep ==
  ASSUME IInv, Find
  PROVE  InFind' \/ InString'
<1>1. Static /\ InFind /\ UNCHANGED <<call, old, mem, q, n>>
      /\ IF mem[p] # 0 THEN p' = p + 1 /\ pc' = pc ELSE p' = p /\ pc' = "string"
  BY DEF IInv, Loop, Find, InSet, InForward, InBackward, InFind, InString, InCounted, InPad, IsDone
<1>2. /\ call.d \in Nat /\ call.s \in Nat
      /\ Strlen(call.d) \in Nat /\ FirstWritten = call.d + Strlen(call.d)
      /\ Strlen(call.s) \in Nat /\ old[call.d + Strlen(call.d)] = 0
      /\ \A j \in 0 .. Strlen(call.d) - 1 : old[call.d + j] # 0
  BY <1>1, LegalFacts, CallFacts DEF Static, InFind
<1> DEFINE len == Strlen(call.d)
<1>3. /\ p \in call.d .. call.d + len /\ len \in Nat /\ p \in Int /\ mem = old
      /\ pc = "find" /\ q = call.s /\ call.fn = "strcat"
  BY <1>1, <1>2 DEF InFind
<1>4. len' = len /\ Strlen(call.s)' = Strlen(call.s) /\ FirstWritten' = FirstWritten
  <2>1. call' = call /\ \A a : Strlen(a)' = Strlen(a)
    BY <1>1, StaticStep
  <2> QED
    BY <2>1, <1>1, StaticStep DEF Strlen
<1>5. CASE mem[p] # 0
  <2>1. p' = p + 1 /\ pc' = "find"
    BY <1>1, <1>3, <1>5
  <2>2. p # call.d + len
    BY <1>2, <1>3, <1>5
  <2>3. p' \in call.d .. call.d + len
    BY <1>2, <1>3, <2>1, <2>2
  <2> QED
    BY <1>1, <1>3, <1>4, <2>1, <2>3 DEF InFind
<1>6. CASE mem[p] = 0
  <2>1. p' = p /\ pc' = "string"
    BY <1>1, <1>3, <1>6
  <2>2. p = call.d + len
    <3>1. p - call.d \in 0 .. len
      BY <1>2, <1>3
    <3>2. old[call.d + (p - call.d)] = 0
      BY <1>2, <1>3, <1>6
    <3>3. p - call.d \notin 0 .. len - 1
      BY <1>2, <3>2
    <3> QED
      BY <1>2, <1>3, <3>1, <3>3
  <2>3. Written(FirstWritten, p)
    BY <1>1, <1>2, <1>3, <2>2 DEF Written, Static
  <2>4. Written(FirstWritten, p)'
    BY <1>1, <2>1, <2>3, StaticStep DEF Written
  <2>5. q' \in call.s .. call.s + Strlen(call.s) /\ p' = FirstWritten + (q' - call.s)
    BY <1>1, <1>2, <1>3, <2>1, <2>2
  <2> QED
    BY <1>1, <1>3, <1>4, <2>1, <2>4, <2>5 DEF InString
<1> QED
  BY <1>5, <1>6

(* strcpy's loop, and strcat's second, end with the NUL, and not before.   *)
LEMMA CopyStringStep ==
  ASSUME IInv, CopyString
  PROVE  InString' \/ IsDone'
<1>1. Static /\ InString /\ UNCHANGED <<call, old, n>>
      /\ Write(p, mem[q]) /\ p' = p + 1 /\ q' = q + 1
      /\ pc' = IF mem[q] = 0 THEN "done" ELSE pc
  BY DEF IInv, Loop, CopyString, InSet, InForward, InBackward, InFind, InString, InCounted, InPad, IsDone
<1> DEFINE len == Strlen(call.s)
           k == q - call.s
<1>2. /\ FirstWritten \in Nat /\ call.s \in Nat /\ len \in Nat /\ old[call.s + len] = 0
      /\ \A j \in 0 .. len : call.s + j \in Addr
      /\ \A j \in 0 .. len - 1 : old[call.s + j] # 0
      /\ WriteLen = len + 1 /\ WriteArea = FirstWritten .. FirstWritten + len
  <2>1. WriteLen = len + 1
    BY <1>1 DEF WriteLen, Counts, InString
  <2>2. Static /\ call.fn \in {"strcpy", "strcat"}
    BY <1>1 DEF InString
  <2>3. /\ FirstWritten \in Nat /\ WriteArea = FirstWritten .. FirstWritten + WriteLen - 1
        /\ len \in Nat /\ old[call.s + len] = 0
        /\ \A j \in 0 .. len : call.s + j \in Addr
        /\ \A j \in 0 .. len - 1 : old[call.s + j] # 0
    BY <2>2, LegalFacts
  <2>4. call.s \in Nat
    BY <2>2, CallFacts DEF Static
  <2> HIDE DEF len
  <2>5. FirstWritten + WriteLen - 1 = FirstWritten + len
    BY <2>1, <2>3
  <2> QED
    BY <2>1, <2>3, <2>4, <2>5
<1>3. /\ k \in 0 .. len /\ q = call.s + k /\ p = FirstWritten + k /\ pc = "string"
      /\ Written(FirstWritten, p) /\ call.fn \in {"strcpy", "strcat"}
  <2>1. /\ q \in call.s .. call.s + len /\ p = FirstWritten + (q - call.s) /\ pc = "string"
        /\ Written(FirstWritten, p) /\ call.fn \in {"strcpy", "strcat"}
    BY <1>1 DEF InString
  <2>2. call.s \in Nat /\ len \in Nat
    BY <1>2
  <2> HIDE DEF len
  <2> QED
    BY <2>1, <2>2
<1> HIDE DEF k
<1>4. mem[q] = old[q]
  <2>1. q \notin WriteArea
    BY SMTT(20), <1>1, <1>2, <1>3, LegalFacts
  <2>2. q \in Addr /\ q \notin FirstWritten .. p - 1
    BY <1>2, <1>3, <2>1
  <2> QED
    BY <1>3, <2>2, Untouched
<1>5. Wanted(p - FirstWritten) = mem[q]
  <2>1. p - FirstWritten = k
    BY <1>2, <1>3
  <2> QED
    BY <1>3, <1>4, <2>1 DEF Wanted
<1>6. mem' = [a \in Addr |-> IF a \in FirstWritten .. p THEN Wanted(a - FirstWritten) ELSE old[a]]
  <2>1. p \in Int /\ FirstWritten <= p
    BY <1>2, <1>3
  <2> QED
    BY <1>1, <1>2, <1>3, <1>5, <2>1, WriteUp DEF Static
<1>7. len' = len /\ FirstWritten' = FirstWritten /\ WriteLen' = WriteLen
  BY <1>1, StaticStep DEF Strlen
<1>8. CASE mem[q] # 0
  <2>1. k # len /\ pc' = "string"
    BY <1>1, <1>2, <1>3, <1>4, <1>8
  <2>2. q' \in call.s .. call.s + len /\ p' = FirstWritten + (q' - call.s) /\ p' - 1 = p
    <3>1. /\ k \in 0 .. len /\ k # len /\ q = call.s + k /\ p = FirstWritten + k
          /\ q' = q + 1 /\ p' = p + 1
          /\ FirstWritten \in Nat /\ call.s \in Nat /\ len \in Nat
      BY <1>1, <1>2, <1>3, <2>1
    <3> HIDE DEF len
    <3> QED
      BY <3>1
  <2>3. Written(FirstWritten, p)'
    BY <1>1, <1>6, <2>2, StaticStep DEF Written
  <2> QED
    BY <1>1, <1>3, <1>7, <2>1, <2>2, <2>3 DEF InString
<1>9. CASE mem[q] = 0
  <2>1. k = len
    <3>1. old[call.s + k] = 0
      BY <1>3, <1>4, <1>9
    <3>2. k \notin 0 .. len - 1
      BY <1>2, <3>1
    <3> HIDE DEF len
    <3> QED
      BY <1>2, <1>3, <3>2
  <2>2. WriteArea = FirstWritten .. p /\ pc' = "done"
    BY <1>1, <1>2, <1>3, <1>9, <2>1
  <2>3. mem' = [a \in Addr |-> IF a \in WriteArea THEN Wanted(a - FirstWritten) ELSE old[a]]
    BY <1>6, <2>2
  <2> QED
    BY <1>1, <2>2, <2>3, StaticStep DEF IsDone
<1> QED
  BY <1>8, <1>9

(* strncpy copies the string, the NUL included, as far as the count goes.  *)
LEMMA CopyCountedStep ==
  ASSUME IInv, CopyCounted
  PROVE  InCounted' \/ InPad'
<1>1. Static /\ InCounted /\ n > 0 /\ UNCHANGED <<call, old>>
      /\ Write(p, mem[q]) /\ p' = p + 1 /\ q' = q + 1
      /\ IF mem[q] = 0 THEN n' = n /\ pc' = "pad" ELSE n' = n - 1 /\ pc' = pc
  BY DEF IInv, Loop, CopyCounted, InSet, InForward, InBackward, InFind, InString, InCounted, InPad, IsDone
<1> DEFINE len == Strlen(call.s)
           k == q - call.s
<1>2. /\ FirstWritten = call.d /\ call.d \in Nat /\ call.s \in Nat /\ call.n \in Nat
      /\ len \in Nat /\ old[call.s + len] = 0
      /\ \A j \in 0 .. len : call.s + j \in Addr
      /\ \A j \in 0 .. len - 1 : old[call.s + j] # 0
      /\ WriteLen = call.n /\ WriteArea = call.d .. call.d + call.n - 1
  <2>1. WriteLen = call.n
    BY <1>1 DEF WriteLen, Counts, InCounted
  <2> QED
    BY <1>1, <2>1, LegalFacts, CallFacts DEF Static, InCounted
<1>3. /\ k \in 0 .. len /\ q = call.s + k /\ p = call.d + k /\ pc = "counted"
      /\ n \in 0 .. call.n /\ n = call.n - k
      /\ Written(call.d, p) /\ call.fn = "strncpy"
  BY SMTT(20), <1>1, <1>2 DEF InCounted
<1> HIDE DEF k
<1>4. k \in 0 .. call.n - 1
  BY <1>1, <1>2, <1>3
<1>5. mem[q] = old[q]
  <2>1. q \notin WriteArea
    <3>1. \A j \in 0 .. WriteLen - 1 :
            (call.fn = "strncpy" => j <= Strlen(call.s)) => call.s + j \notin WriteArea
      BY <1>1, <1>3, LegalFacts
    <3>2. k \in 0 .. WriteLen - 1 /\ k <= Strlen(call.s) /\ q = call.s + k
      BY <1>2, <1>3, <1>4
    <3> QED
      BY <3>1, <3>2
  <2>2. q \in Addr /\ q \notin call.d .. p - 1
    BY SMTT(20), <1>2, <1>3, <1>4, <2>1
  <2> QED
    BY <1>3, <2>2, Untouched
<1>6. Wanted(p - FirstWritten) = mem[q]
  <2>1. p - FirstWritten = k /\ ~(k > len)
    BY SMTT(20), <1>2, <1>3
  <2> QED
    BY <1>3, <1>5, <2>1 DEF Wanted
<1>7. mem' = [a \in Addr |-> IF a \in call.d .. p THEN Wanted(a - FirstWritten) ELSE old[a]]
  <2>1. p \in Int /\ call.d \in Int /\ call.d <= p
    BY <1>2, <1>3
  <2>2. old \in [Addr -> Chars] /\ Written(call.d, p) /\ Write(p, Wanted(p - FirstWritten))
    BY <1>1, <1>3, <1>6 DEF Static
  <2> QED
    BY <2>1, <2>2, WriteUp
<1>8. Written(call.d, p)'
  <2>1. p' - 1 = p
    BY <1>1, <1>2, <1>3
  <2> QED
    BY <1>1, <1>7, <2>1, StaticStep DEF Written
<1>9. len' = len /\ call' = call
  BY <1>1, StaticStep DEF Strlen
<1>10. CASE mem[q] # 0
  <2>1. k # len /\ pc' = "counted" /\ n' = n - 1
    BY <1>1, <1>2, <1>3, <1>5, <1>10
  <2>2. /\ q' \in call.s .. call.s + len /\ p' = call.d + (q' - call.s)
        /\ n' \in 0 .. call.n /\ n' = call.n - (q' - call.s)
    <3>1. /\ k \in 0 .. len /\ k # len /\ q = call.s + k /\ p = call.d + k
          /\ q' = q + 1 /\ p' = p + 1 /\ n' = n - 1 /\ n > 0
          /\ n \in 0 .. call.n /\ n = call.n - k
          /\ call.d \in Nat /\ call.s \in Nat /\ len \in Nat /\ call.n \in Nat
      BY <1>1, <1>2, <1>3, <2>1
    <3> HIDE DEF len
    <3> QED
      BY <3>1
  <2> QED
    BY <1>3, <1>8, <1>9, <2>1, <2>2 DEF InCounted
<1>11. CASE mem[q] = 0
  <2>1. k = len
    <3>1. old[call.s + k] = 0
      BY <1>3, <1>5, <1>11
    <3>2. k \notin 0 .. len - 1
      BY <1>2, <3>1
    <3> HIDE DEF len
    <3> QED
      BY <1>2, <1>3, <3>2
  <2>2. pc' = "pad" /\ n' = n
    BY <1>1, <1>11
  <2>3. n' \in 1 .. call.n /\ p' = call.d + (call.n - n') + 1 /\ p' > call.d + len
    <3>1. /\ k = len /\ p = call.d + k /\ p' = p + 1 /\ n' = n /\ n > 0
          /\ n \in 0 .. call.n /\ n = call.n - k
          /\ call.d \in Nat /\ len \in Nat /\ call.n \in Nat
      BY <1>1, <1>2, <1>3, <2>1, <2>2
    <3> HIDE DEF len
    <3> QED
      BY <3>1
  <2> QED
    BY <1>3, <1>8, <1>9, <2>2, <2>3 DEF InPad
<1> QED
  BY <1>10, <1>11

(* Behind the end of the string strncpy writes what is wanted: NULs.       *)
LEMMA PadStep ==
  ASSUME IInv, Pad
  PROVE  InPad'
<1>1. Static /\ InPad /\ n > 1 /\ Write(p, 0) /\ p' = p + 1 /\ n' = n - 1
      /\ UNCHANGED <<call, old, pc>>
  BY DEF IInv, Loop, Pad, InSet, InForward, InBackward, InFind, InString, InCounted, InPad, IsDone
<1> DEFINE len == Strlen(call.s)
<1>2. FirstWritten = call.d /\ call.d \in Nat /\ call.n \in Nat /\ len \in Nat
  BY <1>1, LegalFacts, CallFacts DEF Static, InPad
<1>3. /\ n \in 1 .. call.n /\ p = call.d + (call.n - n) + 1 /\ p > call.d + len
      /\ Written(call.d, p) /\ call.fn = "strncpy" /\ pc = "pad"
  BY <1>1 DEF InPad
<1>4. Wanted(p - FirstWritten) = 0
  <2>1. p - FirstWritten > len
    BY <1>2, <1>3
  <2> QED
    BY <1>3, <2>1 DEF Wanted
<1>5. p \in Int /\ call.d <= p
  BY <1>2, <1>3
<1>6. mem' = [a \in Addr |-> IF a \in call.d .. p THEN Wanted(a - FirstWritten) ELSE old[a]]
  BY <1>1, <1>2, <1>3, <1>4, <1>5, WriteUp DEF Static
<1>7. Written(call.d, p)'
  <2>1. p' - 1 = p
    BY <1>1, <1>5
  <2> QED
    BY <1>1, <1>6, <2>1, StaticStep DEF Written
<1>8. len' = len /\ call' = call
  BY <1>1, StaticStep DEF Strlen
<1>9. n' \in 1 .. call.n /\ p' = call.d + (call.n - n') + 1 /\ p' > call.d + len
  <2>1. /\ n > 1 /\ p' = p + 1 /\ n' = n - 1 /\ n \in 1 .. call.n
        /\ p = call.d + (call.n - n) + 1 /\ p > call.d + len
        /\ call.d \in Nat /\ len \in Nat /\ call.n \in Nat
    BY <1>1, <1>2, <1>3
  <2> HIDE DEF len
  <2> QED
    BY <2>1
<1> QED
  BY <1>1, <1>3, <1>7, <1>8, <1>9 DEF InPad

(* A counted loop that runs out has written its whole area.                *)
LEMMA ReturnStep ==
  ASSUME IInv, Return
  PROVE  IsDone'
<1>1. Static /\ Loop /\ UNCHANGED <<call, old, mem>> /\ pc' = "done"
      /\ (\/ pc \in {"set", "forward", "backward", "counted"} /\ n = 0
          \/ pc = "pad" /\ n = 1)
  BY DEF IInv, Return
<1>2. InSet \/ InForward \/ InBackward \/ InCounted \/ InPad
  BY <1>1 DEF Loop, InFind, InString, IsDone
<1>3. call.fn \in {"memset", "memcpy", "memmove", "strncpy"}
  BY <1>2 DEF InSet, InForward, InBackward, InCounted, InPad
<1>4. /\ FirstWritten = call.d /\ call.d \in Nat /\ call.n \in Nat /\ call.s \in Nat
      /\ WriteArea = call.d .. call.d + call.n - 1
  <2>1. WriteLen = call.n
    BY <1>3 DEF WriteLen, Counts
  <2> QED
    BY <1>1, <1>3, <2>1, LegalFacts, CallFacts DEF Static
<1>5. Written(call.d, call.d + call.n)
  <2>1. CASE InSet
    BY <1>1, <1>4, <2>1 DEF InSet
  <2>2. CASE InForward
    BY <1>1, <1>4, <2>2 DEF InForward
  <2>3. CASE InBackward
    BY <1>1, <1>4, <2>3 DEF InBackward
  <2>4. CASE InCounted
    <3>1. p = call.d + call.n
      <4>1. n = 0 /\ n = call.n - (q - call.s) /\ p = call.d + (q - call.s) /\ call.fn = "strncpy"
            /\ q \in call.s .. call.s + Strlen(call.s)
        BY <1>1, <2>4 DEF InCounted
      <4>2. q \in Int
        BY <1>1, <1>4, <4>1, LegalFacts
      <4> QED
        BY <1>4, <4>1, <4>2
    <3> QED
      BY <2>4, <3>1 DEF InCounted
  <2>5. CASE InPad
    <3>1. p = call.d + call.n
      BY <1>1, <1>4, <2>5 DEF InPad
    <3> QED
      BY <2>5, <3>1 DEF InPad
  <2> QED
    BY <1>2, <2>1, <2>2, <2>3, <2>4, <2>5
<1>6. mem = [a \in Addr |-> IF a \in WriteArea THEN Wanted(a - FirstWritten) ELSE old[a]]
  BY <1>4, <1>5 DEF Written
<1>7. mem' = [a \in Addr |-> IF a \in WriteArea THEN Wanted(a - FirstWritten) ELSE old[a]]
  BY <1>1, <1>6
<1> QED
  BY <1>1, <1>7, StaticStep DEF IsDone

(* A call begins with nothing written.                                     *)
LEMMA InitInv ==
  ASSUME Init
  PROVE  IInv
<1>1. Static /\ mem = old /\ pc = FirstLoop /\ n = call.n
      /\ p = (IF Backward THEN call.d + call.n ELSE call.d)
      /\ q = (IF Backward THEN call.s + call.n ELSE call.s)
  BY DEF Init, Static
<1>2. /\ call.d \in Nat /\ call.n \in Nat /\ call.s \in Nat
      /\ call.fn \in {"memset", "memcpy", "memmove", "strncpy", "strcpy", "strcat"}
  BY <1>1, CallFacts DEF Static
<1>3. ASSUME NEW a \in Int
      PROVE  Written(a, a)
  <2>1. a .. a - 1 = {}
    BY <1>3
  <2> QED
    BY <1>1, <2>1 DEF Written, Static
<1>4. call.d \in Int /\ call.d + call.n \in Int
  BY <1>2
<1>5. CASE call.fn = "memset"
  <2>1. pc = "set" /\ p = call.d /\ n \in 0 .. call.n /\ call.n - n = 0
    BY <1>1, <1>2, <1>5 DEF FirstLoop, Backward
  <2>2. Written(call.d, p) /\ p = call.d + (call.n - n)
    BY <1>2, <1>3, <1>4, <2>1
  <2> QED
    BY <1>1, <1>5, <2>1, <2>2 DEF IInv, Loop, InSet
<1>6. CASE call.fn \in {"memcpy", "memmove"} /\ FirstLoop = "forward"
  <2>1. /\ pc = "forward" /\ p = call.d /\ q = call.s /\ n \in 0 .. call.n /\ call.n - n = 0
        /\ call.fn = "memmove" => call.d < call.s
    BY <1>1, <1>2, <1>6 DEF FirstLoop, Backward
  <2>2. InForward
    BY <1>2, <1>3, <1>6, <2>1 DEF InForward
  <2> QED
    BY <1>1, <2>2 DEF IInv, Loop
<1>7. CASE call.fn \in {"memcpy", "memmove"} /\ FirstLoop # "forward"
  <2>1. /\ pc = "backward" /\ p = call.d + call.n /\ q = call.s + call.n /\ n = call.n
        /\ call.fn = "memmove" /\ call.s <= call.d
    BY <1>1, <1>2, <1>7 DEF FirstLoop, Backward
  <2>2. InBackward
    BY <1>2, <1>3, <1>4, <2>1 DEF InBackward
  <2> QED
    BY <1>1, <2>2 DEF IInv, Loop
<1>8. CASE call.fn = "strcat"
  <2>1. pc = "find" /\ p = call.d /\ q = call.s
    BY <1>1, <1>8 DEF FirstLoop, Backward
  <2>2. Strlen(call.d) \in Nat
    BY <1>1, <1>8, LegalFacts
  <2>3. p \in call.d .. call.d + Strlen(call.d)
    BY <1>2, <2>1, <2>2
  <2> QED
    BY <1>1, <1>8, <2>1, <2>3 DEF IInv, Loop, InFind
<1>9. CASE call.fn = "strcpy"
  <2>1. pc = "string" /\ p = call.d /\ q = call.s /\ FirstWritten = call.d
    BY <1>1, <1>9 DEF FirstLoop, Backward, FirstWritten
  <2>2. Strlen(call.s) \in Nat
    BY <1>1, <1>9, LegalFacts
  <2>3. q \in call.s .. call.s + Strlen(call.s) /\ p = FirstWritten + (q - call.s)
    BY <1>2, <2>1, <2>2
  <2>4. Written(FirstWritten, p)
    BY <1>3, <1>4, <2>1
  <2> QED
    BY <1>1, <1>9, <2>1, <2>3, <2>4 DEF IInv, Loop, InString
<1>10. CASE call.fn = "strncpy"
  <2>1. pc = "counted" /\ p = call.d /\ q = call.s
    BY <1>1, <1>10 DEF FirstLoop, Backward
  <2>2. Strlen(call.s) \in Nat
    BY <1>1, <1>10, LegalFacts
  <2>3. /\ q \in call.s .. call.s + Strlen(call.s) /\ p = call.d + (q - call.s)
        /\ n \in 0 .. call.n /\ n = call.n - (q - call.s)
    BY <1>1, <1>2, <2>1, <2>2
  <2>4. Written(call.d, p)
    BY <1>3, <1>4, <2>1
  <2> QED
    BY <1>1, <1>10, <2>1, <2>3, <2>4 DEF IInv, Loop, InCounted
<1> QED
  BY <1>2, <1>5, <1>6, <1>7, <1>8, <1>9, <1>10

(* IInv is an invariant of the functions.                                  *)
THEOREM Invariant == Spec => []IInv
<1>1. Init => IInv
  BY InitInv
<1>2. IInv /\ [Next]_vars => IInv'
  <2> SUFFICES ASSUME IInv, [Next]_vars
               PROVE  IInv'
    OBVIOUS
  <2>1. Static' /\ (Next \/ UNCHANGED vars)
    <3>1. UNCHANGED <<call, old>>
      BY DEF Next, vars, Set, Forward, Down, Find, CopyString, CopyCounted, Pad, Return
    <3> QED
      BY <3>1, StaticStep DEF IInv
  <2>2. CASE Set
    BY <2>1, <2>2, SetStep DEF IInv, Loop
  <2>3. CASE Forward
    BY <2>1, <2>3, ForwardStep DEF IInv, Loop
  <2>4. CASE Down
    BY <2>1, <2>4, DownStep DEF IInv, Loop
  <2>5. CASE Find
    BY <2>1, <2>5, FindStep DEF IInv, Loop
  <2>6. CASE CopyString
    BY <2>1, <2>6, CopyStringStep DEF IInv, Loop
  <2>7. CASE CopyCounted
    BY <2>1, <2>7, CopyCountedStep DEF IInv, Loop
  <2>8. CASE Pad
    BY <2>1, <2>8, PadStep DEF IInv, Loop
  <2>9. CASE Return
    BY <2>1, <2>9, ReturnStep DEF IInv, Loop
  <2>10. CASE UNCHANGED vars
    <3>1. /\ Static' /\ call' = call /\ old' = old /\ mem' = mem /\ pc' = pc
          /\ p' = p /\ q' = q /\ n' = n
          /\ FirstWritten' = FirstWritten /\ WriteArea' = WriteArea
          /\ \A k : Wanted(k)' = Wanted(k)
          /\ Strlen(call.s)' = Strlen(call.s) /\ Strlen(call.d)' = Strlen(call.d)
      <4>1. UNCHANGED <<call, old, mem, pc, p, q, n>>
        BY <2>10 DEF vars
      <4>2. Strlen(call.s)' = Strlen(call.s) /\ Strlen(call.d)' = Strlen(call.d)
        BY <4>1 DEF Strlen
      <4> QED
        BY <2>1, <4>1, <4>2, StaticStep DEF IInv
    <3>2. CASE InSet
      BY <3>1, <3>2 DEF IInv, Loop, InSet, Written
    <3>3. CASE InForward
      BY <3>1, <3>3 DEF IInv, Loop, InForward, Written
    <3>4. CASE InBackward
      BY <3>1, <3>4 DEF IInv, Loop, InBackward, Written
    <3>5. CASE InFind
      BY <3>1, <3>5 DEF IInv, Loop, InFind, Strlen
    <3>6. CASE InString
      BY <3>1, <3>6 DEF IInv, Loop, InString, Written, Strlen
    <3>7. CASE InCounted
      BY <3>1, <3>7 DEF IInv, Loop, InCounted, Written, Strlen
    <3>8. CASE InPad
      BY <3>1, <3>8 DEF IInv, Loop, InPad, Written, Strlen
    <3>9. CASE IsDone
      BY <3>1, <3>9 DEF IInv, Loop, IsDone
    <3> QED
      BY <3>2, <3>3, <3>4, <3>5, <3>6, <3>7, <3>8, <3>9 DEF IInv, Loop
  <2> QED
    BY <2>1, <2>2, <2>3, <2>4, <2>5, <2>6, <2>7, <2>8, <2>9, <2>10 DEF Next
<1> QED
  BY <1>1, <1>2, PTL DEF Spec

(* No call of memset, memcpy, memmove, strcpy, strcat or strncpy ever      *)
(* changes a byte outside the area its caller gave it, however long the    *)
(* areas and wherever they lie.                                            *)
THEOREM NothingElseWritten == Spec => []InArea
<1>1. IInv => InArea
  <2> SUFFICES ASSUME IInv, NEW a \in Addr \ WriteArea
               PROVE  mem[a] = old[a]
    BY DEF InArea
  <2>1. Static /\ Loop
    BY DEF IInv
  <2>2. /\ FirstWritten \in Nat /\ WriteArea = FirstWritten .. FirstWritten + WriteLen - 1
        /\ WriteLen \in Nat /\ call.n \in Nat /\ call.d \in Nat /\ a \in Int
    BY <2>1, LegalFacts, CallFacts, BytesAssumption DEF Static, Addr
  <2>3. ASSUME NEW lo, NEW hi, Written(lo, hi), lo .. hi - 1 \subseteq WriteArea
        PROVE  mem[a] = old[a]
    BY <2>3 DEF Written
  <2>4. call.fn \in {"memset", "memcpy", "memmove", "strncpy"}
          => FirstWritten = call.d /\ WriteLen = call.n
    BY <2>1, LegalFacts DEF WriteLen, Counts
  <2>5. CASE InSet
    BY SMTT(20), <2>2, <2>3, <2>4, <2>5 DEF InSet
  <2>6. CASE InForward
    <3>1. n \in 0 .. call.n /\ p = call.d + (call.n - n) /\ Written(call.d, p)
          /\ call.fn \in {"memcpy", "memmove"}
      BY <2>6 DEF InForward
    <3>2. call.d .. p - 1 \subseteq WriteArea
      BY SMTT(20), <2>2, <2>4, <3>1
    <3> QED
      BY <2>3, <3>1, <3>2
  <2>7. CASE InBackward
    BY <2>2, <2>3, <2>4, <2>7 DEF InBackward
  <2>8. CASE InFind
    BY <2>8 DEF InFind
  <2>9. CASE InString
    <3>1. Strlen(call.s) \in Nat /\ WriteLen = Strlen(call.s) + 1 /\ call.s \in Nat
      BY <2>1, <2>9, LegalFacts, CallFacts DEF InString, WriteLen, Counts, Static
    <3>2. p - 1 <= FirstWritten + WriteLen - 1 /\ p \in Int
      BY SMTT(20), <2>2, <2>9, <3>1 DEF InString
    <3>3. FirstWritten .. p - 1 \subseteq WriteArea
      BY <2>2, <3>2
    <3> QED
      BY <2>3, <2>9, <3>3 DEF InString
  <2>10. CASE InCounted
    <3>1. n \in 0 .. call.n /\ n = call.n - (q - call.s) /\ p = call.d + (q - call.s)
          /\ q \in call.s .. call.s + Strlen(call.s) /\ call.fn = "strncpy" /\ Written(call.d, p)
      BY <2>10 DEF InCounted
    <3>2. q \in Int /\ call.s \in Int
      BY <2>1, <3>1, LegalFacts, CallFacts DEF Static
    <3> DEFINE k == q - call.s
    <3>3. p - 1 <= call.d + call.n - 1 /\ p \in Int
      <4>1. k \in Int /\ n = call.n - k /\ p = call.d + k /\ n >= 0 /\ n \in Int
        BY <2>2, <3>1, <3>2
      <4> HIDE DEF k
      <4> QED
        BY SMTT(20), <2>2, <4>1
    <3>4. call.d .. p - 1 \subseteq WriteArea
      BY <2>2, <2>4, <3>1, <3>3
    <3> QED
      BY <2>3, <3>1, <3>4
  <2>11. CASE InPad
    <3>1. n \in 1 .. call.n /\ p = call.d + (call.n - n) + 1 /\ call.fn = "strncpy" /\ Written(call.d, p)
      BY <2>11 DEF InPad
    <3>2. p - 1 <= call.d + call.n - 1 /\ p \in Int
      BY <2>2, <3>1
    <3>3. call.d \in Int /\ call.n \in Int /\ WriteArea = call.d .. call.d + call.n - 1
      BY <2>2, <2>4, <3>1
    <3>4. call.d .. p - 1 \subseteq WriteArea
      BY <3>2, <3>3
    <3> QED
      BY <2>3, <3>1, <3>4
  <2>12. CASE IsDone
    BY <2>12 DEF IsDone
  <2> QED
    BY <2>1, <2>5, <2>6, <2>7, <2>8, <2>9, <2>10, <2>11, <2>12 DEF Loop
<1> QED
  BY <1>1, Invariant, PTL

(* Whenever one of them is back, the area holds what the C library         *)
(* promises: the source as it was, also where memmove's areas overlap.     *)
THEOREM CallsCopy == Spec => []Result
<1>1. IInv => Result
  <2> SUFFICES ASSUME IInv, pc = "done", NEW a \in WriteArea
               PROVE  mem[a] = Wanted(a - FirstWritten)
    BY DEF Result
  <2>1. IsDone
    BY DEF IInv, Loop, InSet, InForward, InBackward, InFind, InString, InCounted, InPad
  <2>2. a \in Addr
    BY DEF IInv, Static, Legal
  <2> QED
    BY <2>1, <2>2 DEF IsDone
<1> QED
  BY <1>1, Invariant, PTL

-----------------------------------------------------------------------------
(* Where the pointers are.                                                 *)

(* An iteration reads and writes bytes of memory only.                     *)
LEMMA AccessesInMemory ==
  ASSUME IInv
  PROVE  /\ pc \in {"set", "forward", "counted"} /\ n > 0 => p \in Addr
         /\ pc \in {"forward", "counted"} /\ n > 0 => q \in Addr
         /\ pc = "backward" /\ n > 0 => p - 1 \in Addr /\ q - 1 \in Addr
         /\ pc = "find" => p \in Addr
         /\ pc = "string" => p \in Addr /\ q \in Addr
         /\ pc = "pad" /\ n > 1 => p \in Addr
<1>1. /\ call.fn # "strcat" => FirstWritten = call.d
      /\ \A k \in 0 .. WriteLen - 1 : FirstWritten + k \in Addr
      /\ call.fn \in {"memcpy", "memmove"} => \A k \in 0 .. call.n - 1 : call.s + k \in Addr
      /\ call.fn \in {"strcpy", "strcat", "strncpy"} =>
           /\ Strlen(call.s) \in Nat /\ \A j \in 0 .. Strlen(call.s) : call.s + j \in Addr
      /\ call.fn = "strcat" => Strlen(call.d) \in Nat /\ FirstWritten = call.d + Strlen(call.d)
  BY LegalFacts DEF IInv
<1>2. call.d \in Nat /\ call.n \in Nat /\ call.s \in Nat
  BY CallFacts DEF IInv, Static
<1>3. CASE InSet
  <2>1. WriteLen = call.n
    BY <1>3 DEF WriteLen, Counts, InSet
  <2> QED
    BY <1>1, <1>2, <1>3, <2>1 DEF InSet
<1>4. CASE InForward
  <2>1. WriteLen = call.n
    BY <1>4 DEF WriteLen, Counts, InForward
  <2> QED
    BY <1>1, <1>2, <1>4, <2>1 DEF InForward
<1>5. CASE InBackward
  <2>1. WriteLen = call.n
    BY <1>5 DEF WriteLen, Counts, InBackward
  <2>2. n > 0 => n - 1 \in 0 .. call.n - 1
    BY <1>2, <1>5 DEF InBackward
  <2> QED
    BY <1>1, <1>2, <1>5, <2>1, <2>2 DEF InBackward
<1>6. CASE InFind
  <2>1. call.d + Strlen(call.d) \in Addr
    <3>1. WriteLen = Strlen(call.s) + 1
      BY <1>6 DEF WriteLen, Counts, InFind
    <3>2. 0 \in 0 .. WriteLen - 1
      BY <1>1, <1>6, <3>1 DEF InFind
    <3>3. FirstWritten + 0 \in Addr
      BY <1>1, <3>2
    <3> QED
      BY <1>1, <1>2, <1>6, <3>3 DEF InFind
  <2>2. p \in Addr
    BY <1>2, <1>6, <2>1, BytesAssumption DEF InFind, Addr
  <2> QED
    BY <1>6, <2>2 DEF InFind
<1>7. CASE InString
  <2>1. WriteLen = Strlen(call.s) + 1
    BY <1>7 DEF WriteLen, Counts, InString
  <2>2. q - call.s \in 0 .. Strlen(call.s) /\ q = call.s + (q - call.s)
    BY <1>1, <1>2, <1>7 DEF InString
  <2>3. p \in Addr
    BY <1>1, <1>7, <2>1, <2>2 DEF InString
  <2>4. q \in Addr
    BY <1>1, <1>7, <2>2 DEF InString
  <2> QED
    BY <1>7, <2>3, <2>4 DEF InString
<1>8. CASE InCounted
  <2>1. WriteLen = call.n
    BY <1>8 DEF WriteLen, Counts, InCounted
  <2>2. q - call.s \in 0 .. Strlen(call.s) /\ q = call.s + (q - call.s)
    BY <1>1, <1>2, <1>8 DEF InCounted
  <2>3. q \in Addr
    BY <1>1, <1>8, <2>2 DEF InCounted
  <2>4. n > 0 => p \in Addr
    BY <1>1, <1>2, <1>8, <2>1, <2>2 DEF InCounted
  <2> QED
    BY <1>8, <2>3, <2>4 DEF InCounted
<1>9. CASE InPad
  <2>1. WriteLen = call.n
    BY <1>9 DEF WriteLen, Counts, InPad
  <2>2. n > 1 => (call.n - n) + 1 \in 0 .. call.n - 1
    BY <1>2, <1>9 DEF InPad
  <2>3. n > 1 => call.d + ((call.n - n) + 1) \in Addr
    BY <1>1, <1>9, <2>1, <2>2 DEF InPad
  <2>4. p = call.d + ((call.n - n) + 1)
    BY <1>2, <1>9 DEF InPad
  <2> QED
    BY <1>9, <2>3, <2>4 DEF InPad
<1>10. CASE IsDone
  BY <1>10 DEF IsDone
<1> QED
  BY <1>3, <1>4, <1>5, <1>6, <1>7, <1>8, <1>9, <1>10 DEF IInv, Loop

(* TypeOK: no pointer ever leaves memory by more than the address behind   *)
(* it, so that each iteration's accesses are to memory.                    *)
THEOREM PointersInMemory == Spec => []TypeOK
<1>1. Init => TypeOK
  <2> SUFFICES ASSUME Init
               PROVE  TypeOK
    OBVIOUS
  <2>1. Static /\ mem = old /\ pc = FirstLoop /\ n = call.n
        /\ p = (IF Backward THEN call.d + call.n ELSE call.d)
        /\ q = (IF Backward THEN call.s + call.n ELSE call.s)
    BY DEF Init, Static
  <2>2. call.d \in Addr /\ call.n \in 0 .. Bytes /\ call.s \in 0 .. Bytes
        /\ call.fn \in {"memset", "memcpy", "memmove", "strncpy", "strcpy", "strcat"}
    BY <2>1, BytesAssumption, CallFacts DEF Static, Call, Addr
  <2>3. pc \in {"set", "forward", "backward", "find", "string", "counted", "pad", "done"}
    BY <2>1, <2>2 DEF FirstLoop
  <2>4. ASSUME Backward
        PROVE  call.d + call.n \in 0 .. Bytes /\ call.s + call.n \in 0 .. Bytes
    <3>1. call.fn = "memmove"
      BY <2>2, <2>4 DEF Backward, FirstLoop
    <3>2. CASE call.n = 0
      BY <2>2, <3>2, BytesAssumption DEF Addr
    <3>3. CASE call.n # 0
      <4>1. call.n - 1 \in 0 .. call.n - 1 /\ WriteLen = call.n
        BY <2>2, <3>1, <3>3, BytesAssumption DEF WriteLen, Counts
      <4>2. call.d + (call.n - 1) \in Addr /\ call.s + (call.n - 1) \in Addr
        BY <2>1, <3>1, <4>1, LegalFacts
      <4> QED
        BY <2>2, <4>2, BytesAssumption DEF Addr
    <3> QED
      BY <3>2, <3>3
  <2>5. p \in 0 .. Bytes /\ q \in 0 .. Bytes
    BY <2>1, <2>2, <2>4, BytesAssumption DEF Addr
  <2> QED
    BY <2>1, <2>2, <2>3, <2>5 DEF TypeOK, Static
<1>2. IInv /\ TypeOK /\ [Next]_vars => TypeOK'
  <2> SUFFICES ASSUME IInv, TypeOK, [Next]_vars
               PROVE  TypeOK'
    OBVIOUS
  <2>1. /\ call \in Call /\ old \in [Addr -> Chars] /\ mem \in [Addr -> Chars]
        /\ pc \in {"set", "forward", "backward", "find", "string", "counted", "pad", "done"}
        /\ p \in 0 .. Bytes /\ q \in 0 .. Bytes /\ n \in 0 .. Bytes
    BY DEF TypeOK
  <2>2. /\ Addr = 0 .. Bytes - 1 /\ Bytes \in Nat /\ 0 \in Chars
        /\ call.fn = "memset" => call.c % 256 \in Chars
    BY <2>1, BytesAssumption, CharsAssumption, ByteFacts DEF Addr
  <2>3. \A a, v : v \in Chars /\ Write(a, v) => mem' \in [Addr -> Chars]
    BY <2>1 DEF Write
  <2>4. \A a \in Addr : mem[a] \in Chars /\ a + 1 \in 0 .. Bytes
    BY <2>1, <2>2
  <2>5. CASE Set
    <3>1. call.fn = "memset"
      BY <2>5 DEF IInv, Loop, Set, InSet, InForward, InBackward, InFind, InString, InCounted,
                  InPad, IsDone
    <3> QED
      BY <2>1, <2>2, <2>3, <2>4, <2>5, <3>1, AccessesInMemory DEF Set, TypeOK
  <2>6. CASE Forward
    BY <2>1, <2>2, <2>3, <2>4, <2>6, AccessesInMemory DEF Forward, TypeOK
  <2>7. CASE Down
    <3>1. p - 1 \in Addr /\ q - 1 \in Addr
      BY <2>7, AccessesInMemory DEF Down
    <3>2. mem' \in [Addr -> Chars]
      BY <2>3, <2>4, <2>7, <3>1 DEF Down
    <3>3. p' \in 0 .. Bytes /\ q' \in 0 .. Bytes /\ n' \in 0 .. Bytes
      BY <2>1, <2>2, <2>7, <3>1 DEF Down
    <3> QED
      BY <2>1, <2>7, <3>2, <3>3 DEF Down, TypeOK
  <2>8. CASE Find
    BY <2>1, <2>2, <2>4, <2>8, AccessesInMemory DEF Find, TypeOK
  <2>9. CASE CopyString
    <3>1. p \in Addr /\ q \in Addr
      BY <2>9, AccessesInMemory DEF CopyString
    <3> QED
      BY <2>1, <2>2, <2>3, <2>4, <2>9, <3>1 DEF CopyString, TypeOK
  <2>10. CASE CopyCounted
    <3>1. p \in Addr /\ q \in Addr
      BY <2>10, AccessesInMemory DEF CopyCounted
    <3> QED
      BY <2>1, <2>2, <2>3, <2>4, <2>10, <3>1 DEF CopyCounted, TypeOK
  <2>11. CASE Pad
    BY <2>1, <2>2, <2>3, <2>4, <2>11, AccessesInMemory DEF Pad, TypeOK
  <2>12. CASE Return
    BY <2>1, <2>12 DEF Return, TypeOK
  <2>13. CASE UNCHANGED vars
    BY <2>1, <2>13 DEF vars, TypeOK
  <2> QED
    BY <2>5, <2>6, <2>7, <2>8, <2>9, <2>10, <2>11, <2>12, <2>13 DEF Next
<1> QED
  BY <1>1, <1>2, Invariant, PTL DEF Spec

-----------------------------------------------------------------------------
(* CString: the inductive invariant.  A comparison has come along bytes    *)
(* that are the same; a search has not passed what it looks for, and       *)
(* strrchr has the last of what it passed; what came back is what the      *)
(* function is to find.                                                    *)

(* The last place before k, if there is any.                               *)
Latest(r, k) ==
  \/ Where(r) /\ \A i \in r + 1 .. k - 1 : ~Where(i)
  \/ r = NULL /\ \A i \in 1 .. k - 1 : ~Where(i)

Finds(r) ==
  /\ fn = "strcmp" => Orders(r, s, t)
  /\ fn = "strncmp" => Orders(r, Cut(s), Cut(t))
  /\ fn = "strlen" => r = Len(s)
  /\ fn = "strchr" => \/ Where(r) /\ \A i \in 1 .. r - 1 : ~Where(i)
                      \/ r = NULL /\ \A i \in 1 .. Len(s) : ~Where(i)
  /\ fn = "strrchr" => Latest(r, Len(s) + 1)
  /\ fn = "strstr" => \/ t = <<>> /\ r = 1
                      \/ t # <<>> /\ IsNeedle(r)
                      \/ t # <<>> /\ r = NULL /\ \A i \in 1 .. Len(s) : ~IsNeedle(i)

InCompare ==
  /\ fn \in Comparing \cup {"strstr"}
  /\ s1 = at + s2 - 1
  /\ \A j \in 1 .. s2 - 1 : at + j - 1 <= Len(s) /\ j <= Len(t) /\ s[at + j - 1] = t[j]
  /\ fn \in Comparing => at = 1
  /\ fn = "strncmp" => left + s2 = count + 1
  /\ fn = "strstr" => t # <<>> /\ at <= Len(s) /\ \A i \in 1 .. at - 1 : ~IsNeedle(i)

InSearch ==
  /\ fn \in Searching
  /\ fn = "strchr" => \A i \in 1 .. at - 1 : ~Where(i)
  /\ fn = "strrchr" => Latest(last, at)
  /\ fn = "strstr" => (t = <<>> => at = 1) /\ \A i \in 1 .. at - 1 : ~IsNeedle(i)

CallTypes ==
  /\ s \in Seq(ByteValues) /\ t \in Seq(ByteValues) /\ c \in Int /\ count \in Nat
  /\ left \in Nat /\ InStrings /\ loop \in {"search", "compare", "back"}

CallInv ==
  /\ CallTypes
  /\ loop = "compare" => InCompare
  /\ loop = "search" => InSearch
  /\ loop = "back" => Finds(ret)

-----------------------------------------------------------------------------
(* Strings and their order.                                                *)

(* The bytes of a string, its NUL and what is behind it.                   *)
LEMMA AtFacts ==
  ASSUME NEW a \in Seq(ByteValues), NEW i \in Nat \ {0}
  PROVE  /\ At(a, i) \in 0 .. 255
         /\ At(a, i) = 0 <=> i > Len(a)
         /\ i <= Len(a) => At(a, i) = a[i] /\ a[i] \in ByteValues
<1>1. CASE i <= Len(a)
  <2>1. a[i] \in ByteValues
    BY <1>1
  <2> QED
    <3>1. a[i] \in 1 .. 255
      BY <2>1, StringsAssumption
    <3> QED
      <4>1. At(a, i) = a[i]
        BY <1>1 DEF At
      <4>2. At(a, i) \in 0 .. 255 /\ At(a, i) # 0
        <5> DEFINE x == At(a, i)
        <5>1. x \in 1 .. 255
          BY <3>1, <4>1
        <5> HIDE DEF x
        <5>2. x \in 0 .. 255 /\ x # 0
          BY <5>1
        <5> QED
          BY <5>2 DEF x
      <4> QED
        BY <1>1, <2>1, <4>1, <4>2
<1>2. CASE ~(i <= Len(a))
  BY <1>2 DEF At
<1> QED
  BY <1>1, <1>2

(* A sequence of bytes that agrees with another up to its end is its       *)
(* prefix, and the same if they are as long.                               *)
LEMMA PrefixFacts ==
  ASSUME NEW a \in Seq(ByteValues), NEW b \in Seq(ByteValues)
  PROVE  /\ IsPrefix(a, b) <=> Len(a) <= Len(b) /\ \A j \in 1 .. Len(a) : a[j] = b[j]
         /\ \A k \in 0 .. Len(a) : k <= Len(b) =>
              (SubSeq(a, 1, k) = SubSeq(b, 1, k) <=> \A j \in 1 .. k : a[j] = b[j])
<1>1. ASSUME NEW k \in 0 .. Len(a), k <= Len(b)
      PROVE  SubSeq(a, 1, k) = SubSeq(b, 1, k) <=> \A j \in 1 .. k : a[j] = b[j]
  <2> DEFINE A == SubSeq(a, 1, k)
             B == SubSeq(b, 1, k)
  <2>1. 1 \in Int /\ k \in Int /\ (\A i \in 1 .. k : a[i] \in ByteValues) /\ (\A i \in 1 .. k : b[i] \in ByteValues)
    BY <1>1
  <2>2. A \in Seq(ByteValues) /\ Len(A) = (IF 1 <= k THEN k - 1 + 1 ELSE 0)
        /\ \A i \in 1 .. k - 1 + 1 : A[i] = a[1 + i - 1]
    BY <2>1, SubSeqProperties
  <2>3. B \in Seq(ByteValues) /\ Len(B) = (IF 1 <= k THEN k - 1 + 1 ELSE 0)
        /\ \A i \in 1 .. k - 1 + 1 : B[i] = b[1 + i - 1]
    BY <2>1, SubSeqProperties
  <2> HIDE DEF A, B
  <2>4. Len(A) = k /\ Len(B) = k /\ \A i \in 1 .. k : A[i] = a[i] /\ B[i] = b[i]
    <3>1. \A i \in 1 .. k : i \in 1 .. k - 1 + 1 /\ 1 + i - 1 = i
      BY <2>1
    <3> QED
      BY <1>1, <2>1, <2>2, <2>3, <3>1
  <2>5. A = B => \A j \in 1 .. k : a[j] = b[j]
    BY <2>4
  <2>6. (\A j \in 1 .. k : a[j] = b[j]) => A = B
    BY <2>2, <2>3, <2>4, SeqEqual
  <2> QED
    BY <2>5, <2>6 DEF A, B
<1>2. IsPrefix(a, b) <=> Len(a) <= Len(b) /\ \A j \in 1 .. Len(a) : a[j] = b[j]
  <2>1. Len(a) \in 0 .. Len(a)
    OBVIOUS
  <2> QED
    BY <1>1, <2>1 DEF IsPrefix
<1> QED
  BY <1>1, <1>2

(* Where a comparison stops: up to there the strings have the same bytes,  *)
(* and no NUL; there the first one ends, or they differ.                   *)
Stops(a, b, i) ==
  /\ i \in 1 .. Len(a) + 1
  /\ i = Len(a) + 1 \/ At(a, i) # At(b, i)
  /\ \A j \in 1 .. i - 1 : j <= Len(a) /\ j <= Len(b) /\ a[j] = b[j]

(* The sign of the difference there is the order of the strings.           *)
LEMMA StopOrders ==
  ASSUME NEW a \in Seq(ByteValues), NEW b \in Seq(ByteValues), NEW i, Stops(a, b, i)
  PROVE  Orders(At(a, i) - At(b, i), a, b)
<1> DEFINE A == At(a, i)
           B == At(b, i)
<1>1. /\ i \in 1 .. Len(a) + 1 /\ (i = Len(a) + 1 \/ A # B)
      /\ \A j \in 1 .. i - 1 : j <= Len(a) /\ j <= Len(b) /\ a[j] = b[j]
  BY DEF Stops
<1>3. i \in Nat \ {0}
  BY <1>1
<1>4. /\ A \in 0 .. 255 /\ (A = 0 <=> i > Len(a)) /\ (i <= Len(a) => A = a[i])
      /\ B \in 0 .. 255 /\ (B = 0 <=> i > Len(b)) /\ (i <= Len(b) => B = b[i])
  BY <1>3, AtFacts
<1> HIDE DEF A, B
<1>5. ASSUME A = B
      PROVE  a = b
  <2>1. i = Len(a) + 1 /\ i > Len(b)
    BY <1>1, <1>4, <1>5
  <2>2. Len(b) = Len(a)
    <3>1. CASE Len(a) = 0
      BY <2>1, <3>1
    <3>2. CASE Len(a) # 0
      <4>1. Len(a) \in 1 .. i - 1
        BY <2>1, <3>2
      <4> QED
        BY <1>1, <2>1, <4>1
    <3> QED
      BY <3>1, <3>2
  <2>3. \A j \in 1 .. Len(a) : a[j] = b[j]
    BY <1>1, <2>1
  <2> QED
    BY <2>2, <2>3, SeqEqual
<1>6. ASSUME a = b
      PROVE  A = B
  BY <1>6 DEF A, B
<1>7. ASSUME A < B
      PROVE  Less(a, b)
  <2>1. i <= Len(b) /\ B = b[i]
    <3>1. A \in Nat /\ B \in Nat /\ i \in Nat /\ Len(b) \in Nat
      BY <1>3, <1>4
    <3>2. B # 0
      BY <1>7, <3>1
    <3>3. ~(i > Len(b))
      BY <1>4, <3>2
    <3>4. i <= Len(b)
      BY <3>1, <3>3
    <3> QED
      BY <1>4, <3>4
  <2>2. CASE i = Len(a) + 1
    <3>1. Len(a) <= Len(b) /\ \A j \in 1 .. Len(a) : a[j] = b[j]
      BY <1>1, <2>1, <2>2
    <3> QED
      BY <1>4, <1>6, <1>7, <3>1, PrefixFacts DEF Less, IsStrictPrefix
  <2>3. CASE i # Len(a) + 1
    <3>1. i \in 1 .. Len(a) /\ a[i] < b[i]
      BY <1>1, <1>4, <1>7, <2>1, <2>3
    <3>2. SubSeq(a, 1, i - 1) = SubSeq(b, 1, i - 1)
      <4>1. i - 1 \in 0 .. Len(a) /\ i - 1 <= Len(b)
        BY <2>1, <3>1
      <4>2. \A j \in 1 .. i - 1 : a[j] = b[j]
        BY <1>1
      <4> QED
        BY <4>1, <4>2, PrefixFacts
    <3> QED
      BY <2>1, <3>1, <3>2 DEF Less
  <2> QED
    BY <2>2, <2>3
<1>8. ASSUME Less(a, b)
      PROVE  A < B
  <2>1. CASE IsStrictPrefix(a, b)
    <3>1. Len(a) <= Len(b) /\ (\A j \in 1 .. Len(a) : a[j] = b[j]) /\ a # b
      BY <2>1, PrefixFacts DEF IsStrictPrefix
    <3>2. A # B
      BY <1>5, <3>1
    <3>3. i = Len(a) + 1
      <4>1. i <= Len(a) => a[i] = b[i]
        BY <1>1, <3>1
      <4> QED
        BY <1>1, <1>4, <3>1, <3>2, <4>1
    <3> QED
      BY <1>4, <3>2, <3>3
  <2>2. CASE \E k \in 1 .. Len(a) : /\ k <= Len(b) /\ a[k] < b[k]
                                    /\ SubSeq(a, 1, k - 1) = SubSeq(b, 1, k - 1)
    <3>1. PICK k \in 1 .. Len(a) : /\ k <= Len(b) /\ a[k] < b[k]
                                   /\ SubSeq(a, 1, k - 1) = SubSeq(b, 1, k - 1)
      BY <2>2
    <3>2. \A j \in 1 .. k - 1 : a[j] = b[j]
      <4>1. k - 1 \in 0 .. Len(a) /\ k - 1 <= Len(b)
        BY <3>1
      <4> QED
        BY <3>1, <4>1, PrefixFacts
    <3>3. a[k] \in Nat /\ b[k] \in Nat /\ a[k] # b[k]
      <4>1. a[k] \in ByteValues /\ b[k] \in ByteValues
        BY <3>1
      <4>2. a[k] \in 1 .. 255 /\ b[k] \in 1 .. 255
        BY <4>1, StringsAssumption
      <4>3. \A x \in 1 .. 255, y \in 1 .. 255 : x < y => x \in Nat /\ y \in Nat /\ x # y
        OBVIOUS
      <4> QED
        BY <3>1, <4>2, <4>3
    <3>4. ~(k < i)
      BY <1>1, <3>3
    <3>5. ~(i < k)
      <4> SUFFICES ASSUME i < k
                   PROVE  FALSE
        OBVIOUS
      <4>1. i \in 1 .. k - 1 /\ i <= Len(a) /\ i <= Len(b)
        BY <1>1, <3>1
      <4>2. A = B
        BY <1>4, <3>2, <4>1
      <4> QED
        BY <1>1, <4>1, <4>2
    <3>6. i = k
      BY <1>1, <3>1, <3>4, <3>5
    <3> QED
      BY <1>4, <3>1, <3>6
  <2> QED
    BY <1>8, <2>1, <2>2 DEF Less
<1>9. (A - B = 0 <=> A = B) /\ (A - B < 0 <=> A < B)
  BY <1>4
<1>10. (A = B <=> a = b) /\ (A < B <=> Less(a, b))
  BY <1>5, <1>6, <1>7, <1>8
<1> QED
  BY <1>9, <1>10 DEF Orders, A, B

(* What a count leaves of a string.                                        *)
LEMMA CutFacts ==
  ASSUME NEW a \in Seq(ByteValues), count \in Nat
  PROVE  /\ Cut(a) \in Seq(ByteValues)
         /\ Len(Cut(a)) = IF count < Len(a) THEN count ELSE Len(a)
         /\ \A j \in 1 .. Len(Cut(a)) : Cut(a)[j] = a[j]
<1> DEFINE m == IF count < Len(a) THEN count ELSE Len(a)
<1>1. m \in Nat /\ m <= Len(a)
  OBVIOUS
<1>2. Cut(a) = SubSeq(a, 1, m)
  BY DEF Cut
<1> HIDE DEF m
<1>3. \A j \in 1 .. m : a[j] \in ByteValues
  BY <1>1
<1>4. /\ Cut(a) \in Seq(ByteValues)
      /\ Len(Cut(a)) = (IF 1 <= m THEN m - 1 + 1 ELSE 0)
      /\ \A j \in 1 .. m - 1 + 1 : Cut(a)[j] = a[1 + j - 1]
  <2>1. 1 \in Int /\ m \in Int
    BY <1>1
  <2> QED
    BY <1>2, <1>3, <2>1, SubSeqProperties
<1>5. Len(Cut(a)) = m
  BY <1>1, <1>4
<1>6. \A j \in 1 .. m : Cut(a)[j] = a[j]
  <2>1. \A j \in 1 .. m : j \in 1 .. m - 1 + 1 /\ 1 + j - 1 = j
    BY <1>1
  <2> QED
    BY <1>4, <2>1
<1> QED
  BY <1>4, <1>5, <1>6 DEF m

-----------------------------------------------------------------------------
(* The comparisons.                                                        *)

(* The loop of a comparison stops where it may.                            *)
LEMMA NotSame ==
  ASSUME CallTypes, InCompare, ~Same, fn # "strncmp" \/ left > 0
  PROVE  s1 = Len(s) + 1 \/ At(s, s1) # At(t, s2)
<1>1. At(s, s1) = 0 \/ At(s, s1) # At(t, s2)
  BY DEF Same
<1>2. s \in Seq(ByteValues) /\ s1 \in 1 .. Len(s) + 1
  BY DEF CallTypes, InStrings
<1>3. s1 \in Nat \ {0} /\ Len(s) \in Nat
  BY <1>2
<1>4. At(s, s1) = 0 => s1 > Len(s)
  BY <1>2, <1>3, AtFacts
<1>5. s1 > Len(s) => s1 = Len(s) + 1
  BY <1>2, <1>3
<1> QED
  BY <1>1, <1>4, <1>5

(* strcmp's result.                                                        *)
LEMMA StrcmpFinds ==
  ASSUME CallTypes, InCompare, fn = "strcmp", ~Same
  PROVE  Orders(Difference, s, t)
<1>1. s \in Seq(ByteValues) /\ t \in Seq(ByteValues) /\ s1 \in 1 .. Len(s) + 1 /\ s2 \in 1 .. Len(t) + 1
  BY DEF CallTypes, InStrings
<1>2. at = 1 /\ s1 = at + s2 - 1
      /\ \A j \in 1 .. s2 - 1 : at + j - 1 <= Len(s) /\ j <= Len(t) /\ s[at + j - 1] = t[j]
  BY DEF InCompare, Comparing
<1>3. s1 = s2
  BY <1>1, <1>2
<1>4. \A j \in 1 .. s1 - 1 : j <= Len(s) /\ j <= Len(t) /\ s[j] = t[j]
  <2>1. \A j \in 1 .. s1 - 1 : 1 + j - 1 = j
    BY <1>1
  <2> QED
    BY <1>2, <1>3, <2>1
<1>5. s1 = Len(s) + 1 \/ At(s, s1) # At(t, s1)
  BY <1>3, NotSame
<1>6. Stops(s, t, s1)
  BY <1>1, <1>4, <1>5 DEF Stops
<1> QED
  BY <1>1, <1>3, <1>6, StopOrders DEF Difference

(* A string is neither less than itself nor different from it.             *)
LEMMA OrdersSame ==
  ASSUME NEW a \in Seq(ByteValues)
  PROVE  Orders(0, a, a)
<1> DEFINE i == Len(a) + 1
<1>1. i \in 1 .. Len(a) + 1 /\ i \in Nat \ {0}
  OBVIOUS
<1>2. Stops(a, a, i)
  <2>1. \A j \in 1 .. i - 1 : j <= Len(a)
    BY <1>1
  <2> QED
    BY <1>1, <2>1 DEF Stops
<1>3. At(a, i) - At(a, i) = 0
  <2> DEFINE x == At(a, i)
  <2>1. x \in 0 .. 255
    BY <1>1, AtFacts
  <2> HIDE DEF x
  <2>2. x - x = 0
    BY <2>1
  <2> QED
    BY <2>2 DEF x
<1>4. Orders(At(a, i) - At(a, i), a, a)
  <2> HIDE DEF i
  <2> QED
    BY <1>2, StopOrders
<1> QED
  BY <1>3, <1>4

(* strncmp's result: 0 if the count came to its end, and the difference.   *)
LEMMA StrncmpFinds ==
  ASSUME CallTypes, InCompare, fn = "strncmp", ~Same
  PROVE  Orders(IF left = 0 THEN 0 ELSE Difference, Cut(s), Cut(t))
<1> DEFINE A == Cut(s)
           B == Cut(t)
<1>1. /\ s \in Seq(ByteValues) /\ t \in Seq(ByteValues) /\ s1 \in 1 .. Len(s) + 1
      /\ s2 \in 1 .. Len(t) + 1 /\ left \in Nat /\ count \in Nat
  BY DEF CallTypes, InStrings
<1>2. at = 1 /\ s1 = at + s2 - 1 /\ left + s2 = count + 1
      /\ \A j \in 1 .. s2 - 1 : at + j - 1 <= Len(s) /\ j <= Len(t) /\ s[at + j - 1] = t[j]
  BY DEF InCompare, Comparing
<1>3. s1 = s2
  BY <1>1, <1>2
<1>4. \A j \in 1 .. s1 - 1 : j <= Len(s) /\ j <= Len(t) /\ s[j] = t[j]
  <2>1. \A j \in 1 .. s1 - 1 : 1 + j - 1 = j
    BY <1>1
  <2> QED
    BY <1>2, <1>3, <2>1
<1>5. /\ A \in Seq(ByteValues) /\ Len(A) = (IF count < Len(s) THEN count ELSE Len(s))
      /\ \A j \in 1 .. Len(A) : A[j] = s[j]
      /\ B \in Seq(ByteValues) /\ Len(B) = (IF count < Len(t) THEN count ELSE Len(t))
      /\ \A j \in 1 .. Len(B) : B[j] = t[j]
  BY <1>1, CutFacts
<1> HIDE DEF A, B
<1>6. Len(s) \in Nat /\ Len(t) \in Nat /\ Len(A) \in Nat /\ Len(B) \in Nat
  BY <1>1, <1>5
<1>7. CASE left = 0
  <2>1. s1 - 1 = count
    BY <1>1, <1>2, <1>3, <1>7
  <2>2. count <= Len(s) /\ count <= Len(t)
    BY <1>1, <1>3, <1>6, <2>1
  <2>3. Len(A) = count /\ Len(B) = count
    BY <1>5, <1>6, <1>1, <2>2
  <2>4. \A j \in 1 .. count : A[j] = B[j]
    BY <1>4, <1>5, <2>1, <2>3
  <2>5. A = B
    BY <1>5, <2>3, <2>4, SeqEqual
  <2> QED
    BY <1>5, <1>7, <2>5, OrdersSame DEF A, B
<1>8. CASE left > 0
  <2>1. s1 <= count
    BY <1>1, <1>2, <1>3, <1>8
  <2>2. s1 = Len(s) + 1 \/ At(s, s1) # At(t, s1)
    BY <1>3, <1>8, NotSame
  <2>3. s1 \in 1 .. Len(A) + 1
    BY <1>1, <1>5, <1>6, <2>1
  <2>4. At(A, s1) = At(s, s1)
    <3>1. s1 <= Len(A) <=> s1 <= Len(s)
      BY <1>1, <1>5, <1>6, <2>1
    <3>2. s1 <= Len(A) => A[s1] = s[s1]
      BY <1>1, <1>5, <1>6
    <3> QED
      BY <3>1, <3>2 DEF At
  <2>5. At(B, s1) = At(t, s1)
    <3>1. s1 <= Len(B) <=> s1 <= Len(t)
      BY <1>1, <1>5, <1>6, <2>1
    <3>2. s1 <= Len(B) => B[s1] = t[s1]
      BY <1>1, <1>5, <1>6
    <3> QED
      BY <3>1, <3>2 DEF At
  <2>6. s1 = Len(A) + 1 \/ At(A, s1) # At(B, s1)
    <3>1. s1 = Len(s) + 1 => s1 = Len(A) + 1
      BY <1>1, <1>5, <1>6, <2>1
    <3> QED
      BY <2>2, <2>4, <2>5, <3>1
  <2>7. ASSUME NEW j \in 1 .. s1 - 1
        PROVE  j <= Len(A) /\ j <= Len(B) /\ A[j] = B[j]
    <3>1. j <= Len(s) /\ j <= Len(t) /\ s[j] = t[j] /\ j \in Nat \ {0} /\ j <= count
      BY <1>1, <1>4, <2>1, <2>7
    <3>2. j <= Len(A) /\ j <= Len(B)
      BY <1>1, <1>5, <1>6, <3>1
    <3>3. j \in 1 .. Len(A) /\ j \in 1 .. Len(B)
      BY <1>6, <3>1, <3>2
    <3> QED
      BY <1>5, <3>1, <3>2, <3>3
  <2>8. Stops(A, B, s1)
    BY <2>3, <2>6, <2>7 DEF Stops
  <2>9. Orders(At(A, s1) - At(B, s1), A, B)
    BY <1>5, <2>8, StopOrders
  <2>10. Difference = At(A, s1) - At(B, s1)
    BY <1>3, <2>4, <2>5 DEF Difference
  <2>11. left # 0
    BY <1>8
  <2> QED
    BY <2>9, <2>10, <2>11 DEF A, B
<1> QED
  BY <1>1, <1>7, <1>8

-----------------------------------------------------------------------------
(* The searches.                                                           *)

(* What is left of a string from an index on.                              *)
LEMMA SuffixFacts ==
  ASSUME NEW a \in Seq(ByteValues), NEW i \in 1 .. Len(a)
  PROVE  /\ Suffix(a, i) \in Seq(ByteValues)
         /\ Len(Suffix(a, i)) = Len(a) - i + 1
         /\ \A j \in 1 .. Len(a) - i + 1 : Suffix(a, i)[j] = a[i + j - 1]
<1>1. i \in Int /\ Len(a) \in Int /\ i <= Len(a) /\ \A j \in i .. Len(a) : a[j] \in ByteValues
  OBVIOUS
<1>2. /\ Suffix(a, i) \in Seq(ByteValues)
      /\ Len(Suffix(a, i)) = (IF i <= Len(a) THEN Len(a) - i + 1 ELSE 0)
      /\ \A j \in 1 .. Len(a) - i + 1 : Suffix(a, i)[j] = a[i + j - 1]
  BY <1>1, SubSeqProperties DEF Suffix
<1> QED
  BY <1>1, <1>2

(* strcmp tells strstr whether the rest of the haystack is the needle.     *)
LEMMA StrstrFinds ==
  ASSUME CallTypes, InCompare, fn = "strstr", ~Same
  PROVE  Difference = 0 <=> IsNeedle(at)
<1> DEFINE a == Suffix(s, at)
<1>1. /\ s \in Seq(ByteValues) /\ t \in Seq(ByteValues) /\ s1 \in 1 .. Len(s) + 1
      /\ s2 \in 1 .. Len(t) + 1 /\ at \in 1 .. Len(s) + 1
  BY DEF CallTypes, InStrings
<1>2. at <= Len(s) /\ s1 = at + s2 - 1
      /\ \A j \in 1 .. s2 - 1 : at + j - 1 <= Len(s) /\ j <= Len(t) /\ s[at + j - 1] = t[j]
  BY DEF InCompare
<1>3. at \in 1 .. Len(s) /\ Len(s) \in Nat /\ Len(t) \in Nat
  BY <1>1, <1>2
<1>4. /\ a \in Seq(ByteValues) /\ Len(a) = Len(s) - at + 1
      /\ \A j \in 1 .. Len(s) - at + 1 : a[j] = s[at + j - 1]
  BY <1>1, <1>3, SuffixFacts
<1> HIDE DEF a
<1>5. s2 \in 1 .. Len(a) + 1
  BY <1>1, <1>2, <1>3, <1>4
<1>6. At(a, s2) = At(s, s1)
  <2>1. s2 <= Len(a) <=> s1 <= Len(s)
    BY <1>1, <1>2, <1>3, <1>4
  <2>2. s2 <= Len(a) => a[s2] = s[s1]
    BY <1>1, <1>2, <1>3, <1>4
  <2> QED
    BY <2>1, <2>2 DEF At
<1>7. s2 = Len(a) + 1 \/ At(a, s2) # At(t, s2)
  <2>1. s1 = Len(s) + 1 => s2 = Len(a) + 1
    BY <1>1, <1>2, <1>3, <1>4
  <2>2. s1 = Len(s) + 1 \/ At(s, s1) # At(t, s2)
    BY NotSame
  <2> QED
    BY <1>6, <2>1, <2>2
<1>8. ASSUME NEW j \in 1 .. s2 - 1
      PROVE  j <= Len(a) /\ j <= Len(t) /\ a[j] = t[j]
  <2>1. j \in Nat \ {0} /\ at + j - 1 <= Len(s) /\ j <= Len(t) /\ s[at + j - 1] = t[j]
    BY <1>1, <1>2, <1>8
  <2>2. j \in 1 .. Len(s) - at + 1
    BY <1>3, <2>1
  <2> QED
    BY <1>4, <2>1, <2>2
<1>9. Stops(a, t, s2)
  BY <1>5, <1>7, <1>8 DEF Stops
<1>10. Orders(At(a, s2) - At(t, s2), a, t)
  BY <1>1, <1>4, <1>9, StopOrders
<1>11. Difference = 0 <=> a = t
  BY <1>6, <1>10 DEF Difference, Orders
<1> QED
  BY <1>3, <1>11 DEF IsNeedle, a

(* The needle is not where its first byte is not.                          *)
LEMMA NotNeedle ==
  ASSUME CallTypes, t # <<>>, at \in 1 .. Len(s), At(s, at) # At(t, 1)
  PROVE  ~IsNeedle(at)
<1>1. s \in Seq(ByteValues) /\ t \in Seq(ByteValues)
  BY DEF CallTypes
<1>2. Len(t) \in Nat \ {0}
  BY <1>1
<1>3. At(t, 1) = t[1]
  BY <1>2 DEF At
<1>4. At(s, at) = s[at]
  BY DEF At
<1>5. 1 \in 1 .. Len(s) - at + 1 /\ at + 1 - 1 = at
  BY <1>1
<1>6. Suffix(s, at)[1] = s[at]
  BY <1>1, <1>5, SuffixFacts
<1> QED
  BY <1>3, <1>4, <1>6 DEF IsNeedle

(* A byte of a string is its own remainder.                                *)
LEMMA WhereFacts ==
  ASSUME CallTypes, at \in 1 .. Len(s)
  PROVE  At(s, at) = Byte <=> Where(at)
<1>1. s \in Seq(ByteValues)
  BY DEF CallTypes
<1> DEFINE x == s[at]
<1>2. x \in ByteValues
  BY <1>1
<1>3. x \in 1 .. 255
  BY <1>2, StringsAssumption
<1> HIDE DEF x
<1>4. x % 256 = x
  BY <1>3
<1>5. At(s, at) = x
  BY DEF At, x
<1> QED
  BY <1>4, <1>5 DEF Where, Byte, x

(* At the NUL a search has the whole string behind it.                     *)
LEMMA NulFacts ==
  ASSUME CallTypes
  PROVE  /\ AtNul => at = Len(s) + 1
         /\ ~AtNul => at \in 1 .. Len(s) /\ at + 1 \in 1 .. Len(s) + 1
         /\ at \in Nat \ {0} /\ Len(s) \in Nat
<1>1. s \in Seq(ByteValues) /\ at \in 1 .. Len(s) + 1
  BY DEF CallTypes, InStrings
<1>2. at \in Nat \ {0} /\ Len(s) \in Nat
  BY <1>1
<1>3. AtNul <=> at > Len(s)
  BY <1>1, <1>2, AtFacts DEF AtNul
<1> QED
  BY <1>1, <1>2, <1>3

-----------------------------------------------------------------------------
(* CallInv is an invariant of the calls.                                   *)

(* What comes back is what the function is to find.                        *)
LEMMA AnswerInv ==
  ASSUME CallTypes, NEW v, Finds(v), Answer(v)
  PROVE  CallInv'
<1>1. loop' = "back" /\ ret' = v /\ UNCHANGED <<fn, s, t, c, count, at, last, s1, s2, left>>
  BY DEF Answer, args
<1>2. CallTypes'
  BY <1>1 DEF CallTypes, InStrings
<1>3. /\ Cut(s)' = Cut(s) /\ Cut(t)' = Cut(t)
      /\ \A i : Where(i)' <=> Where(i)
      /\ \A i : IsNeedle(i)' <=> IsNeedle(i)
  BY <1>1 DEF Cut, Where, IsNeedle
<1>4. Finds(ret)'
  BY <1>1, <1>3 DEF Finds, Latest
<1> QED
  BY <1>1, <1>2, <1>4 DEF CallInv

(* A comparison goes on along one more byte that is the same.              *)
LEMMA CompareOnInv ==
  ASSUME CallTypes, InCompare, CompareOn
  PROVE  CallInv'
<1>1. /\ s \in Seq(ByteValues) /\ t \in Seq(ByteValues) /\ s1 \in 1 .. Len(s) + 1
      /\ s2 \in 1 .. Len(t) + 1 /\ at \in 1 .. Len(s) + 1 /\ left \in Nat
  BY DEF CallTypes, InStrings
<1>2. /\ loop = "compare" /\ s1' = s1 + 1 /\ s2' = s2 + 1
      /\ left' = IF fn = "strncmp" THEN left - 1 ELSE left
      /\ UNCHANGED <<fn, s, t, c, count, at, last, loop, ret>>
  BY DEF CompareOn, args
<1>3. (fn = "strncmp" => left > 0) /\ At(s, s1) # 0 /\ At(s, s1) = At(t, s2)
  BY DEF CompareOn, Same
<1>4. s1 \in Nat \ {0} /\ s2 \in Nat \ {0} /\ Len(s) \in Nat /\ Len(t) \in Nat
  BY <1>1
<1>5. s1 <= Len(s) /\ s2 <= Len(t) /\ s[s1] = t[s2]
  <2>1. At(s, s1) = 0 <=> s1 > Len(s)
    BY <1>1, <1>4, AtFacts
  <2>2. At(t, s2) = 0 <=> s2 > Len(t)
    BY <1>1, <1>4, AtFacts
  <2>3. s1 <= Len(s) /\ s2 <= Len(t)
    BY <1>3, <1>4, <2>1, <2>2
  <2> QED
    BY <1>3, <2>3 DEF At
<1>6. InStrings'
  BY <1>1, <1>2, <1>4, <1>5 DEF InStrings
<1>7. CallTypes'
  <2>1. left' \in Nat
    BY <1>1, <1>2, <1>3
  <2> QED
    BY <1>2, <1>6, <2>1 DEF CallTypes
<1>8. InCompare'
  <2>1. s1 = at + s2 - 1
        /\ \A j \in 1 .. s2 - 1 : at + j - 1 <= Len(s) /\ j <= Len(t) /\ s[at + j - 1] = t[j]
    BY DEF InCompare
  <2>2. s1' = at + s2' - 1
    BY <1>1, <1>2, <2>1
  <2>3. ASSUME NEW j \in 1 .. s2' - 1
        PROVE  at + j - 1 <= Len(s) /\ j <= Len(t) /\ s[at + j - 1] = t[j]
    <3>1. j = s2 \/ j \in 1 .. s2 - 1
      BY <1>2, <1>4, <2>3
    <3>2. CASE j = s2
      BY <1>5, <2>1, <3>2
    <3> QED
      BY <2>1, <3>1, <3>2
  <2>4. fn = "strncmp" => left' + s2' = count + 1
    <3>1. fn = "strncmp" => left + s2 = count + 1 /\ left' = left - 1
      BY <1>2 DEF InCompare
    <3> QED
      BY <1>1, <1>2, <1>4, <3>1
  <2>5. \A i : IsNeedle(i)' <=> IsNeedle(i)
    BY <1>2 DEF IsNeedle
  <2>6. /\ fn \in Comparing \cup {"strstr"}
        /\ fn \in Comparing => at = 1
        /\ fn = "strstr" => t # <<>> /\ at <= Len(s) /\ \A i \in 1 .. at - 1 : ~IsNeedle(i)
    BY DEF InCompare
  <2>7. UNCHANGED <<fn, s, t, count, at>>
    BY <1>2
  <2> QED
    BY <2>2, <2>3, <2>4, <2>5, <2>6, <2>7 DEF InCompare
<1> QED
  BY <1>2, <1>7, <1>8 DEF CallInv

(* A comparison of strcmp or strncmp ends.                                 *)
LEMMA ComparedInv ==
  ASSUME CallTypes, InCompare, Compared
  PROVE  CallInv'
<1> DEFINE v == IF fn = "strncmp" /\ left = 0 THEN 0 ELSE Difference
<1>1. fn \in {"strcmp", "strncmp"} /\ ~Same /\ Answer(v)
  BY DEF Compared, Comparing
<1>2. CASE fn = "strcmp"
  <2>1. v = Difference
    BY <1>2
  <2>2. Orders(Difference, s, t)
    BY <1>1, <1>2, StrcmpFinds
  <2>3. Finds(v)
    BY <1>2, <2>1, <2>2 DEF Finds
  <2> HIDE DEF v
  <2> QED
    BY <1>1, <2>3, AnswerInv
<1>3. CASE fn = "strncmp"
  <2>1. v = IF left = 0 THEN 0 ELSE Difference
    BY <1>3
  <2>2. Orders(IF left = 0 THEN 0 ELSE Difference, Cut(s), Cut(t))
    BY <1>1, <1>3, StrncmpFinds
  <2>3. Orders(v, Cut(s), Cut(t))
    BY <2>1, <2>2
  <2> HIDE DEF v
  <2>4. Finds(v)
    BY <1>3, <2>3 DEF Finds
  <2> QED
    BY <1>1, <2>4, AnswerInv
<1> QED
  BY <1>1, <1>2, <1>3

(* A search goes on to the next byte, past one it does not look for.       *)
LEMMA AdvanceInv ==
  ASSUME CallTypes, InSearch, loop = "search", ~AtNul, NEW l, Advance(l),
         fn = "strchr" => ~Where(at),
         fn = "strrchr" => l = IF Where(at) THEN at ELSE last,
         fn = "strstr" => t # <<>> /\ ~IsNeedle(at)
  PROVE  CallInv'
<1>1. at' = at + 1 /\ last' = l /\ UNCHANGED <<fn, s, t, c, count, s1, s2, left, loop, ret>>
  BY DEF Advance, args
<1>2. at \in 1 .. Len(s) /\ at + 1 \in 1 .. Len(s) + 1 /\ at \in Nat \ {0} /\ Len(s) \in Nat
  BY NulFacts
<1>3. CallTypes'
  BY <1>1, <1>2 DEF CallTypes, InStrings
<1>4. /\ \A i : Where(i)' <=> Where(i)
      /\ \A i : IsNeedle(i)' <=> IsNeedle(i)
  BY <1>1 DEF Where, IsNeedle
<1>5. \A i \in 1 .. at' - 1 : i = at \/ i \in 1 .. at - 1
  BY <1>1, <1>2
<1>6. fn = "strchr" => \A i \in 1 .. at' - 1 : ~Where(i)
  BY <1>5 DEF InSearch
<1>7. fn = "strstr" => t # <<>> /\ \A i \in 1 .. at' - 1 : ~IsNeedle(i)
  BY <1>5 DEF InSearch
<1>8. ASSUME fn = "strrchr"
      PROVE  Latest(l, at + 1)
  <2>1. Latest(last, at)
    BY <1>8 DEF InSearch
  <2>2. CASE Where(at)
    <3>1. l = at
      BY <1>8, <2>2
    <3>2. at + 1 .. at + 1 - 1 = {}
      BY <1>2
    <3>3. Where(l) /\ \A i \in l + 1 .. at + 1 - 1 : ~Where(i)
      BY <2>2, <3>1, <3>2
    <3> QED
      BY <1>2, <3>3 DEF Latest
  <2>3. CASE ~Where(at)
    <3>1. l = last
      BY <1>8, <2>3
    <3>2. CASE last = NULL /\ \A i \in 1 .. at - 1 : ~Where(i)
      <4>1. \A i \in 1 .. at + 1 - 1 : i = at \/ i \in 1 .. at - 1
        BY <1>2
      <4>2. l = NULL /\ \A i \in 1 .. at + 1 - 1 : ~Where(i)
        BY <2>3, <3>1, <3>2, <4>1
      <4> QED
        BY <1>2, <4>2 DEF Latest
    <3>3. CASE Where(last) /\ \A i \in last + 1 .. at - 1 : ~Where(i)
      <4>1. last \in 1 .. Len(s)
        BY <3>3 DEF Where
      <4>2. \A i \in last + 1 .. at + 1 - 1 : i = at \/ i \in last + 1 .. at - 1
        BY <1>2, <4>1
      <4>3. Where(l) /\ \A i \in l + 1 .. at + 1 - 1 : ~Where(i)
        BY <2>3, <3>1, <3>3, <4>2
      <4> QED
        BY <1>2, <4>3 DEF Latest
    <3> QED
      BY <2>1, <3>2, <3>3 DEF Latest
  <2> QED
    BY <2>2, <2>3
<1>9. fn = "strrchr" => Latest(last, at)'
  BY <1>1, <1>4, <1>8 DEF Latest
<1>10. InSearch'
  <2>1. fn \in Searching /\ UNCHANGED <<fn, t>>
    BY <1>1 DEF InSearch
  <2> QED
    BY <1>4, <1>6, <1>7, <1>9, <2>1 DEF InSearch
<1> QED
  BY <1>1, <1>3, <1>10 DEF CallInv

(* strlen, strchr and strrchr.                                             *)
LEMMA ScanInv ==
  ASSUME CallTypes, InSearch, strlen \/ strchr \/ strrchr
  PROVE  CallInv'
<1>1. /\ AtNul => at = Len(s) + 1
      /\ ~AtNul => at \in 1 .. Len(s) /\ (At(s, at) = Byte <=> Where(at))
      /\ at \in Nat \ {0} /\ Len(s) \in Nat
  BY NulFacts, WhereFacts
<1>2. CASE strlen
  <2>1. fn = "strlen" /\ loop = "search"
    BY <1>2 DEF strlen, Search
  <2>2. CASE AtNul
    <3>1. at - 1 = Len(s) /\ Answer(at - 1)
      BY <1>1, <1>2, <2>2 DEF strlen
    <3>2. Finds(at - 1)
      BY <2>1, <3>1 DEF Finds
    <3> QED
      BY <3>1, <3>2, AnswerInv
  <2>3. CASE ~AtNul
    <3>1. Advance(last)
      BY <1>2, <2>3 DEF strlen
    <3> QED
      BY <2>1, <2>3, <3>1, AdvanceInv
  <2> QED
    BY <2>2, <2>3
<1>3. CASE strchr
  <2>1. fn = "strchr" /\ loop = "search" /\ \A i \in 1 .. at - 1 : ~Where(i)
    BY <1>3 DEF strchr, Search, InSearch
  <2>2. CASE AtNul
    <3>1. Answer(NULL)
      BY <1>3, <2>2 DEF strchr
    <3>2. \A i \in 1 .. Len(s) : i \in 1 .. at - 1
      BY <1>1, <2>2
    <3>3. Finds(NULL)
      BY <2>1, <3>2 DEF Finds
    <3> QED
      BY <3>1, <3>3, AnswerInv
  <2>3. CASE ~AtNul /\ Where(at)
    <3>1. Answer(at)
      BY <1>1, <1>3, <2>3 DEF strchr
    <3>2. Finds(at)
      BY <2>1, <2>3 DEF Finds
    <3> QED
      BY <3>1, <3>2, AnswerInv
  <2>4. CASE ~AtNul /\ ~Where(at)
    <3>1. Advance(last)
      BY <1>1, <1>3, <2>4 DEF strchr
    <3> QED
      BY <2>1, <2>4, <3>1, AdvanceInv
  <2> QED
    BY <2>2, <2>3, <2>4
<1>4. CASE strrchr
  <2>1. fn = "strrchr" /\ loop = "search" /\ Latest(last, at)
    BY <1>4 DEF strrchr, Search, InSearch
  <2>2. CASE AtNul
    <3>1. Answer(last) /\ at = Len(s) + 1
      BY <1>1, <1>4, <2>2 DEF strrchr
    <3>2. Finds(last)
      BY <2>1, <3>1 DEF Finds
    <3> QED
      BY <3>1, <3>2, AnswerInv
  <2>3. CASE ~AtNul
    <3> DEFINE l == IF At(s, at) = Byte THEN at ELSE last
    <3>1. Advance(l)
      BY <1>4, <2>3 DEF strrchr
    <3>2. l = IF Where(at) THEN at ELSE last
      BY <1>1, <2>3
    <3> HIDE DEF l
    <3> QED
      BY <2>1, <2>3, <3>1, <3>2, AdvanceInv
  <2> QED
    BY <2>2, <2>3
<1> QED
  BY <1>2, <1>3, <1>4

(* strstr's loop.                                                          *)
LEMMA StrstrInv ==
  ASSUME CallTypes, InSearch, strstr
  PROVE  CallInv'
<1>1. fn = "strstr" /\ loop = "search"
  BY DEF strstr, Search
<1>2. (t = <<>> => at = 1) /\ \A i \in 1 .. at - 1 : ~IsNeedle(i)
  BY <1>1 DEF InSearch
<1>3. /\ AtNul => at = Len(s) + 1
      /\ ~AtNul => at \in 1 .. Len(s)
      /\ at \in Nat \ {0} /\ Len(s) \in Nat
  BY NulFacts
<1>4. CASE t = <<>>
  <2>1. Answer(at) /\ at = 1
    BY <1>2, <1>4 DEF strstr
  <2>2. Finds(at)
    BY <1>1, <1>4, <2>1 DEF Finds
  <2> QED
    BY <2>1, <2>2, AnswerInv
<1>5. CASE t # <<>> /\ AtNul
  <2>1. Answer(NULL)
    BY <1>5 DEF strstr
  <2>2. \A i \in 1 .. Len(s) : i \in 1 .. at - 1
    BY <1>3, <1>5
  <2>3. Finds(NULL)
    BY <1>1, <1>2, <1>5, <2>2 DEF Finds
  <2> QED
    BY <2>1, <2>3, AnswerInv
<1>6. CASE t # <<>> /\ ~AtNul /\ At(s, at) # At(t, 1)
  <2>1. Advance(last)
    BY <1>6 DEF strstr
  <2>2. ~IsNeedle(at)
    BY <1>3, <1>6, NotNeedle
  <2> QED
    BY <1>1, <1>6, <2>1, <2>2, AdvanceInv
<1>7. CASE t # <<>> /\ ~AtNul /\ At(s, at) = At(t, 1)
  <2>1. loop' = "compare" /\ s1' = at /\ s2' = 1
        /\ UNCHANGED <<fn, s, t, c, count, at, last, left, ret>>
    BY <1>7 DEF strstr, args
  <2>2. Len(t) \in Nat
    BY DEF CallTypes
  <2>3. CallTypes'
    BY <1>3, <1>7, <2>1, <2>2 DEF CallTypes, InStrings
  <2>4. \A i : IsNeedle(i)' <=> IsNeedle(i)
    BY <2>1 DEF IsNeedle
  <2>5. InCompare'
    <3>1. s1' = at' + s2' - 1 /\ 1 .. s2' - 1 = {} /\ at' <= Len(s')
      BY <1>3, <1>7, <2>1
    <3> QED
      BY <1>1, <1>2, <1>7, <2>1, <2>4, <3>1 DEF InCompare, Comparing
  <2> QED
    BY <2>1, <2>3, <2>5 DEF CallInv
<1> QED
  BY <1>4, <1>5, <1>6, <1>7

(* strcmp is back in strstr.                                               *)
LEMMA StrstrComparedInv ==
  ASSUME CallTypes, InCompare, StrstrCompared
  PROVE  CallInv'
<1>1. fn = "strstr" /\ ~Same
  BY DEF StrstrCompared
<1>2. Difference = 0 <=> IsNeedle(at)
  BY <1>1, StrstrFinds
<1>3. t # <<>> /\ at <= Len(s) /\ \A i \in 1 .. at - 1 : ~IsNeedle(i)
  BY <1>1 DEF InCompare
<1>4. CASE Difference = 0
  <2>1. Answer(at)
    BY <1>4 DEF StrstrCompared
  <2>2. Finds(at)
    BY <1>1, <1>2, <1>3, <1>4 DEF Finds
  <2> QED
    BY <2>1, <2>2, AnswerInv
<1>5. CASE Difference # 0
  <2>1. /\ loop' = "search" /\ at' = at + 1
        /\ UNCHANGED <<fn, s, t, c, count, last, s1, s2, left, ret>>
    BY <1>5 DEF StrstrCompared, args
  <2>2. at \in 1 .. Len(s) + 1 /\ Len(s) \in Nat
    BY DEF CallTypes, InStrings
  <2>3. at + 1 \in 1 .. Len(s) + 1 /\ \A i \in 1 .. at + 1 - 1 : i = at \/ i \in 1 .. at - 1
    BY <1>3, <2>2
  <2>4. CallTypes'
    BY <2>1, <2>3 DEF CallTypes, InStrings
  <2>5. \A i : IsNeedle(i)' <=> IsNeedle(i)
    BY <2>1 DEF IsNeedle
  <2>6. \A i \in 1 .. at' - 1 : ~IsNeedle(i)
    <3>1. ~IsNeedle(at)
      BY <1>2, <1>5
    <3>2. \A i \in 1 .. at' - 1 : i = at \/ i \in 1 .. at - 1
      BY <2>1, <2>2, <2>3
    <3> QED
      BY <1>3, <3>1, <3>2
  <2>7. InSearch'
    BY <1>1, <1>3, <2>1, <2>5, <2>6 DEF InSearch, Searching
  <2> QED
    BY <2>1, <2>4, <2>7 DEF CallInv
<1> QED
  BY <1>4, <1>5

(* A call that begins.                                                     *)
LEMMA CallBegins ==
  ASSUME CallInit
  PROVE  CallInv
<1>1. ASSUME NEW a \in Str
      PROVE  a \in Seq(ByteValues)
  <2>1. PICK m \in 0 .. MaxLen : a \in [1 .. m -> ByteValues]
    BY DEF Str, SeqOf
  <2> QED
    BY <2>1, StringsAssumption
<1>2. s \in Seq(ByteValues)
  BY <1>1 DEF CallInit
<1>3. t \in Seq(ByteValues)
  <2>1. t = <<>> \/ t \in Str
    BY DEF CallInit
  <2>2. <<>> \in Seq(ByteValues)
    OBVIOUS
  <2> QED
    BY <1>1, <2>1, <2>2, Zenon
<1>4. c \in Int
  <2>1. c = 0 \/ c \in ByteValues \/ \E b \in ByteValues : c = b - 256
    BY DEF CallInit
  <2>2. \A b \in ByteValues : b \in 1 .. 255
    BY StringsAssumption
  <2> QED
    BY <2>1, <2>2
<1>5. count \in Nat
  <2>1. count \in 0 .. MaxLen + 1 \/ count = 0
    BY DEF CallInit
  <2> QED
    BY <2>1, StringsAssumption
<1>6. /\ at = 1 /\ last = NULL /\ s1 = 1 /\ s2 = 1 /\ left = count
      /\ fn \in Searching \cup Comparing
      /\ loop = IF fn \in Searching THEN "search" ELSE "compare"
  BY DEF CallInit
<1>7. CallTypes
  <2>1. 1 \in 1 .. Len(s) + 1 /\ 1 \in 1 .. Len(t) + 1
    BY <1>2, <1>3
  <2>2. InStrings
    BY <1>6, <2>1 DEF InStrings
  <2>3. loop \in {"search", "compare", "back"}
    BY <1>6
  <2> QED
    BY <1>2, <1>3, <1>4, <1>5, <1>6, <2>2, <2>3 DEF CallTypes
<1>8. 1 .. at - 1 = {} /\ 1 .. s2 - 1 = {}
  BY <1>6
<1>9. CASE fn \in Searching
  <2>1. loop = "search"
    BY <1>6, <1>9
  <2>2. InSearch
    BY <1>6, <1>8, <1>9 DEF InSearch, Latest
  <2> QED
    BY <1>7, <2>1, <2>2 DEF CallInv
<1>10. CASE fn \in Comparing
  <2>1. fn \notin Searching /\ fn # "strstr"
    BY <1>10 DEF Searching, Comparing
  <2>2. loop = "compare"
    BY <1>6, <2>1
  <2>3. s1 = at + s2 - 1 /\ left + s2 = count + 1
    BY <1>5, <1>6
  <2>4. InCompare
    BY <1>6, <1>8, <1>10, <2>1, <2>3 DEF InCompare
  <2> QED
    BY <1>7, <2>2, <2>4 DEF CallInv
<1> QED
  BY <1>6, <1>9, <1>10

(* Comparisons and searches do what CallInv says, for strings of any bytes *)
(* and any length.                                                         *)
THEOREM CallInvariant == CallSpec => []CallInv
<1>1. CallInit => CallInv
  BY CallBegins
<1>2. CallInv /\ [CallNext]_callVars => CallInv'
  <2> SUFFICES ASSUME CallInv, [CallNext]_callVars
               PROVE  CallInv'
    OBVIOUS
  <2>1. CallTypes /\ (loop = "compare" => InCompare) /\ (loop = "search" => InSearch)
    BY DEF CallInv
  <2>2. CASE CompareOn
    BY <2>1, <2>2, CompareOnInv DEF CompareOn
  <2>3. CASE Compared
    BY <2>1, <2>3, ComparedInv DEF Compared
  <2>4. CASE strlen \/ strchr \/ strrchr
    <3>1. loop = "search"
      BY <2>4 DEF strlen, strchr, strrchr, Search
    <3> QED
      BY <2>1, <2>4, <3>1, ScanInv
  <2>5. CASE strstr
    <3>1. loop = "search"
      BY <2>5 DEF strstr, Search
    <3> QED
      BY <2>1, <2>5, <3>1, StrstrInv
  <2>6. CASE StrstrCompared
    BY <2>1, <2>6, StrstrComparedInv DEF StrstrCompared
  <2>7. CASE UNCHANGED callVars
    <3>1. UNCHANGED <<fn, s, t, c, count, at, last, s1, s2, left, loop, ret>>
      BY <2>7 DEF callVars, args
    <3>2. /\ Cut(s)' = Cut(s) /\ Cut(t)' = Cut(t)
          /\ \A i : Where(i)' <=> Where(i)
          /\ \A i : IsNeedle(i)' <=> IsNeedle(i)
      BY <3>1 DEF Cut, Where, IsNeedle
    <3>3. Latest(last, at)' <=> Latest(last, at)
      BY <3>1, <3>2 DEF Latest
    <3>4. CallTypes'
      BY <2>1, <3>1 DEF CallTypes, InStrings
    <3>5. loop = "compare" => InCompare'
      BY <2>1, <3>1, <3>2 DEF InCompare
    <3>6. loop = "search" => InSearch'
      BY <2>1, <3>1, <3>2, <3>3 DEF InSearch
    <3>7. loop = "back" => Finds(ret)'
      <4>1. loop = "back" => Finds(ret)
        BY DEF CallInv
      <4> QED
        BY <3>1, <3>2, <4>1 DEF Finds, Latest
    <3> QED
      BY <3>1, <3>4, <3>5, <3>6, <3>7 DEF CallInv
  <2> QED
    BY <2>2, <2>3, <2>4, <2>5, <2>6, <2>7 DEF CallNext
<1> QED
  BY <1>1, <1>2, PTL DEF CallSpec

(* strcmp and strncmp order strings of any length and any bytes as the C   *)
(* library does, and return 0 for equal strings and for no others.         *)
THEOREM ComparesRightly == CallSpec => []Compares
<1>1. CallInv => Compares
  BY DEF CallInv, Finds, Compares, Returned
<1> QED
  BY <1>1, CallInvariant, PTL

(* strlen comes to the end of strings of any length, strchr to the first   *)
(* occurrence, strrchr to the last, and strstr to the suffix that is the   *)
(* needle; and no loop goes on behind a NUL.                               *)
THEOREM SearchesRightly == CallSpec => []Searches
<1>1. CallInv => Searches
  <2> SUFFICES ASSUME CallInv
               PROVE  Searches
    OBVIOUS
  <2>1. InStrings /\ Len(s) \in Nat
    BY DEF CallInv, CallTypes
  <2>2. ASSUME Returned("strlen")
        PROVE  ret = Len(s)
    BY <2>2 DEF Returned, CallInv, Finds
  <2>3. ASSUME Returned("strchr")
        PROVE  IF \E i \in 1 .. Len(s) : Where(i)
                 THEN Where(ret) /\ \A i \in 1 .. ret - 1 : ~Where(i) ELSE ret = NULL
    <3>1. \/ Where(ret) /\ \A i \in 1 .. ret - 1 : ~Where(i)
          \/ ret = NULL /\ \A i \in 1 .. Len(s) : ~Where(i)
      BY <2>3 DEF Returned, CallInv, Finds
    <3>2. \A i : Where(i) => i \in 1 .. Len(s)
      BY DEF Where
    <3> QED
      BY <3>1, <3>2
  <2>4. ASSUME Returned("strrchr")
        PROVE  IF \E i \in 1 .. Len(s) : Where(i)
                 THEN Where(ret) /\ \A i \in ret + 1 .. Len(s) : ~Where(i) ELSE ret = NULL
    <3>1. Latest(ret, Len(s) + 1) /\ Len(s) + 1 - 1 = Len(s)
      BY <2>1, <2>4 DEF Returned, CallInv, Finds
    <3>2. \A i : Where(i) => i \in 1 .. Len(s)
      BY DEF Where
    <3> QED
      BY <3>1, <3>2 DEF Latest
  <2>5. ASSUME Returned("strstr")
        PROVE  IF t = <<>> THEN ret = 1
               ELSE IF \E i \in 1 .. Len(s) : IsNeedle(i) THEN IsNeedle(ret) ELSE ret = NULL
    <3>1. \/ t = <<>> /\ ret = 1
          \/ t # <<>> /\ IsNeedle(ret)
          \/ t # <<>> /\ ret = NULL /\ \A i \in 1 .. Len(s) : ~IsNeedle(i)
      BY <2>5 DEF Returned, CallInv, Finds
    <3>2. \A i : IsNeedle(i) => i \in 1 .. Len(s)
      BY DEF IsNeedle
    <3> QED
      BY <3>1, <3>2
  <2> QED
    BY <2>1, <2>2, <2>3, <2>4, <2>5 DEF Searches
<1> QED
  BY <1>1, CallInvariant, PTL

=============================================================================
