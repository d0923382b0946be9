------------------------------ MODULE TarProofs ------------------------------
(* Proofs about module Tar, for every value of its constants.              *)
EXTENDS Tar, FiniteSetTheorems, TLAPS

-----------------------------------------------------------------------------
(* Numbers.                                                                *)

(* A set of naturals that is not empty has a least element.                *)
LEMMA LeastNumber ==
  ASSUME NEW T, T \subseteq Nat, T # {}
  PROVE  \E x \in T : \A y \in T : x <= y
<1>1. PICK e \in T : TRUE
  OBVIOUS
<1> DEFINE S == 0 .. e
           U == {0 .. k : k \in {k \in T : k <= e}}
           R == StrictSubsetOrdering(S)
<1>2. IsFiniteSet(S)
  BY <1>1, FS_Interval
<1>3. IsWellFoundedOn(R, FiniteSubsetsOf(S))
  BY FS_StrictSubsetOrderingWellFounded
<1>4. IsWellFoundedOn(R, SUBSET S)
  BY <1>2, <1>3, FS_FiniteSubsetsOfFinite
<1>5. U \subseteq SUBSET S /\ U # {}
  BY <1>1
<1>6. PICK u \in U : \A v \in U : <<v, u>> \notin R
  <2> HIDE DEF U, R, S
  <2> QED
    BY <1>4, <1>5, WFMin
<1>7. PICK x \in T : x <= e /\ u = 0 .. x
  BY <1>6
<1>8. ASSUME NEW y \in T, y < x
      PROVE  FALSE
  <2>1. 0 .. y \in U /\ 0 .. y \subseteq 0 .. x /\ 0 .. y # 0 .. x
    BY <1>7, <1>8, x \in 0 .. x, x \notin 0 .. y
  <2>2. <<0 .. y, 0 .. x>> \in R
    BY <1>5, <1>6, <1>7, <2>1 DEF StrictSubsetOrdering
  <2> QED
    BY <1>6, <1>7, <2>1, <2>2
<1>9. \A y \in T : x <= y
  BY <1>7, <1>8
<1> QED
  BY <1>9

(* Division by eight.                                                      *)
LEMMA ByEight ==
  ASSUME NEW n \in Nat
  PROVE  n \div 8 \in Nat /\ n \div 8 <= n /\ n % 8 = n - 8 * (n \div 8) /\ n % 8 \in 0 .. 7
<1>1. n \div 8 \in Nat /\ n \div 8 <= n
  OBVIOUS
<1>2. n % 8 = n - 8 * (n \div 8)
  OBVIOUS
<1>3. n % 8 \in 0 .. 7
  OBVIOUS
<1> QED
  BY <1>1, <1>2, <1>3

(* What is too small for a word to overflow is not reduced.                *)
LEMMA Remainder ==
  ASSUME NEW n \in Nat, NEW w \in Nat \ {0}, n < w
  PROVE  n % w = n
OBVIOUS

(* Block m of blocks of b bytes, and the offset it starts at.              *)
LEMMA Multiples ==
  ASSUME NEW b \in Nat \ {0}, NEW m \in Nat
  PROVE  b * m \in Nat /\ (b * m) \div b = m /\ b * (m + 1) = b * m + b
<1>1. b * m \in Nat
  OBVIOUS
<1>2. (b * m) \div b = m
  OBVIOUS
<1>3. b * (m + 1) = b * m + b
  OBVIOUS
<1> QED
  BY <1>1, <1>2, <1>3

(* Blocks are in the order of their offsets, and b bytes apart.            *)
LEMMA MultiplesOrdered ==
  ASSUME NEW b \in Nat \ {0}, NEW m \in Nat, NEW k \in Nat
  PROVE  m < k <=> b * m < b * k
<1>1. m < k => b * m < b * k
  OBVIOUS
<1>2. ~(m < k) => ~(b * m < b * k)
  OBVIOUS
<1> QED
  BY <1>1, <1>2

LEMMA MultiplesApart ==
  ASSUME NEW b \in Nat \ {0}, NEW m \in Nat, NEW k \in Nat, m < k
  PROVE  b * m + b <= b * k
OBVIOUS

(* Blocks for n bytes: of n, all full ones, and one for what is left.      *)
LEMMA Blocks ==
  ASSUME NEW b \in Nat \ {0}, NEW n \in Nat
  PROVE  \E q \in Nat, r \in 0 .. b - 1 :
           /\ n = b * q + r /\ n \div b = q /\ n % b = r
           /\ CeilDiv(n, b) = IF r = 0 THEN q ELSE q + 1
<1> DEFINE q == n \div b
           r == n - b * q
<1>1. q \in Nat
  OBVIOUS
<1>2. r \in 0 .. b - 1
  OBVIOUS
<1>3. n % b = r
  OBVIOUS
<1>4. n = b * q + r
  BY <1>1, <1>2
<1> HIDE DEF q, r
<1>5. r = 0 => (n + b - 1) \div b = q
  BY <1>1, <1>4
<1>6. r # 0 => (n + b - 1) \div b = q + 1
  BY <1>1, <1>2, <1>4
<1>7. n \div b = q
  BY DEF q
<1> QED
  BY <1>1, <1>2, <1>3, <1>4, <1>5, <1>6, <1>7 DEF CeilDiv

(* What is left from the j-th of q full blocks on.                         *)
LEMMA FullBlocks ==
  ASSUME NEW b \in Nat \ {0}, NEW q \in Nat, NEW r \in Nat, NEW n, n = b * q + r,
         NEW j \in 1 .. q
  PROVE  n - b * (j - 1) \in Int /\ b <= n - b * (j - 1)
<1>1. j - 1 \in Nat /\ j - 1 < q
  OBVIOUS
<1>2. b * (j - 1) + b <= b * q
  BY <1>1, MultiplesApart
<1>3. b * (j - 1) \in Nat /\ b * q \in Nat
  BY <1>1, Multiples
<1> QED
  BY <1>2, <1>3

(* CeilDiv returns a number of blocks.                                     *)
LEMMA CeilDivType ==
  ASSUME NEW b \in Nat \ {0}, NEW n \in Nat
  PROVE  CeilDiv(n, b) \in Nat
<1>1. PICK q \in Nat, r \in 0 .. b - 1 :
        /\ n = b * q + r /\ n \div b = q /\ n % b = r
        /\ CeilDiv(n, b) = IF r = 0 THEN q ELSE q + 1
  BY Blocks
<1> QED
  BY <1>1

-----------------------------------------------------------------------------
(* The size field.                                                         *)

(* The recursion of Eighths has a value, for any number of digits: the one *)
(* for one digit less, and a quotient more.                                *)
LEMMA QuotientsExist ==
  ASSUME NEW n \in Nat, NEW N \in Nat
  PROVE  \E q \in [0 .. N -> Nat] : q = [k \in 0 .. N |-> IF k = 0 THEN n ELSE q[k - 1] \div 8]
<1> DEFINE Is(q, m) == q[0] = n /\ \A k \in 1 .. m : q[k] = q[k - 1] \div 8
           T == {m \in Nat : ~\E q \in [0 .. m -> Nat] : Is(q, m)}
<1>1. T = {}
  <2> SUFFICES ASSUME T # {} PROVE FALSE
    OBVIOUS
  <2>1. PICK m \in T : \A y \in T : m <= y
    <3> HIDE DEF T
    <3>1. T \subseteq Nat
      BY DEF T
    <3> QED
      BY <3>1, LeastNumber
  <2>2. m # 0
    <3> SUFFICES ASSUME m = 0 PROVE FALSE
      OBVIOUS
    <3> DEFINE q == [k \in 0 .. 0 |-> n]
    <3>1. q \in [0 .. 0 -> Nat] /\ Is(q, 0)
      OBVIOUS
    <3> QED
      BY <2>1, <3>1
  <2>3. m - 1 \in Nat /\ m - 1 \notin T
    <3>1. m \in Nat
      BY <2>1
    <3>2. m - 1 \in Nat /\ ~(m <= m - 1)
      BY <2>2, <3>1
    <3> HIDE DEF T
    <3> QED
      BY <2>1, <3>2
  <2>4. PICK p \in [0 .. m - 1 -> Nat] : Is(p, m - 1)
    BY <2>3
  <2> DEFINE q == [k \in 0 .. m |-> IF k = m THEN p[m - 1] \div 8 ELSE p[k]]
  <2>5. p[m - 1] \div 8 \in Nat
    BY <2>3, ByEight
  <2>6. q \in [0 .. m -> Nat]
    BY <2>3, <2>5
  <2>7. q[0] = n
    BY <2>2, <2>3, <2>4
  <2>8. ASSUME NEW k \in 1 .. m
        PROVE  q[k] = q[k - 1] \div 8
    <3>1. k - 1 \in 0 .. m - 1 /\ q[k - 1] = p[k - 1]
      BY <2>3
    <3>2. CASE k = m
      BY <2>3, <3>1, <3>2
    <3>3. CASE k # m
      <4>1. k \in 1 .. m - 1
        BY <2>3, <3>3
      <4>2. q[k] = p[k]
        BY <2>3, <4>1
      <4> QED
        BY <2>4, <3>1, <4>1, <4>2
    <3> QED
      BY <3>2, <3>3
  <2> QED
    BY <2>1, <2>6, <2>7, <2>8
<1>2. PICK q \in [0 .. N -> Nat] : Is(q, N)
  BY <1>1
<1>3. q = [k \in 0 .. N |-> IF k = 0 THEN n ELSE q[k - 1] \div 8]
  BY <1>2
<1> QED
  BY <1>3

(* What the recursion of Eighths defines.                                  *)
LEMMA EighthsFacts ==
  ASSUME NEW n \in Nat
  PROVE  /\ Eighths(n) \in [0 .. Digits -> Nat] /\ Eighths(n)[0] = n
         /\ \A k \in 1 .. Digits : Eighths(n)[k] = Eighths(n)[k - 1] \div 8
<1> USE BlockAssumption
<1> DEFINE Is(q) == q = [k \in 0 .. Digits |-> IF k = 0 THEN n ELSE q[k - 1] \div 8]
           e == CHOOSE q : Is(q)
<1>1. Eighths(n) = e
  BY DEF Eighths
<1>2. \E q : Is(q)
  <2>1. PICK q \in [0 .. Digits -> Nat] : Is(q)
    BY QuotientsExist
  <2> QED
    BY <2>1
<1>3. Is(e)
  <2> HIDE DEF Is
  <2> QED
    BY <1>2
<1> HIDE DEF e
<1>4. e[0] = n /\ \A k \in 1 .. Digits : e[k] = e[k - 1] \div 8
  BY <1>3
<1> DEFINE T == {k \in 0 .. Digits : e[k] \notin Nat}
<1>5. T = {}
  <2> SUFFICES ASSUME T # {} PROVE FALSE
    OBVIOUS
  <2>1. PICK m \in T : \A y \in T : m <= y
    <3> HIDE DEF T
    <3>1. T \subseteq Nat
      BY DEF T
    <3> QED
      BY <3>1, LeastNumber
  <2>2. m # 0
    BY <1>4, <2>1
  <2>3. m - 1 \in 0 .. Digits /\ e[m - 1] \in Nat
    BY <2>1, <2>2
  <2>4. e[m] = e[m - 1] \div 8
    BY <1>4, <2>1, <2>2
  <2>5. e[m] \in Nat
    BY <2>3, <2>4, ByEight
  <2> QED
    BY <2>1, <2>5
<1>6. e \in [0 .. Digits -> Nat]
  BY <1>3, <1>5
<1> QED
  BY <1>1, <1>4, <1>6

(* octal_to_decimal reads the number the field was made of: before its i-th*)
(* digit the result is the number divided by eight once for each digit to  *)
(* come.                                                                   *)
LEMMA OctalRead ==
  ASSUME NEW n \in Nat, n < Word, Eighths(n)[Digits] = 0
  PROVE  octal_to_decimal(OctalDigits(n)) = n
<1> USE BlockAssumption
<1> DEFINE d == OctalDigits(n)
           e == Eighths(n)
           f == [i \in 0 .. Digits |-> e[Digits - i]]
           Is(r) == r = [i \in 0 .. Digits |->
                           IF i = 0 THEN 0 ELSE (r[i - 1] * 8 + d[i]) % Word]
           r == CHOOSE r : Is(r)
<1>1. /\ e \in [0 .. Digits -> Nat] /\ e[0] = n
      /\ \A k \in 1 .. Digits : e[k] = e[k - 1] \div 8
  BY EighthsFacts
<1>2. Len(d) = Digits /\ \A i \in 1 .. Digits : d[i] = e[Digits - i] % 8
  BY DEF OctalDigits
<1>3. octal_to_decimal(d) = r[Digits]
  BY <1>2 DEF octal_to_decimal
<1> HIDE DEF d, e
<1>4. \A k \in 0 .. Digits : e[k] <= n
  <2> DEFINE T == {k \in 0 .. Digits : ~(e[k] <= n)}
  <2>1. SUFFICES ASSUME T # {} PROVE FALSE
    OBVIOUS
  <2>2. PICK m \in T : \A y \in T : m <= y
    <3> HIDE DEF T
    <3>1. T \subseteq Nat
      BY DEF T
    <3> QED
      BY <2>1, <3>1, LeastNumber
  <2>3. m # 0
    BY <1>1, <2>2
  <2>4. m - 1 \in 0 .. Digits /\ m \in 1 .. Digits /\ e[m - 1] <= n
    BY <2>2, <2>3
  <2>5. e[m] <= e[m - 1]
    BY <1>1, <2>4, ByEight
  <2>6. e[m] \in Nat /\ e[m - 1] \in Nat
    BY <1>1, <2>4
  <2> QED
    BY <2>2, <2>4, <2>5, <2>6
<1>5. ASSUME NEW i \in 1 .. Digits
      PROVE  e[Digits - i] = (e[Digits - (i - 1)] * 8 + d[i]) % Word
  <2> DEFINE x == e[Digits - i]
  <2>1. Digits - i \in 0 .. Digits /\ Digits - (i - 1) \in 1 .. Digits
        /\ (Digits - (i - 1)) - 1 = Digits - i
    OBVIOUS
  <2>2. x \in Nat /\ x < Word
    BY <1>1, <1>4, <2>1
  <2>3. e[Digits - (i - 1)] = x \div 8 /\ d[i] = x % 8
    BY <1>1, <1>2, <2>1
  <2> HIDE DEF x
  <2>4. PICK y \in Nat, z \in Nat : y = x \div 8 /\ z = x % 8 /\ x = y * 8 + z
    <3> DEFINE y == x \div 8
               z == x % 8
    <3>1. y \in Nat /\ z \in Nat /\ z = x - 8 * y
      BY <2>2, ByEight
    <3> HIDE DEF y, z
    <3>2. x = y * 8 + z
      BY <2>2, <3>1
    <3> QED
      BY <3>1, <3>2 DEF y, z
  <2>5. x % Word = x
    BY <2>2, Remainder
  <2>6. x = (e[Digits - (i - 1)] * 8 + d[i]) % Word
    BY <2>3, <2>4, <2>5
  <2> QED
    BY <2>6 DEF x
<1>6. Is(f)
  <2>1. \A i \in 1 .. Digits : f[i - 1] = e[Digits - (i - 1)]
    OBVIOUS
  <2>2. f[0] = 0
    BY DEF e
  <2>3. \A i \in 1 .. Digits : f[i] = (f[i - 1] * 8 + d[i]) % Word
    <3>1. \A i \in 1 .. Digits : f[i] = e[Digits - i]
      OBVIOUS
    <3> QED
      BY <1>5, <2>1, <3>1
  <2>4. \A i \in 0 .. Digits : f[i] = IF i = 0 THEN 0 ELSE (f[i - 1] * 8 + d[i]) % Word
    <3> HIDE DEF f
    <3> QED
      BY <2>2, <2>3
  <2> QED
    BY <2>4
<1>7. Is(r)
  <2> HIDE DEF Is
  <2> QED
    BY <1>6
<1> HIDE DEF r
<1>8. \A i \in 0 .. Digits : r[i] = f[i]
  <2> DEFINE T == {i \in 0 .. Digits : r[i] # f[i]}
  <2>1. SUFFICES ASSUME T # {} PROVE FALSE
    OBVIOUS
  <2>2. PICK m \in T : \A y \in T : m <= y
    <3> HIDE DEF T
    <3>1. T \subseteq Nat
      BY DEF T
    <3> QED
      BY <2>1, <3>1, LeastNumber
  <2>3. m # 0
    BY <1>6, <1>7, <2>2
  <2>4. m \in 1 .. Digits /\ m - 1 \in 0 .. Digits /\ m - 1 \notin T
    <3>1. m \in 0 .. Digits
      BY <2>2
    <3>2. m - 1 \in 0 .. Digits /\ ~(m <= m - 1)
      BY <2>3, <3>1
    <3> HIDE DEF T
    <3> QED
      BY <2>2, <2>3, <3>1, <3>2
  <2>5. r[m - 1] = f[m - 1]
    BY <2>4
  <2>6. r[m] = (r[m - 1] * 8 + d[m]) % Word
    BY <1>7, <2>3, <2>4
  <2>7. f[m] = (f[m - 1] * 8 + d[m]) % Word
    BY <1>6, <2>3, <2>4
  <2> QED
    BY <2>2, <2>5, <2>6, <2>7
<1>9. r[Digits] = e[0]
  <2>1. Digits \in 0 .. Digits /\ f[Digits] = e[0]
    OBVIOUS
  <2> QED
    BY <1>8, <2>1
<1> QED
  BY <1>1, <1>3, <1>9 DEF d

-----------------------------------------------------------------------------
(* The archive.                                                            *)

(* An entry and its header's block; the block of the next header.          *)
LEMMA EntryFacts ==
  ASSUME NEW a \in Archives, NEW k \in 1 .. Len(a)
  PROVE  /\ Len(a) \in Nat /\ a[k] \in Entry /\ a[k].size \in Nat /\ a[k].name \in Names
         /\ a[k].at \in Nat /\ a[k].at = HeaderBlock(a, k)
         /\ CeilDiv(a[k].size, Block) \in Nat
         /\ HeaderBlock(a, k + 1) = HeaderBlock(a, k) + 1 + CeilDiv(a[k].size, Block)
         /\ Eighths(a[k].size)[Digits] = 0 /\ a[k].size + 2 * Block <= Word
<1> USE BlockAssumption
<1>1. a \in Seq(Entry) /\ Len(a) \in Nat
  BY ArchivesAssumption
<1>2. /\ a[k].at = HeaderBlock(a, k)
      /\ Eighths(a[k].size)[Digits] = 0 /\ a[k].size + 2 * Block <= Word
  BY ArchivesAssumption
<1>3. a[k] \in Entry
  BY <1>1
<1>4. a[k].size \in Nat /\ a[k].name \in Names /\ a[k].at \in Nat
  BY <1>3 DEF Entry
<1>5. CeilDiv(a[k].size, Block) \in Nat
  BY <1>4, CeilDivType
<1>6. HeaderBlock(a, k + 1) = a[k].at + 1 + CeilDiv(a[k].size, Block)
  <2>1. k + 1 # 1 /\ (k + 1) - 1 = k
    OBVIOUS
  <2> QED
    BY <2>1 DEF HeaderBlock
<1> QED
  BY <1>1, <1>2, <1>3, <1>4, <1>5, <1>6

(* Where a header is, or the end of the archive.                           *)
LEMMA HeaderBlockType ==
  ASSUME NEW a \in Archives, NEW k \in 1 .. Len(a) + 1
  PROVE  HeaderBlock(a, k) \in Nat
<1>1. Len(a) \in Nat
  BY ArchivesAssumption
<1>2. CASE k = 1
  BY <1>2 DEF HeaderBlock
<1>3. CASE k # 1
  <2>1. k - 1 \in 1 .. Len(a) /\ (k - 1) + 1 = k
    BY <1>1, <1>3
  <2>2. /\ HeaderBlock(a, (k - 1) + 1) = HeaderBlock(a, k - 1) + 1 + CeilDiv(a[k - 1].size, Block)
        /\ HeaderBlock(a, k - 1) \in Nat /\ CeilDiv(a[k - 1].size, Block) \in Nat
    BY <2>1, EntryFacts
  <2> QED
    BY <2>1, <2>2
<1> QED
  BY <1>2, <1>3

(* Headers are in the order of the entries.                                *)
LEMMA HeadersOrdered ==
  ASSUME NEW a \in Archives, NEW j \in 1 .. Len(a) + 1, NEW k \in 1 .. Len(a) + 1, j < k
  PROVE  HeaderBlock(a, j + 1) <= HeaderBlock(a, k) /\ HeaderBlock(a, j) < HeaderBlock(a, k)
<1> DEFINE T == {m \in j + 1 .. Len(a) + 1 : ~(HeaderBlock(a, j + 1) <= HeaderBlock(a, m))}
<1>1. Len(a) \in Nat
  BY ArchivesAssumption
<1>2. T = {}
  <2> SUFFICES ASSUME T # {} PROVE FALSE
    OBVIOUS
  <2>1. PICK m \in T : \A y \in T : m <= y
    <3> HIDE DEF T
    <3>1. T \subseteq Nat
      BY DEF T
    <3> QED
      BY <3>1, LeastNumber
  <2>2. m \in j + 1 .. Len(a) + 1 /\ m \in 1 .. Len(a) + 1
    BY <1>1, <2>1
  <2>3. m # j + 1
    <3>1. HeaderBlock(a, m) \in Nat
      BY <2>2, HeaderBlockType
    <3> QED
      BY <2>1, <3>1
  <2>4. m - 1 \in j + 1 .. Len(a) + 1 /\ ~(m <= m - 1) /\ m - 1 \in 1 .. Len(a) /\ (m - 1) + 1 = m
    BY <1>1, <2>2, <2>3
  <2>5. HeaderBlock(a, j + 1) <= HeaderBlock(a, m - 1)
    <3>1. m - 1 \notin T
      <4> HIDE DEF T
      <4> QED
        BY <2>1, <2>4
    <3> QED
      BY <2>4, <3>1
  <2>6. /\ HeaderBlock(a, (m - 1) + 1) = HeaderBlock(a, m - 1) + 1 + CeilDiv(a[m - 1].size, Block)
        /\ CeilDiv(a[m - 1].size, Block) \in Nat
    BY <2>4, EntryFacts
  <2>7. /\ HeaderBlock(a, m) \in Nat /\ HeaderBlock(a, m - 1) \in Nat
        /\ HeaderBlock(a, j + 1) \in Nat
    <3>1. j + 1 \in 1 .. Len(a) + 1 /\ m - 1 \in 1 .. Len(a) + 1
      BY <1>1, <2>4
    <3> QED
      BY <2>2, <3>1, HeaderBlockType
  <2> QED
    BY <2>1, <2>4, <2>5, <2>6, <2>7
<1>3. k \in j + 1 .. Len(a) + 1 /\ j \in 1 .. Len(a)
  BY <1>1
<1>4. HeaderBlock(a, j + 1) <= HeaderBlock(a, k)
  BY <1>2, <1>3
<1>5. /\ HeaderBlock(a, j + 1) = HeaderBlock(a, j) + 1 + CeilDiv(a[j].size, Block)
      /\ CeilDiv(a[j].size, Block) \in Nat
  BY <1>3, EntryFacts
<1>6. HeaderBlock(a, j) \in Nat /\ HeaderBlock(a, k) \in Nat
  BY HeaderBlockType
<1> QED
  BY <1>4, <1>5, <1>6

(* The entry a block belongs to.                                           *)
LEMMA EntryOfBlock ==
  ASSUME NEW a \in Archives, NEW k \in 1 .. Len(a), NEW i \in Nat,
         HeaderBlock(a, k) <= i, i < HeaderBlock(a, k + 1)
  PROVE  EntryOf(a, i) = k
<1> DEFINE Has(m) == HeaderBlock(a, m) <= i /\ i < HeaderBlock(a, m + 1)
<1>1. Len(a) \in Nat
  BY ArchivesAssumption
<1>2. ASSUME NEW m \in 1 .. Len(a), NEW l \in 1 .. Len(a), m < l, Has(m), Has(l)
      PROVE  FALSE
  <2>1. m \in 1 .. Len(a) + 1 /\ l \in 1 .. Len(a) + 1 /\ m + 1 \in 1 .. Len(a) + 1
    BY <1>1
  <2>2. HeaderBlock(a, m + 1) <= HeaderBlock(a, l)
    BY <1>2, <2>1, HeadersOrdered
  <2>3. HeaderBlock(a, m + 1) \in Nat /\ HeaderBlock(a, l) \in Nat
    BY <2>1, HeaderBlockType
  <2> QED
    BY <1>2, <2>2, <2>3
<1>3. EntryOf(a, i) = CHOOSE m \in 1 .. Len(a) : Has(m)
  BY DEF EntryOf
<1>4. Has(k)
  OBVIOUS
<1> HIDE DEF Has
<1>5. EntryOf(a, i) \in 1 .. Len(a) /\ Has(EntryOf(a, i))
  BY <1>3, <1>4
<1>6. ~(EntryOf(a, i) < k) /\ ~(k < EntryOf(a, i))
  BY <1>2, <1>4, <1>5
<1> QED
  BY <1>1, <1>5, <1>6

-----------------------------------------------------------------------------
(* The image.                                                              *)

(* Every header whose block is in the image is where the archive has it,   *)
LEMMA HeaderInImage ==
  ASSUME NEW a \in Archives, NEW c, NEW n \in Nat,
         NEW k \in 1 .. Len(a), HeaderBlock(a, k) < n
  PROVE  Image(a, c, n)[HeaderBlock(a, k) + 1] = Header(a[k])
<1> DEFINE i == HeaderBlock(a, k)
           z == HeaderBlock(a, Len(a) + 1)
<1>1. Len(a) \in Nat /\ k \in 1 .. Len(a) + 1 /\ k + 1 \in 1 .. Len(a) + 1
      /\ Len(a) + 1 \in 1 .. Len(a) + 1 /\ k < Len(a) + 1
  BY ArchivesAssumption
<1>2. i \in Nat /\ z \in Nat /\ i < z
  BY <1>1, HeaderBlockType, HeadersOrdered
<1>3. i < HeaderBlock(a, k + 1)
  <2>1. k < k + 1
    BY <1>1
  <2> QED
    BY <1>1, <2>1, HeadersOrdered
<1>4. EntryOf(a, i) = k
  BY <1>2, <1>3, EntryOfBlock
<1>5. a[k].at = i
  BY EntryFacts
<1>6. Image(a, c, n)[i + 1] = BlockOf(a, c, i)
  <2>1. i + 1 \in 1 .. n /\ (i + 1) - 1 = i
    BY <1>2
  <2> QED
    BY <2>1 DEF Image
<1> HIDE DEF i, z
<1>7. BlockOf(a, c, i) = Header(a[k])
  <2>1. ~(i >= HeaderBlock(a, Len(a) + 1))
    BY <1>2 DEF z
  <2> QED
    BY <1>4, <1>5, <2>1 DEF BlockOf
<1> QED
  BY <1>6, <1>7 DEF i

(* behind it the contents,                                                 *)
LEMMA PartInImage ==
  ASSUME NEW a \in Archives, NEW c, NEW n \in Nat,
         NEW k \in 1 .. Len(a), NEW j \in 1 .. CeilDiv(a[k].size, Block),
         HeaderBlock(a, k) + j < n
  PROVE  Image(a, c, n)[HeaderBlock(a, k) + j + 1] = Part(c, a[k].size - Block * (j - 1))
<1> DEFINE i == HeaderBlock(a, k) + j
           z == HeaderBlock(a, Len(a) + 1)
<1>1. Len(a) \in Nat /\ k \in 1 .. Len(a) + 1 /\ k + 1 \in 1 .. Len(a) + 1
      /\ Len(a) + 1 \in 1 .. Len(a) + 1
  BY ArchivesAssumption
<1>2. /\ HeaderBlock(a, k) \in Nat /\ HeaderBlock(a, k + 1) \in Nat /\ z \in Nat
      /\ HeaderBlock(a, k + 1) = HeaderBlock(a, k) + 1 + CeilDiv(a[k].size, Block)
      /\ CeilDiv(a[k].size, Block) \in Nat /\ a[k].at = HeaderBlock(a, k)
  BY <1>1, HeaderBlockType, EntryFacts
<1>3. i \in Nat /\ HeaderBlock(a, k) <= i /\ i < HeaderBlock(a, k + 1) /\ i # HeaderBlock(a, k)
  BY <1>2
<1>4. EntryOf(a, i) = k
  BY <1>3, EntryOfBlock
<1>5. i < z
  <2>1. CASE k = Len(a)
    BY <1>3, <2>1
  <2>2. CASE k # Len(a)
    <3>1. k + 1 < Len(a) + 1
      BY <1>1, <2>2
    <3>2. HeaderBlock(a, k + 1) < z
      BY <1>1, <3>1, HeadersOrdered
    <3> QED
      BY <1>2, <1>3, <3>2
  <2> QED
    BY <2>1, <2>2
<1>6. Image(a, c, n)[i + 1] = BlockOf(a, c, i)
  <2>1. i + 1 \in 1 .. n /\ (i + 1) - 1 = i
    BY <1>3
  <2> QED
    BY <2>1 DEF Image
<1>7. i - a[k].at - 1 = j - 1
  BY <1>2
<1> HIDE DEF i, z
<1>8. BlockOf(a, c, i) = Part(c, a[k].size - Block * (j - 1))
  <2>1. ~(i >= HeaderBlock(a, Len(a) + 1))
    BY <1>2, <1>3, <1>5 DEF z
  <2>2. i # a[k].at
    BY <1>2, <1>3
  <2> QED
    BY <1>4, <1>7, <2>1, <2>2 DEF BlockOf
<1> QED
  BY <1>6, <1>8 DEF i

(* and behind all, zeros.                                                  *)
LEMMA ZeroInImage ==
  ASSUME NEW a \in Archives, NEW c, NEW n \in Nat,
         NEW i \in Nat, i >= HeaderBlock(a, Len(a) + 1), i < n
  PROVE  Image(a, c, n)[i + 1] = Zero
<1>1. i + 1 \in 1 .. n /\ (i + 1) - 1 = i
  OBVIOUS
<1> QED
  BY <1>1 DEF Image, BlockOf

(* As long as it was cut.                                                  *)
LEMMA ImageLen ==
  ASSUME NEW a, NEW c, NEW n \in Nat
  PROVE  Len(Image(a, c, n)) = n
BY DEF Image

(* What the code reads of a header.                                        *)
LEMMA FieldsOfHeader ==
  ASSUME NEW a \in Archives, NEW k \in 1 .. Len(a)
  PROVE  /\ Header(a[k]).name = a[k].name /\ Header(a[k]).dir = a[k].dir
         /\ Header(a[k]).text = NameLen /\ Header(a[k]).name # NoName
         /\ octal_to_decimal(Header(a[k]).size) = a[k].size
<1>1. /\ a[k].size \in Nat /\ Eighths(a[k].size)[Digits] = 0
      /\ a[k].size + 2 * Block <= Word /\ a[k].name \in Names
  BY EntryFacts
<1>2. a[k].size < Word
  BY <1>1, BlockAssumption
<1>3. octal_to_decimal(OctalDigits(a[k].size)) = a[k].size
  BY <1>1, <1>2, OctalRead
<1>4. a[k].name # NoName
  BY <1>1, NoNameAssumption
<1> QED
  BY <1>3, <1>4 DEF Header

(* The step to the next header goes to the block behind the contents.      *)
LEMMA StepOver ==
  ASSUME NEW n \in Nat, n + 2 * Block <= Word
  PROVE  Advance(n) = Block * (1 + CeilDiv(n, Block))
<1> USE BlockAssumption
<1> DEFINE m == CeilDiv(n, Block)
<1>1. m \in Nat
  BY CeilDivType
<1>2. (n + Block - 1) % Word = n + Block - 1
  BY Remainder
<1>3. Block * m <= n + Block - 1
  <2>1. PICK q \in Nat, r \in 0 .. Block - 1 :
          /\ n = Block * q + r /\ n \div Block = q /\ n % Block = r
          /\ CeilDiv(n, Block) = IF r = 0 THEN q ELSE q + 1
    BY Blocks
  <2>2. CASE r = 0
    BY <2>1, <2>2
  <2>3. CASE r # 0
    <3>1. m = q + 1
      BY <2>1, <2>3
    <3>2. Block * m = Block * q + Block
      BY <3>1, Multiples
    <3> QED
      BY <2>1, <2>3, <3>2
  <2> QED
    BY <2>2, <2>3
<1>4. Block + m * Block = Block * (1 + m) /\ m * Block = Block * m
  BY <1>1
<1>5. Advance(n) = (Block + m * Block) % Word
  BY <1>2 DEF Advance, CeilDiv
<1> HIDE DEF m
<1>6. Block * m \in Nat
  BY <1>1, Multiples
<1>7. (Block + m * Block) % Word = Block + m * Block
  <2> DEFINE x == Block + m * Block
  <2>1. x \in Nat /\ x < Word
    BY <1>3, <1>4, <1>6
  <2> HIDE DEF x
  <2>2. x % Word = x
    BY <2>1, Remainder
  <2> QED
    BY <2>2 DEF x
<1> QED
  BY <1>4, <1>5, <1>7 DEF m

-----------------------------------------------------------------------------
(* The inductive invariant.                                                *)

(* What never changes.                                                     *)
Static ==
  /\ archive \in Archives /\ mode \in {"get", "list"}
  /\ \E c \in Contents, n \in 0 .. HeaderBlock(archive, Len(archive) + 1) + 2 :
       image = Image(archive, c, n)

(* The walk is at the k-th header or at where it would be: those before are*)
(* in the image, are not of the name, and are logged.                      *)
WalkedTo(k) ==
  /\ ptr = HeaderAt(k)
  /\ \A j \in 1 .. k - 1 : HeaderAt(j) < End
  /\ mode = "get" => \A j \in 1 .. k - 1 : archive[j].name # path
  /\ mode = "list" => listed = [j \in 1 .. k - 1 |-> Line(archive[j])]
Walking ==
  result = NotYet => printed = Unprinted /\ \E k \in 1 .. Len(archive) + 1 : WalkedTo(k)

IInv == Static /\ Walking /\ FoundRight /\ ListedAll

-----------------------------------------------------------------------------
(* The walk.                                                               *)

(* Offsets into the image, and the blocks they are the first bytes of.     *)
LEMMA Offsets ==
  ASSUME archive \in Archives, Len(image) \in Nat, NEW k \in 1 .. Len(archive) + 1
  PROVE  /\ HeaderBlock(archive, k) \in Nat /\ HeaderAt(k) \in Nat /\ End \in Nat
         /\ HeaderAt(k) = Block * HeaderBlock(archive, k)
         /\ HeaderAt(k) \div Block = HeaderBlock(archive, k)
         /\ HeaderAt(k) < End <=> HeaderBlock(archive, k) < Len(image)
         /\ HeaderAt(k) < End => HeaderAt(k) + Block <= End
<1> USE BlockAssumption
<1> DEFINE h == HeaderBlock(archive, k)
           l == Len(image)
<1>1. h \in Nat /\ l \in Nat
  BY HeaderBlockType
<1>2. HeaderAt(k) = Block * h /\ End = Block * l
  BY DEF HeaderAt, End
<1> HIDE DEF h, l
<1>3. Block * h \in Nat /\ Block * l \in Nat /\ (Block * h) \div Block = h
  BY <1>1, Multiples
<1>4. h < l <=> Block * h < Block * l
  BY <1>1, MultiplesOrdered
<1>5. h < l => Block * h + Block <= Block * l
  BY <1>1, MultiplesApart
<1> QED
  BY <1>1, <1>2, <1>3, <1>4, <1>5 DEF h, l

(* Those in front of a header that is in the image are in it.              *)
LEMMA OffsetsOrdered ==
  ASSUME archive \in Archives, Len(image) \in Nat,
         NEW j \in 1 .. Len(archive) + 1, NEW k \in 1 .. Len(archive) + 1, j <= k,
         HeaderAt(k) < End
  PROVE  HeaderAt(j) < End
<1>1. Len(archive) \in Nat
  BY ArchivesAssumption
<1>2. CASE j = k
  BY <1>2
<1>3. CASE j < k
  <2>1. HeaderBlock(archive, j) < HeaderBlock(archive, k)
    BY <1>3, HeadersOrdered
  <2>2. HeaderBlock(archive, j) \in Nat /\ HeaderBlock(archive, k) \in Nat
    BY HeaderBlockType
  <2>3. HeaderBlock(archive, k) < Len(image)
    BY Offsets
  <2>4. HeaderBlock(archive, j) < Len(image)
    BY <2>1, <2>2, <2>3
  <2> QED
    BY <2>4, Offsets
<1> QED
  BY <1>1, <1>2, <1>3

(* What the rest of the proofs needs of the image.                         *)
LEMMA StaticFacts ==
  ASSUME Static
  PROVE  /\ archive \in Archives /\ Len(archive) \in Nat /\ Len(image) \in Nat
         /\ \E c \in Contents : /\ image = Image(archive, c, Len(image))
                                /\ Len(image) <= HeaderBlock(archive, Len(archive) + 1) + 2
<1>1. archive \in Archives
  BY DEF Static
<1>2. Len(archive) \in Nat
  BY <1>1, ArchivesAssumption
<1>3. HeaderBlock(archive, Len(archive) + 1) \in Nat
  <2>1. Len(archive) + 1 \in 1 .. Len(archive) + 1
    BY <1>2
  <2> QED
    BY <1>1, <2>1, HeaderBlockType
<1>4. PICK c \in Contents, n \in 0 .. HeaderBlock(archive, Len(archive) + 1) + 2 :
        image = Image(archive, c, n)
  BY DEF Static
<1>5. n \in Nat /\ Len(image) = n
  BY <1>3, <1>4, ImageLen
<1> QED
  BY <1>1, <1>2, <1>3, <1>4, <1>5

(* What the loop finds at the k-th header: its name, or the end.           *)
LEMMA FoundAtPtr ==
  ASSUME Static, NEW k \in 1 .. Len(archive) + 1, ptr = HeaderAt(k)
  PROVE  /\ AtHeader <=> k <= Len(archive) /\ HeaderAt(k) < End
         /\ AtHeader => /\ k \in 1 .. Len(archive)
                        /\ Here.name = archive[k].name /\ Here.dir = archive[k].dir
                        /\ Size = archive[k].size
                        /\ HeaderAt(k + 1) = ptr + Advance(Size)
<1> DEFINE h == HeaderBlock(archive, k)
           l == Len(image)
<1>1. archive \in Archives /\ Len(archive) \in Nat /\ l \in Nat
  BY StaticFacts
<1>2. PICK c \in Contents : image = Image(archive, c, l)
  BY StaticFacts
<1>3. h \in Nat /\ (ptr < End <=> h < l) /\ HeaderOf(ptr) = image[h + 1]
  BY <1>1, Offsets DEF HeaderOf
<1> HIDE DEF h, l
<1>4. CASE k = Len(archive) + 1
  <2>1. h >= HeaderBlock(archive, Len(archive) + 1)
    BY <1>3, <1>4 DEF h
  <2>2. ptr < End => HeaderOf(ptr) = Zero
    BY <1>1, <1>2, <1>3, <2>1, ZeroInImage
  <2>3. ~AtHeader
    BY <2>2 DEF AtHeader, Zero
  <2> QED
    BY <1>1, <1>4, <2>3
<1>5. CASE k # Len(archive) + 1
  <2>1. k \in 1 .. Len(archive)
    BY <1>1, <1>5
  <2>2. ptr < End => HeaderOf(ptr) = Header(archive[k])
    BY <1>1, <1>2, <1>3, <2>1, HeaderInImage DEF h
  <2>3. AtHeader <=> ptr < End
    BY <1>1, <2>1, <2>2, FieldsOfHeader DEF AtHeader
  <2>4. AtHeader => /\ Here.name = archive[k].name /\ Here.dir = archive[k].dir
                    /\ Size = archive[k].size
    BY <1>1, <2>1, <2>2, <2>3, FieldsOfHeader DEF Here, Size
  <2>5. HeaderAt(k + 1) = ptr + Advance(archive[k].size)
    <3> DEFINE m == CeilDiv(archive[k].size, Block)
    <3>1. /\ archive[k].size \in Nat /\ archive[k].size + 2 * Block <= Word
          /\ m \in Nat /\ HeaderBlock(archive, k + 1) = h + 1 + m
      BY <1>1, <2>1, EntryFacts DEF h
    <3>2. Advance(archive[k].size) = Block * (1 + m)
      BY <3>1, StepOver
    <3> HIDE DEF m
    <3>3. Block * (h + 1 + m) = Block * h + Block * (1 + m)
      BY <1>3, <3>1, BlockAssumption
    <3> QED
      BY <3>1, <3>2, <3>3 DEF HeaderAt, h
  <2> QED
    BY <2>1, <2>3, <2>4, <2>5
<1> QED
  BY <1>4, <1>5

(* The walk starts at the first header.                                    *)
LEMMA InitIInv ==
  Init => IInv
<1> SUFFICES ASSUME Init PROVE IInv
  OBVIOUS
<1>1. Static
  BY DEF Init, Static
<1>2. Len(archive) \in Nat /\ 1 \in 1 .. Len(archive) + 1
  BY <1>1, StaticFacts
<1>3. WalkedTo(1)
  <2>1. HeaderAt(1) = 0
    BY BlockAssumption DEF HeaderAt, HeaderBlock
  <2>2. 1 .. 1 - 1 = {}
    OBVIOUS
  <2>3. <<>> = [j \in {} |-> Line(archive[j])]
    OBVIOUS
  <2> QED
    BY <2>1, <2>2, <2>3 DEF Init, WalkedTo
<1>4. Walking
  BY <1>2, <1>3 DEF Init, Walking
<1>5. FoundRight /\ ListedAll
  BY DEF Init, FoundRight, ListedAll, NotYet, Nothing
<1> QED
  BY <1>1, <1>4, <1>5 DEF IInv

(* The three states of the result.                                         *)
LEMMA Results ==
  /\ NotYet # Nothing /\ NotYet.status = "running" /\ Nothing.status = "none"
BY DEF NotYet, Nothing

(* The entry that is found is the first of its name.                       *)
LEMMA FoundKeeps ==
  ASSUME IInv, Found
  PROVE  IInv'
<1>1. Static /\ Static' /\ UNCHANGED walk
  BY DEF IInv, Found, Return, Static, walk
<1>2. /\ result' = [status |-> "file", name |-> path, size |-> Size, data |-> ptr + Block,
                    is_directory |-> Here.dir]
      /\ mode = "get" /\ AtHeader /\ Here.name = path /\ result = NotYet
  BY DEF Found, Return
<1>3. result'.status = "file" /\ result'.size = Size /\ result'.data = ptr + Block
      /\ result'.is_directory = Here.dir
  BY <1>2
<1>4. result' # NotYet /\ result' # Nothing
  BY <1>3, Results
<1>5. PICK k \in 1 .. Len(archive) + 1 : WalkedTo(k)
  BY <1>2 DEF IInv, Walking
<1>6. /\ ptr = HeaderAt(k) /\ k \in 1 .. Len(archive) /\ HeaderAt(k) < End
      /\ Here.name = archive[k].name /\ Here.dir = archive[k].dir /\ Size = archive[k].size
  BY <1>1, <1>2, <1>5, FoundAtPtr DEF WalkedTo
<1>7. Matches(k) /\ \A j \in 1 .. k - 1 : ~Matches(j)
  BY <1>2, <1>5, <1>6 DEF WalkedTo, Matches
<1>8. FoundRight'
  <2>1. \A j : Matches(j)' <=> Matches(j)
    BY <1>1 DEF Matches, HeaderAt, End, walk
  <2>2. archive' = archive /\ HeaderAt(k)' = HeaderAt(k)
    BY <1>1 DEF HeaderAt, walk
  <2> QED
    BY <1>3, <1>4, <1>6, <1>7, <2>1, <2>2 DEF FoundRight
<1>9. Walking' /\ ListedAll'
  BY <1>4 DEF Walking, ListedAll
<1> QED
  BY <1>1, <1>8, <1>9 DEF IInv

(* Behind the last header there is none of the name, and all are logged.   *)
LEMMA GiveUpKeeps ==
  ASSUME IInv, GiveUp
  PROVE  IInv'
<1>1. Static /\ Static' /\ UNCHANGED walk
  BY DEF IInv, GiveUp, Return, Static, walk
<1>2. result' = Nothing /\ ~AtHeader /\ result = NotYet
  BY DEF GiveUp, Return
<1>3. PICK k \in 1 .. Len(archive) + 1 : WalkedTo(k)
  BY <1>2 DEF IInv, Walking
<1>4. archive \in Archives /\ Len(archive) \in Nat /\ Len(image) \in Nat
  BY <1>1, StaticFacts
<1>5. ~(k <= Len(archive) /\ HeaderAt(k) < End)
  BY <1>1, <1>2, <1>3, FoundAtPtr DEF WalkedTo
<1>6. ASSUME NEW j \in 1 .. Len(archive), ~(j <= k - 1)
      PROVE  ~(HeaderAt(j) < End)
  <2>1. k <= j /\ k <= Len(archive) /\ j \in 1 .. Len(archive) + 1
    BY <1>4, <1>6
  <2> QED
    BY <1>4, <1>5, <2>1, OffsetsOrdered
<1>7. \A j \in 1 .. Len(archive) : HeaderAt(j) < End <=> j <= k - 1
  <2>1. \A j \in 1 .. Len(archive) : j <= k - 1 => HeaderAt(j) < End
    BY <1>3 DEF WalkedTo
  <2> QED
    BY <1>6, <2>1
<1>8. archive' = archive /\ End' = End /\ listed' = listed /\ path' = path /\ mode' = mode
      /\ \A j : HeaderAt(j)' = HeaderAt(j)
  BY <1>1 DEF HeaderAt, End, walk
<1>9. FoundRight'
  <2>1. mode = "get" => \A j \in 1 .. Len(archive) : ~Matches(j)
    BY <1>3, <1>7 DEF WalkedTo, Matches
  <2>2. \A j : Matches(j)' <=> Matches(j)
    BY <1>8 DEF Matches
  <2> QED
    BY <1>2, <1>8, <2>1, <2>2, Results DEF FoundRight
<1>10. ListedAll'
  <2> SUFFICES ASSUME mode = "list" PROVE ListedAll'
    BY <1>8 DEF ListedAll
  <2>1. listed = [j \in 1 .. k - 1 |-> Line(archive[j])] /\ Len(listed) = k - 1
    BY <1>3 DEF WalkedTo
  <2> QED
    BY <1>7, <1>8, <2>1 DEF ListedAll
<1>11. Walking'
  BY <1>2, Results DEF Walking
<1> QED
  BY <1>1, <1>9, <1>10, <1>11 DEF IInv

(* One more line behind those of the entries before.                       *)
LEMMA NextLine ==
  ASSUME NEW a, NEW k \in Nat \ {0}
  PROVE  Append([j \in 1 .. k - 1 |-> Line(a[j])], Line(a[k])) = [j \in 1 .. k |-> Line(a[j])]
<1> DEFINE S == {Line(a[j]) : j \in 1 .. k}
           s == [j \in 1 .. k - 1 |-> Line(a[j])]
           t == [j \in 1 .. k |-> Line(a[j])]
           x == Line(a[k])
<1>1. s \in Seq(S) /\ Len(s) = k - 1 /\ x \in S
  OBVIOUS
<1>2. t \in Seq(S) /\ Len(t) = k
  OBVIOUS
<1>3. \A j \in 1 .. k : t[j] = IF j = k THEN x ELSE s[j]
  OBVIOUS
<1> HIDE DEF S, s, t, x
<1>4. Append(s, x) \in Seq(S) /\ Len(Append(s, x)) = k
      /\ \A j \in 1 .. k : Append(s, x)[j] = IF j = k THEN x ELSE s[j]
  BY <1>1
<1>5. Append(s, x) = t
  BY <1>2, <1>3, <1>4
<1> QED
  BY <1>5 DEF s, t, x

(* On to the next header: one entry more is behind.                        *)
LEMMA SkipKeeps ==
  ASSUME IInv, Skip
  PROVE  IInv'
<1>1. Static /\ Static' /\ UNCHANGED <<archive, image, mode, path, result, printed>>
  BY DEF IInv, Skip, Static
<1>2. /\ result = NotYet /\ AtHeader /\ (mode = "get" => Here.name # path)
      /\ ptr' = ptr + Advance(Size)
  BY DEF Skip
<1>3. PICK k \in 1 .. Len(archive) + 1 : WalkedTo(k)
  BY <1>2 DEF IInv, Walking
<1>4. Len(archive) \in Nat
  BY <1>1, StaticFacts
<1>5. /\ k \in 1 .. Len(archive) /\ HeaderAt(k) < End
      /\ Here.name = archive[k].name /\ Here.dir = archive[k].dir /\ Size = archive[k].size
      /\ HeaderAt(k + 1) = ptr + Advance(Size)
  BY <1>1, <1>2, <1>3, FoundAtPtr DEF WalkedTo
<1>6. archive' = archive /\ End' = End /\ path' = path /\ mode' = mode
      /\ \A j : HeaderAt(j)' = HeaderAt(j)
  BY <1>1 DEF HeaderAt, End
<1>7. (k + 1) - 1 = k /\ k + 1 \in 1 .. Len(archive) + 1 /\ k \in Nat \ {0}
      /\ \A j \in 1 .. k : j = k \/ j \in 1 .. k - 1
  BY <1>4, <1>5
<1>8. mode = "list" => listed' = [j \in 1 .. k |-> Line(archive[j])]
  <2> SUFFICES ASSUME mode = "list" PROVE listed' = [j \in 1 .. k |-> Line(archive[j])]
    OBVIOUS
  <2>1. listed' = Append(listed, Line(archive[k]))
    BY <1>5 DEF Skip, Line
  <2>2. listed = [j \in 1 .. k - 1 |-> Line(archive[j])]
    BY <1>3 DEF WalkedTo
  <2> QED
    BY <1>7, <2>1, <2>2, NextLine
<1>9. WalkedTo(k + 1)'
  <2>1. ptr' = HeaderAt(k + 1)
    BY <1>2, <1>5
  <2>2. \A j \in 1 .. k : HeaderAt(j) < End
    BY <1>3, <1>5, <1>7 DEF WalkedTo
  <2>3. mode = "get" => \A j \in 1 .. k : archive[j].name # path
    BY <1>2, <1>3, <1>5, <1>7 DEF WalkedTo
  <2> QED
    BY <1>6, <1>7, <1>8, <2>1, <2>2, <2>3 DEF WalkedTo
<1>10. Walking'
  <2>1. printed' = Unprinted
    BY <1>1, <1>2 DEF IInv, Walking
  <2> QED
    BY <1>6, <1>7, <1>9, <2>1 DEF Walking
<1>11. FoundRight' /\ ListedAll'
  BY <1>1, <1>2, Results DEF FoundRight, ListedAll
<1> QED
  BY <1>1, <1>10, <1>11 DEF IInv

(* Printing changes nothing of the walk.                                   *)
LEMMA UnchangedKeeps ==
  ASSUME IInv, UNCHANGED walk, UNCHANGED result, result = NotYet => printed' = printed
  PROVE  IInv'
<1>1. /\ archive' = archive /\ mode' = mode /\ image' = image /\ path' = path
      /\ listed' = listed /\ ptr' = ptr /\ End' = End
      /\ \A j : HeaderAt(j)' = HeaderAt(j)
  BY DEF walk, End, HeaderAt
<1>2. Static'
  BY <1>1 DEF IInv, Static
<1>3. Walking'
  <2>1. \A k : WalkedTo(k)' <=> WalkedTo(k)
    BY <1>1 DEF WalkedTo
  <2> QED
    BY <1>1, <2>1 DEF IInv, Walking
<1>4. FoundRight'
  <2>1. \A j : Matches(j)' <=> Matches(j)
    BY <1>1 DEF Matches
  <2> QED
    BY <1>1, <2>1 DEF IInv, FoundRight
<1>5. ListedAll'
  BY <1>1 DEF IInv, ListedAll
<1> QED
  BY <1>2, <1>3, <1>4, <1>5 DEF IInv

(* Each step keeps the invariant.                                          *)
LEMMA NextIInv ==
  IInv /\ [Next]_vars => IInv'
<1> SUFFICES ASSUME IInv, [Next]_vars PROVE IInv'
  OBVIOUS
<1>1. CASE Found
  BY <1>1, FoundKeeps
<1>2. CASE Skip
  BY <1>2, SkipKeeps
<1>3. CASE GiveUp
  BY <1>3, GiveUpKeeps
<1>4. CASE PrintMsg
  <2>1. UNCHANGED walk /\ UNCHANGED result /\ result # NotYet
    BY <1>4, Results DEF PrintMsg
  <2> QED
    BY <2>1, UnchangedKeeps
<1>5. CASE UNCHANGED vars
  <2>1. UNCHANGED walk /\ UNCHANGED result /\ UNCHANGED printed
    BY <1>5 DEF vars
  <2> QED
    BY <2>1, UnchangedKeeps
<1> QED
  BY <1>1, <1>2, <1>3, <1>4, <1>5 DEF Next

(* The walk of both loops over an archive goes from header to header.      *)
THEOREM WalkInvariant == Spec => []IInv
BY InitIInv, NextIInv, PTL DEF Spec

(* Which is more than that it is over headers only.                        *)
LEMMA AtHeadersOnly ==
  IInv => OnlyHeaders
<1> SUFFICES ASSUME IInv, result = NotYet, ptr < End PROVE /\ ptr + Block <= End
       /\ \E k \in 1 .. Len(archive) + 1 : ptr = HeaderAt(k)
  BY DEF OnlyHeaders
<1>1. PICK k \in 1 .. Len(archive) + 1 : WalkedTo(k)
  BY DEF IInv, Walking
<1>2. ptr = HeaderAt(k) /\ archive \in Archives /\ Len(image) \in Nat
  BY <1>1, StaticFacts DEF WalkedTo, IInv
<1> QED
  BY <1>2, Offsets

(* The loop of get_file_tar and list_dir_tar lays a tar_header over the    *)
(* headers of the archive only, and over whole ones, for every archive,    *)
(* every size of a file in it and every contents.                          *)
THEOREM HeadersOnly == Spec => []OnlyHeaders
BY WalkInvariant, AtHeadersOnly, PTL

(* get_file_tar returns the first entry of the name it is given, with its  *)
(* size and the place of its contents, or nothing if there is none.        *)
THEOREM FirstOfTheName == Spec => []FoundRight
<1>1. IInv => FoundRight
  BY DEF IInv
<1> QED
  BY <1>1, WalkInvariant, PTL

(* list_dir_tar logs each entry whose header is in the image, in order.    *)
THEOREM AllListed == Spec => []ListedAll
<1>1. IInv => ListedAll
  BY DEF IInv
<1> QED
  BY <1>1, WalkInvariant, PTL

-----------------------------------------------------------------------------
(* The text printed.                                                       *)

(* A text ends in the first block that is not full of it.                  *)
LEMMA StrlenIs ==
  ASSUME Len(image) \in Nat, NEW p, NEW f \in Nat, p \div Block + 1 = f,
         NEW m \in f .. Len(image), image[m].text < Block,
         \A j \in f .. m - 1 : ~(image[j].text < Block)
  PROVE  Strlen(p) = (m - f) * Block + image[m].text
<1> DEFINE ends == {j \in f .. Len(image) : image[j].text < Block}
           Is(j) == \A l \in ends : j <= l
           last == CHOOSE j \in ends : Is(j)
<1>1. m \in ends /\ Is(m)
  OBVIOUS
<1>2. Strlen(p) = (last - f) * Block + image[last].text
  <2>1. ends # {}
    BY <1>1
  <2> QED
    BY <2>1 DEF Strlen
<1>3. last \in ends /\ Is(last)
  <2> HIDE DEF ends, Is
  <2> QED
    BY <1>1
<1>4. last = m
  <2> HIDE DEF last
  <2>1. last <= m /\ m <= last
    BY <1>1, <1>3
  <2>2. last \in Nat /\ m \in Nat
    BY <1>1, <1>3
  <2> QED
    BY <2>1, <2>2
<1> QED
  BY <1>2, <1>4

(* The lesser of two numbers.                                              *)
LEMMA LeastIs ==
  ASSUME NEW m \in Int, NEW n \in Int
  PROVE  /\ Least(m, n) <= m /\ Least(m, n) <= n /\ Least(m, n) \in Int
         /\ m <= n => Least(m, n) = m
         /\ n <= m => Least(m, n) = n
BY DEF Least

(* What a block reads as that has r bytes of the k-th file, or, for none,  *)
(* is the one behind it.                                                   *)
LastText(c, k, r) ==
  IF r # 0 THEN Least(c.text, r) ELSE IF Followed(k) THEN NameLen ELSE 0

(* Full blocks of the file read as its contents do; the block behind them  *)
(* has what is left of it or is the one behind the file, and is never full.*)
LEMMA BlocksOfFile ==
  ASSUME archive \in Archives, NEW c \in Contents, NEW k \in 1 .. Len(archive),
         Len(image) \in Nat, image = Image(archive, c, Len(image)), Complete,
         NEW q \in Nat, NEW r \in 0 .. Block - 1,
         archive[k].size = Block * q + r, archive[k].size % Block = r,
         CeilDiv(archive[k].size, Block) = IF r = 0 THEN q ELSE q + 1
  PROVE  /\ HeaderBlock(archive, k) \in Nat
         /\ HeaderBlock(archive, k) + q + 2 <= Len(image)
         /\ \A j \in 1 .. q : image[HeaderBlock(archive, k) + j + 1].text = c.text
         /\ image[HeaderBlock(archive, k) + q + 2].text = LastText(c, k, r)
<1> USE BlockAssumption
<1> DEFINE h == HeaderBlock(archive, k)
           z == HeaderBlock(archive, Len(archive) + 1)
           a == archive
           l == Len(image)
<1>1. Len(a) \in Nat /\ k \in 1 .. Len(a) + 1 /\ k + 1 \in 1 .. Len(a) + 1
      /\ Len(a) + 1 \in 1 .. Len(a) + 1
  BY ArchivesAssumption
<1>2. h \in Nat /\ z \in Nat /\ HeaderBlock(a, k + 1) \in Nat
      /\ HeaderBlock(a, k + 1) = h + 1 + CeilDiv(a[k].size, Block)
      /\ CeilDiv(a[k].size, Block) \in Nat
  BY <1>1, HeaderBlockType, EntryFacts
<1> HIDE DEF h
<1>3. k # Len(a) => HeaderBlock(a, k + 1) < z
  <2>1. k # Len(a) => k + 1 < Len(a) + 1
    BY <1>1
  <2> QED
    BY <1>1, <2>1, HeadersOrdered
<1>4. HeaderBlock(a, k + 1) <= z
  <2>1. k = Len(a) => HeaderBlock(a, k + 1) = z
    OBVIOUS
  <2> QED
    BY <1>2, <1>3, <2>1
<1>5. l = z + 2
  BY DEF Complete
<1>6. c.text \in 0 .. Block
  BY ContentsAssumption
<1>7. \A j \in 1 .. CeilDiv(a[k].size, Block) :
        image[h + j + 1].text = Least(c.text, a[k].size - Block * (j - 1))
  <2> SUFFICES ASSUME NEW j \in 1 .. CeilDiv(a[k].size, Block)
               PROVE  image[h + j + 1].text = Least(c.text, a[k].size - Block * (j - 1))
    OBVIOUS
  <2>1. h + j < l
    BY <1>2, <1>4, <1>5
  <2> HIDE DEF l
  <2>2. Image(a, c, l)[h + j + 1] = Part(c, a[k].size - Block * (j - 1))
    BY <2>1, PartInImage DEF l, h
  <2> QED
    BY <2>2 DEF Part, l
<1>8. ASSUME NEW j \in 1 .. q
      PROVE  image[h + j + 1].text = c.text
  <2>1. j \in 1 .. CeilDiv(a[k].size, Block)
    OBVIOUS
  <2> DEFINE left == a[k].size - Block * (j - 1)
  <2>2. left \in Int /\ Block <= left
    <3> DEFINE n == a[k].size
    <3>1. n = Block * q + r /\ r \in Nat
      OBVIOUS
    <3> HIDE DEF n
    <3>2. n - Block * (j - 1) \in Int /\ Block <= n - Block * (j - 1)
      BY <3>1, FullBlocks
    <3> QED
      BY <3>2 DEF n
  <2>3. image[h + j + 1].text = Least(c.text, left)
    BY <1>7, <2>1
  <2> HIDE DEF left
  <2>4. c.text \in Int /\ c.text <= left
    BY SMTT(20), <1>6, <2>2
  <2> QED
    BY <2>2, <2>3, <2>4, LeastIs
<1>9. r # 0 => image[h + q + 2].text = Least(c.text, r)
  <2> SUFFICES ASSUME r # 0 PROVE image[h + q + 2].text = Least(c.text, r)
    OBVIOUS
  <2>0. CeilDiv(a[k].size, Block) = q + 1
    OBVIOUS
  <2>1. q + 1 \in 1 .. CeilDiv(a[k].size, Block) /\ h + (q + 1) + 1 = h + q + 2
    BY <1>2, <2>0
  <2>2. a[k].size - Block * ((q + 1) - 1) = r
    <3>1. (q + 1) - 1 = q /\ Block * q \in Nat
      BY Multiples
    <3> QED
      BY <3>1
  <2> QED
    BY <1>7, <2>1, <2>2
<1>10. r = 0 => image[h + q + 2].text = IF Followed(k) THEN NameLen ELSE 0
  <2> SUFFICES ASSUME r = 0
               PROVE  image[h + q + 2].text = IF Followed(k) THEN NameLen ELSE 0
    OBVIOUS
  <2>1. HeaderBlock(a, k + 1) = h + q + 1 /\ (h + q + 1) + 1 = h + q + 2
    BY <1>2
  <2>2. Followed(k) <=> k < Len(a)
    BY DEF Followed
  <2>3. h + q + 1 < l
    BY <1>2, <1>4, <1>5, <2>1
  <2>4. CASE k < Len(a)
    <3>1. k + 1 \in 1 .. Len(a)
      BY <1>1, <2>4
    <3> HIDE DEF l
    <3>2. Image(a, c, l)[HeaderBlock(a, k + 1) + 1] = Header(a[k + 1])
      BY <2>1, <2>3, <3>1, HeaderInImage DEF l
    <3>3. Header(a[k + 1]).text = NameLen
      BY DEF Header
    <3> QED
      BY <2>1, <2>2, <2>4, <3>2, <3>3 DEF l
  <2>5. CASE ~(k < Len(a))
    <3>1. z = h + q + 1
      <4>1. k = Len(a)
        BY <1>1, <2>5
      <4> QED
        BY <2>1, <4>1
    <3> HIDE DEF l
    <3>2. Image(a, c, l)[(h + q + 1) + 1] = Zero
      <4>1. h + q + 1 \in Nat /\ h + q + 1 >= z
        BY <1>2, <3>1
      <4> QED
        BY <2>3, <4>1, ZeroInImage DEF l
    <3>3. Zero.text = 0
      BY DEF Zero
    <3> QED
      BY <2>1, <2>2, <2>5, <3>2, <3>3 DEF l
  <2> QED
    BY <2>4, <2>5
<1>11. h + q + 2 <= l
  <2>1. CeilDiv(a[k].size, Block) >= q
    BY SMTT(20)
  <2> QED
    BY <1>2, <1>4, <1>5, <2>1
<1> QED
  BY <1>2, <1>8, <1>9, <1>10, <1>11 DEF h, LastText

(* The same for the size of the file.                                      *)
LEMMA BlocksOf ==
  ASSUME archive \in Archives, NEW c \in Contents, NEW k \in 1 .. Len(archive),
         Len(image) \in Nat, image = Image(archive, c, Len(image)), Complete
  PROVE  \E q \in Nat, r \in 0 .. Block - 1 :
           /\ archive[k].size = Block * q + r /\ archive[k].size % Block = r
           /\ HeaderBlock(archive, k) + q + 2 <= Len(image)
           /\ \A j \in 1 .. q : image[HeaderBlock(archive, k) + j + 1].text = c.text
           /\ image[HeaderBlock(archive, k) + q + 2].text = LastText(c, k, r)
<1> DEFINE size == archive[k].size
<1>1. size \in Nat /\ Block \in Nat \ {0}
  BY EntryFacts, BlockAssumption
<1> HIDE DEF size
<1>2. PICK q \in Nat, r \in 0 .. Block - 1 :
        /\ size = Block * q + r /\ size \div Block = q /\ size % Block = r
        /\ CeilDiv(size, Block) = IF r = 0 THEN q ELSE q + 1
  BY <1>1, Blocks
<1>3. /\ archive[k].size = Block * q + r /\ archive[k].size % Block = r
      /\ CeilDiv(archive[k].size, Block) = IF r = 0 THEN q ELSE q + 1
  BY <1>2 DEF size
<1>4. /\ HeaderBlock(archive, k) + q + 2 <= Len(image)
      /\ \A j \in 1 .. q : image[HeaderBlock(archive, k) + j + 1].text = c.text
      /\ image[HeaderBlock(archive, k) + q + 2].text = LastText(c, k, r)
  BY <1>3, BlocksOfFile
<1> QED
  BY <1>3, <1>4

(* The length of a file's text: no more than the file, or than it and the  *)
(* name behind it, and just that if there is no NUL in it.                 *)
TextLen(k) == archive[k].size + IF Followed(k) THEN NameLen ELSE 0

LEMMA TextOfFile ==
  ASSUME Static, Complete, NEW k \in 1 .. Len(archive), NEW p, p = HeaderAt(k) + Block
  PROVE  /\ p + Strlen(p) < End /\ Strlen(p) <= TextLen(k)
         /\ image[HeaderAt(k) \div Block + 2].text = Least(Block, archive[k].size)
            /\ archive[k].size > 0 => Strlen(p) = TextLen(k)
<1> USE BlockAssumption
<1> DEFINE h == HeaderBlock(archive, k)
           l == Len(image)
           size == archive[k].size
           extra == IF Followed(k) THEN NameLen ELSE 0
<1>1. archive \in Archives /\ Len(archive) \in Nat /\ l \in Nat
  BY StaticFacts
<1>2. PICK c \in Contents : image = Image(archive, c, l)
  BY StaticFacts
<1>3. size \in Nat /\ k \in 1 .. Len(archive) + 1
  BY <1>1, EntryFacts
<1>4. PICK q \in Nat, r \in 0 .. Block - 1 :
        /\ archive[k].size = Block * q + r /\ archive[k].size % Block = r
        /\ HeaderBlock(archive, k) + q + 2 <= Len(image)
        /\ \A j \in 1 .. q : image[HeaderBlock(archive, k) + j + 1].text = c.text
        /\ image[HeaderBlock(archive, k) + q + 2].text = LastText(c, k, r)
  <2>1. Len(image) \in Nat /\ image = Image(archive, c, Len(image))
    BY <1>1, <1>2
  <2> QED
    BY <1>1, <2>1, BlocksOf
<1>5. /\ h \in Nat /\ h + q + 2 <= l
      /\ \A j \in 1 .. q : image[h + j + 1].text = c.text
      /\ r # 0 => image[h + q + 2].text = Least(c.text, r)
      /\ r = 0 => image[h + q + 2].text = extra
  BY <1>1, <1>3, <1>4, HeaderBlockType DEF LastText
<1>6. /\ HeaderAt(k) = Block * h /\ HeaderAt(k) \div Block = h /\ End = Block * l
  BY <1>1, <1>3, Offsets DEF End
<1>7. r # 0 => extra = 0
  BY <1>4 DEF Followed
<1>8. extra \in 0 .. Block - 1
  BY TextAssumption
<1>9. c.text \in 0 .. Block
  BY ContentsAssumption
<1> DEFINE t == image[h + q + 2].text
<1>10. t \in Int /\ t < Block /\ t <= r + extra
  <2>1. CASE r # 0
    <3>1. t = Least(c.text, r) /\ c.text \in Int /\ r \in Int
      BY <1>5, <1>9, <2>1
    <3>2. Least(c.text, r) <= r /\ Least(c.text, r) \in Int
      <4> DEFINE x == c.text
      <4>1. x \in Int /\ r \in Int
        BY <3>1
      <4> HIDE DEF x
      <4>2. Least(x, r) <= r /\ Least(x, r) \in Int
        BY <4>1, LeastIs
      <4> QED
        BY <4>2 DEF x
    <3>3. t <= r /\ t \in Int
      BY <3>1, <3>2
    <3> HIDE DEF t, extra
    <3> QED
      BY <1>8, <3>3
  <2>2. CASE r = 0
    <3>1. t = extra
      BY <1>5, <2>2
    <3> HIDE DEF t, extra
    <3> QED
      BY <1>8, <2>2, <3>1
  <2> QED
    BY <2>1, <2>2
<1>11. p = Block * (h + 1) /\ p \div Block + 1 = h + 2
  <2>1. p = Block * (h + 1)
    BY <1>5, <1>6, Multiples
  <2> HIDE DEF h
  <2>2. (Block * (h + 1)) \div Block = h + 1
    <3>1. h + 1 \in Nat
      BY <1>5
    <3> QED
      BY <3>1, Multiples
  <2> QED
    BY <1>5, <2>1, <2>2
<1>12. TextLen(k) = Block * q + r + extra
  BY <1>4 DEF TextLen
<1> HIDE DEF h, l, size, extra, t
<1>13. /\ Block * (h + 1) \in Nat /\ Block * q \in Nat /\ Block * (h + 1 + q) \in Nat
       /\ Block * (h + 1 + q) = Block * (h + 1) + Block * q
  <2>1. h + 1 \in Nat /\ h + 1 + q \in Nat
    BY <1>5
  <2>2. Block * (h + 1 + q) = Block * (h + 1) + Block * q
    BY <1>5
  <2> QED
    BY <2>1, <2>2, Multiples
<1>14. Block * (h + 1 + q) + Block <= Block * l
  <2>1. h + 1 + q \in Nat /\ h + 1 + q < l
    BY <1>1, <1>5
  <2> QED
    BY <1>1, <2>1, MultiplesApart
(* No NUL before the block that is not full.                               *)
<1>15. CASE q = 0 \/ c.text = Block
  <2>1. \A j \in h + 2 .. (h + q + 2) - 1 : ~(image[j].text < Block)
    <3> SUFFICES ASSUME NEW j \in h + 2 .. (h + q + 2) - 1
                 PROVE  ~(image[j].text < Block)
      OBVIOUS
    <3>1. j - (h + 1) \in 1 .. q /\ h + (j - (h + 1)) + 1 = j
      BY <1>5
    <3>2. image[j].text = c.text
      BY <1>5, <3>1
    <3>3. c.text = Block
      BY <1>15, <3>1
    <3> QED
      BY <3>2, <3>3
  <2>2. Strlen(p) = ((h + q + 2) - (h + 2)) * Block + t
    <3>1. h + 2 \in Nat /\ h + q + 2 \in h + 2 .. Len(image) /\ Len(image) \in Nat
      BY <1>1, <1>5 DEF l
    <3> QED
      BY <1>10, <1>11, <2>1, <3>1, StrlenIs DEF t
  <2>3. ((h + q + 2) - (h + 2)) * Block = Block * q
    <3>1. (h + q + 2) - (h + 2) = q
      BY <1>5
    <3> QED
      BY <3>1
  <2>4. Strlen(p) = Block * q + t
    BY <2>2, <2>3
  <2>5. Strlen(p) <= TextLen(k)
    BY <1>8, <1>10, <1>12, <1>13, <2>4
  <2>6. p + Strlen(p) < End
    <3>1. p + Strlen(p) = Block * (h + 1 + q) + t
      BY <1>10, <1>11, <1>13, <2>4
    <3>2. Block * (h + 1 + q) + t < Block * (h + 1 + q) + Block
      BY <1>10, <1>13
    <3>3. Block * l \in Nat
      BY <1>1, Multiples
    <3> QED
      BY <1>6, <1>10, <1>13, <1>14, <3>1, <3>2, <3>3 DEF l
  <2>7. ASSUME image[HeaderAt(k) \div Block + 2].text = Least(Block, size), size > 0
        PROVE  Strlen(p) = TextLen(k)
    <3>1. t = r + extra
      <4>1. CASE r = 0
        BY <1>5, <1>8, <4>1 DEF h, t, extra
      <4>2. CASE r # 0 /\ q # 0
        <5>1. t = Least(c.text, r) /\ c.text = Block
          BY <1>5, <1>15, <4>2 DEF h, t
        <5>2. Least(Block, r) = r
          BY LeastIs
        <5> QED
          BY <1>7, <4>2, <5>1, <5>2
      <4>3. CASE r # 0 /\ q = 0
        <5>1. size = r /\ t = Least(Block, size)
          <6>1. size = r
            BY <1>4, <4>3 DEF size
          <6>2. h + q + 2 = h + 2 /\ image[HeaderAt(k) \div Block + 2] = image[h + 2]
            BY <1>5, <1>6, <4>3 DEF h
          <6> QED
            BY <2>7, <6>1, <6>2 DEF t
        <5>2. Least(Block, r) = r
          BY LeastIs
        <5> QED
          BY <1>7, <4>3, <5>1, <5>2
      <4> QED
        BY <4>1, <4>2, <4>3
    <3> QED
      BY <1>8, <1>12, <1>13, <2>4, <3>1
  <2> QED
    BY <2>5, <2>6, <2>7 DEF size
(* A NUL in the first block, and others behind it.                         *)
<1>16. CASE q # 0 /\ c.text # Block
  <2>1. image[h + 2].text = c.text /\ c.text < Block
    <3>1. 1 \in 1 .. q /\ h + 1 + 1 = h + 2
      BY <1>5, <1>16
    <3>2. image[h + 1 + 1].text = c.text
      BY <1>5, <3>1
    <3>3. c.text < Block
      BY <1>9, <1>16
    <3> QED
      BY <3>1, <3>2, <3>3
  <2>2. Strlen(p) = ((h + 2) - (h + 2)) * Block + image[h + 2].text
    <3>1. h + 2 \in Nat /\ h + 2 \in h + 2 .. Len(image) /\ Len(image) \in Nat
      BY <1>1, <1>5 DEF l
    <3>2. h + 2 .. (h + 2) - 1 = {}
      BY <3>1
    <3> QED
      BY <1>11, <2>1, <3>1, <3>2, StrlenIs
  <2>3. ((h + 2) - (h + 2)) * Block = 0
    <3>1. (h + 2) - (h + 2) = 0
      BY <1>5
    <3> QED
      BY <3>1
  <2>4. Strlen(p) = c.text /\ c.text \in Nat
    BY <1>9, <2>1, <2>2, <2>3
  <2>5. Block <= Block * q
    <3>1. Block * 0 + Block <= Block * q
      BY <1>16, MultiplesApart
    <3> QED
      BY <3>1
  <2>6. Strlen(p) <= TextLen(k)
    BY SMTT(20), <1>8, <1>12, <1>13, <2>1, <2>4, <2>5
  <2>7. p + Strlen(p) < End
    <3>1. Block * l \in Nat
      BY <1>1, Multiples
    <3> QED
      BY SMTT(20), <1>6, <1>11, <1>13, <1>14, <2>1, <2>4, <3>1 DEF l
  <2>8. ~(image[HeaderAt(k) \div Block + 2].text = Least(Block, size))
    <3>1. Block <= size
      BY SMTT(20), <1>4, <1>13, <2>5 DEF size
    <3>2. Least(Block, size) = Block
      BY <1>3, <3>1, LeastIs
    <3>3. image[HeaderAt(k) \div Block + 2] = image[h + 2]
      BY <1>6 DEF h
    <3> QED
      BY <2>1, <3>2, <3>3
  <2> QED
    BY <2>6, <2>7, <2>8 DEF size
<1> QED
  BY <1>15, <1>16

(* What TextShown says of the file printed.                                *)
Shows(k) ==
  /\ Matches(k) /\ result.data = HeaderAt(k) + Block
  /\ printed.text <= TextLen(k)
  /\ image[HeaderAt(k) \div Block + 2].text = Least(Block, archive[k].size)
     /\ archive[k].size > 0 =>
       /\ printed.text = TextLen(k)
       /\ printed.shown = IF TextLen(k) + 1 < PrintBuf THEN TextLen(k) + 1 ELSE 0

(* What _start prints of a file of a complete archive.                     *)
LEMMA PrintShows ==
  ASSUME IInv, PrintMsg, Complete
  PROVE  /\ result.data + printed'.text < End
         /\ \E k \in 1 .. Len(archive) :
              /\ Matches(k) /\ result.data = HeaderAt(k) + Block
              /\ printed'.text <= TextLen(k)
              /\ image[HeaderAt(k) \div Block + 2].text = Least(Block, archive[k].size)
                 /\ archive[k].size > 0 =>
                   /\ printed'.text = TextLen(k)
                   /\ printed'.shown = IF TextLen(k) + 1 < PrintBuf THEN TextLen(k) + 1 ELSE 0
<1> DEFINE n == Strlen(result.data)
<1>1. Static /\ FoundRight /\ result.status = "file"
  BY DEF IInv, PrintMsg
<1>2. PICK k \in 1 .. Len(archive) : Matches(k) /\ result.data = HeaderAt(k) + Block
  BY <1>1 DEF FoundRight
<1>3. printed' = [text |-> n, shown |-> IF n + 1 < PrintBuf THEN n + 1 ELSE 0]
  BY DEF PrintMsg
<1>4. /\ result.data + n < End /\ n <= TextLen(k)
      /\ image[HeaderAt(k) \div Block + 2].text = Least(Block, archive[k].size)
         /\ archive[k].size > 0 => n = TextLen(k)
  BY <1>1, <1>2, TextOfFile
<1> HIDE DEF n
<1>5. printed'.text = n /\ printed'.shown = IF n + 1 < PrintBuf THEN n + 1 ELSE 0
  BY <1>3
<1> QED
  BY <1>2, <1>4, <1>5

(* And it is printed once.                                                 *)
LEMMA NextTextShown ==
  IInv /\ TextShown /\ [Next]_vars => TextShown'
<1> SUFFICES ASSUME IInv, TextShown, [Next]_vars PROVE TextShown'
  OBVIOUS
<1>1. CASE result = NotYet /\ UNCHANGED printed
  BY <1>1 DEF IInv, Walking, TextShown
<1>2. CASE PrintMsg
  <2>1. UNCHANGED <<archive, image, path, result>>
    BY <1>2 DEF PrintMsg, walk
  <2>2. /\ Complete' <=> Complete
        /\ End' = End
        /\ \A k : /\ Matches(k)' <=> Matches(k)
                  /\ HeaderAt(k)' = HeaderAt(k) /\ TextLen(k)' = TextLen(k)
    BY <2>1 DEF Complete, End, Matches, HeaderAt, TextLen, Followed
  <2> SUFFICES ASSUME Complete
               PROVE  result.data + printed'.text < End /\ \E k \in 1 .. Len(archive) : Shows(k)'
    BY <2>1, <2>2 DEF TextShown, Shows, TextLen
  <2> QED
    BY <1>2, <2>1, <2>2, PrintShows DEF Shows
<1>3. CASE UNCHANGED vars
  BY <1>3 DEF vars, walk, TextShown, Complete, End, Matches, HeaderAt, Followed
<1>4. Found \/ Skip \/ GiveUp => result = NotYet /\ UNCHANGED printed
  BY DEF Found, Skip, GiveUp, Return
<1> QED
  BY <1>1, <1>2, <1>3, <1>4 DEF Next

(* Of the file _start prints the text is the file, never more of the image *)
(* than it and the name of the entry behind it, and never less if the file *)
(* has no NUL; and printf shows all of it or nothing.                      *)
THEOREM FileShown == Spec => []TextShown
<1>1. Init => TextShown
  BY DEF Init, TextShown
<1> QED
  BY <1>1, InitIInv, NextIInv, NextTextShown, PTL DEF Spec

=============================================================================
