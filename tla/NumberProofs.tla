---------------------------- MODULE NumberProofs ----------------------------
(* Proofs about modules MathUtils and Format, for every value of their     *)
(* constants, and the arithmetic they share.                               *)
EXTENDS MathUtils, Format, FiniteSetTheorems, TLAPS

-----------------------------------------------------------------------------
(* Induction and recursion.                                                *)

(* A set of naturals that is not empty has a least element.                *)
LEMMA LeastNumber ==
  ASSUME NEW T, T \subseteq Nat, T # {}
  PROVE  \E x \in T : \A y \in T : x <= y
<1>1. PICK e \in T : TRUE
  OBVIOUS
<1> DEFINE S == 0 .. e
           U == {0 .. k : k \in {k \in T : k <= e}}
           R == StrictSubsetOrdering(S)
<1>2. IsFiniteSet(S)
  BY <1>1, FS_Interval
<1>3. IsWellFoundedOn(R, FiniteSubsetsOf(S))
  BY FS_StrictSubsetOrderingWellFounded
<1>4. IsWellFoundedOn(R, SUBSET S)
  BY <1>2, <1>3, FS_FiniteSubsetsOfFinite
<1>5. U \subseteq SUBSET S /\ U # {}
  BY <1>1
<1>6. PICK u \in U : \A v \in U : <<v, u>> \notin R
  <2> HIDE DEF U, R, S
  <2> QED
    BY <1>4, <1>5, WFMin
<1>7. PICK x \in T : x <= e /\ u = 0 .. x
  BY <1>6
<1>8. ASSUME NEW y \in T, y < x
      PROVE  FALSE
  <2>1. 0 .. y \in U /\ 0 .. y \subseteq 0 .. x /\ 0 .. y # 0 .. x
    BY <1>7, <1>8, x \in 0 .. x, x \notin 0 .. y
  <2>2. <<0 .. y, 0 .. x>> \in R
    BY <1>5, <1>6, <1>7, <2>1 DEF StrictSubsetOrdering
  <2> QED
    BY <1>6, <1>7, <2>1, <2>2
<1>9. \A y \in T : x <= y
  BY <1>7, <1>8
<1> QED
  BY <1>9

(* Induction, of a set of naturals.                                        *)
LEMMA AllNumbers ==
  ASSUME NEW T, 0 \in T, \A k \in Nat : k \in T => k + 1 \in T
  PROVE  \A k \in Nat : k \in T
<1> DEFINE U == Nat \ T
<1> SUFFICES ASSUME U # {} PROVE FALSE
  OBVIOUS
<1>1. PICK m \in U : \A y \in U : m <= y
  <2>1. U \subseteq Nat
    OBVIOUS
  <2> HIDE DEF U
  <2> QED
    BY <2>1, LeastNumber
<1>2. m \in Nat /\ m # 0 /\ m \notin T
  BY <1>1
<1>3. m - 1 \in Nat /\ ~(m <= m - 1) /\ (m - 1) + 1 = m
  BY <1>2
<1>4. m - 1 \in T
  BY <1>1, <1>3
<1> QED
  BY <1>2, <1>3, <1>4

(* Recursion: a function on the naturals, from its first value and the     *)
(* step from each to the next.                                             *)
StepsIn(F, S) == F \in [Nat -> [S -> S]]
Recurs(f, first, F, S) ==
  f \in [Nat -> S] /\ f[0] = first /\ \A k \in Nat : f[k + 1] = F[k][f[k]]

LEMMA Recursion ==
  ASSUME NEW S, NEW first \in S, NEW F, StepsIn(F, S)
  PROVE  \E f : Recurs(f, first, F, S)
<1> USE DEF StepsIn
<1> DEFINE Is(f, m) == f[0] = first /\ \A k \in 0 .. m - 1 : f[k + 1] = F[k][f[k]]
           T == {m \in Nat : \E f \in [0 .. m -> S] : Is(f, m)}
<1>1. \A m \in Nat : m \in T
  <2>1. 0 \in T
    <3> DEFINE f == [k \in 0 .. 0 |-> first]
    <3>1. f \in [0 .. 0 -> S] /\ Is(f, 0)
      OBVIOUS
    <3> QED
      BY <3>1
  <2>2. ASSUME NEW m \in Nat, m \in T
        PROVE  m + 1 \in T
    <3>1. PICK f \in [0 .. m -> S] : Is(f, m)
      BY <2>2
    <3> DEFINE g == [k \in 0 .. m + 1 |-> IF k = m + 1 THEN F[m][f[m]] ELSE f[k]]
    <3>2. g \in [0 .. m + 1 -> S]
      <4>1. f[m] \in S
        OBVIOUS
      <4>2. F[m][f[m]] \in S
        BY <4>1
      <4>3. \A k \in 0 .. m + 1 : k # m + 1 => f[k] \in S
        OBVIOUS
      <4> QED
        BY <4>2, <4>3
    <3>3. g[0] = first
      BY <3>1
    <3>4. ASSUME NEW k \in 0 .. (m + 1) - 1
          PROVE  g[k + 1] = F[k][g[k]]
      <4>1. g[k] = f[k]
        OBVIOUS
      <4>2. CASE k = m
        <5>1. g[m + 1] = F[m][f[m]]
          OBVIOUS
        <5> QED
          BY <4>1, <4>2, <5>1
      <4>3. CASE k # m
        <5>1. k \in 0 .. m - 1 /\ g[k + 1] = f[k + 1]
          BY <4>3
        <5> QED
          BY <3>1, <4>1, <5>1
      <4> QED
        BY <4>2, <4>3
    <3>5. Is(g, m + 1)
      BY <3>3, <3>4
    <3> HIDE DEF Is, g
    <3> QED
      BY <3>2, <3>5
  <2> HIDE DEF T
  <2> QED
    BY <2>1, <2>2, AllNumbers
<1> DEFINE a == [m \in Nat |-> CHOOSE f \in [0 .. m -> S] : Is(f, m)]
<1>2. \A m \in Nat : a[m] \in [0 .. m -> S] /\ Is(a[m], m)
  BY <1>1
<1> HIDE DEF a
<1> DEFINE g == [m \in Nat |-> a[m][m]]
<1>3. ASSUME NEW m \in Nat
      PROVE  a[m + 1][m] = a[m][m]
  <2> DEFINE D == {k \in Nat : k <= m => a[m + 1][k] = a[m][k]}
  <2>1. 0 \in D
    BY <1>2
  <2>2. ASSUME NEW k \in Nat, k \in D
        PROVE  k + 1 \in D
    <3> SUFFICES ASSUME k + 1 <= m
                 PROVE  a[m + 1][k + 1] = a[m][k + 1]
      OBVIOUS
    <3>1. a[m + 1][k] = a[m][k]
      BY <2>2
    <3>2. k \in 0 .. m - 1 /\ k \in 0 .. (m + 1) - 1 /\ m + 1 \in Nat
      OBVIOUS
    <3> QED
      BY <1>2, <3>1, <3>2, SMTT(20)
  <2>3. \A k \in Nat : k \in D
    <3> HIDE DEF D
    <3> QED
      BY <2>1, <2>2, AllNumbers
  <2> QED
    BY <2>3
<1>4. g \in [Nat -> S]
  BY <1>2
<1>5. g[0] = first
  BY <1>2
<1>6. ASSUME NEW m \in Nat
      PROVE  g[m + 1] = F[m][g[m]]
  <2>1. m \in 0 .. (m + 1) - 1 /\ m + 1 \in Nat
    OBVIOUS
  <2>2. a[m + 1][m + 1] = F[m][a[m + 1][m]]
    BY <1>2, <2>1
  <2> QED
    BY <1>3, <2>2
<1> HIDE DEF g
<1> QED
  BY <1>4, <1>5, <1>6 DEF Recurs

-----------------------------------------------------------------------------
(* Division.                                                               *)

(* Quotient and remainder of a number by a divisor, and that there are no  *)
(* others.                                                                 *)
LEMMA Division ==
  ASSUME NEW x \in Nat, NEW d \in Nat \ {0}
  PROVE  \E q \in Nat, r \in 0 .. d - 1 : x = d * q + r /\ x \div d = q /\ x % d = r
<1> DEFINE q == x \div d
           r == x - d * q
<1>1. q \in Nat
  OBVIOUS
<1>2. r \in 0 .. d - 1
  OBVIOUS
<1>3. x % d = r
  OBVIOUS
<1>4. x = d * q + r
  BY <1>1, <1>2
<1> HIDE DEF r
<1> QED
  BY <1>1, <1>2, <1>3, <1>4

LEMMA Quotient ==
  ASSUME NEW d \in Nat \ {0}, NEW q \in Nat, NEW r \in 0 .. d - 1
  PROVE  (d * q + r) \div d = q /\ (d * q + r) % d = r
<1> DEFINE x == d * q + r
<1>1. x \in Nat
  OBVIOUS
<1>2. PICK u \in Nat, v \in 0 .. d - 1 : x = d * u + v /\ x \div d = u /\ x % d = v
  <2> HIDE DEF x
  <2> QED
    BY <1>1, Division
<1>3. d * q + r = d * u + v
  BY <1>2
<1>4. ~(q < u)
  <2> SUFFICES ASSUME q < u PROVE FALSE
    OBVIOUS
  <2>1. d * u >= d * (q + 1)
    OBVIOUS
  <2>2. d * (q + 1) = d * q + d
    OBVIOUS
  <2> QED
    BY <1>3, <2>1, <2>2
<1>5. ~(u < q)
  <2> SUFFICES ASSUME u < q PROVE FALSE
    OBVIOUS
  <2>1. d * q >= d * (u + 1)
    OBVIOUS
  <2>2. d * (u + 1) = d * u + d
    OBVIOUS
  <2> QED
    BY <1>3, <2>1, <2>2
<1>6. u = q
  BY <1>4, <1>5
<1>7. v = r
  BY <1>3, <1>6
<1> QED
  BY <1>2, <1>6, <1>7

(* What is too small to overflow is not reduced.                           *)
LEMMA Remainder ==
  ASSUME NEW x \in Nat, NEW d \in Nat \ {0}, x < d
  PROVE  x % d = x /\ x \div d = 0
OBVIOUS

-----------------------------------------------------------------------------
(* Powers of two.                                                          *)

LEMMA Pow2Recursion ==
  Pow2 = [k \in Nat |-> IF k = 0 THEN 1 ELSE 2 * Pow2[k - 1]]
<1> DEFINE Is(f) == f = [k \in Nat |-> IF k = 0 THEN 1 ELSE 2 * f[k - 1]]
           F == [k \in Nat |-> [x \in Nat |-> 2 * x]]
<1>1. \E f : Is(f)
  <2>1. StepsIn(F, Nat)
    BY DEF StepsIn
  <2>2. PICK f : Recurs(f, 1, F, Nat)
    <3> HIDE DEF F, Is
    <3> QED
      BY <2>1, Recursion
  <2>3. f \in [Nat -> Nat] /\ f[0] = 1 /\ \A k \in Nat : f[k + 1] = 2 * f[k]
    BY <2>2 DEF Recurs
  <2>4. \A k \in Nat : k # 0 => k - 1 \in Nat /\ (k - 1) + 1 = k
    OBVIOUS
  <2>5. Is(f)
    BY <2>3, <2>4
  <2> QED
    BY <2>5
<1>2. Pow2 = CHOOSE f : Is(f)
  BY DEF Pow2
<1>3. Is(Pow2)
  <2> HIDE DEF Is
  <2> QED
    BY <1>1, <1>2
<1> QED
  BY <1>3

LEMMA Pow2Type == \A k \in Nat : Pow2[k] \in Nat \ {0}
<1> DEFINE T == {k \in Nat : Pow2[k] \in Nat \ {0}}
<1>1. 0 \in T
  BY Pow2Recursion
<1>2. ASSUME NEW k \in Nat, k \in T
      PROVE  k + 1 \in T
  <2>1. Pow2[k + 1] = 2 * Pow2[k]
    BY Pow2Recursion
  <2> QED
    BY <1>2, <2>1
<1>3. \A k \in Nat : k \in T
  <2> HIDE DEF T
  <2> QED
    BY <1>1, <1>2, AllNumbers
<1> QED
  BY <1>3

LEMMA Pow2Next ==
  /\ Pow2[0] = 1
  /\ \A k \in Nat : Pow2[k] \in Nat \ {0} /\ Pow2[k + 1] = 2 * Pow2[k]
<1>1. \A k \in Nat : k + 1 \in Nat /\ k + 1 # 0 /\ (k + 1) - 1 = k
  OBVIOUS
<1> QED
  BY <1>1, Pow2Type, Pow2Recursion

(* The power of a sum of exponents is the product of the powers.           *)
LEMMA Pow2Sum ==
  ASSUME NEW j \in Nat, NEW k \in Nat
  PROVE  Pow2[j + k] = Pow2[j] * Pow2[k]
<1> DEFINE T == {i \in Nat : Pow2[j + i] = Pow2[j] * Pow2[i]}
<1>1. 0 \in T
  BY Pow2Next
<1>2. ASSUME NEW i \in Nat, i \in T
      PROVE  i + 1 \in T
  <2>1. Pow2[j + (i + 1)] = 2 * Pow2[j + i]
    <3>1. j + (i + 1) = (j + i) + 1 /\ j + i \in Nat
      OBVIOUS
    <3> QED
      BY <3>1, Pow2Next
  <2>2. Pow2[j + i] = Pow2[j] * Pow2[i] /\ Pow2[i + 1] = 2 * Pow2[i]
    BY <1>2, Pow2Next
  <2>3. Pow2[j] \in Nat /\ Pow2[i] \in Nat
    BY Pow2Next
  <2>4. \A x, y \in Nat : 2 * (x * y) = x * (2 * y)
    OBVIOUS
  <2> QED
    BY <2>1, <2>2, <2>3, <2>4
<1>3. \A i \in Nat : i \in T
  <2> HIDE DEF T
  <2> QED
    BY <1>1, <1>2, AllNumbers
<1> QED
  BY <1>3

(* A lesser power divides a greater one an even number of times.           *)
LEMMA Pow2Divides ==
  ASSUME NEW j \in Nat, NEW k \in Nat, j < k
  PROVE  \E h \in Nat \ {0} : Pow2[k] = Pow2[j] * (2 * h)
<1> DEFINE i == k - j - 1
<1>1. i \in Nat /\ j + (i + 1) = k
  OBVIOUS
<1> HIDE DEF i
<1>2. Pow2[j + (i + 1)] = Pow2[j] * Pow2[i + 1]
  BY <1>1, Pow2Sum
<1>3. Pow2[i + 1] = 2 * Pow2[i] /\ Pow2[i] \in Nat \ {0}
  BY <1>1, Pow2Next
<1> QED
  BY <1>1, <1>2, <1>3

(* The powers are ordered as their exponents are.                          *)
LEMMA Pow2Less ==
  ASSUME NEW j \in Nat, NEW k \in Nat, j < k
  PROVE  Pow2[j] < Pow2[k]
<1>1. PICK h \in Nat \ {0} : Pow2[k] = Pow2[j] * (2 * h)
  BY Pow2Divides
<1>2. Pow2[j] \in Nat \ {0}
  BY Pow2Next
<1>3. \A x, y \in Nat \ {0} : x < x * (2 * y)
  OBVIOUS
<1> QED
  BY <1>1, <1>2, <1>3

-----------------------------------------------------------------------------
(* MathUtils: the operators of C.                                          *)

(* The number that a number's bits below j are; bit j is what the one      *)
(* below j + 1 has more.                                                   *)
Low(v, j) == v % Pow2[j]

LEMMA BitStep ==
  ASSUME NEW v \in Nat, NEW j \in Nat
  PROVE  /\ Low(v, j + 1) \in Nat /\ Low(v, j) \in Nat
         /\ Low(v, j + 1) = Low(v, j) + IF (v \div Pow2[j]) % 2 = 1 THEN Pow2[j] ELSE 0
<1> DEFINE P == Pow2[j]
<1>1. P \in Nat \ {0} /\ Pow2[j + 1] = 2 * P
  BY Pow2Next
<1> HIDE DEF P
<1>2. PICK q \in Nat, r \in 0 .. P - 1 : v = P * q + r /\ v \div P = q /\ v % P = r
  BY <1>1, Division
<1>3. PICK h \in Nat, b \in 0 .. 1 : q = 2 * h + b /\ q % 2 = b
  <2>1. PICK h \in Nat, b \in 0 .. 2 - 1 : q = 2 * h + b /\ q \div 2 = h /\ q % 2 = b
    BY Division
  <2> QED
    BY <2>1
<1>4. P * b + r \in 0 .. 2 * P - 1 /\ P * b = IF b = 1 THEN P ELSE 0
  <2>1. CASE b = 0
    BY <1>1, <2>1
  <2>2. CASE b = 1
    BY <1>1, <2>2
  <2> QED
    BY <2>1, <2>2
<1>5. v = (2 * P) * h + (P * b + r)
  <2>1. P * (2 * h + b) = (2 * P) * h + P * b
    BY <1>1
  <2> QED
    BY <1>1, <1>2, <1>3, <2>1
<1>6. v % (2 * P) = P * b + r
  <2> DEFINE d == 2 * P
             w == P * b + r
  <2>1. d \in Nat \ {0} /\ w \in 0 .. d - 1
    BY <1>1, <1>4
  <2> HIDE DEF d, w
  <2>2. (d * h + w) % d = w
    BY <2>1, Quotient
  <2> QED
    BY <1>5, <2>2 DEF d, w
<1>7. v % (2 * P) = r + IF b = 1 THEN P ELSE 0
  BY <1>1, <1>4, <1>6
<1>8. v % (2 * P) \in Nat /\ v % P \in Nat
  BY <1>1, <1>2, <1>4, <1>6
<1> QED
  BY <1>1, <1>2, <1>3, <1>7, <1>8 DEF P, Low

(* The bits of a power of two less one are those below it.                 *)
LEMMA MaskBits ==
  ASSUME NEW k \in 0 .. W - 1
  PROVE  Bits(Pow2[k] - 1) = 0 .. k - 1
<1> USE WidthAssumption
<1> DEFINE m == Pow2[k] - 1
<1>1. ASSUME NEW j \in 0 .. W - 1, j < k
      PROVE  (m \div Pow2[j]) % 2 = 1
  <2>1. k \in Nat /\ j \in Nat
    OBVIOUS
  <2>2. PICK h \in Nat \ {0} : Pow2[k] = Pow2[j] * (2 * h)
    BY <1>1, <2>1, Pow2Divides
  <2> DEFINE P == Pow2[j]
             g == h - 1
  <2>3. P \in Nat \ {0} /\ g \in Nat /\ P - 1 \in 0 .. P - 1
    BY Pow2Next
  <2>4. m = P * (2 * g + 1) + (P - 1)
    <3>1. 2 * h = (2 * g + 1) + 1
      BY <2>2
    <3> HIDE DEF g, P
    <3>2. P * ((2 * g + 1) + 1) = P * (2 * g + 1) + P
      BY <2>3
    <3> QED
      BY <2>2, <2>3, <3>1, <3>2 DEF P
  <2> HIDE DEF P, g
  <2>5. m \div P = 2 * g + 1
    <3> DEFINE q == 2 * g + 1
               r == P - 1
    <3>1. q \in Nat /\ r \in 0 .. P - 1
      BY <2>3
    <3> HIDE DEF q, r, m
    <3>2. (P * q + r) \div P = q
      BY <2>3, <3>1, Quotient
    <3> QED
      BY <2>4, <3>2 DEF q, r
  <2> QED
    BY <2>3, <2>5 DEF P
<1>2. ASSUME NEW j \in 0 .. W - 1, ~(j < k)
      PROVE  (m \div Pow2[j]) % 2 # 1
  <2>1. j \in Nat /\ k \in Nat
    OBVIOUS
  <2>2. Pow2[k] <= Pow2[j] /\ Pow2[j] \in Nat \ {0} /\ Pow2[k] \in Nat \ {0}
    <3>1. Pow2[j] \in Nat \ {0} /\ Pow2[k] \in Nat \ {0}
      BY <2>1, Pow2Next
    <3>2. k < j => Pow2[k] < Pow2[j]
      BY <2>1, Pow2Less
    <3>3. k < j \/ k = j
      BY <1>2, <2>1
    <3> QED
      BY <3>1, <3>2, <3>3
  <2>3. m \in Nat /\ m < Pow2[j]
    BY <2>2
  <2>4. m \div Pow2[j] = 0
    <3> HIDE DEF m
    <3> QED
      BY <2>2, <2>3, Remainder
  <2> QED
    BY <2>4
<1> QED
  BY <1>1, <1>2 DEF Bits

(* The bits of a number from bit k on are the number but for its remainder *)
(* by the power of k.                                                      *)
LEMMA HighBits ==
  ASSUME NEW v \in Nat, v < Pow2[W], NEW k \in 0 .. W - 1
  PROVE  Value(Bits(v) \ 0 .. k - 1) = v - Low(v, k)
<1> USE WidthAssumption
<1> DEFINE ks == Bits(v) \ 0 .. k - 1
           Is(f) == f = [j \in 0 .. W |->
             IF j = 0 THEN 0 ELSE f[j - 1] + IF j - 1 \in ks THEN Pow2[j - 1] ELSE 0]
           w == [j \in 0 .. W |-> IF j <= k THEN 0 ELSE Low(v, j) - Low(v, k)]
<1>1. ASSUME NEW j \in 0 .. W, j # 0
      PROVE  w[j] = w[j - 1] + IF j - 1 \in ks THEN Pow2[j - 1] ELSE 0
  <2> DEFINE i == j - 1
  <2>1. i \in Nat /\ i \in 0 .. W - 1 /\ i \in 0 .. W /\ i + 1 = j
    BY <1>1
  <2>2. CASE j <= k
    <3>1. i \notin ks
      BY <2>1, <2>2
    <3> QED
      BY <2>1, <2>2, <3>1
  <2>3. CASE k < j
    <3> HIDE DEF i
    <3> DEFINE b == IF (v \div Pow2[i]) % 2 = 1 THEN Pow2[i] ELSE 0
    <3>1. /\ Low(v, i + 1) \in Nat /\ Low(v, i) \in Nat
          /\ Low(v, i + 1) = Low(v, i) + b
      BY <2>1, BitStep
    <3>2. Pow2[i] \in Nat /\ b \in Nat
      BY <2>1, Pow2Next
    <3>3. Low(v, k) \in Nat
      <4>1. k \in Nat
        OBVIOUS
      <4> QED
        BY <4>1, BitStep
    <3>4. i \in ks <=> (v \div Pow2[i]) % 2 = 1
      BY <2>1, <2>3 DEF Bits
    <3>5. w[j] = Low(v, j) - Low(v, k)
      BY <2>3
    <3>6. w[i] = Low(v, i) - Low(v, k)
      <4>1. CASE i = k
        <5>1. w[i] = 0
          BY <2>1, <4>1
        <5> HIDE DEF w
        <5>2. Low(v, i) = Low(v, k)
          BY <4>1
        <5>3. \A x \in Nat : 0 = x - x
          OBVIOUS
        <5>4. Low(v, i) - Low(v, k) = 0
          BY <3>3, <5>2, <5>3
        <5> QED
          BY <5>1, <5>4
      <4>2. CASE i # k
        BY <2>1, <2>3, <4>2
      <4> QED
        BY <4>1, <4>2
    <3>7. w[j] = w[i] + b
      <4>1. Low(v, j) = Low(v, i) + b
        BY <2>1, <3>1
      <4>2. \A x, y, z \in Nat : (x + y) - z = (x - z) + y
        OBVIOUS
      <4> HIDE DEF w, b
      <4>3. (Low(v, i) + b) - Low(v, k) = (Low(v, i) - Low(v, k)) + b
        BY <3>1, <3>2, <3>3, <4>2
      <4> QED
        BY <3>5, <3>6, <4>1, <4>3
    <3>8. b = IF i \in ks THEN Pow2[i] ELSE 0
      BY <3>4
    <3> QED
      BY <3>7, <3>8 DEF i
  <2> QED
    BY <1>1, <2>2, <2>3
<1>2. w[0] = 0
  OBVIOUS
<1>3. Is(w)
  <2> SUFFICES \A j \in 0 .. W : w[j] = IF j = 0 THEN 0
                 ELSE w[j - 1] + IF j - 1 \in ks THEN Pow2[j - 1] ELSE 0
    <3> HIDE DEF ks
    <3> QED
      OBVIOUS
  <2> QED
    BY <1>1, <1>2
<1> DEFINE s == CHOOSE f : Is(f)
<1>4. Value(ks) = s[W]
  BY DEF Value
<1>5. Is(s)
  <2> HIDE DEF Is
  <2> QED
    BY <1>3
<1> HIDE DEF w, s, ks
<1> DEFINE T == {j \in Nat : j <= W => s[j] = w[j]}
<1>6. 0 \in T
  BY <1>2, <1>5
<1>7. ASSUME NEW j \in Nat, j \in T
      PROVE  j + 1 \in T
  <2> SUFFICES ASSUME j + 1 <= W PROVE s[j + 1] = w[j + 1]
    OBVIOUS
  <2>1. j + 1 \in 0 .. W /\ j + 1 # 0 /\ (j + 1) - 1 = j
    OBVIOUS
  <2>2. s[j] = w[j]
    BY <1>7
  <2>3. s[j + 1] = s[j] + IF j \in ks THEN Pow2[j] ELSE 0
    BY <1>5, <2>1
  <2>4. w[j + 1] = w[j] + IF j \in ks THEN Pow2[j] ELSE 0
    BY <1>1, <2>1
  <2> QED
    BY <2>2, <2>3, <2>4
<1>8. \A j \in Nat : j \in T
  <2> HIDE DEF T
  <2> QED
    BY <1>6, <1>7, AllNumbers
<1>9. s[W] = w[W]
  BY <1>8
<1>10. w[W] = Low(v, W) - Low(v, k)
  BY DEF w
<1>11. Low(v, W) = v
  BY Pow2Next, Remainder DEF Low
<1> QED
  BY <1>4, <1>9, <1>10, <1>11 DEF ks

(* x & ~(base - 1) is the multiple of base below x, for a power of two.    *)
LEMMA AndNotMask ==
  ASSUME NEW v \in Nat, v < Pow2[W], NEW k \in 0 .. W - 1
  PROVE  AndNot(v, Wrap(Pow2[k] - 1)) = Pow2[k] * (v \div Pow2[k])
<1> USE WidthAssumption
<1>1. Wrap(Pow2[k] - 1) = Pow2[k] - 1
  <2>1. Pow2[k] < Pow2[W] /\ Pow2[k] \in Nat \ {0} /\ Pow2[W] \in Nat \ {0}
    <3>1. k \in Nat /\ k < W /\ W \in Nat
      OBVIOUS
    <3> QED
      BY <3>1, Pow2Less, Pow2Next
  <2>2. Pow2[k] - 1 \in Nat /\ Pow2[k] - 1 < Pow2[W]
    BY <2>1
  <2> QED
    BY <2>1, <2>2, Remainder DEF Wrap
<1>2. AndNot(v, Pow2[k] - 1) = v - Low(v, k)
  BY MaskBits, HighBits DEF AndNot
<1> DEFINE P == Pow2[k]
<1>3. P \in Nat \ {0}
  <2>1. k \in Nat
    OBVIOUS
  <2> QED
    BY <2>1, Pow2Next
<1> HIDE DEF P
<1>4. PICK q \in Nat, r \in 0 .. P - 1 : v = P * q + r /\ v \div P = q /\ v % P = r
  BY <1>3, Division
<1>5. v - Low(v, k) = P * (v \div P)
  <2> DEFINE x == P * q
             y == v \div P
  <2>1. x \in Nat
    BY <1>3
  <2>2. v = x + r /\ y = q /\ Low(v, k) = r /\ r \in Nat
    BY <1>4 DEF P, Low
  <2>3. P * y = x
    BY <2>2
  <2> HIDE DEF x, y
  <2>4. v - Low(v, k) = x
    BY <2>1, <2>2
  <2> QED
    BY <2>3, <2>4 DEF y
<1> QED
  BY <1>1, <1>2, <1>5 DEF P

(* POW counts powers of two exactly up to the width.                       *)
LEMMA PowerOfTwo ==
  ASSUME NEW k \in 0 .. W - 1
  PROVE  POW(2, k) = Pow2[k]
<1> USE WidthAssumption
<1> DEFINE Is(f) == f = [i \in 0 .. k |-> IF i = 0 THEN 1 ELSE Wrap(f[i - 1] * 2)]
           p == [i \in 0 .. k |-> Pow2[i]]
           o == CHOOSE f : Is(f)
<1>1. POW(2, k) = o[k]
  BY DEF POW
<1>2. ASSUME NEW i \in Nat, i + 1 <= k
      PROVE  Pow2[i + 1] = Wrap(Pow2[i] * 2)
  <2>1. i + 1 \in Nat /\ W \in Nat /\ i + 1 < W
    BY <1>2
  <2>2. Pow2[i + 1] < Pow2[W]
    BY <2>1, Pow2Less
  <2>3. Pow2[i + 1] \in Nat /\ Pow2[W] \in Nat \ {0} /\ Pow2[i] * 2 = Pow2[i + 1]
    BY <2>1, Pow2Next
  <2> QED
    BY <2>2, <2>3, Remainder DEF Wrap
<1>3. Is(p)
  <2>1. ASSUME NEW i \in 0 .. k, i # 0
        PROVE  p[i] = Wrap(p[i - 1] * 2)
    <3>1. i - 1 \in Nat /\ (i - 1) + 1 = i /\ i - 1 \in 0 .. k /\ i <= k
      BY <2>1
    <3>2. Pow2[(i - 1) + 1] = Wrap(Pow2[i - 1] * 2)
      BY <1>2, <3>1
    <3> QED
      BY <3>1, <3>2
  <2>2. p[0] = 1
    BY Pow2Next
  <2> QED
    BY <2>1, <2>2
<1>4. Is(o)
  <2> HIDE DEF Is
  <2> QED
    BY <1>3
<1> HIDE DEF o, p
<1> DEFINE T == {i \in Nat : i <= k => o[i] = Pow2[i]}
<1>5. 0 \in T
  BY <1>4, Pow2Next, SMTT(20)
<1>6. ASSUME NEW i \in Nat, i \in T
      PROVE  i + 1 \in T
  <2> SUFFICES ASSUME i + 1 <= k PROVE o[i + 1] = Pow2[i + 1]
    OBVIOUS
  <2>1. i + 1 \in 0 .. k /\ i + 1 # 0 /\ (i + 1) - 1 = i
    OBVIOUS
  <2>2. o[i + 1] = Wrap(o[i] * 2)
    BY <1>4, <2>1
  <2>3. o[i] = Pow2[i]
    BY <1>6
  <2> QED
    BY <1>2, <2>2, <2>3
<1>7. \A i \in Nat : i \in T
  <2> HIDE DEF T
  <2> QED
    BY <1>5, <1>6, AllNumbers
<1> QED
  BY <1>1, <1>7

(* The multiple of b below x, for x that has overflowed a multiple of b    *)
(* once at most.                                                           *)
LEMMA Overflowed ==
  ASSUME NEW b \in Nat \ {0}, NEW c \in Nat \ {0}, NEW x \in Nat, x < 2 * (b * c)
  PROVE  b * ((x % (b * c)) \div b) = (b * (x \div b)) % (b * c)
<1> DEFINE M == b * c
<1>1. M \in Nat \ {0}
  OBVIOUS
<1>2. PICK q \in Nat, r \in 0 .. b - 1 : x = b * q + r /\ x \div b = q /\ x % b = r
  BY Division
<1>3. b * q \in Nat /\ b * q <= x
  BY <1>2
<1>4. CASE x < M
  <2>1. x % M = x
    <3> HIDE DEF M
    <3> QED
      BY <1>1, <1>4, Remainder
  <2>2. (b * q) % M = b * q
    <3> DEFINE y == b * q
    <3>1. y \in Nat /\ y < M
      BY <1>3, <1>4
    <3> HIDE DEF y, M
    <3>2. y % M = y
      BY <1>1, <3>1, Remainder
    <3> QED
      BY <3>2 DEF y
  <2> QED
    BY <1>2, <2>1, <2>2
<1>5. CASE ~(x < M)
  <2>1. q >= c
    <3> SUFFICES ASSUME q < c PROVE FALSE
      OBVIOUS
    <3>1. b * (q + 1) <= b * c
      OBVIOUS
    <3>2. b * (q + 1) = b * q + b
      OBVIOUS
    <3> QED
      BY <1>2, <1>5, <3>1, <3>2
  <2>2. PICK d \in Nat : q = c + d
    <3>1. q - c \in Nat /\ q = c + (q - c)
      BY <2>1
    <3> QED
      BY <3>1
  <2> DEFINE y == b * d
  <2>3. y \in Nat /\ b * q = M + y
    BY <2>2
  <2>4. y + r \in Nat /\ x = M * 1 + (y + r) /\ y + r < M /\ b * q = M * 1 + y /\ y < M
    <3> HIDE DEF M, y
    <3>1. x = M + y + r /\ x < 2 * M
      BY <1>2, <2>3 DEF M
    <3> QED
      BY <1>1, <2>3, <3>1
  <2>5. x % M = y + r /\ (b * q) % M = y
    <3> HIDE DEF M, y
    <3> DEFINE z == y + r
    <3>1. z \in 0 .. M - 1 /\ y \in 0 .. M - 1 /\ 1 \in Nat
      BY <1>1, <2>3, <2>4
    <3> HIDE DEF z
    <3>2. (M * 1 + z) % M = z /\ (M * 1 + y) % M = y
      BY <1>1, <3>1, Quotient
    <3> QED
      BY <2>4, <3>2 DEF z
  <2>6. (y + r) \div b = d
    BY Quotient
  <2> QED
    BY <1>2, <2>5, <2>6
<1> QED
  BY <1>4, <1>5

(* DIV_ROUNDUP rounds up, where it does not overflow.                      *)
LEMMA RoundsUp ==
  ASSUME NEW x \in Nat, NEW y \in Nat \ {0}, x + y - 1 < Pow2[W]
  PROVE  /\ DIV_ROUNDUP(x, y) \in Nat /\ DIV_ROUNDUP(x, y) = (x + y - 1) \div y
         /\ DIV_ROUNDUP(x, y) * y >= x
         /\ DIV_ROUNDUP(x, y) > 0 => (DIV_ROUNDUP(x, y) - 1) * y < x
<1> USE WidthAssumption
<1> DEFINE z == x + y - 1
<1>1. z \in Nat
  OBVIOUS
<1>2. DIV_ROUNDUP(x, y) = z \div y
  <2> HIDE DEF z
  <2>1. z % Pow2[W] = z
    BY <1>1, Pow2Next, Remainder DEF z
  <2> QED
    BY <2>1 DEF DIV_ROUNDUP, Wrap, z
<1> HIDE DEF z
<1>3. PICK q \in Nat, r \in 0 .. y - 1 : z = y * q + r /\ z \div y = q /\ z % y = r
  BY <1>1, Division
<1> DEFINE v == y * q
<1>4. v \in Nat /\ q * y = v /\ (q - 1) * y = v - y
  OBVIOUS
<1>5. v >= x /\ v - y < x
  <2>1. x + y - 1 = v + r
    BY <1>3 DEF z
  <2> HIDE DEF v
  <2> QED
    BY <1>4, <2>1
<1>6. q * y >= x /\ (q - 1) * y < x
  <2> HIDE DEF v
  <2> QED
    BY <1>4, <1>5
<1> QED
  BY <1>2, <1>3, <1>6 DEF z

-----------------------------------------------------------------------------
(* MathUtils: the bits of a byte.                                          *)

HasBit(x, j) == (x \div Pow2[j]) % 2 = 1

(* Adding the power of a bit that a number has not got gives it this bit   *)
(* and leaves the others, and there is no carry.                           *)
LEMMA BitAdded ==
  ASSUME NEW x \in Nat, NEW j \in Nat, ~HasBit(x, j), NEW i \in Nat
  PROVE  /\ HasBit(x + Pow2[j], i) <=> HasBit(x, i) \/ i = j
         /\ j < i => (x + Pow2[j]) \div Pow2[i] = x \div Pow2[i]
<1> DEFINE P == Pow2[j]
           Q == Pow2[i]
<1>1. P \in Nat \ {0} /\ Q \in Nat \ {0}
  BY Pow2Next
<1> HIDE DEF P, Q
<1>2. PICK q \in Nat, r \in 0 .. P - 1 : x = P * q + r /\ x \div P = q /\ x % P = r
  BY <1>1, Division
<1>3. q % 2 # 1
  BY <1>2 DEF HasBit, P
<1>4. CASE i = j
  <2>1. x + P = P * (q + 1) + r
    BY <1>1, <1>2
  <2>2. (x + P) \div P = q + 1
    <3> DEFINE u == q + 1
    <3>1. u \in Nat
      OBVIOUS
    <3> HIDE DEF u
    <3>2. (P * u + r) \div P = u
      BY <1>1, <3>1, Quotient
    <3> QED
      BY <2>1, <3>2 DEF u
  <2>3. (q + 1) % 2 = 1
    BY <1>3
  <2> QED
    BY <1>4, <2>2, <2>3 DEF HasBit, P
<1>5. CASE i < j
  <2>1. PICK h \in Nat \ {0} : P = Q * (2 * h)
    BY <1>5, Pow2Divides DEF P, Q
  <2>2. PICK u \in Nat, v \in 0 .. Q - 1 : x = Q * u + v /\ x \div Q = u /\ x % Q = v
    BY <1>1, Division
  <2>3. x + P = Q * (u + 2 * h) + v
    <3>1. Q * (u + 2 * h) = Q * u + Q * (2 * h)
      BY <1>1
    <3> DEFINE a == Q * u
               b == Q * (2 * h)
    <3>2. a \in Nat /\ b \in Nat
      BY <1>1
    <3>3. x = a + v /\ P = b
      BY <2>1, <2>2
    <3>4. Q * (u + 2 * h) = a + b
      BY <3>1
    <3> HIDE DEF a, b
    <3> QED
      BY <3>2, <3>3, <3>4
  <2>4. (x + P) \div Q = u + 2 * h
    <3> DEFINE w == u + 2 * h
    <3>1. w \in Nat
      OBVIOUS
    <3> HIDE DEF w
    <3>2. (Q * w + v) \div Q = w
      BY <1>1, <3>1, Quotient
    <3> QED
      BY <2>3, <3>2 DEF w
  <2>5. (u + 2 * h) % 2 = u % 2
    OBVIOUS
  <2> QED
    BY <1>5, <2>2, <2>4, <2>5 DEF HasBit, P, Q
<1>6. CASE j < i
  <2>1. PICK h \in Nat \ {0} : Q = P * (2 * h)
    BY <1>6, Pow2Divides DEF P, Q
  <2>2. PICK u \in Nat, v \in 0 .. Q - 1 : x = Q * u + v /\ x \div Q = u /\ x % Q = v
    BY <1>1, Division
  <2>3. PICK a \in Nat, b \in 0 .. P - 1 : v = P * a + b /\ v \div P = a /\ v % P = b
    <3>1. v \in Nat
      BY <1>1
    <3> QED
      BY <1>1, <3>1, Division
  <2>4. q = (2 * h) * u + a
    <3> DEFINE w == (2 * h) * u + a
    <3>1. x = P * w + b
      <4>1. P * ((2 * h) * u + a) = (P * (2 * h)) * u + P * a
        BY <1>1
      <4>2. (P * (2 * h)) * u = Q * u
        BY <2>1
      <4> DEFINE c == Q * u
                 d == P * a
      <4>3. P * w = c + d /\ x = c + v /\ v = d + b
        BY <2>2, <2>3, <4>1, <4>2
      <4>4. c \in Nat /\ d \in Nat
        BY <1>1
      <4> HIDE DEF c, d, w
      <4> QED
        BY <4>3, <4>4
    <3>2. w \in Nat
      OBVIOUS
    <3> HIDE DEF w
    <3>3. (P * w + b) \div P = w
      BY <1>1, <3>2, Quotient
    <3> QED
      BY <1>2, <3>1, <3>3 DEF w
  <2>5. a % 2 # 1
    <3> DEFINE e == h * u
    <3>1. e \in Nat /\ (2 * h) * u = 2 * e
      OBVIOUS
    <3> HIDE DEF e
    <3> QED
      BY <1>3, <2>4, <3>1
  <2>6. a + 1 < 2 * h
    <3>1. a < 2 * h
      <4> SUFFICES ASSUME a >= 2 * h PROVE FALSE
        OBVIOUS
      <4>1. P * a >= P * (2 * h)
        BY <1>1
      <4> DEFINE c == P * a
      <4>2. c \in Nat /\ v = c + b /\ c >= Q
        BY <1>1, <2>1, <2>3, <4>1
      <4> HIDE DEF c
      <4> QED
        BY <1>1, <4>2
    <3> QED
      BY <2>5, <3>1
  <2>7. v + P \in 0 .. Q - 1
    <3>1. P * (a + 2) <= P * (2 * h)
      BY <1>1, <2>6
    <3>2. P * (a + 2) = P * a + 2 * P
      BY <1>1
    <3> DEFINE c == P * a
    <3>3. c \in Nat /\ v = c + b /\ c + 2 * P <= Q
      BY <1>1, <2>1, <2>3, <3>1, <3>2
    <3> HIDE DEF c
    <3> QED
      BY <1>1, <3>3
  <2>8. (x + P) \div Q = u
    <3> DEFINE w == v + P
    <3>1. w \in 0 .. Q - 1
      BY <2>7
    <3>2. (Q * u + w) \div Q = u
      <4> HIDE DEF w
      <4> QED
        BY <1>1, <3>1, Quotient
    <3>3. x + P = Q * u + w
      <4> DEFINE c == Q * u
      <4>1. c \in Nat /\ x = c + v
        BY <1>1, <2>2
      <4> HIDE DEF c
      <4>2. x + P = c + (v + P)
        BY <1>1, <4>1
      <4> QED
        BY <4>2 DEF c
    <3> QED
      BY <3>2, <3>3
  <2> QED
    BY <1>6, <2>2, <2>8 DEF HasBit, P, Q
<1> QED
  BY <1>4, <1>5, <1>6

(* The remainder of a number of bytes' bits, 256.                          *)
LEMMA Pow2Eight == Pow2[8] = 256
<1>1. Pow2[0 + 1] = 2 * Pow2[0] /\ Pow2[1 + 1] = 2 * Pow2[1] /\ Pow2[2 + 1] = 2 * Pow2[2]
      /\ Pow2[3 + 1] = 2 * Pow2[3] /\ Pow2[4 + 1] = 2 * Pow2[4]
      /\ Pow2[5 + 1] = 2 * Pow2[5] /\ Pow2[6 + 1] = 2 * Pow2[6] /\ Pow2[7 + 1] = 2 * Pow2[7]
  BY Pow2Next
<1>2. Pow2[0] = 1
  BY Pow2Next
<1> QED
  BY <1>1, <1>2

(* A bit set in a byte that has not got it.                                *)
LEMMA ByteSet ==
  ASSUME NEW x \in 0 .. 255, NEW j \in 0 .. 7, ~HasBit(x, j)
  PROVE  /\ x + Pow2[j] \in 0 .. 255
         /\ \A i \in 0 .. 7 : HasBit(x + Pow2[j], i) <=> HasBit(x, i) \/ i = j
<1>1. x \in Nat /\ j \in Nat /\ 8 \in Nat /\ j < 8 /\ Pow2[j] \in Nat \ {0}
  BY Pow2Next
<1>2. \A i \in Nat : HasBit(x + Pow2[j], i) <=> HasBit(x, i) \/ i = j
  BY <1>1, BitAdded
<1>3. (x + Pow2[j]) \div Pow2[8] = x \div Pow2[8]
  BY <1>1, BitAdded
<1>4. x + Pow2[j] \in 0 .. 255
  <2> DEFINE y == x + Pow2[j]
  <2>1. y \in Nat /\ y \div 256 = x \div 256
    BY <1>1, <1>3, Pow2Eight
  <2> HIDE DEF y
  <2>2. y \in 0 .. 255
    BY <2>1
  <2> QED
    BY <2>2 DEF y
<1> QED
  BY <1>2, <1>4

(* A bit cleared in a byte that has it.                                    *)
LEMMA ByteCleared ==
  ASSUME NEW x \in 0 .. 255, NEW j \in 0 .. 7, HasBit(x, j)
  PROVE  /\ x - Pow2[j] \in 0 .. 255
         /\ \A i \in 0 .. 7 : HasBit(x - Pow2[j], i) <=> HasBit(x, i) /\ i # j
<1> DEFINE P == Pow2[j]
           y == x - P
<1>1. P \in Nat \ {0} /\ j \in Nat /\ x \in Nat
  BY Pow2Next
<1> HIDE DEF P
<1>2. PICK q \in Nat, r \in 0 .. P - 1 : x = P * q + r /\ x \div P = q /\ x % P = r
  BY <1>1, Division
<1>3. q % 2 = 1
  BY <1>2 DEF HasBit, P
<1>4. PICK u \in Nat : q = u + 1 /\ u % 2 # 1
  <2>1. q - 1 \in Nat /\ q = (q - 1) + 1 /\ (q - 1) % 2 # 1
    BY <1>3
  <2> QED
    BY <2>1
<1>5. y = P * u + r /\ P * u \in Nat
  <2>1. P * (u + 1) = P * u + P
    BY <1>1
  <2> DEFINE c == P * u
  <2>2. c \in Nat /\ x = (c + P) + r
    BY <1>1, <1>2, <1>4, <2>1
  <2>3. y = c + r
    <3> HIDE DEF c
    <3> QED
      BY <1>1, <2>2
  <2> QED
    BY <2>2, <2>3
<1>6. y \in Nat /\ x = y + P /\ y \in 0 .. 255
  <2> DEFINE c == P * u
  <2>1. c \in Nat /\ y = c + r
    BY <1>5
  <2>2. y \in Nat
    <3> HIDE DEF c, y
    <3> QED
      BY <1>1, <2>1
  <2> QED
    BY <1>1, <2>2
<1>7. ~HasBit(y, j)
  <2>1. (P * u + r) \div P = u
    BY <1>1, Quotient
  <2> QED
    BY <1>4, <1>5, <2>1 DEF HasBit, P
<1> HIDE DEF y
<1>8. \A i \in Nat : HasBit(y + Pow2[j], i) <=> HasBit(y, i) \/ i = j
  BY <1>1, <1>6, <1>7, BitAdded
<1>9. \A i \in 0 .. 7 : HasBit(y, i) <=> HasBit(x, i) /\ i # j
  <2> SUFFICES ASSUME NEW i \in 0 .. 7
               PROVE  HasBit(y, i) <=> HasBit(x, i) /\ i # j
    OBVIOUS
  <2>1. x = y + Pow2[j]
    BY <1>6 DEF P
  <2>2. HasBit(x, i) <=> HasBit(y, i) \/ i = j
    BY <1>8, <2>1
  <2> QED
    BY <1>7, <2>2
<1> QED
  BY <1>6, <1>9 DEF y, P

-----------------------------------------------------------------------------
(* MathUtils: the theorems.                                                *)

(* The inductive invariant: the bitmap has its bytes.                      *)
BitmapInv ==
  n \in Sizes /\ bitmap \in [0 .. DIV_ROUNDUP(n, 8) - 1 -> 0 .. 255]

LEMMA SizeFacts ==
  ASSUME NEW x \in Sizes
  PROVE  x \in Nat /\ x + 8 - 1 < Pow2[W] /\ x <= Pow2[W] - 8 /\ Pow2[W] \in Nat \ {0}
<1>1. Pow2[W] \in Nat \ {0} /\ x \in 0 .. Pow2[W] - 8
  BY WidthAssumption, Pow2Next
<1> QED
  BY <1>1

(* A bit of the bitmap is a bit of one of its bytes.                       *)
LEMMA BitIndex ==
  ASSUME NEW x \in Sizes, NEW i \in 0 .. x - 1
  PROVE  /\ DIV_ROUNDUP(x, 8) \in Nat
         /\ i \div 8 \in 0 .. DIV_ROUNDUP(x, 8) - 1 /\ i % 8 \in 0 .. 7
<1>1. x \in Nat /\ x + 8 - 1 < Pow2[W]
  BY SizeFacts
<1>2. DIV_ROUNDUP(x, 8) \in Nat /\ DIV_ROUNDUP(x, 8) = (x + 8 - 1) \div 8
  BY <1>1, RoundsUp
<1>3. i \div 8 \in 0 .. ((x + 8 - 1) \div 8) - 1
  BY <1>1
<1>4. i % 8 \in 0 .. 7
  BY <1>1
<1> QED
  BY <1>2, <1>3, <1>4

(* No two bits are the same bit of the same byte.                          *)
LEMMA SameIndex ==
  ASSUME NEW i \in Nat, NEW l \in Nat, i \div 8 = l \div 8, i % 8 = l % 8
  PROVE  i = l
<1>1. 8 \in Nat \ {0}
  OBVIOUS
<1>2. PICK q \in Nat, r \in 0 .. 8 - 1 : i = 8 * q + r /\ i \div 8 = q /\ i % 8 = r
  BY <1>1, Division
<1>3. PICK u \in Nat, v \in 0 .. 8 - 1 : l = 8 * u + v /\ l \div 8 = u /\ l % 8 = v
  BY <1>1, Division
<1> QED
  BY <1>2, <1>3

(* What setting, unsetting and clearing do to the bits of the bitmap.      *)
LEMMA SetFacts ==
  ASSUME BitmapInv, NEW i \in 0 .. n - 1
  PROVE  /\ BITMAP_SET_BIT(bitmap, i) \in [0 .. DIV_ROUNDUP(n, 8) - 1 -> 0 .. 255]
         /\ \A l \in 0 .. n - 1 :
              BITMAP_READ_BIT(BITMAP_SET_BIT(bitmap, i), l) # 0
              <=> BITMAP_READ_BIT(bitmap, l) # 0 \/ l = i
<1> DEFINE m == DIV_ROUNDUP(n, 8) - 1
           k == i \div 8
           j == i % 8
           x == bitmap[k]
           b == BITMAP_SET_BIT(bitmap, i)
<1>1. k \in 0 .. m /\ j \in 0 .. 7 /\ n \in Nat /\ i \in Nat
  BY BitIndex, SizeFacts DEF BitmapInv
<1>2. x \in 0 .. 255 /\ bitmap \in [0 .. m -> 0 .. 255]
  BY <1>1 DEF BitmapInv
<1>3. IsSet(x, i) <=> HasBit(x, j)
  BY DEF IsSet, HasBit, Bit
<1>4. b = [bitmap EXCEPT ![k] = IF HasBit(x, j) THEN x ELSE x + Pow2[j]]
  BY <1>3 DEF BITMAP_SET_BIT, Bit
<1> DEFINE y == b[k]
<1>5. y \in 0 .. 255 /\ \A g \in 0 .. 7 : HasBit(y, g) <=> HasBit(x, g) \/ g = j
  <2>1. y = IF HasBit(x, j) THEN x ELSE x + Pow2[j]
    <3> HIDE DEF m, k, j, x, b
    <3> QED
      BY <1>1, <1>2, <1>4
  <2> HIDE DEF m, k, j, x, y
  <2>2. CASE HasBit(x, j)
    BY <1>2, <2>1, <2>2
  <2>3. CASE ~HasBit(x, j)
    BY <1>1, <1>2, <2>1, <2>3, ByteSet
  <2> QED
    BY <2>2, <2>3
<1>6. /\ b \in [0 .. m -> 0 .. 255]
      /\ \A h \in 0 .. m : h # k => b[h] = bitmap[h]
  <2>1. b = [bitmap EXCEPT ![k] = y]
    <3> HIDE DEF m, k, j, x, b
    <3> QED
      BY <1>1, <1>2, <1>4
  <2> HIDE DEF m, k, j, x, b, y
  <2> QED
    BY <1>1, <1>2, <1>5, <2>1
<1>7. ASSUME NEW l \in 0 .. n - 1
      PROVE  BITMAP_READ_BIT(b, l) # 0 <=> BITMAP_READ_BIT(bitmap, l) # 0 \/ l = i
  <2>1. l \div 8 \in 0 .. m /\ l % 8 \in 0 .. 7 /\ l \in Nat
    BY <1>1, BitIndex DEF BitmapInv
  <2>2. Pow2[l % 8] # 0
    BY <2>1, Pow2Next
  <2>3. /\ BITMAP_READ_BIT(b, l) # 0 <=> HasBit(b[l \div 8], l % 8)
        /\ BITMAP_READ_BIT(bitmap, l) # 0 <=> HasBit(bitmap[l \div 8], l % 8)
    BY <2>2 DEF BITMAP_READ_BIT, IsSet, HasBit, Bit
  <2>4. CASE l \div 8 # k
    <3>1. b[l \div 8] = bitmap[l \div 8] /\ l # i
      BY <1>6, <2>1, <2>4
    <3> QED
      BY <2>3, <3>1
  <2>5. CASE l \div 8 = k
    <3>1. HasBit(y, l % 8) <=> HasBit(x, l % 8) \/ l % 8 = j
      BY <1>5, <2>1
    <3>2. l % 8 = j <=> l = i
      BY <1>1, <2>1, <2>5, SameIndex
    <3> QED
      BY <2>3, <2>5, <3>1, <3>2
  <2> QED
    BY <2>4, <2>5
<1> QED
  BY <1>6, <1>7

LEMMA UnsetFacts ==
  ASSUME BitmapInv, NEW i \in 0 .. n - 1
  PROVE  /\ BITMAP_UNSET_BIT(bitmap, i) \in [0 .. DIV_ROUNDUP(n, 8) - 1 -> 0 .. 255]
         /\ \A l \in 0 .. n - 1 :
              BITMAP_READ_BIT(BITMAP_UNSET_BIT(bitmap, i), l) # 0
              <=> BITMAP_READ_BIT(bitmap, l) # 0 /\ l # i
<1> DEFINE m == DIV_ROUNDUP(n, 8) - 1
           k == i \div 8
           j == i % 8
           x == bitmap[k]
           b == BITMAP_UNSET_BIT(bitmap, i)
<1>1. k \in 0 .. m /\ j \in 0 .. 7 /\ n \in Nat /\ i \in Nat
  BY BitIndex, SizeFacts DEF BitmapInv
<1>2. x \in 0 .. 255 /\ bitmap \in [0 .. m -> 0 .. 255]
  BY <1>1 DEF BitmapInv
<1>3. IsSet(x, i) <=> HasBit(x, j)
  BY DEF IsSet, HasBit, Bit
<1>4. b = [bitmap EXCEPT ![k] = IF HasBit(x, j) THEN x - Pow2[j] ELSE x]
  BY <1>3 DEF BITMAP_UNSET_BIT, Bit
<1> DEFINE y == b[k]
<1>5. y \in 0 .. 255 /\ \A g \in 0 .. 7 : HasBit(y, g) <=> HasBit(x, g) /\ g # j
  <2>1. y = IF HasBit(x, j) THEN x - Pow2[j] ELSE x
    <3> HIDE DEF m, k, j, x, b
    <3> QED
      BY <1>1, <1>2, <1>4
  <2> HIDE DEF m, k, j, x, y
  <2>2. CASE HasBit(x, j)
    BY <1>1, <1>2, <2>1, <2>2, ByteCleared
  <2>3. CASE ~HasBit(x, j)
    BY <1>2, <2>1, <2>3
  <2> QED
    BY <2>2, <2>3
<1>6. /\ b \in [0 .. m -> 0 .. 255]
      /\ \A h \in 0 .. m : h # k => b[h] = bitmap[h]
  <2>1. b = [bitmap EXCEPT ![k] = y]
    <3> HIDE DEF m, k, j, x, b
    <3> QED
      BY <1>1, <1>2, <1>4
  <2> HIDE DEF m, k, j, x, b, y
  <2> QED
    BY <1>1, <1>2, <1>5, <2>1
<1>7. ASSUME NEW l \in 0 .. n - 1
      PROVE  BITMAP_READ_BIT(b, l) # 0 <=> BITMAP_READ_BIT(bitmap, l) # 0 /\ l # i
  <2>1. l \div 8 \in 0 .. m /\ l % 8 \in 0 .. 7 /\ l \in Nat
    BY <1>1, BitIndex DEF BitmapInv
  <2>2. Pow2[l % 8] # 0
    BY <2>1, Pow2Next
  <2>3. /\ BITMAP_READ_BIT(b, l) # 0 <=> HasBit(b[l \div 8], l % 8)
        /\ BITMAP_READ_BIT(bitmap, l) # 0 <=> HasBit(bitmap[l \div 8], l % 8)
    BY <2>2 DEF BITMAP_READ_BIT, IsSet, HasBit, Bit
  <2>4. CASE l \div 8 # k
    <3>1. b[l \div 8] = bitmap[l \div 8] /\ l # i
      BY <1>6, <2>1, <2>4
    <3> QED
      BY <2>3, <3>1
  <2>5. CASE l \div 8 = k
    <3>1. HasBit(y, l % 8) <=> HasBit(x, l % 8) /\ l % 8 # j
      BY <1>5, <2>1
    <3>2. l % 8 = j <=> l = i
      BY <1>1, <2>1, <2>5, SameIndex
    <3> QED
      BY <2>3, <2>5, <3>1, <3>2
  <2> QED
    BY <2>4, <2>5
<1> QED
  BY <1>6, <1>7

LEMMA ClearFacts ==
  ASSUME BitmapInv
  PROVE  LET b == BITMAP_CLEAR(bitmap, DIV_ROUNDUP(n, 8))
         IN  /\ b \in [0 .. DIV_ROUNDUP(n, 8) - 1 -> 0 .. 255]
             /\ \A l \in 0 .. n - 1 : BITMAP_READ_BIT(b, l) = 0
<1> DEFINE m == DIV_ROUNDUP(n, 8) - 1
           b == BITMAP_CLEAR(bitmap, DIV_ROUNDUP(n, 8))
<1>1. m \in Int /\ DIV_ROUNDUP(n, 8) = m + 1 /\ bitmap \in [0 .. m -> 0 .. 255]
  <2>1. n \in Nat /\ n + 8 - 1 < Pow2[W]
    BY SizeFacts DEF BitmapInv
  <2>2. DIV_ROUNDUP(n, 8) \in Nat
    BY <2>1, RoundsUp
  <2> QED
    BY <2>2 DEF BitmapInv
<1>2. b = [k \in 0 .. m |-> 0]
  <2>1. DOMAIN bitmap = 0 .. m
    BY <1>1
  <2>2. b = [k \in 0 .. m |-> IF k < m + 1 THEN 0 ELSE bitmap[k]]
    <3> HIDE DEF m
    <3> QED
      BY <1>1, <2>1 DEF BITMAP_CLEAR
  <2> HIDE DEF m, b
  <2> QED
    BY <1>1, <2>2
<1>3. ASSUME NEW l \in 0 .. n - 1
      PROVE  BITMAP_READ_BIT(b, l) = 0
  <2>1. l \div 8 \in 0 .. m /\ l % 8 \in 0 .. 7
    BY BitIndex DEF BitmapInv
  <2>2. b[l \div 8] = 0
    BY <1>2, <2>1
  <2>3. Pow2[l % 8] \in Nat \ {0}
    BY <2>1, Pow2Next
  <2>4. 0 \div Pow2[l % 8] = 0
    BY <2>3
  <2> QED
    BY <2>2, <2>4 DEF BITMAP_READ_BIT, IsSet, Bit
<1>4. b \in [0 .. m -> 0 .. 255]
  <2> HIDE DEF m, b
  <2> QED
    BY <1>2
<1> QED
  BY <1>3, <1>4

(* The bitmap has its bytes throughout.                                    *)
THEOREM BitmapType == BitmapSpec => []BitmapInv
<1>1. BitmapInit => BitmapInv
  BY DEF BitmapInit, BitmapInv
<1>2. BitmapInv /\ [BitmapNext]_bitmapVars => BitmapInv'
  <2> SUFFICES ASSUME BitmapInv, [BitmapNext]_bitmapVars
               PROVE  BitmapInv'
    OBVIOUS
  <2>1. n' = n
    BY DEF BitmapNext, bitmapVars
  <2>2. CASE Clear
    BY <2>1, <2>2, ClearFacts DEF Clear, BitmapInv
  <2>3. ASSUME NEW i \in Used, Set(i) \/ Unset(i)
        PROVE  BitmapInv'
    <3>1. i \in 0 .. n - 1
      BY IndicesAssumption, SizeFacts DEF Used, BitmapInv
    <3>2. BITMAP_SET_BIT(bitmap, i) \in [0 .. DIV_ROUNDUP(n, 8) - 1 -> 0 .. 255]
      BY <3>1, SetFacts
    <3>3. BITMAP_UNSET_BIT(bitmap, i) \in [0 .. DIV_ROUNDUP(n, 8) - 1 -> 0 .. 255]
      BY <3>1, UnsetFacts
    <3>4. bitmap' \in [0 .. DIV_ROUNDUP(n, 8) - 1 -> 0 .. 255]
      BY <2>3, <3>2, <3>3 DEF Set, Unset
    <3> QED
      BY <2>1, <3>4 DEF BitmapInv
  <2>4. CASE UNCHANGED bitmapVars
    BY <2>4 DEF bitmapVars, BitmapInv
  <2> QED
    BY <2>2, <2>3, <2>4 DEF BitmapNext
<1> QED
  BY <1>1, <1>2, PTL DEF BitmapSpec

(* The rounding macros and POW give what their names say.                  *)
LEMMA RoundsAtSize ==
  ASSUME n \in Sizes
  PROVE  Rounds
<1> USE WidthAssumption
<1>1. n \in Nat /\ n < Pow2[W] /\ Pow2[W] \in Nat \ {0}
  BY SizeFacts
<1>2. ASSUME NEW k \in 0 .. W - 1
      PROVE  LET base == POW(2, k) IN
               /\ base = Pow2[k]
               /\ ALIGN_DOWN(n, base) = base * DIV_ROUNDDOWN(n, base)
               /\ ALIGN_UP(n, base) = Wrap(base * DIV_ROUNDDOWN(n + base - 1, base))
  <2> DEFINE b == Pow2[k]
             x == n + b - 1
  <2>1. POW(2, k) = b
    BY PowerOfTwo
  <2>2. ALIGN_DOWN(n, b) = b * DIV_ROUNDDOWN(n, b)
    BY <1>1, AndNotMask DEF ALIGN_DOWN, DIV_ROUNDDOWN
  <2>3. k \in Nat /\ W \in Nat /\ k < W
    OBVIOUS
  <2>4. b \in Nat \ {0} /\ b < Pow2[W]
    BY <2>3, Pow2Next, Pow2Less
  <2>5. x \in Nat /\ x < 2 * Pow2[W]
    <3> HIDE DEF b
    <3> QED
      BY <1>1, <2>4
  <2>6. PICK c \in Nat \ {0} : Pow2[W] = b * c
    <3>1. PICK h \in Nat \ {0} : Pow2[W] = Pow2[k] * (2 * h)
      BY <2>3, Pow2Divides
    <3> QED
      BY <3>1
  <2>7. Wrap(x) \in Nat /\ Wrap(x) < Pow2[W]
    <3> HIDE DEF x
    <3> QED
      BY <1>1, <2>5 DEF Wrap
  <2>8. AndNot(Wrap(x), Wrap(b - 1)) = b * (Wrap(x) \div b)
    <3> DEFINE v == Wrap(x)
    <3>1. v \in Nat /\ v < Pow2[W]
      BY <2>7
    <3> HIDE DEF v
    <3>2. AndNot(v, Wrap(Pow2[k] - 1)) = Pow2[k] * (v \div Pow2[k])
      BY <3>1, AndNotMask
    <3> QED
      BY <3>2 DEF v
  <2>9. b * (Wrap(x) \div b) = Wrap(b * (x \div b))
    <3> HIDE DEF x, b
    <3>1. b * ((x % (b * c)) \div b) = (b * (x \div b)) % (b * c)
      BY <2>4, <2>5, <2>6, Overflowed
    <3> QED
      BY <2>6, <3>1 DEF Wrap
  <2>10. ALIGN_UP(n, b) = Wrap(b * DIV_ROUNDDOWN(n + b - 1, b))
    BY <2>8, <2>9 DEF ALIGN_UP, DIV_ROUNDDOWN
  <2> HIDE DEF b
  <2> QED
    BY <2>1, <2>2, <2>10 DEF b
<1>3. ASSUME NEW y \in 1 .. Pow2[W] - n
      PROVE  LET q == DIV_ROUNDUP(n, y) IN q * y >= n /\ (q > 0 => (q - 1) * y < n)
  <2>1. y \in Nat \ {0} /\ n + y - 1 < Pow2[W]
    BY <1>1
  <2> QED
    BY <1>1, <2>1, RoundsUp
<1> QED
  BY <1>2, <1>3 DEF Rounds

(* ALIGN_DOWN, ALIGN_UP, DIV_ROUNDUP and POW round and count as their names *)
(* say, for operands of any width and any size.                            *)
THEOREM MacrosRound == BitmapSpec => []Rounds
<1>1. BitmapInv => Rounds
  BY RoundsAtSize DEF BitmapInv
<1> QED
  BY <1>1, BitmapType, PTL

(* The bytes of a bitmap are a set of numbers, whatever its size.          *)
THEOREM BitmapIsSet == BitmapSpec => IsSetOfBits
<1>1. BitmapInv /\ BitmapInv' /\ [BitmapNext]_bitmapVars => ActsOnSet
  <2> SUFFICES ASSUME BitmapInv, BitmapInv', [BitmapNext]_bitmapVars
               PROVE  ActsOnSet
    OBVIOUS
  <2>1. n' = n /\ n \in Nat
    BY SizeFacts DEF BitmapNext, bitmapVars, BitmapInv
  <2>2. Members' = {i \in 0 .. n - 1 : BITMAP_READ_BIT(bitmap', i) # 0}
    BY <2>1 DEF Members
  <2>3. ASSUME NEW i \in Used, Set(i)
        PROVE  Members' = Members \cup {i}
    <3>1. i \in 0 .. n - 1 /\ bitmap' = BITMAP_SET_BIT(bitmap, i)
      BY <2>1, <2>3, IndicesAssumption DEF Used, Set
    <3>2. \A l \in 0 .. n - 1 :
            BITMAP_READ_BIT(bitmap', l) # 0 <=> BITMAP_READ_BIT(bitmap, l) # 0 \/ l = i
      BY <3>1, SetFacts
    <3> QED
      BY <2>2, <3>1, <3>2 DEF Members
  <2>4. ASSUME NEW i \in Used, Unset(i)
        PROVE  Members' = Members \ {i}
    <3>1. i \in 0 .. n - 1 /\ bitmap' = BITMAP_UNSET_BIT(bitmap, i)
      BY <2>1, <2>4, IndicesAssumption DEF Used, Unset
    <3>2. \A l \in 0 .. n - 1 :
            BITMAP_READ_BIT(bitmap', l) # 0 <=> BITMAP_READ_BIT(bitmap, l) # 0 /\ l # i
      BY <3>1, UnsetFacts
    <3> QED
      BY <2>2, <3>1, <3>2 DEF Members
  <2>5. ASSUME Clear
        PROVE  Members' = {}
    <3>1. \A l \in 0 .. n - 1 : BITMAP_READ_BIT(bitmap', l) = 0
      BY <2>5, ClearFacts DEF Clear
    <3> QED
      BY <2>2, <3>1
  <2> QED
    BY <2>3, <2>4, <2>5 DEF ActsOnSet
<1>2. BitmapInv /\ BitmapInv' /\ [BitmapNext]_bitmapVars => [ActsOnSet]_bitmapVars
  BY <1>1
<1> QED
  BY <1>2, BitmapType, PTL DEF BitmapSpec, IsSetOfBits

-----------------------------------------------------------------------------
(* Format: sequences put together.                                         *)

(* Each beginning of Joined is the one before with the next sequence.      *)
LEMMA JoinedSteps ==
  ASSUME NEW S, NEW ss \in Seq(Seq(S))
  PROVE  /\ Joined(ss) \in [0 .. Len(ss) -> Seq(S)]
         /\ Joined(ss)[0] = <<>>
         /\ \A k \in 1 .. Len(ss) : Joined(ss)[k] = Joined(ss)[k - 1] \o ss[k]
<1> DEFINE D == 0 .. Len(ss)
           Is(f) == f = [k \in D |-> IF k = 0 THEN <<>> ELSE f[k - 1] \o ss[k]]
           F == [k \in Nat |-> [x \in Seq(S) |-> IF k < Len(ss) THEN x \o ss[k + 1] ELSE x]]
<1>1. PICK f : Recurs(f, <<>>, F, Seq(S))
  <2>1. \A k \in Nat, x \in Seq(S) : k < Len(ss) => x \o ss[k + 1] \in Seq(S)
    OBVIOUS
  <2>2. StepsIn(F, Seq(S))
    BY <2>1 DEF StepsIn
  <2>3. <<>> \in Seq(S)
    OBVIOUS
  <2> HIDE DEF F
  <2> QED
    BY <2>2, <2>3, Recursion
<1>2. /\ f \in [Nat -> Seq(S)] /\ f[0] = <<>>
      /\ \A k \in Nat : k < Len(ss) => f[k + 1] = f[k] \o ss[k + 1]
  BY <1>1 DEF Recurs
<1> DEFINE g == [k \in D |-> f[k]]
<1>3. Is(g)
  <2>1. \A k \in D : k # 0 => k - 1 \in Nat /\ k - 1 < Len(ss) /\ (k - 1) + 1 = k /\ k - 1 \in D
    OBVIOUS
  <2> QED
    BY <1>2, <2>1
<1>4. Joined(ss) = CHOOSE h : Is(h)
  BY DEF Joined
<1>5. Is(Joined(ss))
  <2> HIDE DEF Is, g
  <2> QED
    BY <1>3, <1>4
<1>6. Joined(ss)[0] = <<>>
  BY <1>5
<1>7. \A k \in 1 .. Len(ss) : Joined(ss)[k] = Joined(ss)[k - 1] \o ss[k]
  <2>1. \A k \in 1 .. Len(ss) : k \in D /\ k # 0
    OBVIOUS
  <2> HIDE DEF D
  <2> QED
    BY <1>5, <2>1
<1>8. \A k \in D : Joined(ss)[k] \in Seq(S)
  <2> DEFINE T == {k \in Nat : k <= Len(ss) => Joined(ss)[k] \in Seq(S)}
  <2>1. 0 \in T
    <3>1. <<>> \in Seq(S)
      OBVIOUS
    <3>2. Joined(ss)[0] \in Seq(S)
      BY <1>6, <3>1
    <3> QED
      BY <3>2
  <2>2. ASSUME NEW k \in Nat, k \in T
        PROVE  k + 1 \in T
    <3> SUFFICES ASSUME k + 1 <= Len(ss)
                 PROVE  Joined(ss)[k + 1] \in Seq(S)
      OBVIOUS
    <3>1. /\ k + 1 \in 1 .. Len(ss) /\ (k + 1) - 1 = k /\ Joined(ss)[k] \in Seq(S)
          /\ ss[k + 1] \in Seq(S)
      BY <2>2
    <3>2. Joined(ss)[k + 1] = Joined(ss)[k] \o ss[k + 1]
      BY <1>7, <3>1
    <3> QED
      BY <3>1, <3>2
  <2>3. \A k \in Nat : k \in T
    <3> HIDE DEF T
    <3> QED
      BY <2>1, <2>2, AllNumbers
  <2> QED
    BY <2>3
<1>9. DOMAIN Joined(ss) = D /\ Joined(ss) = [k \in D |-> Joined(ss)[k]]
  BY <1>5
<1> QED
  BY <1>6, <1>7, <1>8, <1>9

(* A beginning, and what comes behind it.                                  *)
LEMMA JoinedSplit ==
  ASSUME NEW S, NEW ss \in Seq(Seq(S)), NEW k \in 0 .. Len(ss)
  PROVE  \E t \in Seq(S) : Joined(ss)[Len(ss)] = Joined(ss)[k] \o t
<1> DEFINE J == Joined(ss)
           L == Len(ss)
           P(j) == k + j <= L => \E t \in Seq(S) : J[k + j] = J[k] \o t
           T == {j \in Nat : P(j)}
<1> HIDE DEF J, L
<1>0. L \in Nat /\ k \in 0 .. L
  BY DEF L
<1>1. /\ \A j \in 0 .. L : J[j] \in Seq(S)
      /\ \A j \in 1 .. L : J[j] = J[j - 1] \o ss[j] /\ ss[j] \in Seq(S)
  <2>1. \A j \in 1 .. L : ss[j] \in Seq(S)
    BY DEF L
  <2>2. J \in [0 .. L -> Seq(S)] /\ \A j \in 1 .. L : J[j] = J[j - 1] \o ss[j]
    BY JoinedSteps DEF J, L
  <2> QED
    BY <2>1, <2>2
<1>2. 0 \in T
  <2>1. J[k + 0] = J[k] \o <<>> /\ <<>> \in Seq(S)
    BY <1>0, <1>1
  <2> QED
    BY <2>1
<1>3. ASSUME NEW j \in Nat, j \in T
      PROVE  j + 1 \in T
  <2> SUFFICES ASSUME k + (j + 1) <= L
               PROVE  \E t \in Seq(S) : J[k + (j + 1)] = J[k] \o t
    <3>1. P(j + 1) => j + 1 \in T
      <4> HIDE DEF P
      <4> QED
        OBVIOUS
    <3> QED
      BY <3>1
  <2>0. k + j <= L
    BY <1>0
  <2>1. PICK t \in Seq(S) : J[k + j] = J[k] \o t
    BY <1>3, <2>0
  <2>2. k + (j + 1) \in 1 .. L /\ (k + (j + 1)) - 1 = k + j
    BY <1>0
  <2>3. J[k + (j + 1)] = (J[k] \o t) \o ss[k + (j + 1)]
    BY <1>1, <2>1, <2>2
  <2>4. J[k] \in Seq(S) /\ ss[k + (j + 1)] \in Seq(S)
    BY <1>0, <1>1, <2>2
  <2>5. \A a, b, c \in Seq(S) : (a \o b) \o c = a \o (b \o c)
    OBVIOUS
  <2>6. t \o ss[k + (j + 1)] \in Seq(S)
    BY <2>4
  <2> QED
    BY <2>3, <2>4, <2>5, <2>6
<1>4. \A j \in Nat : j \in T
  <2> HIDE DEF T
  <2> QED
    BY <1>2, <1>3, AllNumbers
<1>5. L - k \in Nat /\ k + (L - k) = L
  BY <1>0
<1>6. P(L - k)
  <2> HIDE DEF P
  <2> QED
    BY <1>4, <1>5
<1>7. \E t \in Seq(S) : J[L] = J[k] \o t
  BY <1>5, <1>6
<1> QED
  BY <1>7 DEF J, L

(* Where the k-th sequence is in the whole.                                *)
LEMMA JoinedPart ==
  ASSUME NEW S, NEW ss \in Seq(Seq(S)), NEW k \in 1 .. Len(ss)
  PROVE  /\ k - 1 \in 0 .. Len(ss) /\ k \in 0 .. Len(ss)
         /\ Joined(ss)[k - 1] \in Seq(S) /\ Joined(ss)[Len(ss)] \in Seq(S)
         /\ Joined(ss)[k] = Joined(ss)[k - 1] \o ss[k]
         /\ \E t \in Seq(S) : Joined(ss)[Len(ss)] = (Joined(ss)[k - 1] \o ss[k]) \o t
<1>1. k - 1 \in 0 .. Len(ss) /\ k \in 0 .. Len(ss) /\ Len(ss) \in 0 .. Len(ss)
  OBVIOUS
<1>2. /\ Joined(ss) \in [0 .. Len(ss) -> Seq(S)]
      /\ Joined(ss)[k] = Joined(ss)[k - 1] \o ss[k]
  BY JoinedSteps
<1>3. \E t \in Seq(S) : Joined(ss)[Len(ss)] = Joined(ss)[k] \o t
  BY <1>1, JoinedSplit
<1> QED
  BY <1>1, <1>2, <1>3

(* Sequences one behind the other have their lengths added.                *)
LEMMA Together ==
  ASSUME NEW S, NEW a \in Seq(S), NEW b \in Seq(S)
  PROVE  a \o b \in Seq(S) /\ Len(a \o b) = Len(a) + Len(b) /\ Len(a) \in Nat /\ Len(b) \in Nat
OBVIOUS

(* Sequences are the same when their elements are.                         *)
LEMMA SameSequence ==
  ASSUME NEW S, NEW a \in Seq(S), NEW b \in Seq(S), Len(a) = Len(b),
         \A i \in 1 .. Len(a) : a[i] = b[i]
  PROVE  a = b
<1>1. a = [i \in 1 .. Len(a) |-> a[i]] /\ b = [i \in 1 .. Len(b) |-> b[i]]
  OBVIOUS
<1> QED
  BY <1>1

(* It does not matter which sequences are put together first.              *)
LEMMA Regrouped ==
  ASSUME NEW S, NEW a \in Seq(S), NEW b \in Seq(S), NEW c \in Seq(S)
  PROVE  (a \o b) \o c = a \o (b \o c)
OBVIOUS

Grouped(a, b, c, d) == ((a \o b) \o c) \o d = a \o (b \o (c \o d))

LEMMA Regroup ==
  ASSUME NEW S, NEW a \in Seq(S), NEW b \in Seq(S), NEW c \in Seq(S), NEW d \in Seq(S)
  PROVE  Grouped(a, b, c, d)
<1> DEFINE u == a \o b
           v == c \o d
<1>1. u \in Seq(S) /\ v \in Seq(S)
  OBVIOUS
<1> HIDE DEF u, v
<1>2. (u \o c) \o d = u \o (c \o d)
  BY <1>1, Regrouped, SMTT(20)
<1>3. (a \o b) \o v = a \o (b \o v)
  BY <1>1, Regrouped, SMTT(20)
<1> QED
  BY <1>2, <1>3 DEF u, v, Grouped

(* Sequences that begin alike and are the same end alike.                  *)
LEMMA SameRest ==
  ASSUME NEW S, NEW a \in Seq(S), NEW b \in Seq(S), NEW c \in Seq(S), a \o b = a \o c
  PROVE  b = c
<1>1. Len(a \o b) = Len(a) + Len(b) /\ Len(a \o c) = Len(a) + Len(c)
  OBVIOUS
<1>2. Len(b) = Len(c)
  BY <1>1
<1>3. ASSUME NEW i \in 1 .. Len(b)
      PROVE  b[i] = c[i]
  <2>1. (a \o b)[Len(a) + i] = b[i]
    OBVIOUS
  <2>2. (a \o c)[Len(a) + i] = c[i]
    BY <1>2
  <2> QED
    BY <2>1, <2>2
<1> QED
  BY <1>2, <1>3, SameSequence

(* The least element of a set of numbers.                                  *)
LEMMA MinIs ==
  ASSUME NEW U, U \subseteq Int, NEW e \in U, \A x \in U : e <= x
  PROVE  Min(U) = e
<1>1. \A x \in U : (\A y \in U : x <= y) => x = e
  OBVIOUS
<1> QED
  BY <1>1 DEF Min

-----------------------------------------------------------------------------
(* Format: texts in a format.                                              *)

(* A text is at an index.                                                  *)
Here(t, f, i) == \A j \in 1 .. Len(t) : At(f, (i - 1) + j) = t[j]

(* What has been put between two texts is where the first ends.            *)
LEMMA HereIn ==
  ASSUME NEW a \in Seq(Chars), NEW b \in Seq(Chars), NEW c \in Seq(Chars)
  PROVE  /\ Here(b, (a \o b) \o c, Len(a) + 1)
         /\ Len((a \o b) \o c) = Len(a) + Len(b) + Len(c)
         /\ Len(a \o b) = Len(a) + Len(b)
<1> DEFINE f == (a \o b) \o c
<1>1. Len(f) = Len(a) + Len(b) + Len(c) /\ Len(a \o b) = Len(a) + Len(b)
  OBVIOUS
<1>2. ASSUME NEW j \in 1 .. Len(b)
      PROVE  At(f, (Len(a) + 1 - 1) + j) = b[j]
  <2>1. Len(a) + 1 - 1 + j = Len(a) + j /\ Len(a) + j <= Len(f)
    BY <1>1
  <2>2. f[Len(a) + j] = b[j]
    OBVIOUS
  <2> QED
    BY <2>1, <2>2 DEF At
<1> QED
  BY <1>1, <1>2 DEF Here

(* The two parts of a text at an index, and its first character.           *)
LEMMA HereSplit ==
  ASSUME NEW a \in Seq(Chars), NEW b \in Seq(Chars), NEW f, NEW i \in Nat \ {0}, Here(a \o b, f, i)
  PROVE  Here(a, f, i) /\ Here(b, f, i + Len(a))
<1>1. Len(a \o b) = Len(a) + Len(b)
  OBVIOUS
<1>2. \A j \in 1 .. Len(a) : j \in 1 .. Len(a) + Len(b) /\ (a \o b)[j] = a[j]
  OBVIOUS
<1>3. ASSUME NEW j \in 1 .. Len(b)
      PROVE  At(f, ((i + Len(a)) - 1) + j) = b[j]
  <2>1. (a \o b)[Len(a) + j] = b[j]
    OBVIOUS
  <2>2. Len(a) + j \in 1 .. Len(a) + Len(b) /\ (i - 1) + (Len(a) + j) = ((i + Len(a)) - 1) + j
    OBVIOUS
  <2>3. At(f, (i - 1) + (Len(a) + j)) = (a \o b)[Len(a) + j]
    BY <1>1, <2>2 DEF Here
  <2> QED
    BY <2>1, <2>2, <2>3
<1> QED
  BY <1>1, <1>2, <1>3 DEF Here

LEMMA HereHead ==
  ASSUME NEW t \in Seq(Chars), t # <<>>, NEW f, NEW i \in Nat \ {0}, Here(t, f, i)
  PROVE  At(f, i) = t[1]
<1>1. 1 \in 1 .. Len(t) /\ (i - 1) + 1 = i
  OBVIOUS
<1> QED
  BY <1>1 DEF Here

(* A span ends where the text of its characters does.                      *)
LEMMA SpanIs ==
  ASSUME NEW f \in Seq(Chars), NEW S, NUL \notin S, NEW t \in Seq(S),
         NEW i \in 1 .. Len(f) + 1, Here(t, f, i), At(f, i + Len(t)) \notin S
  PROVE  Span(f, i, S) = i + Len(t) /\ i + Len(t) \in 1 .. Len(f) + 1
<1> DEFINE U == {j \in i .. Len(f) + 1 : At(f, j) \notin S}
           e == i + Len(t)
<1>1. ASSUME NEW j \in i .. e - 1
      PROVE  At(f, j) \in S /\ j <= Len(f)
  <2>1. j - i + 1 \in 1 .. Len(t) /\ (i - 1) + (j - i + 1) = j
    OBVIOUS
  <2>2. At(f, j) = t[j - i + 1]
    BY <2>1 DEF Here
  <2>3. t[j - i + 1] \in S
    BY <2>1
  <2>4. At(f, j) # NUL
    BY <2>2, <2>3
  <2>5. j <= Len(f)
    BY <2>4 DEF At
  <2> QED
    BY <2>2, <2>3, <2>5
<1>2. e \in i .. Len(f) + 1
  <2>1. CASE Len(t) = 0
    BY <2>1
  <2>2. CASE Len(t) # 0
    <3>1. e - 1 \in i .. e - 1 /\ e \in Int
      BY <2>2
    <3>2. e - 1 <= Len(f)
      BY <1>1, <3>1
    <3> QED
      BY <3>1, <3>2
  <2> QED
    BY <2>1, <2>2
<1>3. e \in U
  BY <1>2
<1>4. \A j \in U : e <= j
  <2>1. \A j \in U : j \in Int /\ i <= j /\ At(f, j) \notin S
    OBVIOUS
  <2>2. e \in Int /\ i \in Int
    OBVIOUS
  <2> HIDE DEF U, e
  <2> QED
    BY <1>1, <2>1, <2>2
<1>5. Min(U) = e
  <2>1. U \subseteq Int
    OBVIOUS
  <2> HIDE DEF U, e
  <2> QED
    BY <1>3, <1>4, <2>1, MinIs
<1>6. e \in 1 .. Len(f) + 1
  BY <1>2
<1> QED
  BY <1>5, <1>6 DEF Span

-----------------------------------------------------------------------------
(* Format: the parser, on the text of a conversion.                        *)

(* The flags after the first k characters of t.                            *)
Among(t, k, c) == \E i \in 1 .. k : t[i] = c
FlagsAt(t, k) ==
  [left    |-> Among(t, k, "-"),
   zero    |-> Among(t, k, "0") /\ ~Among(t, k, "-"),
   prepend |-> IF Among(t, k, "+") THEN "+" ELSE IF Among(t, k, " ") THEN " " ELSE "",
   alt     |-> Among(t, k, "#")]

(* A flag more: '-' stays, and makes any '0' ignored; '+' is before ' '.   *)
LEMMA FlagsStep ==
  ASSUME NEW t \in Seq(FlagChars), NEW k \in 1 .. Len(t)
  PROVE  FlagsAt(t, k) = Flag(FlagsAt(t, k - 1), t[k])
<1>1. t[k] \in FlagChars
  OBVIOUS
<1>2. \A c : /\ Among(t, k, c) = (Among(t, k - 1, c) \/ t[k] = c)
            /\ Among(t, k, c) \in BOOLEAN /\ Among(t, k - 1, c) \in BOOLEAN
  <2>1. 1 .. k = (1 .. k - 1) \cup {k}
    OBVIOUS
  <2> QED
    BY <2>1 DEF Among
<1>3. CASE t[k] = "-"
  BY <1>2, <1>3 DEF FlagsAt, Flag
<1>4. CASE t[k] = "0"
  BY <1>2, <1>4 DEF FlagsAt, Flag
<1>5. CASE t[k] = "+"
  BY <1>2, <1>5 DEF FlagsAt, Flag
<1>6. CASE t[k] = " "
  BY <1>2, <1>6 DEF FlagsAt, Flag
<1>7. CASE t[k] = "#"
  BY <1>2, <1>7 DEF FlagsAt, Flag
<1> QED
  BY <1>1, <1>3, <1>4, <1>5, <1>6, <1>7 DEF FlagChars

(* '-' and '0' count wherever they are, '+' wins over ' '.                 *)
LEMMA FlagsParsed ==
  ASSUME NEW t \in Seq(FlagChars)
  PROVE  ParseFlags(t) = FlagsAt(t, Len(t))
<1> DEFINE D == 0 .. Len(t)
           Is(f) == f = [k \in D |-> IF k = 0 THEN NoFlags ELSE Flag(f[k - 1], t[k])]
           g == [k \in D |-> FlagsAt(t, k)]
           f == CHOOSE h : Is(h)
<1>1. FlagsAt(t, 0) = NoFlags
  <2>1. \A c : Among(t, 0, c) = FALSE
    BY DEF Among
  <2> QED
    BY <2>1 DEF FlagsAt, NoFlags
<1>2. \A k \in D : k # 0 => k \in 1 .. Len(t) /\ k - 1 \in D
  OBVIOUS
<1>3. Is(g)
  <2>1. \A k \in D : k # 0 => g[k] = Flag(g[k - 1], t[k])
    BY <1>2, FlagsStep
  <2>2. g[0] = NoFlags
    BY <1>1
  <2>3. \A k \in D : g[k] = IF k = 0 THEN NoFlags ELSE Flag(g[k - 1], t[k])
    BY <2>1, <2>2
  <2> QED
    BY <2>3
<1>4. Is(f)
  <2> HIDE DEF Is, g
  <2> QED
    BY <1>3
<1> HIDE DEF f
<1>5. \A k \in Nat : k \in D => f[k] = g[k]
  <2> DEFINE T == {k \in Nat : k \in D => f[k] = g[k]}
  <2>1. 0 \in T
    BY <1>1, <1>4
  <2>2. ASSUME NEW k \in Nat, k \in T
        PROVE  k + 1 \in T
    <3> SUFFICES ASSUME k + 1 \in D
                 PROVE  f[k + 1] = g[k + 1]
      OBVIOUS
    <3>1. k \in D /\ k + 1 \in 1 .. Len(t) /\ (k + 1) - 1 = k /\ f[k] = FlagsAt(t, k)
      BY <2>2
    <3>2. f[k + 1] = Flag(f[k], t[k + 1])
      BY <1>4, <3>1
    <3>3. FlagsAt(t, k + 1) = Flag(FlagsAt(t, k), t[k + 1])
      BY <3>1, FlagsStep
    <3> QED
      BY <3>1, <3>2, <3>3
  <2>3. \A k \in Nat : k \in T
    <3> HIDE DEF T
    <3> QED
      BY <2>1, <2>2, AllNumbers
  <2> QED
    BY <2>3
<1>6. ParseFlags(t) = f[Len(t)]
  BY DEF ParseFlags, f
<1>7. Len(t) \in D /\ Len(t) \in Nat
  OBVIOUS
<1> QED
  BY <1>5, <1>6, <1>7

(* The number of digits is natural, and 0 of none.                         *)
LEMMA NumberType ==
  ASSUME NEW t \in Seq(Digits)
  PROVE  Number(t) \in Nat /\ (t = <<>> => Number(t) = 0)
<1> DEFINE D == 0 .. Len(t)
           Digit(c) == CHOOSE d \in 0 .. 9 : Lower[d + 1] = c
           Is(f) == f = [k \in D |-> IF k = 0 THEN 0 ELSE f[k - 1] * 10 + Digit(t[k])]
           F == [k \in Nat |-> [x \in Nat |-> IF k < Len(t) THEN x * 10 + Digit(t[k + 1]) ELSE x]]
           g == CHOOSE h : Is(h)
<1>1. \A c \in Digits : Digit(c) \in Nat
  <2>1. \A c \in Digits : \E d \in 0 .. 9 : Lower[d + 1] = c
    <3>1. /\ Lower[0 + 1] = "0" /\ Lower[1 + 1] = "1" /\ Lower[2 + 1] = "2" /\ Lower[3 + 1] = "3"
          /\ Lower[4 + 1] = "4" /\ Lower[5 + 1] = "5" /\ Lower[6 + 1] = "6" /\ Lower[7 + 1] = "7"
          /\ Lower[8 + 1] = "8" /\ Lower[9 + 1] = "9"
      BY DEF Lower
    <3> QED
      BY <3>1 DEF Digits
  <2>2. ASSUME NEW c \in Digits
        PROVE  Digit(c) \in 0 .. 9
    <3>1. \E d \in 0 .. 9 : Lower[d + 1] = c
      BY <2>1
    <3> QED
      BY <3>1
  <2> HIDE DEF Digit
  <2> QED
    BY <2>2
<1> HIDE DEF Digit
<1>2. \A k \in Nat : k < Len(t) => Digit(t[k + 1]) \in Nat
  BY <1>1
<1>3. PICK f : Recurs(f, 0, F, Nat)
  <2>1. StepsIn(F, Nat)
    BY <1>2 DEF StepsIn
  <2> HIDE DEF F
  <2> QED
    BY <2>1, Recursion
<1>4. /\ f \in [Nat -> Nat] /\ f[0] = 0
      /\ \A k \in Nat : k < Len(t) => f[k + 1] = f[k] * 10 + Digit(t[k + 1])
  BY <1>3 DEF Recurs
<1> DEFINE h == [k \in D |-> f[k]]
<1>5. Is(h)
  <2>1. \A k \in D : k # 0 => k - 1 \in Nat /\ k - 1 < Len(t) /\ (k - 1) + 1 = k /\ k - 1 \in D
    OBVIOUS
  <2>2. ASSUME NEW k \in D
        PROVE  h[k] = IF k = 0 THEN 0 ELSE h[k - 1] * 10 + Digit(t[k])
    <3>1. CASE k = 0
      BY <1>4, <3>1
    <3>2. CASE k # 0
      <4>1. f[(k - 1) + 1] = f[k - 1] * 10 + Digit(t[(k - 1) + 1])
        BY <1>4, <2>1, <3>2
      <4>2. f[k] = f[k - 1] * 10 + Digit(t[k]) /\ h[k] = f[k] /\ h[k - 1] = f[k - 1]
        BY <2>1, <3>2, <4>1
      <4> QED
        BY <3>2, <4>2
    <3> QED
      BY <3>1, <3>2
  <2>3. h = [k \in D |-> h[k]]
    OBVIOUS
  <2> HIDE DEF h
  <2> QED
    BY <2>2, <2>3
<1>6. Is(g)
  <2> HIDE DEF Is
  <2> QED
    BY <1>5
<1> HIDE DEF g
<1>7. \A k \in Nat : k \in D => g[k] \in Nat
  <2> DEFINE T == {k \in Nat : k \in D => g[k] \in Nat}
  <2>1. 0 \in T
    BY <1>6
  <2>2. ASSUME NEW k \in Nat, k \in T
        PROVE  k + 1 \in T
    <3> SUFFICES ASSUME k + 1 \in D
                 PROVE  g[k + 1] \in Nat
      OBVIOUS
    <3>1. k \in D /\ k < Len(t) /\ (k + 1) - 1 = k /\ k + 1 # 0
      OBVIOUS
    <3>2. g[k] \in Nat /\ Digit(t[k + 1]) \in Nat
      BY <1>2, <2>2, <3>1
    <3>3. g[k + 1] = g[k] * 10 + Digit(t[k + 1])
      BY <1>6, <3>1
    <3> QED
      BY <3>2, <3>3
  <2>3. \A k \in Nat : k \in T
    <3> HIDE DEF T
    <3> QED
      BY <2>1, <2>2, AllNumbers
  <2> QED
    BY <2>3
<1>8. Number(t) = g[Len(t)]
  BY DEF Number, g, Digit
<1>9. Len(t) \in D /\ Len(t) \in Nat /\ (t = <<>> => Len(t) = 0)
  OBVIOUS
<1>10. g[0] = 0
  BY <1>6
<1> QED
  BY <1>7, <1>8, <1>9, <1>10

(* The characters that may come behind a width, and behind a precision.    *)
Behind == ModifierChars \cup Conversions

(* The length modifier is parsed as the width in bits C gives it.          *)
LEMMA ModifierParsed ==
  ASSUME NEW p \in Piece, p.conv \in Conversions, NEW f, NEW i \in Nat \ {0},
         Here(p.len, f, i), At(f, i + Len(p.len)) = p.conv
  PROVE  /\ ParseModifier(f, i) = [bits |-> CBits(p), end |-> i + Len(p.len)]
         /\ At(f, i) \in Behind
<1>1. \A j \in 1 .. Len(p.len) : At(f, (i - 1) + j) = p.len[j]
  BY DEF Here
<1>2. p.len \in Lengths
  BY DEF Piece
<1>3. p.conv \notin ModifierChars
  BY DEF Conversions, ModifierChars, Signed, Unsigned
<1>4. CASE p.len = <<>>
  <2>1. At(f, i) = p.conv
    BY <1>4
  <2> QED
    BY <1>3, <1>4, <2>1 DEF ParseModifier, CBits, Behind, ModifierChars
<1>5. CASE p.len \in {<<"h">>, <<"l">>, <<"j">>, <<"z">>, <<"t">>}
  <2>1. Len(p.len) = 1
    BY <1>5
  <2>2. At(f, i) = p.len[1] /\ At(f, i + 1) = p.conv
    BY <1>1, <2>1
  <2>3. At(f, i) \in Behind
    BY <1>5, <2>2 DEF Behind, ModifierChars
  <2>4. CASE p.len = <<"h">>
    BY <1>3, <2>1, <2>2, <2>3, <2>4 DEF ParseModifier, CBits, ModifierChars
  <2>5. CASE p.len = <<"l">>
    BY <1>3, <2>1, <2>2, <2>3, <2>5 DEF ParseModifier, CBits, ModifierChars
  <2>6. CASE p.len \in {<<"j">>, <<"z">>, <<"t">>}
    <3>1. At(f, i) \in ModifierChars \ {"h", "l"}
      BY <2>2, <2>6 DEF ModifierChars
    <3>2. ParseModifier(f, i) = [bits |-> LongBits, end |-> i + 1]
      BY <3>1 DEF ParseModifier
    <3>3. CBits(p) = LongBits
      <4>1. p.len[1] # "h"
        BY <2>6
      <4>2. p.len # <<>> /\ p.len # <<"h">> /\ p.len # <<"h", "h">>
        BY <2>1, <4>1
      <4> QED
        BY <4>2 DEF CBits
    <3> QED
      BY <2>1, <2>3, <3>2, <3>3
  <2> QED
    BY <1>5, <2>4, <2>5, <2>6
<1>6. CASE p.len \in {<<"h", "h">>, <<"l", "l">>}
  <2>1. Len(p.len) = 2
    BY <1>6
  <2>2. At(f, i) = p.len[1] /\ At(f, i + 1) = p.len[2]
    BY <1>1, <2>1
  <2> QED
    BY <1>6, <2>1, <2>2 DEF ParseModifier, CBits, Behind, ModifierChars
<1> QED
  BY <1>2, <1>4, <1>5, <1>6 DEF Lengths

(* What is parsed of a width or a precision.                               *)
OptOf(q)    == IF q.star # <<>> THEN "star" ELSE IF q.given THEN "literal" ELSE "none"
NumberOf(q) == IF q.star # <<>> THEN 0 ELSE q.n

(* How a part is parsed that is absent, given or a star.                   *)
LEMMA PartFacts ==
  /\ OptOf(Absent) = "none" /\ NumberOf(Absent) = 0 /\ Absent.text = <<>>
  /\ \A t, x : OptOf(Given(t, x)) = "literal" /\ NumberOf(Given(t, x)) = x /\ Given(t, x).text = t
  /\ \A t, x : OptOf(Star(t, x)) = "star" /\ NumberOf(Star(t, x)) = 0 /\ Star(t, x).text = t
<1>1. \A x : <<x>> # <<>>
  OBVIOUS
<1> QED
  BY <1>1 DEF OptOf, NumberOf, Absent, Given, Star

(* A text at an index has its rest at the next one.                        *)
LEMMA HereTail ==
  ASSUME NEW t \in Seq(Chars), t # <<>>, NEW f, NEW i \in Nat \ {0}, Here(t, f, i)
  PROVE  Here(Tail(t), f, i + 1) /\ Len(t) = 1 + Len(Tail(t))
<1>1. Len(t) = 1 + Len(Tail(t)) /\ \A j \in 1 .. Len(Tail(t)) : Tail(t)[j] = t[j + 1]
  OBVIOUS
<1>2. ASSUME NEW j \in 1 .. Len(Tail(t))
      PROVE  At(f, ((i + 1) - 1) + j) = Tail(t)[j]
  <2>1. ((i + 1) - 1) + j = (i - 1) + (j + 1) /\ j + 1 \in 1 .. Len(t)
    BY <1>1
  <2>2. At(f, (i - 1) + (j + 1)) = t[j + 1]
    BY <2>1 DEF Here
  <2> QED
    BY <1>1, <2>1, <2>2
<1> QED
  BY <1>1, <1>2 DEF Here

(* Digits up to a character that is none are a number.                     *)
LEMMA DigitsParsed ==
  ASSUME NEW f \in Seq(Chars), NEW t \in Seq(Digits), NEW i \in 1 .. Len(f) + 1,
         Here(t, f, i), At(f, i + Len(t)) \notin Digits
  PROVE  Span(f, i, Digits) = i + Len(t) /\ SubSeq(f, i, Span(f, i, Digits) - 1) = t
<1>1. NUL \notin Digits
  BY DEF NUL, Digits
<1>2. Span(f, i, Digits) = i + Len(t) /\ i + Len(t) \in 1 .. Len(f) + 1
  BY <1>1, SpanIs
<1> DEFINE s == SubSeq(f, i, i + Len(t) - 1)
<1>3. s \in Seq(Chars) /\ Len(s) = Len(t) /\ \A j \in 1 .. Len(t) : s[j] = f[(i - 1) + j]
  BY <1>2
<1>4. ASSUME NEW j \in 1 .. Len(t)
      PROVE  f[(i - 1) + j] = t[j]
  <2>1. (i - 1) + j <= Len(f)
    BY <1>2
  <2> QED
    BY <2>1 DEF Here, At
<1>5. t \in Seq(Chars \cup Digits) /\ s \in Seq(Chars \cup Digits)
  BY <1>3
<1>6. s = t
  <2> HIDE DEF s
  <2> QED
    BY <1>3, <1>4, <1>5, SameSequence
<1> QED
  BY <1>2, <1>6

(* The width of a piece is parsed as what it is, and ends the flags.       *)
LEMMA WidthParsed ==
  ASSUME NEW p \in Piece, IsWidth(p.width), NEW f \in Seq(Chars), NEW i \in 1 .. Len(f) + 1,
         Here(p.width.text, f, i), At(f, i + Len(p.width.text)) \in Behind \cup {"."}
  PROVE  /\ ParseWidth(f, i) = [opt |-> OptOf(p.width), n |-> NumberOf(p.width),
                                end |-> i + Len(p.width.text)]
         /\ At(f, i) \notin FlagChars
<1> DEFINE q == p.width
           t == q.text
<1>0. q \in Part /\ t \in Seq(Chars) /\ i \in Nat \ {0}
  <2>1. q \in Part
    BY DEF Piece
  <2> HIDE DEF q
  <2>2. q.text \in Seq(Chars)
    BY <2>1 DEF Part
  <2> QED
    BY <2>1, <2>2
<1>1. \A c \in Behind \cup {"."} : c \notin Digits /\ c # "*" /\ c \notin FlagChars
  BY DEF Behind, ModifierChars, Conversions, Signed, Unsigned, Digits, FlagChars
<1>2. \A c \in Digits : c # "*" /\ (c # "0" => c \notin FlagChars)
  BY DEF Digits, FlagChars
<1>3. CASE q = Absent
  <2>1. t = <<>> /\ Len(t) = 0 /\ t \in Seq(Digits) /\ i + Len(t) = i
    BY <1>3, PartFacts
  <2>2. At(f, i) \in Behind \cup {"."}
    BY <2>1
  <2>3. At(f, i) # "*" /\ At(f, i) \notin FlagChars /\ At(f, i + Len(t)) \notin Digits
    BY <1>1, <2>1, <2>2
  <2>4. Span(f, i, Digits) = i + Len(t) /\ SubSeq(f, i, Span(f, i, Digits) - 1) = t
    BY <2>1, <2>3, DigitsParsed
  <2>5. Number(t) = 0
    BY <2>1, NumberType
  <2>6. OptOf(q) = "none" /\ NumberOf(q) = 0
    BY <1>3, PartFacts
  <2> HIDE DEF q, t
  <2>7. ParseWidth(f, i) = [opt |-> "none", n |-> 0, end |-> i]
    <3>1. Span(f, i, Digits) = i /\ Number(SubSeq(f, i, Span(f, i, Digits) - 1)) = 0 /\ ~(i > i)
      <4>1. Span(f, i, Digits) = i
        BY <2>1, <2>4
      <4>2. Number(SubSeq(f, i, Span(f, i, Digits) - 1)) = 0
        BY <2>4, <2>5
      <4> QED
        BY <4>1, <4>2
    <3> QED
      BY <2>3, <3>1 DEF ParseWidth
  <2> QED
    BY <2>1, <2>3, <2>6, <2>7 DEF q, t
<1>4. CASE q = Star(<<"*">>, q.n)
  <2>1. t = <<"*">> /\ OptOf(q) = "star" /\ NumberOf(q) = 0
    <3> HIDE DEF q
    <3> QED
      BY <1>4, PartFacts
  <2>2. t # <<>> /\ t[1] = "*" /\ Len(t) = 1
    BY <2>1
  <2>3. At(f, i) = "*"
    BY <1>0, <2>2, HereHead
  <2>4. ParseWidth(f, i) = [opt |-> "star", n |-> 0, end |-> i + 1]
    BY <2>3 DEF ParseWidth
  <2>5. "*" \notin FlagChars
    BY DEF FlagChars
  <2> QED
    BY <2>1, <2>2, <2>3, <2>4, <2>5
<1>5. CASE t \in Seq(Digits) \ {<<>>} /\ t[1] # "0" /\ q = Given(t, Number(t))
  <2>1. OptOf(q) = "literal" /\ NumberOf(q) = Number(t)
    <3> HIDE DEF q, t
    <3> QED
      BY <1>5, PartFacts
  <2>2. At(f, i) = t[1] /\ t[1] \in Digits /\ Len(t) > 0
    BY <1>0, <1>5, HereHead
  <2>3. At(f, i) # "*" /\ At(f, i) \notin FlagChars /\ At(f, i + Len(t)) \notin Digits
    BY <1>1, <1>2, <1>5, <2>2
  <2>4. Span(f, i, Digits) = i + Len(t) /\ SubSeq(f, i, Span(f, i, Digits) - 1) = t
    BY <1>5, <2>3, DigitsParsed
  <2>5. i + Len(t) > i
    BY <2>2
  <2> HIDE DEF q, t
  <2>6. ParseWidth(f, i) = [opt |-> "literal", n |-> Number(t), end |-> i + Len(t)]
    BY <2>3, <2>4, <2>5 DEF ParseWidth
  <2> QED
    BY <2>1, <2>3, <2>6 DEF q, t
<1> QED
  BY <1>3, <1>4, <1>5 DEF IsWidth

(* So is the precision; its dot ends the width.                            *)
LEMMA PrecParsed ==
  ASSUME NEW p \in Piece, IsPrec(p.prec), NEW f \in Seq(Chars), NEW i \in 1 .. Len(f) + 1,
         Here(p.prec.text, f, i), At(f, i + Len(p.prec.text)) \in Behind
  PROVE  /\ ParsePrec(f, i) = [opt |-> OptOf(p.prec), n |-> NumberOf(p.prec),
                               end |-> i + Len(p.prec.text)]
         /\ At(f, i) \in Behind \cup {"."}
<1> DEFINE q == p.prec
           t == q.text
<1>0. q \in Part /\ t \in Seq(Chars) /\ i \in Nat \ {0}
  <2>1. q \in Part
    BY DEF Piece
  <2> HIDE DEF q
  <2>2. q.text \in Seq(Chars)
    BY <2>1 DEF Part
  <2> QED
    BY <2>1, <2>2
<1>1. \A c \in Behind : c \notin Digits /\ c \notin {".", "*", "-"}
  BY DEF Behind, ModifierChars, Conversions, Signed, Unsigned, Digits
<1>2. \A c \in Digits : c \notin {"*", "-"}
  BY DEF Digits
<1>3. CASE q = Absent
  <2>1. t = <<>> /\ Len(t) = 0 /\ i + Len(t) = i
    BY <1>3, PartFacts
  <2>2. At(f, i) \in Behind
    BY <2>1
  <2>3. At(f, i) # "."
    BY <1>1, <2>2
  <2>4. ParsePrec(f, i) = [opt |-> "none", n |-> 0, end |-> i]
    BY <2>3 DEF ParsePrec
  <2>5. OptOf(q) = "none" /\ NumberOf(q) = 0
    BY <1>3, PartFacts
  <2> QED
    BY <2>1, <2>2, <2>4, <2>5
<1>4. CASE q = Star(<<".", "*">>, q.n)
  <2>1. t = <<".", "*">> /\ OptOf(q) = "star" /\ NumberOf(q) = 0
    <3> HIDE DEF q
    <3> QED
      BY <1>4, PartFacts
  <2>2. t[1] = "." /\ t[2] = "*" /\ Len(t) = 2
    BY <2>1
  <2>3. At(f, (i - 1) + 1) = t[1] /\ At(f, (i - 1) + 2) = t[2]
    BY <2>2 DEF Here
  <2>4. At(f, i) = "." /\ At(f, i + 1) = "*"
    BY <2>2, <2>3
  <2>5. ParsePrec(f, i) = [opt |-> "star", n |-> 0, end |-> i + 2]
    BY <2>4 DEF ParsePrec
  <2> QED
    BY <2>1, <2>2, <2>4, <2>5
<1>5. CASE t # <<>> /\ t[1] = "." /\ Tail(t) \in Seq(Digits) /\ q = Given(t, Number(Tail(t)))
  <2> DEFINE d == Tail(t)
  <2>1. OptOf(q) = "literal" /\ NumberOf(q) = Number(d)
    <3> HIDE DEF q, t, d
    <3> QED
      BY <1>5, PartFacts DEF d
  <2>2. At(f, i) = "."
    BY <1>0, <1>5, HereHead
  <2>3. Here(d, f, i + 1) /\ Len(t) = 1 + Len(d)
    BY <1>0, <1>5, HereTail
  <2>4. i + 1 \in 1 .. Len(f) + 1
    BY <2>2 DEF At, NUL
  <2>5. (i + 1) + Len(d) = i + Len(t)
    <3>1. Len(d) \in Nat
      BY <1>5
    <3> HIDE DEF d, t
    <3> QED
      BY <2>3, <3>1
  <2>6. At(f, (i + 1) + Len(d)) \in Behind
    BY <2>5
  <2>7. At(f, i + 1) \notin {"*", "-"}
    <3>1. CASE d = <<>>
      <4>1. (i + 1) + Len(d) = i + 1
        <5> HIDE DEF d
        <5> QED
          BY <3>1
      <4> QED
        BY <1>1, <2>6, <4>1
    <3>2. CASE d # <<>>
      <4>1. d[1] \in Digits /\ d \in Seq(Chars) /\ i + 1 \in Nat \ {0}
        BY <1>0, <1>5, <3>2, SMTT(20)
      <4> HIDE DEF d
      <4>2. At(f, i + 1) = d[1]
        BY <2>3, <3>2, <4>1, HereHead
      <4> QED
        BY <1>2, <4>1, <4>2
    <3> QED
      BY <3>1, <3>2
  <2>8. d \in Seq(Digits) /\ At(f, (i + 1) + Len(d)) \notin Digits
    BY <1>1, <1>5, <2>6
  <2> HIDE DEF q, t, d
  <2>9. /\ Span(f, i + 1, Digits) = (i + 1) + Len(d)
        /\ SubSeq(f, i + 1, Span(f, i + 1, Digits) - 1) = d
    BY <2>3, <2>4, <2>8, DigitsParsed
  <2>10. ParsePrec(f, i) = [opt |-> "literal", n |-> Number(d), end |-> i + Len(t)]
    BY <2>2, <2>5, <2>7, <2>9 DEF ParsePrec
  <2> QED
    BY <2>1, <2>2, <2>10 DEF q, t
<1> QED
  BY <1>3, <1>4, <1>5 DEF IsPrec

(* What is parsed of a conversion that C defines, and where it ends.       *)
ZeroOf(p)    == Has(p, "0") /\ ~Has(p, "-") /\ ~p.prec.given
PrependOf(p) == IF Has(p, "+") THEN "+" ELSE IF Has(p, " ") THEN " " ELSE ""
Parsed(p, e) ==
  [left      |-> Has(p, "-"),
   zero      |-> ZeroOf(p),
   prepend   |-> PrependOf(p),
   alt       |-> Has(p, "#"),
   width_opt |-> OptOf(p.width),
   width     |-> NumberOf(p.width),
   prec_opt  |-> OptOf(p.prec),
   prec      |-> NumberOf(p.prec),
   bits      |-> CBits(p),
   conv      |-> p.conv,
   next      |-> e]

(* The types of a piece's fields.                                          *)
LEMMA PieceTypes ==
  ASSUME NEW p \in Piece
  PROVE  /\ p.flags \in Seq(FlagChars) /\ p.flags \in Seq(Chars)
         /\ p.width \in Part /\ p.width.text \in Seq(Chars)
         /\ p.prec \in Part /\ p.prec.text \in Seq(Chars)
         /\ p.len \in Seq(Chars) /\ p.len \in Lengths
         /\ p.text \in Seq(Chars \ {NUL}) /\ p.text \in Seq(Chars) /\ p.arg \in Arg
         /\ p.conv \in Conversions => p.conv \in Chars
<1>1. FlagChars \subseteq Chars /\ ModifierChars \subseteq Chars /\ Conversions \subseteq Chars
  BY CharsAssumption
<1>2. p.flags \in Seq(FlagChars) /\ p.text \in Seq(Chars \ {NUL}) /\ p.arg \in Arg
  BY DEF Piece
<1>3. p.flags \in Seq(Chars) /\ p.text \in Seq(Chars)
  BY <1>1, <1>2
<1>4. p.width \in Part /\ p.prec \in Part /\ p.len \in Lengths
  BY DEF Piece
<1>5. \A q \in Part : q.text \in Seq(Chars)
  BY DEF Part
<1>6. p.len \in Seq(Chars)
  <2>1. {"h", "l", "j", "z", "t"} \subseteq Chars
    BY <1>1 DEF ModifierChars
  <2>2. Lengths \subseteq Seq(Chars)
    <3>1. \A x, y \in Chars : <<x>> \in Seq(Chars) /\ <<x, y>> \in Seq(Chars) /\ <<>> \in Seq(Chars)
      OBVIOUS
    <3> QED
      BY <2>1, <3>1 DEF Lengths
  <2> QED
    BY <1>4, <2>2
<1> QED
  BY <1>1, <1>2, <1>3, <1>4, <1>5, <1>6

(* Where the parts of a conversion are.                                    *)
LEMMA PieceParts ==
  ASSUME NEW p \in Piece, p.conv \in Conversions, NEW f, NEW i \in Nat \ {0},
         Here(FormatOf(p), f, i)
  PROVE  \E a, b, c, d \in Nat \ {0} :
           /\ a = (i + 1) + Len(p.flags) /\ b = a + Len(p.width.text)
           /\ c = b + Len(p.prec.text) /\ d = c + Len(p.len) /\ d + 1 = i + Len(FormatOf(p))
           /\ At(f, i) = "%" /\ Here(p.flags, f, i + 1) /\ Here(p.width.text, f, a)
           /\ Here(p.prec.text, f, b) /\ Here(p.len, f, c) /\ At(f, d) = p.conv
<1> DEFINE t1 == <<"%">> \o p.flags
           t2 == t1 \o p.width.text
           t3 == t2 \o p.prec.text
           t4 == t3 \o p.len
           a == (i + 1) + Len(p.flags)
           b == a + Len(p.width.text)
           c == b + Len(p.prec.text)
           d == c + Len(p.len)
<1>1. "%" \in Chars /\ p.conv \in Chars
  BY PieceTypes, CharsAssumption DEF Conversions
<1>2. <<"%">> \in Seq(Chars) /\ <<p.conv>> \in Seq(Chars) /\ Len(<<"%">>) = 1 /\ Len(<<p.conv>>) = 1
  BY <1>1
<1>3. /\ p.flags \in Seq(Chars) /\ p.width.text \in Seq(Chars)
      /\ p.prec.text \in Seq(Chars) /\ p.len \in Seq(Chars)
  BY PieceTypes
<1>4. t1 \in Seq(Chars) /\ Len(t1) = 1 + Len(p.flags)
  BY <1>2, <1>3
<1> HIDE DEF t1, t2, t3, t4
<1>5. t2 \in Seq(Chars) /\ Len(t2) = Len(t1) + Len(p.width.text)
  BY <1>3, <1>4, Together DEF t2
<1>6. t3 \in Seq(Chars) /\ Len(t3) = Len(t2) + Len(p.prec.text)
  BY <1>3, <1>5, Together DEF t3
<1>7. t4 \in Seq(Chars) /\ Len(t4) = Len(t3) + Len(p.len)
  BY <1>3, <1>6, Together DEF t4
<1>8. FormatOf(p) = t4 \o <<p.conv>>
  <2>1. p.conv # ""
    BY DEF Conversions, Signed, Unsigned
  <2> QED
    BY <2>1 DEF FormatOf, t4, t3, t2, t1
<1>9. Len(FormatOf(p)) = Len(t4) + 1
  BY <1>2, <1>7, <1>8
<1>10. Here(t4, f, i) /\ Here(<<p.conv>>, f, i + Len(t4))
  BY <1>2, <1>7, <1>8, HereSplit
<1>11. Here(t3, f, i) /\ Here(p.len, f, i + Len(t3))
  BY <1>3, <1>6, <1>10, HereSplit DEF t4
<1>12. Here(t2, f, i) /\ Here(p.prec.text, f, i + Len(t2))
  BY <1>3, <1>5, <1>11, HereSplit DEF t3
<1>13. Here(t1, f, i) /\ Here(p.width.text, f, i + Len(t1))
  BY <1>3, <1>4, <1>12, HereSplit DEF t2
<1>14. Here(<<"%">>, f, i) /\ Here(p.flags, f, i + 1)
  BY <1>2, <1>3, <1>13, HereSplit DEF t1
<1>15. /\ Len(p.flags) \in Nat /\ Len(p.width.text) \in Nat
       /\ Len(p.prec.text) \in Nat /\ Len(p.len) \in Nat
  BY <1>3
<1>16. a = i + Len(t1) /\ b = i + Len(t2) /\ c = i + Len(t3) /\ d = i + Len(t4)
  <2>1. \A u, v, w, x \in Nat :
          /\ (i + 1) + u = i + (1 + u) /\ ((i + 1) + u) + v = i + ((1 + u) + v)
          /\ (((i + 1) + u) + v) + w = i + (((1 + u) + v) + w)
          /\ ((((i + 1) + u) + v) + w) + x = i + ((((1 + u) + v) + w) + x)
    OBVIOUS
  <2> DEFINE u == Len(p.flags)
             v == Len(p.width.text)
             w == Len(p.prec.text)
             x == Len(p.len)
  <2>2. Len(t1) = 1 + u /\ Len(t2) = Len(t1) + v /\ Len(t3) = Len(t2) + w /\ Len(t4) = Len(t3) + x
    BY <1>4, <1>5, <1>6, <1>7
  <2>3. Len(t2) = (1 + u) + v /\ Len(t3) = ((1 + u) + v) + w /\ Len(t4) = (((1 + u) + v) + w) + x
    BY <2>2
  <2>4. u \in Nat /\ v \in Nat /\ w \in Nat /\ x \in Nat
    BY <1>15
  <2>5. /\ a = (i + 1) + u /\ b = ((i + 1) + u) + v /\ c = (((i + 1) + u) + v) + w
        /\ d = ((((i + 1) + u) + v) + w) + x
    OBVIOUS
  <2> HIDE DEF u, v, w, x, a, b, c, d
  <2> QED
    BY <2>1, <2>2, <2>3, <2>4, <2>5
<1>17. {a, b, c, d} \subseteq Nat \ {0} /\ d + 1 = i + Len(FormatOf(p))
  <2>1. \A u \in Nat : i + u \in Nat \ {0} /\ (i + u) + 1 = i + (u + 1)
    OBVIOUS
  <2>2. Len(t1) \in Nat /\ Len(t2) \in Nat /\ Len(t3) \in Nat /\ Len(t4) \in Nat
    <3>1. \A t \in Seq(Chars) : Len(t) \in Nat
      OBVIOUS
    <3> QED
      BY <1>4, <1>5, <1>6, <1>7, <3>1
  <2> HIDE DEF a, b, c, d
  <2> QED
    BY <1>9, <1>16, <2>1, <2>2
<1>18. At(f, i) = "%"
  BY <1>2, <1>14, HereHead
<1>19. At(f, d) = p.conv
  <2>1. <<p.conv>> # <<>> /\ <<p.conv>>[1] = p.conv
    OBVIOUS
  <2> HIDE DEF a, b, c, d
  <2> QED
    BY <1>2, <1>10, <1>16, <1>17, <2>1, HereHead
<1>20. Here(p.width.text, f, a) /\ Here(p.prec.text, f, b) /\ Here(p.len, f, c)
  BY <1>11, <1>12, <1>13, <1>16
<1>21. /\ a = (i + 1) + Len(p.flags) /\ b = a + Len(p.width.text)
       /\ c = b + Len(p.prec.text) /\ d = c + Len(p.len)
  OBVIOUS
<1> HIDE DEF a, b, c, d
<1> QED
  BY <1>14, <1>17, <1>18, <1>19, <1>20, <1>21

(* npf_parse_format_spec parses a conversion of the caller as what it is,  *)
(* and nothing of what comes behind it.                                    *)
LEMMA PieceParsed ==
  ASSUME NEW p \in Piece, IsConversion(p), NEW f \in Seq(Chars), NEW i \in Nat \ {0},
         Here(FormatOf(p), f, i), i + Len(FormatOf(p)) <= Len(f) + 1
  PROVE  Parse(f, i) = Parsed(p, i + Len(FormatOf(p))) /\ At(f, i) = "%"
<1>0. p.conv \in Conversions /\ IsWidth(p.width) /\ IsPrec(p.prec) /\ Defined(p)
  BY DEF IsConversion
<1>1. PICK a, b, c, d \in Nat \ {0} :
           /\ a = (i + 1) + Len(p.flags) /\ b = a + Len(p.width.text)
           /\ c = b + Len(p.prec.text) /\ d = c + Len(p.len) /\ d + 1 = i + Len(FormatOf(p))
           /\ At(f, i) = "%" /\ Here(p.flags, f, i + 1) /\ Here(p.width.text, f, a)
           /\ Here(p.prec.text, f, b) /\ Here(p.len, f, c) /\ At(f, d) = p.conv
  BY <1>0, PieceParts
<1>2. /\ Len(p.flags) \in Nat /\ Len(p.width.text) \in Nat
      /\ Len(p.prec.text) \in Nat /\ Len(p.len) \in Nat /\ p.flags \in Seq(FlagChars)
  <2>1. \A t \in Seq(Chars) : Len(t) \in Nat
    OBVIOUS
  <2> QED
    BY <2>1, PieceTypes
<1>3. /\ i + 1 \in 1 .. Len(f) + 1 /\ a \in 1 .. Len(f) + 1 /\ b \in 1 .. Len(f) + 1
      /\ c \in 1 .. Len(f) + 1
  <2> DEFINE u == Len(p.flags)
             v == Len(p.width.text)
             w == Len(p.prec.text)
             x == Len(p.len)
             L == Len(f)
             M == Len(FormatOf(p))
  <2>1. /\ a = (i + 1) + u /\ b = a + v /\ c = b + w /\ d = c + x /\ d + 1 = i + M /\ i + M <= L + 1
        /\ u \in Nat /\ v \in Nat /\ w \in Nat /\ x \in Nat
    BY <1>1, <1>2
  <2>2. L \in Nat
    OBVIOUS
  <2> HIDE DEF u, v, w, x, L, M
  <2>3. i + 1 <= a /\ a <= b /\ b <= c /\ c <= d /\ d + 1 <= L + 1
    BY <2>1
  <2>4. i + 1 \in 1 .. L + 1 /\ a \in 1 .. L + 1 /\ b \in 1 .. L + 1 /\ c \in 1 .. L + 1
    BY <2>2, <2>3
  <2> QED
    BY <2>4 DEF L
<1>4. ParseModifier(f, c) = [bits |-> CBits(p), end |-> d] /\ At(f, c) \in Behind
  <2>1. At(f, c + Len(p.len)) = p.conv
    BY <1>1
  <2> QED
    BY <1>0, <1>1, <2>1, ModifierParsed
<1>5. ParsePrec(f, b) = [opt |-> OptOf(p.prec), n |-> NumberOf(p.prec), end |-> c]
      /\ At(f, b) \in Behind \cup {"."}
  <2>1. At(f, b + Len(p.prec.text)) \in Behind
    BY <1>1, <1>4
  <2> QED
    BY <1>0, <1>1, <1>3, <2>1, PrecParsed
<1>6. ParseWidth(f, a) = [opt |-> OptOf(p.width), n |-> NumberOf(p.width), end |-> b]
      /\ At(f, a) \notin FlagChars
  <2>1. At(f, a + Len(p.width.text)) \in Behind \cup {"."}
    BY <1>1, <1>5
  <2> QED
    BY <1>0, <1>1, <1>3, <2>1, WidthParsed
<1>7. Span(f, i + 1, FlagChars) = a
  <2>1. At(f, (i + 1) + Len(p.flags)) \notin FlagChars
    BY <1>1, <1>6
  <2>2. NUL \notin FlagChars
    BY DEF NUL, FlagChars
  <2>3. Span(f, i + 1, FlagChars) = (i + 1) + Len(p.flags)
    <3>1. p.flags \in Seq(FlagChars) /\ i + 1 \in 1 .. Len(f) + 1 /\ Here(p.flags, f, i + 1)
      BY <1>1, <1>2, <1>3
    <3> QED
      BY <2>1, <2>2, <3>1, SpanIs
  <2> QED
    BY <1>1, <2>3
<1>8. SubSeq(f, i + 1, a - 1) = p.flags
  <2> DEFINE s == SubSeq(f, i + 1, a - 1)
           u == Len(p.flags)
  <2>0. a = (i + 1) + u /\ u \in Nat /\ a \in 1 .. Len(f) + 1
    BY <1>1, <1>2, <1>3
  <2>1. s \in Seq(Chars) /\ Len(s) = Len(p.flags) /\ \A j \in 1 .. Len(p.flags) : s[j] = f[i + j]
    <3> HIDE DEF u
    <3>1. s \in Seq(Chars) /\ Len(s) = u /\ \A j \in 1 .. u : s[j] = f[i + j]
      BY <2>0
    <3> QED
      BY <3>1 DEF u
  <2>2. ASSUME NEW j \in 1 .. Len(p.flags)
        PROVE  f[i + j] = p.flags[j]
    <3>1. ((i + 1) - 1) + j = i + j /\ i + j <= Len(f)
      <4>1. j \in 1 .. u /\ Len(f) \in Nat
        OBVIOUS
      <4> HIDE DEF u
      <4> QED
        BY <2>0, <4>1
    <3>2. At(f, ((i + 1) - 1) + j) = p.flags[j]
      BY <1>1 DEF Here
    <3> QED
      BY <3>1, <3>2 DEF At
  <2>3. p.flags \in Seq(Chars)
    BY PieceTypes
  <2> HIDE DEF s
  <2> DEFINE r == p.flags
  <2>4. s \in Seq(Chars) /\ r \in Seq(Chars) /\ Len(s) = Len(r) /\ \A j \in 1 .. Len(s) : s[j] = r[j]
    BY <2>1, <2>2, <2>3
  <2>5. s = r
    <3> HIDE DEF r
    <3> QED
      BY <2>4, SameSequence
  <2> QED
    BY <2>5 DEF s, r
<1>9. /\ ParseFlags(p.flags).left = Has(p, "-") /\ ParseFlags(p.flags).alt = Has(p, "#")
      /\ ParseFlags(p.flags).zero = (Has(p, "0") /\ ~Has(p, "-"))
      /\ ParseFlags(p.flags).prepend = IF Has(p, "+") THEN "+" ELSE IF Has(p, " ") THEN " " ELSE ""
  <2>1. \A ch : Among(p.flags, Len(p.flags), ch) = Has(p, ch)
    <3>1. DOMAIN p.flags = 1 .. Len(p.flags)
      BY <1>2
    <3> QED
      BY <3>1 DEF Among, Has
  <2>2. ParseFlags(p.flags) = FlagsAt(p.flags, Len(p.flags))
    BY <1>2, FlagsParsed
  <2>3. /\ FlagsAt(p.flags, Len(p.flags)).left = Among(p.flags, Len(p.flags), "-")
        /\ FlagsAt(p.flags, Len(p.flags)).alt = Among(p.flags, Len(p.flags), "#")
        /\ FlagsAt(p.flags, Len(p.flags)).zero
             = (Among(p.flags, Len(p.flags), "0") /\ ~Among(p.flags, Len(p.flags), "-"))
        /\ FlagsAt(p.flags, Len(p.flags)).prepend
             = IF Among(p.flags, Len(p.flags), "+") THEN "+"
               ELSE IF Among(p.flags, Len(p.flags), " ") THEN " " ELSE ""
    BY DEF FlagsAt
  <2> QED
    BY <2>1, <2>2, <2>3
<1>10. p.prec.given \in BOOLEAN /\ (OptOf(p.prec) = "none" <=> ~p.prec.given)
  <2>1. Absent.given = FALSE /\ \A t, x : Given(t, x).given = TRUE /\ Star(t, x).given = TRUE
    BY DEF Absent, Given, Star
  <2>2. CASE p.prec = Absent
    BY <2>1, <2>2, PartFacts
  <2>3. CASE p.prec = Star(<<".", "*">>, p.prec.n)
    <3>1. p.prec.given = TRUE /\ OptOf(p.prec) = "star"
      BY <2>1, <2>3, PartFacts
    <3> QED
      BY <3>1
  <2>4. CASE p.prec = Given(p.prec.text, Number(Tail(p.prec.text)))
    <3>1. p.prec.given = TRUE /\ OptOf(p.prec) = "literal"
      BY <2>1, <2>4, PartFacts
    <3> QED
      BY <3>1
  <2> QED
    BY <1>0, <2>2, <2>3, <2>4 DEF IsPrec
<1>11. /\ p.conv \in {"%", "c", "p"} => OptOf(p.prec) = "none"
       /\ Has(p, "0") => p.conv \in Signed \cup Unsigned /\ p.conv # "s"
  <2>1. \A ch \in Signed \cup Unsigned : ch # "s" /\ ch \notin {"%", "c", "p"}
    BY DEF Signed, Unsigned
  <2> QED
    BY <1>0, <1>10, <2>1 DEF Defined
<1>12. \A ch : Has(p, ch) \in BOOLEAN
  BY DEF Has
<1> DEFINE zero == /\ ParseFlags(p.flags).zero /\ p.conv # "s"
                   /\ p.conv \in Signed \cup Unsigned =>
                        (IF p.conv \in {"%", "c", "p"} THEN "none" ELSE OptOf(p.prec)) = "none"
<1>13. zero = ZeroOf(p)
  BY <1>9, <1>10, <1>11, <1>12 DEF ZeroOf
<1>14. Parse(f, i) =
        [left      |-> ParseFlags(p.flags).left,
         zero      |-> zero,
         prepend   |-> ParseFlags(p.flags).prepend,
         alt       |-> ParseFlags(p.flags).alt,
         width_opt |-> OptOf(p.width),
         width     |-> NumberOf(p.width),
         prec_opt  |-> IF p.conv \in {"%", "c", "p"} THEN "none" ELSE OptOf(p.prec),
         prec      |-> NumberOf(p.prec),
         bits      |-> CBits(p),
         conv      |-> p.conv,
         next      |-> d + 1]
  <2>1. /\ ParseWidth(f, a).opt = OptOf(p.width) /\ ParseWidth(f, a).n = NumberOf(p.width)
        /\ ParseWidth(f, a).end = b
    BY <1>6
  <2>2. /\ ParsePrec(f, b).opt = OptOf(p.prec) /\ ParsePrec(f, b).n = NumberOf(p.prec)
        /\ ParsePrec(f, b).end = c
    BY <1>5
  <2>3. ParseModifier(f, c).bits = CBits(p) /\ ParseModifier(f, c).end = d /\ At(f, d) = p.conv
    <3>1. At(f, d) = p.conv
      BY <1>1
    <3>2. ParseModifier(f, c).bits = CBits(p) /\ ParseModifier(f, c).end = d
      BY <1>4
    <3> QED
      BY <3>1, <3>2
  <2> QED
    BY <1>7, <1>8, <2>1, <2>2, <2>3 DEF Parse
<1>15. (IF p.conv \in {"%", "c", "p"} THEN "none" ELSE OptOf(p.prec)) = OptOf(p.prec)
  BY <1>11
<1> HIDE DEF zero
<1> QED
  BY <1>1, <1>9, <1>13, <1>14, <1>15 DEF Parsed, PrependOf

-----------------------------------------------------------------------------
(* Format: the arguments of a conversion.                                  *)

(* What a width or a precision is.                                         *)
IsPart(q) ==
  \/ /\ q.star = <<>> /\ q.n \in Nat /\ NumberOf(q) = q.n
     /\ q.given = FALSE /\ OptOf(q) = "none" /\ q.n = 0
  \/ q.star = <<>> /\ q.n \in Nat /\ NumberOf(q) = q.n /\ q.given = TRUE /\ OptOf(q) = "literal"
  \/ q.star = <<IntArg(q.n)>> /\ q.n \in Int /\ q.given = TRUE /\ OptOf(q) = "star"

(* A width or a precision is absent, given, or a star with an argument.    *)
LEMMA PartCases ==
  /\ IsPart(Absent)
  /\ \A t : \A x \in Nat : IsPart(Given(t, x))
  /\ \A t : \A x \in Int : IsPart(Star(t, x))
<1>1. IsPart(Absent)
  BY PartFacts DEF IsPart, Absent
<1>2. ASSUME NEW t, NEW x \in Nat
      PROVE  IsPart(Given(t, x))
  <2>1. /\ Given(t, x).star = <<>> /\ Given(t, x).n = x /\ Given(t, x).given = TRUE
    BY DEF Given
  <2>2. NumberOf(Given(t, x)) = x /\ OptOf(Given(t, x)) = "literal"
    BY PartFacts
  <2> QED
    BY <2>1, <2>2 DEF IsPart
<1>3. ASSUME NEW t, NEW x \in Int
      PROVE  IsPart(Star(t, x))
  <2>1. /\ Star(t, x).star = <<IntArg(x)>> /\ Star(t, x).n = x /\ Star(t, x).given = TRUE
    BY DEF Star
  <2>2. OptOf(Star(t, x)) = "star"
    BY PartFacts
  <2> QED
    BY <2>1, <2>2 DEF IsPart
<1> QED
  BY <1>1, <1>2, <1>3

LEMMA PartsOf ==
  ASSUME NEW p \in Piece, IsConversion(p)
  PROVE  IsPart(p.width) /\ IsPart(p.prec)
<1>1. p.width \in Part /\ p.prec \in Part
  BY PieceTypes
<1>2. p.width.n \in Int /\ p.prec.n \in Int
  BY <1>1 DEF Part
<1>3. IsPart(p.width)
  <2>1. CASE p.width = Absent
    BY <2>1, PartCases
  <2>2. CASE p.width = Star(<<"*">>, p.width.n)
    BY <1>2, <2>2, PartCases
  <2>3. CASE p.width.text \in Seq(Digits) /\ p.width = Given(p.width.text, Number(p.width.text))
    <3>1. Number(p.width.text) \in Nat
      BY <2>3, NumberType
    <3> QED
      BY <2>3, <3>1, PartCases
  <2> QED
    BY <2>1, <2>2, <2>3 DEF IsConversion, IsWidth
<1>4. IsPart(p.prec)
  <2>1. CASE p.prec = Absent
    BY <2>1, PartCases
  <2>2. CASE p.prec = Star(<<".", "*">>, p.prec.n)
    BY <1>2, <2>2, PartCases
  <2>3. CASE /\ Tail(p.prec.text) \in Seq(Digits)
             /\ p.prec = Given(p.prec.text, Number(Tail(p.prec.text)))
    <3>1. Number(Tail(p.prec.text)) \in Nat
      BY <2>3, NumberType
    <3> QED
      BY <2>3, <3>1, PartCases
  <2> QED
    BY <2>1, <2>2, <2>3 DEF IsConversion, IsPrec
<1> QED
  BY <1>3, <1>4

(* The specification with its stars replaced, and the argument converted.  *)
Magnitude(x) == IF x < 0 THEN -x ELSE x
Final(p, e) ==
  [left      |-> Has(p, "-") \/ p.width.n < 0,
   zero      |-> ZeroOf(p),
   prepend   |-> PrependOf(p),
   alt       |-> Has(p, "#"),
   width_opt |-> IF p.width.given THEN "literal" ELSE "none",
   width     |-> Magnitude(p.width.n),
   prec_opt  |-> IF p.prec.given /\ p.prec.n >= 0 THEN "literal" ELSE "none",
   prec      |-> p.prec.n,
   bits      |-> CBits(p),
   conv      |-> p.conv,
   next      |-> e]

Own(p) == IF p.conv = "%" THEN <<>> ELSE <<p.arg>>

(* The first argument and the ones behind it.                              *)
LEMMA Popped ==
  ASSUME NEW x \in Arg, NEW s \in Seq(Arg)
  PROVE  (<<x>> \o s)[1] = x /\ Tail(<<x>> \o s) = s
<1> DEFINE t == <<x>> \o s
<1>1. t \in Seq(Arg) /\ Len(t) = 1 + Len(s) /\ t[1] = x /\ \A i \in 1 .. Len(s) : t[1 + i] = s[i]
  OBVIOUS
<1>2. Tail(t) \in Seq(Arg) /\ Len(Tail(t)) = Len(s)
  BY <1>1
<1>3. \A i \in 1 .. Len(s) : Tail(t)[i] = t[1 + i]
  BY <1>1
<1>4. Tail(t) = s
  <2> HIDE DEF t
  <2>1. \A i \in 1 .. Len(Tail(t)) : Tail(t)[i] = s[i]
    BY <1>1, <1>2, <1>3
  <2> QED
    BY <1>2, <2>1, SameSequence
<1> QED
  BY <1>1, <1>4

(* A specification with a flag '-', a width and a precision of its own.    *)
With(p, e, l, wo, w, po, pr) ==
  [left |-> l, zero |-> ZeroOf(p), prepend |-> PrependOf(p), alt |-> Has(p, "#"),
   width_opt |-> wo, width |-> w, prec_opt |-> po, prec |-> pr, bits |-> CBits(p),
   conv |-> p.conv, next |-> e]

(* The specification between its stars.                                    *)
Between(p, e) ==
  [left      |-> Has(p, "-") \/ p.width.n < 0,
   zero      |-> ZeroOf(p),
   prepend   |-> PrependOf(p),
   alt       |-> Has(p, "#"),
   width_opt |-> IF p.width.given THEN "literal" ELSE "none",
   width     |-> Magnitude(p.width.n),
   prec_opt  |-> OptOf(p.prec),
   prec      |-> NumberOf(p.prec),
   bits      |-> CBits(p),
   conv      |-> p.conv,
   next      |-> e]

(* The star of a width takes its argument; a negative one is '-'.          *)
LEMMA WidthTaken ==
  ASSUME NEW p \in Piece, IsPart(p.width), NEW e, NEW s \in Seq(Arg)
  PROVE  Starred(Parsed(p, e), p.width.star \o s) = [fs |-> Between(p, e), args |-> s]
<1> DEFINE q == p.width
<1>0. \A ch : Has(p, ch) \in BOOLEAN
  BY DEF Has
<1>1. CASE /\ q.star = <<>> /\ q.n \in Nat /\ NumberOf(q) = q.n
           /\ OptOf(q) = IF q.given THEN "literal" ELSE "none"
  <2>1. p.width.star \o s = s
    BY <1>1
  <2>2. ~(q.n < 0) /\ Magnitude(q.n) = q.n
    BY <1>1 DEF Magnitude
  <2>3. Parsed(p, e) = Between(p, e)
    <3>1. (Has(p, "-") \/ q.n < 0) = Has(p, "-")
      BY <1>0, <2>2
    <3> QED
      BY <1>1, <2>2, <3>1 DEF Parsed, Between
  <2>4. Parsed(p, e).width_opt # "star"
    BY <1>1 DEF Parsed
  <2> QED
    BY <2>1, <2>3, <2>4 DEF Starred
<1>2. CASE q.star = <<IntArg(q.n)>> /\ q.n \in Int /\ q.given = TRUE /\ OptOf(q) = "star"
  <2>1. IntArg(q.n) \in Arg /\ IntArg(q.n).int = q.n
    BY <1>2 DEF IntArg, Arg
  <2>2. (p.width.star \o s)[1] = IntArg(q.n) /\ Tail(p.width.star \o s) = s
    BY <1>2, <2>1, Popped
  <2>3. Parsed(p, e).width_opt = "star"
    BY <1>2 DEF Parsed
  <2>4. StarWidth(Parsed(p, e), q.n) = Between(p, e)
    <3>1. Parsed(p, e).left = Has(p, "-")
      BY DEF Parsed
    <3>2. /\ (Parsed(p, e).left \/ q.n < 0) = (Has(p, "-") \/ q.n < 0)
          /\ (IF q.n < 0 THEN -q.n ELSE q.n) = Magnitude(q.n)
      BY <3>1 DEF Magnitude
    <3>3. StarWidth(Parsed(p, e), q.n)
            = [Parsed(p, e) EXCEPT !.width_opt = "literal", !.width = Magnitude(q.n),
                                   !.left = Has(p, "-") \/ q.n < 0]
      BY <3>2 DEF StarWidth
    <3>4. [Parsed(p, e) EXCEPT !.width_opt = "literal", !.width = Magnitude(q.n),
                               !.left = Has(p, "-") \/ q.n < 0]
            = Between(p, e)
      <4> DEFINE r0 == Parsed(p, e)
                 r1 == [Parsed(p, e) EXCEPT !.width_opt = "literal"]
                 r2 == [r1 EXCEPT !.width = Magnitude(q.n)]
                 m  == Magnitude(q.n)
                 l  == Has(p, "-") \/ q.n < 0
      <4>1. r1 = With(p, e, Has(p, "-"), "literal", NumberOf(q), OptOf(p.prec), NumberOf(p.prec))
        BY DEF Parsed, With
      <4>2. r2 = With(p, e, Has(p, "-"), "literal", m, OptOf(p.prec), NumberOf(p.prec))
        <5> HIDE DEF r1
        <5> QED
          BY <4>1 DEF With
      <4>3. [r2 EXCEPT !.left = l] = With(p, e, l, "literal", m, OptOf(p.prec), NumberOf(p.prec))
        <5> HIDE DEF r2, l
        <5> QED
          BY <4>2 DEF With
      <4>4. Between(p, e) = With(p, e, l, "literal", m, OptOf(p.prec), NumberOf(p.prec))
        BY <1>2 DEF Between, With
      <4> QED
        BY <4>3, <4>4
    <3> QED
      BY <3>3, <3>4
  <2> QED
    BY <2>1, <2>2, <2>3, <2>4 DEF Starred
<1> QED
  BY <1>1, <1>2 DEF IsPart

(* So does the star of a precision; a negative one is none.                *)
LEMMA PrecTaken ==
  ASSUME NEW p \in Piece, IsPart(p.prec), NEW e, NEW s \in Seq(Arg)
  PROVE  StarredTwice([fs |-> Between(p, e), args |-> p.prec.star \o s])
           = [fs |-> Final(p, e), args |-> s]
<1> DEFINE q == p.prec
           t == [fs |-> Between(p, e), args |-> q.star \o s]
<1>0. t.fs = Between(p, e) /\ t.args = q.star \o s
  OBVIOUS
<1> HIDE DEF t
<1>1. CASE /\ q.star = <<>> /\ q.n \in Nat /\ NumberOf(q) = q.n /\ q.given \in BOOLEAN
           /\ OptOf(q) = IF q.given THEN "literal" ELSE "none"
  <2>1. q.star \o s = s
    BY <1>1
  <2>2. (IF q.given /\ q.n >= 0 THEN "literal" ELSE "none") = OptOf(q)
    BY <1>1
  <2>3. Between(p, e) = Final(p, e)
    BY <1>1, <2>2 DEF Between, Final
  <2>4. Between(p, e).prec_opt # "star"
    BY <1>1 DEF Between
  <2>5. StarredTwice(t) = t
    BY <1>0, <2>4 DEF StarredTwice
  <2> QED
    BY <2>1, <2>3, <2>5 DEF t
<1>2. CASE q.star = <<IntArg(q.n)>> /\ q.n \in Int /\ q.given = TRUE /\ OptOf(q) = "star"
  <2>1. IntArg(q.n) \in Arg /\ IntArg(q.n).int = q.n
    BY <1>2 DEF IntArg, Arg
  <2>2. (q.star \o s)[1] = IntArg(q.n) /\ Tail(q.star \o s) = s
    BY <1>2, <2>1, Popped
  <2>3. Between(p, e).prec_opt = "star"
    BY <1>2 DEF Between
  <2>4. StarPrecision(Between(p, e), q.n) = Final(p, e)
    <3> DEFINE l  == Has(p, "-") \/ p.width.n < 0
               wo == IF p.width.given THEN "literal" ELSE "none"
               w  == Magnitude(p.width.n)
               o  == IF q.n >= 0 THEN "literal" ELSE "none"
               r1 == [Between(p, e) EXCEPT !.prec = q.n]
    <3>1. r1 = With(p, e, l, wo, w, OptOf(q), q.n)
      BY DEF Between, With
    <3>2. [r1 EXCEPT !.prec_opt = o] = With(p, e, l, wo, w, o, q.n)
      <4> HIDE DEF r1
      <4> QED
        BY <3>1 DEF With
    <3>3. Final(p, e) = With(p, e, l, wo, w, o, q.n)
      BY <1>2 DEF Final, With
    <3> QED
      BY <3>2, <3>3 DEF StarPrecision
  <2>5. StarredTwice(t) = [fs |-> StarPrecision(t.fs, t.args[1].int), args |-> Tail(t.args)]
    BY <1>0, <2>3 DEF StarredTwice
  <2> QED
    BY <1>0, <2>1, <2>2, <2>4, <2>5 DEF t
<1> QED
  BY <1>1, <1>2 DEF IsPart

(* The stars take their arguments and leave the conversion's own.          *)
LEMMA StarsTaken ==
  ASSUME NEW p \in Piece, IsConversion(p), NEW e, NEW s \in Seq(Arg)
  PROVE  /\ StarredTwice(Starred(Parsed(p, e), ArgsOf(p) \o s))
              = [fs |-> Final(p, e), args |-> Own(p) \o s]
         /\ ArgsOf(p) \in Seq(Arg) /\ Own(p) \in Seq(Arg)
<1>1. IsPart(p.width) /\ IsPart(p.prec)
  BY PartsOf
<1>2. p.width.star \in Seq(Arg) /\ p.prec.star \in Seq(Arg)
  BY PieceTypes DEF Part
<1>3. Own(p) \in Seq(Arg)
  <2>1. p.arg \in Arg
    BY PieceTypes
  <2> QED
    BY <2>1 DEF Own
<1>4. ArgsOf(p) = (p.width.star \o p.prec.star) \o Own(p)
  <2>1. p.conv # ""
    BY DEF IsConversion, Conversions, Signed, Unsigned
  <2> QED
    BY <2>1 DEF ArgsOf, Own
<1>6. ArgsOf(p) \o s = p.width.star \o (p.prec.star \o (Own(p) \o s))
  <2>1. s \in Seq(Arg)
    OBVIOUS
  <2>2. Grouped(p.width.star, p.prec.star, Own(p), s)
    BY <1>2, <1>3, <2>1, Regroup
  <2> QED
    BY <1>4, <2>2 DEF Grouped
<1>7. /\ p.prec.star \o (Own(p) \o s) \in Seq(Arg) /\ Own(p) \o s \in Seq(Arg)
      /\ ArgsOf(p) \in Seq(Arg)
  BY <1>2, <1>3, <1>4, Together
<1>8. Starred(Parsed(p, e), ArgsOf(p) \o s)
        = [fs |-> Between(p, e), args |-> p.prec.star \o (Own(p) \o s)]
  BY <1>1, <1>6, <1>7, WidthTaken
<1>9. StarredTwice([fs |-> Between(p, e), args |-> p.prec.star \o (Own(p) \o s)])
        = [fs |-> Final(p, e), args |-> Own(p) \o s]
  BY <1>1, <1>7, PrecTaken
<1> QED
  BY <1>3, <1>7, <1>8, <1>9

-----------------------------------------------------------------------------
(* Format: the digits of a number.                                         *)

Bases == {8, 10, 16}

(* A division by a base takes at least three bits.                         *)
LEMMA Divided ==
  ASSUME NEW x \in Nat, NEW base \in Bases
  PROVE  /\ x \div base \in Nat /\ x % base \in 0 .. base - 1 /\ 8 * (x \div base) <= x
         /\ x < base => x \div base = 0 /\ x % base = x
         /\ x >= base => x \div base # 0
<1>0. base \in Nat \ {0} /\ base >= 8 /\ (base = 8 \/ base = 10 \/ base = 16)
  BY DEF Bases
<1>1. PICK q \in Nat, r \in 0 .. base - 1 : x = base * q + r /\ x \div base = q /\ x % base = r
  BY <1>0, Division
<1>2. x = 8 * q + r \/ x = 10 * q + r \/ x = 16 * q + r
  BY <1>0, <1>1
<1>3. 8 * q <= x
  BY <1>2
<1>4. x < base => q = 0
  BY <1>0, <1>1
<1>5. x >= base => q # 0
  BY <1>0, <1>1
<1>6. q = 0 => x = r
  BY <1>2
<1> QED
  BY <1>1, <1>3, <1>4, <1>5, <1>6

(* The integers of a number's digits; how many digits are enough.          *)
LEMMA LongFacts == LongBits \in Nat \ {0}
BY WidthsAssumption

(* What is left of a number when its last digits have been divided off.    *)
LEMMA RestsRecursion ==
  ASSUME NEW x \in Nat, NEW base \in Bases
  PROVE  /\ Rests(x, base)[0] = x
         /\ \A k \in 0 .. LongBits : Rests(x, base)[k] \in Nat
         /\ \A k \in 0 .. LongBits - 1 : Rests(x, base)[k + 1] = Rests(x, base)[k] \div base
<1> DEFINE D == 0 .. LongBits
           Is(f) == f = [k \in D |-> IF k = 0 THEN x ELSE f[k - 1] \div base]
           F == [k \in Nat |-> [y \in Nat |-> y \div base]]
           g == CHOOSE h : Is(h)
<1>0. LongBits \in Nat \ {0}
  BY LongFacts
<1>1. \A y \in Nat : y \div base \in Nat
  BY Divided
<1>2. PICK f : Recurs(f, x, F, Nat)
  <2>1. StepsIn(F, Nat)
    BY <1>1 DEF StepsIn
  <2> HIDE DEF F
  <2> QED
    BY <2>1, Recursion
<1>3. f \in [Nat -> Nat] /\ f[0] = x /\ \A k \in Nat : f[k + 1] = f[k] \div base
  BY <1>2 DEF Recurs
<1>4. Is([k \in D |-> f[k]])
  <2>1. \A k \in D : k # 0 => k - 1 \in Nat /\ (k - 1) + 1 = k /\ k - 1 \in D
    BY <1>0
  <2> QED
    BY <1>3, <2>1
<1>5. Is(g)
  <2> HIDE DEF Is
  <2> QED
    BY <1>4
<1> HIDE DEF g
<1>6. Rests(x, base) = g
  BY DEF Rests, g
<1>7. g[0] = x
  BY <1>0, <1>5
<1>8. \A k \in 0 .. LongBits - 1 : g[k + 1] = g[k] \div base
  <2>1. \A k \in 0 .. LongBits - 1 : k + 1 \in D /\ k + 1 # 0 /\ (k + 1) - 1 = k
    BY <1>0
  <2> QED
    BY <1>5, <2>1
<1>9. \A k \in Nat : k \in D => g[k] \in Nat
  <2> DEFINE T == {k \in Nat : k \in D => g[k] \in Nat}
  <2>1. 0 \in T
    BY <1>7
  <2>2. ASSUME NEW k \in Nat, k \in T
        PROVE  k + 1 \in T
    <3> SUFFICES ASSUME k + 1 \in D
                 PROVE  g[k + 1] \in Nat
      OBVIOUS
    <3>1. k \in D /\ k \in 0 .. LongBits - 1
      BY <1>0
    <3> QED
      BY <1>1, <1>8, <2>2, <3>1
  <2>3. \A k \in Nat : k \in T
    <3> HIDE DEF T
    <3> QED
      BY <2>1, <2>2, AllNumbers
  <2> QED
    BY <2>3
<1> QED
  BY <1>0, <1>6, <1>7, <1>8, <1>9

(* Each rest is three bits shorter than the one before.                    *)
Enough == (LongBits + 2) \div 3

LEMMA EnoughFacts == Enough \in 1 .. LongBits /\ 3 * Enough >= LongBits /\ CbufSize = Enough + 1
<1>1. LongBits \in Nat \ {0}
  BY LongFacts
<1>2. PICK q \in Nat, r \in 0 .. 3 - 1 : LongBits + 2 = 3 * q + r /\ (LongBits + 2) \div 3 = q
  BY <1>1, Division
<1> QED
  BY <1>1, <1>2, CbufAssumption DEF Enough

(* Nothing is left after Enough digits.                                    *)
LEMMA RestsEnd ==
  ASSUME NEW x \in Nat, NEW base \in Bases, x < Pow2[LongBits]
  PROVE  Rests(x, base)[Enough] = 0
<1> DEFINE R == Rests(x, base)
           P(k) == k <= LongBits =>
                     (3 * k <= LongBits => R[k] < Pow2[LongBits - 3 * k]) /\ (3 * k >= LongBits => R[k] = 0)
           T == {k \in Nat : P(k)}
<1>0. LongBits \in Nat \ {0}
  BY LongFacts
<1>1. R[0] = x /\ \A k \in 0 .. LongBits : R[k] \in Nat
  BY RestsRecursion
<1>2. \A k \in 0 .. LongBits - 1 : R[k + 1] = R[k] \div base
  BY RestsRecursion
<1> HIDE DEF R
<1>3. 0 \in T
  <2>1. LongBits - 3 * 0 = LongBits
    BY <1>0
  <2> QED
    BY <1>0, <1>1, <2>1
<1>4. ASSUME NEW k \in Nat, k \in T
      PROVE  k + 1 \in T
  <2> SUFFICES ASSUME k + 1 <= LongBits
               PROVE  /\ 3 * (k + 1) <= LongBits => R[k + 1] < Pow2[LongBits - 3 * (k + 1)]
                      /\ 3 * (k + 1) >= LongBits => R[k + 1] = 0
    OBVIOUS
  <2>1. k \in 0 .. LongBits - 1 /\ k <= LongBits /\ k \in 0 .. LongBits /\ k + 1 \in 0 .. LongBits
    BY <1>0
  <2>2. R[k] \in Nat /\ R[k + 1] \in Nat /\ 8 * R[k + 1] <= R[k]
    <3>1. R[k] \in Nat /\ R[k + 1] \in Nat /\ R[k + 1] = R[k] \div base
      BY <1>1, <1>2, <2>1
    <3> QED
      BY <3>1, Divided
  <2>3. CASE 3 * k >= LongBits
    <3>1. R[k] = 0
      BY <1>4, <2>1, <2>3
    <3>2. ~(3 * (k + 1) <= LongBits) /\ R[k + 1] = 0
      BY <1>0, <2>2, <2>3, <3>1
    <3> QED
      BY <3>2
  <2>4. CASE ~(3 * k >= LongBits)
    <3>1. R[k] < Pow2[LongBits - 3 * k]
      <4>1. 3 * k <= LongBits
        BY <1>0, <2>4
      <4> QED
        BY <1>4, <2>1, <4>1
    <3>2. CASE 3 * (k + 1) <= LongBits
      <4> DEFINE j == LongBits - 3 * (k + 1)
      <4>1. j \in Nat /\ LongBits - 3 * k = ((j + 1) + 1) + 1
        BY <1>0, <3>2
      <4>2. (j = 0) <=> (3 * (k + 1) >= LongBits)
        BY <1>0, <3>2
      <4> HIDE DEF j
      <4>3. Pow2[((j + 1) + 1) + 1] = 8 * Pow2[j] /\ Pow2[j] \in Nat
        <5>1. Pow2[j + 1] = 2 * Pow2[j] /\ Pow2[(j + 1) + 1] = 2 * Pow2[j + 1]
              /\ Pow2[((j + 1) + 1) + 1] = 2 * Pow2[(j + 1) + 1] /\ Pow2[j] \in Nat
          BY <4>1, Pow2Next
        <5> QED
          BY <5>1
      <4>4. R[k + 1] < Pow2[j]
        BY <2>2, <3>1, <4>1, <4>3
      <4>5. j = 0 => R[k + 1] = 0
        BY <2>2, <4>4, Pow2Next
      <4> QED
        BY <4>2, <4>4, <4>5 DEF j
    <3>3. CASE ~(3 * (k + 1) <= LongBits)
      <4>1. LongBits - 3 * k \in {1, 2}
        BY <1>0, <2>4, <3>3
      <4>2. Pow2[1] = 2 /\ Pow2[2] = 4
        <5>1. Pow2[0 + 1] = 2 * Pow2[0] /\ Pow2[1 + 1] = 2 * Pow2[1] /\ Pow2[0] = 1
          BY Pow2Next
        <5> QED
          BY <5>1
      <4>3. R[k] < 4
        BY <2>2, <3>1, <4>1, <4>2
      <4> QED
        BY <2>2, <3>3, <4>3
    <3> QED
      BY <3>2, <3>3
  <2> QED
    BY <2>3, <2>4
<1>5. \A k \in Nat : k \in T
  <2> HIDE DEF T
  <2> QED
    BY <1>3, <1>4, AllNumbers
<1>6. Enough \in Nat /\ Enough <= LongBits /\ 3 * Enough >= LongBits
  BY <1>0, EnoughFacts
<1>7. R[Enough] = 0
  BY <1>5, <1>6
<1> QED
  BY <1>7 DEF R

(* The only digit that looks like 0 is 0.                                  *)
LEMMA DigitFacts ==
  ASSUME NEW ds \in {Lower, Upper}, NEW j \in 0 .. 15
  PROVE  ds[j + 1] \in Chars /\ (ds[j + 1] = "0" <=> j = 0)
<1>1. /\ Lower[0 + 1] = "0" /\ Lower[1 + 1] = "1" /\ Lower[2 + 1] = "2" /\ Lower[3 + 1] = "3"
      /\ Lower[4 + 1] = "4" /\ Lower[5 + 1] = "5" /\ Lower[6 + 1] = "6" /\ Lower[7 + 1] = "7"
      /\ Lower[8 + 1] = "8" /\ Lower[9 + 1] = "9" /\ Lower[10 + 1] = "a" /\ Lower[11 + 1] = "b"
      /\ Lower[12 + 1] = "c" /\ Lower[13 + 1] = "d" /\ Lower[14 + 1] = "e" /\ Lower[15 + 1] = "f"
      /\ DOMAIN Lower = 1 .. 16
  BY DEF Lower
<1>2. /\ Upper[0 + 1] = "0" /\ Upper[1 + 1] = "1" /\ Upper[2 + 1] = "2" /\ Upper[3 + 1] = "3"
      /\ Upper[4 + 1] = "4" /\ Upper[5 + 1] = "5" /\ Upper[6 + 1] = "6" /\ Upper[7 + 1] = "7"
      /\ Upper[8 + 1] = "8" /\ Upper[9 + 1] = "9" /\ Upper[10 + 1] = "A" /\ Upper[11 + 1] = "B"
      /\ Upper[12 + 1] = "C" /\ Upper[13 + 1] = "D" /\ Upper[14 + 1] = "E" /\ Upper[15 + 1] = "F"
      /\ DOMAIN Upper = 1 .. 16
  BY DEF Upper
<1>3. j \in {0, 1, 2, 3, 4, 5, 6, 7, 8, 9, 10, 11, 12, 13, 14, 15}
  OBVIOUS
<1>4. ds[j + 1] = "0" <=> j = 0
  <2>1. Lower[j + 1] = "0" <=> j = 0
    BY <1>1, <1>3
  <2>2. Upper[j + 1] = "0" <=> j = 0
    BY <1>2, <1>3
  <2> QED
    BY <2>1, <2>2
<1>5. ds[j + 1] \in Chars
  <2>1. j + 1 \in 1 .. 16
    OBVIOUS
  <2>2. Lower[j + 1] \in Range(Lower) /\ Upper[j + 1] \in Range(Upper)
    BY <1>1, <1>2, <2>1 DEF Range
  <2> QED
    BY <2>2, CharsAssumption
<1> QED
  BY <1>4, <1>5

(* The digits end where nothing is left.                                   *)
Ends(len, x, base) ==
  /\ len \in 1 .. Enough /\ Rests(x, base)[len] = 0
  /\ \A k \in 1 .. len - 1 : Rests(x, base)[k] # 0

(* The loop of npf_utoa_rev puts the digits up to where nothing is left.   *)
LEMMA RevIs ==
  ASSUME NEW x \in Nat, NEW base \in Bases, x < Pow2[LongBits]
  PROVE  \E len : /\ Ends(len, x, base)
                  /\ \A ds : Rev(x, base, ds)
                               = [k \in 1 .. len |-> ds[(Rests(x, base)[k - 1] % base) + 1]]
<1> DEFINE R == Rests(x, base)
           U == {k \in 1 .. LongBits : R[k] = 0}
<1>1. Enough \in U /\ Enough \in 1 .. LongBits
  BY RestsEnd, EnoughFacts
<1>2. PICK e \in U : \A k \in U : e <= k
  <2>1. U \subseteq Nat /\ U # {}
    BY <1>1
  <2> HIDE DEF U
  <2> QED
    BY <2>1, LeastNumber
<1>3. Min(U) = e
  <2>1. U \subseteq Int
    OBVIOUS
  <2> HIDE DEF U
  <2> QED
    BY <1>2, <2>1, MinIs
<1>4. e \in 1 .. Enough /\ R[e] = 0
  BY <1>1, <1>2, LongFacts
<1>5. ASSUME NEW k \in 1 .. e - 1
      PROVE  R[k] # 0
  <2>1. k \in 1 .. LongBits /\ ~(e <= k)
    BY <1>2, LongFacts
  <2> QED
    BY <1>2, <2>1
<1>6. Ends(e, x, base)
  BY <1>4, <1>5 DEF Ends
<1>7. \A ds : Rev(x, base, ds) = [k \in 1 .. e |-> ds[(Rests(x, base)[k - 1] % base) + 1]]
  BY <1>3 DEF Rev
<1> QED
  BY <1>6, <1>7

(* What is left of a quotient is what is left one digit later.             *)
LEMMA RestsShift ==
  ASSUME NEW x \in Nat, NEW base \in Bases
  PROVE  \A k \in 0 .. LongBits - 1 : Rests(x, base)[k + 1] = Rests(x \div base, base)[k]
<1> DEFINE R == Rests(x, base)
           y == x \div base
           Q == Rests(y, base)
           T == {k \in Nat : k \in 0 .. LongBits - 1 => R[k + 1] = Q[k]}
<1>0. y \in Nat /\ LongBits \in Nat \ {0}
  BY Divided, LongFacts
<1>1. R[0] = x /\ \A k \in 0 .. LongBits - 1 : R[k + 1] = R[k] \div base
  BY RestsRecursion
<1>2. Q[0] = y /\ \A k \in 0 .. LongBits - 1 : Q[k + 1] = Q[k] \div base
  <2> HIDE DEF y
  <2> QED
    BY <1>0, RestsRecursion
<1> HIDE DEF R, Q
<1>3. 0 \in T
  <2>1. 0 \in 0 .. LongBits - 1
    BY <1>0
  <2> QED
    BY <1>1, <1>2, <2>1
<1>4. ASSUME NEW k \in Nat, k \in T
      PROVE  k + 1 \in T
  <2> SUFFICES ASSUME k + 1 \in 0 .. LongBits - 1
               PROVE  R[(k + 1) + 1] = Q[k + 1]
    OBVIOUS
  <2>1. k \in 0 .. LongBits - 1
    BY <1>0
  <2> HIDE DEF y
  <2> QED
    BY <1>1, <1>2, <1>4, <2>1
<1>5. \A k \in Nat : k \in T
  <2> HIDE DEF T
  <2> QED
    BY <1>3, <1>4, AllNumbers
<1>6. \A k \in 0 .. LongBits - 1 : R[k + 1] = Q[k]
  BY <1>5
<1> QED
  BY <1>6 DEF R, Q, y

(* The digits from the first to the last.                                  *)
Forward(x, base, ds) == Reverse(Rev(x, base, ds))
Digit(x, base, ds, k) == ds[(Rests(x, base)[k] % base) + 1]

LEMMA DigitType ==
  ASSUME NEW x \in Nat, NEW base \in Bases, NEW ds \in {Lower, Upper}, NEW k \in 0 .. LongBits
  PROVE  /\ Digit(x, base, ds, k) \in Chars
         /\ Digit(x, base, ds, k) = "0" <=> Rests(x, base)[k] % base = 0
<1>1. Rests(x, base)[k] \in Nat
  BY RestsRecursion
<1>2. Rests(x, base)[k] % base \in 0 .. 15
  <2>1. Rests(x, base)[k] % base \in 0 .. base - 1
    BY <1>1, Divided
  <2>2. base = 8 \/ base = 10 \/ base = 16
    BY DEF Bases
  <2> QED
    BY <2>1, <2>2
<1> QED
  BY <1>2, DigitFacts DEF Digit

IsForward(len, x, base, ds) ==
  /\ Ends(len, x, base) /\ Len(Rev(x, base, ds)) = len /\ Rev(x, base, ds) \in Seq(Chars)
  /\ Forward(x, base, ds) \in Seq(Chars) /\ Len(Forward(x, base, ds)) = len
  /\ \A i \in 1 .. len : Forward(x, base, ds)[i] = Digit(x, base, ds, len - i)

(* Read forward, the digits begin with the one before nothing is left.     *)
LEMMA ForwardIs ==
  ASSUME NEW x \in Nat, NEW base \in Bases, NEW ds \in {Lower, Upper}, x < Pow2[LongBits]
  PROVE  \E len : IsForward(len, x, base, ds)
<1> DEFINE s == Rev(x, base, ds)
           t == Forward(x, base, ds)
<1>1. PICK len : Ends(len, x, base) /\ s = [k \in 1 .. len |-> Digit(x, base, ds, k - 1)]
  BY RevIs DEF Digit
<1>2. len \in Nat /\ len <= LongBits
  BY <1>1, EnoughFacts, LongFacts DEF Ends
<1>3. \A k \in 1 .. len : Digit(x, base, ds, k - 1) \in Chars
  <2>1. \A k \in 1 .. len : k - 1 \in 0 .. LongBits
    BY <1>2, LongFacts
  <2> QED
    BY <2>1, DigitType
<1>4. s \in Seq(Chars) /\ Len(s) = len
  BY <1>1, <1>2, <1>3
<1>5. t = [i \in 1 .. len |-> s[(len - i) + 1]]
  BY <1>4 DEF Forward, Reverse
<1>6. \A i \in 1 .. len : (len - i) + 1 \in 1 .. len /\ ((len - i) + 1) - 1 = len - i
  BY <1>2
<1>7. \A i \in 1 .. len :
        s[(len - i) + 1] = Digit(x, base, ds, len - i) /\ s[(len - i) + 1] \in Chars
  <2>1. \A k \in 1 .. len : s[k] = Digit(x, base, ds, k - 1)
    BY <1>1
  <2> HIDE DEF s
  <2> QED
    BY <1>3, <1>6, <2>1
<1>8. t \in Seq(Chars) /\ Len(t) = len /\ \A i \in 1 .. len : t[i] = Digit(x, base, ds, len - i)
  <2> HIDE DEF s, t
  <2>1. t \in [1 .. len -> Chars]
    BY <1>5, <1>7
  <2>2. \A i \in 1 .. len : t[i] = Digit(x, base, ds, len - i)
    BY <1>5, <1>7
  <2> QED
    BY <1>2, <2>1, <2>2
<1> QED
  BY <1>1, <1>4, <1>8 DEF IsForward

(* One digit less for a number divided.                                    *)
LEMMA ForwardStep ==
  ASSUME NEW x \in Nat, NEW base \in Bases, NEW ds \in {Lower, Upper}, x < Pow2[LongBits]
  PROVE  /\ x < base => Forward(x, base, ds) = <<ds[x + 1]>>
         /\ x >= base => Forward(x, base, ds) = Append(Forward(x \div base, base, ds), ds[(x % base) + 1])
         /\ x # 0 => Forward(x, base, ds)[1] # "0"
<1> DEFINE t == Forward(x, base, ds)
           y == x \div base
           R == Rests(x, base)
           Q == Rests(y, base)
<1>0. LongBits \in Nat \ {0} /\ Enough \in 1 .. LongBits
  BY LongFacts, EnoughFacts
<1>1. PICK len : /\ Ends(len, x, base) /\ t \in Seq(Chars) /\ Len(t) = len
                 /\ \A i \in 1 .. len : t[i] = Digit(x, base, ds, len - i)
  BY ForwardIs DEF IsForward
<1>2. len \in 1 .. LongBits /\ R[len] = 0 /\ \A k \in 1 .. len - 1 : R[k] # 0
  BY <1>0, <1>1 DEF Ends
<1>3. /\ R[0] = x /\ \A k \in 0 .. LongBits : R[k] \in Nat
      /\ \A k \in 0 .. LongBits - 1 : R[k + 1] = R[k] \div base
  BY RestsRecursion
<1>4. /\ y \in Nat /\ x % base \in 0 .. base - 1 /\ 8 * y <= x
      /\ x < base => y = 0 /\ x % base = x
      /\ x >= base => y # 0
  BY Divided
<1> HIDE DEF t, R
<1>5. x < base => t = <<ds[x + 1]>>
  <2> SUFFICES ASSUME x < base
               PROVE  t = <<ds[x + 1]>>
    OBVIOUS
  <2>1. R[0 + 1] = y
    BY <1>0, <1>3
  <2>2. len = 1
    <3>1. R[1] = 0
      BY <1>4, <2>1
    <3>2. ~(1 \in 1 .. len - 1)
      BY <1>2, <3>1
    <3> QED
      BY <1>2, <3>2
  <2>3. t[1] = Digit(x, base, ds, 0)
    BY <1>1, <2>2
  <2>4. Digit(x, base, ds, 0) = ds[x + 1]
    BY <1>3, <1>4 DEF Digit, R
  <2> QED
    BY <1>1, <2>2, <2>3, <2>4
<1>6. x # 0 => t[1] # "0"
  <2> SUFFICES ASSUME x # 0
               PROVE  t[1] # "0"
    OBVIOUS
  <2>1. /\ len - 1 \in 0 .. LongBits - 1 /\ len - 1 \in 0 .. LongBits /\ (len - 1) + 1 = len
        /\ 1 \in 1 .. len
    BY <1>0, <1>2
  <2>2. t[1] = Digit(x, base, ds, len - 1)
    BY <1>1, <2>1
  <2>3. R[len - 1] # 0 /\ R[len - 1] \in Nat
    <3>1. CASE len = 1
      BY <1>3, <2>1, <3>1
    <3>2. CASE len # 1
      <4>1. len - 1 \in 1 .. len - 1
        BY <1>2, <3>2
      <4> QED
        BY <1>2, <1>3, <2>1, <4>1
    <3> QED
      BY <3>1, <3>2
  <2>4. R[len] = R[len - 1] \div base
    BY <1>3, <2>1
  <2>5. R[len - 1] % base = R[len - 1]
    <3> DEFINE z == R[len - 1]
    <3>1. z \in Nat /\ z \div base = 0
      BY <1>2, <2>3, <2>4
    <3> HIDE DEF z
    <3>2. base \in Nat
      BY DEF Bases
    <3>3. z < base \/ z >= base
      BY <3>1, <3>2
    <3>4. z % base = z
      BY <3>1, <3>3, Divided
    <3> QED
      BY <3>4 DEF z
  <2>6. Digit(x, base, ds, len - 1) # "0"
    BY <2>1, <2>3, <2>5, DigitType DEF R
  <2> QED
    BY <2>2, <2>6
<1>7. x >= base => t = Append(Forward(y, base, ds), ds[(x % base) + 1])
  <2> SUFFICES ASSUME x >= base
               PROVE  t = Append(Forward(y, base, ds), ds[(x % base) + 1])
    OBVIOUS
  <2> DEFINE v == Forward(y, base, ds)
             w == Append(v, ds[(x % base) + 1])
  <2>1. y < Pow2[LongBits] /\ y \in Nat /\ y # 0
    <3>1. Pow2[LongBits] \in Nat
      BY <1>0, Pow2Next
    <3> HIDE DEF y
    <3> QED
      BY <1>4, <3>1
  <2>2. PICK m : /\ Ends(m, y, base) /\ v \in Seq(Chars) /\ Len(v) = m
                 /\ \A i \in 1 .. m : v[i] = Digit(y, base, ds, m - i)
    <3> HIDE DEF y
    <3>1. \E m : IsForward(m, y, base, ds)
      BY <2>1, ForwardIs
    <3> QED
      BY <3>1 DEF IsForward
  <2>3. m \in 1 .. LongBits /\ Q[m] = 0 /\ \A k \in 1 .. m - 1 : Q[k] # 0
    BY <1>0, <2>2 DEF Ends
  <2>4. \A k \in 0 .. LongBits - 1 : R[k + 1] = Q[k]
    BY RestsShift DEF R
  <2> HIDE DEF Q, y, v
  <2>5. Q[0] = y
    BY <2>1, RestsRecursion DEF Q
  <2>6. len = m + 1
    <3>1. len # 1
      <4>1. R[0 + 1] = Q[0]
        BY <1>0, <2>4
      <4> QED
        BY <1>2, <2>1, <2>5, <4>1
    <3>2. Q[len - 1] = 0
      <4>1. len - 1 \in 0 .. LongBits - 1 /\ (len - 1) + 1 = len
        BY <1>0, <1>2
      <4> QED
        BY <1>2, <2>4, <4>1
    <3>3. ~(len - 1 \in 1 .. m - 1)
      BY <2>3, <3>2
    <3>4. len - 1 >= m
      BY <1>2, <2>3, <3>1, <3>3
    <3>5. m \in 0 .. LongBits - 1
      BY <1>0, <1>2, <2>3, <3>4
    <3>6. R[m + 1] = 0
      BY <2>3, <2>4, <3>5
    <3>7. ~(m + 1 \in 1 .. len - 1)
      BY <1>2, <3>6
    <3> QED
      BY <1>2, <2>3, <3>4, <3>7
  <2>7. Digit(x, base, ds, 0) = ds[(x % base) + 1]
    BY <1>3 DEF Digit, R
  <2>8. ds[(x % base) + 1] \in Chars
    BY <1>0, <2>7, DigitType
  <2>9. /\ w \in Seq(Chars) /\ Len(w) = len /\ (\A i \in 1 .. m : w[i] = v[i])
        /\ w[len] = ds[(x % base) + 1]
    BY <2>2, <2>3, <2>6, <2>8
  <2>10. ASSUME NEW i \in 1 .. len
         PROVE  t[i] = w[i]
    <3>1. CASE i = len
      <4>1. t[i] = Digit(x, base, ds, 0)
        BY <1>1, <1>2, <3>1
      <4> QED
        BY <2>7, <2>9, <3>1, <4>1
    <3>2. CASE i # len
      <4>1. i \in 1 .. m /\ len - i = (m - i) + 1 /\ m - i \in 0 .. LongBits - 1
        BY <1>0, <1>2, <2>3, <2>6, <3>2
      <4>2. R[(m - i) + 1] = Q[m - i]
        BY <2>4, <4>1
      <4>3. Digit(x, base, ds, (m - i) + 1) = Digit(y, base, ds, m - i)
        BY <4>2 DEF Digit, R, Q
      <4>4. t[i] = Digit(x, base, ds, (m - i) + 1)
        BY <1>1, <4>1
      <4> QED
        BY <2>2, <2>9, <4>1, <4>3, <4>4
    <3> QED
      BY <3>1, <3>2
  <2> HIDE DEF w
  <2>11. t = w
    BY <1>1, <2>9, <2>10, SameSequence
  <2> QED
    BY <2>11 DEF w, v
<1> QED
  BY <1>5, <1>6, <1>7 DEF t

(* The loop's digits, reversed, are the numeral of the number.             *)
LEMMA NumeralIs ==
  ASSUME NEW x \in Nat, NEW base \in Bases, NEW ds \in {Lower, Upper}, x < Pow2[LongBits]
  PROVE  Numeral(x, base, ds) = Forward(x, base, ds)
<1> DEFINE D == 0 .. x
           Is(f) == f = [m \in D |-> IF m < base THEN <<ds[m + 1]>>
                                     ELSE Append(f[m \div base], ds[(m % base) + 1])]
           g == [m \in D |-> Forward(m, base, ds)]
           f == CHOOSE h : Is(h)
<1>0. Pow2[LongBits] \in Nat /\ base \in Nat
  BY LongFacts, Pow2Next DEF Bases
<1>1. \A m \in D : m \in Nat /\ m < Pow2[LongBits]
  BY <1>0
<1>2. \A m \in D : m >= base => m \div base \in D /\ m \div base < m /\ m \div base \in Nat
  <2> SUFFICES ASSUME NEW m \in D, m >= base
               PROVE  m \div base \in D /\ m \div base < m /\ m \div base \in Nat
    OBVIOUS
  <2>1. m \div base \in Nat /\ 8 * (m \div base) <= m /\ m # 0
    BY Divided DEF Bases
  <2> QED
    BY <2>1
<1>3. \A m \in D : /\ m < base => g[m] = <<ds[m + 1]>>
                   /\ ~(m < base) => g[m] = Append(g[m \div base], ds[(m % base) + 1])
  <2> SUFFICES ASSUME NEW m \in D
               PROVE  /\ m < base => g[m] = <<ds[m + 1]>>
                      /\ ~(m < base) => g[m] = Append(g[m \div base], ds[(m % base) + 1])
    OBVIOUS
  <2>1. m \in Nat /\ m < Pow2[LongBits] /\ (~(m < base) <=> m >= base)
    BY <1>0, <1>1
  <2>2. /\ m < base => Forward(m, base, ds) = <<ds[m + 1]>>
        /\ m >= base => Forward(m, base, ds) = Append(Forward(m \div base, base, ds), ds[(m % base) + 1])
    BY <2>1, ForwardStep
  <2>3. m >= base => m \div base \in D
    BY <1>2
  <2> QED
    BY <2>1, <2>2, <2>3
<1>4. Is(g)
  <2> HIDE DEF D
  <2>1. g = [m \in D |-> g[m]]
    OBVIOUS
  <2> HIDE DEF g
  <2> QED
    BY <1>3, <2>1
<1>5. Is(f)
  <2> HIDE DEF Is, g
  <2> QED
    BY <1>4
<1> HIDE DEF f, g
<1>6. \A m \in D :
        f[m] = IF m < base THEN <<ds[m + 1]>> ELSE Append(f[m \div base], ds[(m % base) + 1])
  <2> HIDE DEF D
  <2> QED
    BY <1>5
<1>7. \A k \in Nat : \A m \in D : m <= k => f[m] = g[m]
  <2> DEFINE T == {k \in Nat : \A m \in D : m <= k => f[m] = g[m]}
  <2>0. 0 < base
    BY DEF Bases
  <2>1. 0 \in T
    <3> SUFFICES ASSUME NEW m \in D, m <= 0
                 PROVE  f[m] = g[m]
      OBVIOUS
    <3>1. m < base
      BY <2>0
    <3> QED
      BY <1>3, <1>6, <3>1
  <2>2. ASSUME NEW k \in Nat, k \in T
        PROVE  k + 1 \in T
    <3> SUFFICES ASSUME NEW m \in D, m <= k + 1
                 PROVE  f[m] = g[m]
      OBVIOUS
    <3>1. CASE m < base
      BY <1>3, <1>6, <3>1
    <3>2. CASE ~(m < base)
      <4>1. m \div base \in D /\ m \div base < m /\ m \div base \in Nat
        BY <1>0, <1>2, <3>2
      <4>2. m \div base <= k
        BY <4>1
      <4>3. f[m \div base] = g[m \div base]
        BY <2>2, <4>1, <4>2
      <4> QED
        BY <1>3, <1>6, <3>2, <4>3
    <3> QED
      BY <3>1, <3>2
  <2>3. \A k \in Nat : k \in T
    <3> HIDE DEF T
    <3> QED
      BY <2>1, <2>2, AllNumbers
  <2> QED
    BY <2>3
<1>8. Numeral(x, base, ds) = f[x]
  BY DEF Numeral, f
<1>9. x \in D /\ x \in Nat /\ x <= x
  OBVIOUS
<1>10. g[x] = Forward(x, base, ds)
  BY <1>9 DEF g
<1> QED
  BY <1>7, <1>8, <1>9, <1>10

-----------------------------------------------------------------------------
(* Format: what a conversion puts into cbuf.                               *)

(* The integer types fit into a long.                                      *)
LEMMA BitsFacts ==
  ASSUME NEW p
  PROVE  CBits(p) \in Nat \ {0} /\ CBits(p) <= LongBits
<1>1. CBits(p) \in {CharBits, ShortBits, IntBits, LongBits}
  BY DEF CBits
<1> QED
  BY <1>1, WidthsAssumption

LEMMA Modulo ==
  ASSUME NEW x \in Int, NEW d \in Nat \ {0}
  PROVE  x % d \in 0 .. d - 1
OBVIOUS

(* So do the argument as C takes it, and its magnitude.                    *)
LEMMA ValueFacts ==
  ASSUME NEW x \in Int, NEW b \in Nat \ {0}, b <= LongBits
  PROVE  /\ AsUnsigned(x, b) \in Nat /\ AsUnsigned(x, b) < Pow2[LongBits]
         /\ AsSigned(x, b) \in Int
         /\ Magnitude(AsSigned(x, b)) \in Nat /\ Magnitude(AsSigned(x, b)) < Pow2[LongBits]
<1> DEFINE w == Pow2[b]
           h == Pow2[b - 1]
           l == Pow2[LongBits]
<1>1. w \in Nat \ {0} /\ h \in Nat \ {0} /\ w = 2 * h /\ l \in Nat
  <2>1. b - 1 \in Nat /\ (b - 1) + 1 = b /\ LongBits \in Nat
    BY LongFacts
  <2>2. Pow2[(b - 1) + 1] = 2 * Pow2[b - 1] /\ Pow2[b - 1] \in Nat \ {0} /\ Pow2[b] \in Nat \ {0}
    BY <2>1, Pow2Next
  <2> QED
    BY <2>1, <2>2, Pow2Next
<1>2. w <= l
  <2>1. CASE b = LongBits
    BY <1>1, <2>1
  <2>2. CASE b # LongBits
    <3>1. b < LongBits /\ LongBits \in Nat
      BY <2>2, LongFacts
    <3>2. w < l
      BY <3>1, Pow2Less
    <3> QED
      BY <1>1, <3>2
  <2> QED
    BY <2>1, <2>2
<1> HIDE DEF w, h, l
<1>3. x % w \in 0 .. w - 1
  BY <1>1, Modulo
<1>4. (x + h) % w \in 0 .. w - 1
  <2>1. x + h \in Int
    BY <1>1
  <2> QED
    BY <1>1, <2>1, Modulo
<1>5. AsUnsigned(x, b) = x % w /\ AsSigned(x, b) = ((x + h) % w) - h
  BY DEF AsUnsigned, AsSigned, w, h
<1>6. AsUnsigned(x, b) \in Nat /\ AsUnsigned(x, b) < l
  BY <1>1, <1>2, <1>3, <1>5
<1>7. AsSigned(x, b) \in Int /\ Magnitude(AsSigned(x, b)) \in Nat /\ Magnitude(AsSigned(x, b)) < l
  <2> DEFINE m == (x + h) % w
  <2>1. m \in 0 .. w - 1 /\ AsSigned(x, b) = m - h
    BY <1>4, <1>5
  <2> HIDE DEF m
  <2>2. m - h \in Int /\ m - h < l /\ -(m - h) < l
    BY <1>1, <1>2, <2>1
  <2> QED
    BY <2>1, <2>2 DEF Magnitude
<1> QED
  BY <1>6, <1>7 DEF l

(* The number whose digits a conversion shows, their base and their shape. *)
ValueOf(p) ==
  IF p.conv \in Signed THEN Magnitude(AsSigned(p.arg.int, CBits(p)))
  ELSE IF p.conv = "p" THEN AsUnsigned(p.arg.int, LongBits)
  ELSE AsUnsigned(p.arg.int, CBits(p))
BaseOf(p)  == IF p.conv = "p" THEN 16 ELSE Base(p.conv)
ShapeOf(p) == IF p.conv = "X" THEN Upper ELSE Lower
Numeric == Signed \cup Unsigned \cup {"p"}

(* The number whose digits a conversion prints, and their base.            *)
LEMMA NumericFacts ==
  ASSUME NEW p \in Piece
  PROVE  /\ ValueOf(p) \in Nat /\ ValueOf(p) < Pow2[LongBits]
         /\ p.conv \in Numeric => BaseOf(p) \in Bases
         /\ ShapeOf(p) \in {Lower, Upper}
         /\ p.conv \in Signed => BaseOf(p) = 10 /\ ShapeOf(p) = Lower
<1>1. p.arg.int \in Int
  BY DEF Piece, Arg
<1>2. CBits(p) \in Nat \ {0} /\ CBits(p) <= LongBits /\ LongBits \in Nat \ {0}
  BY BitsFacts, LongFacts
<1>3. ValueOf(p) \in Nat /\ ValueOf(p) < Pow2[LongBits]
  <2>1. /\ AsUnsigned(p.arg.int, CBits(p)) \in Nat
        /\ AsUnsigned(p.arg.int, CBits(p)) < Pow2[LongBits]
        /\ Magnitude(AsSigned(p.arg.int, CBits(p))) \in Nat
        /\ Magnitude(AsSigned(p.arg.int, CBits(p))) < Pow2[LongBits]
    BY <1>1, <1>2, ValueFacts
  <2>2. AsUnsigned(p.arg.int, LongBits) \in Nat /\ AsUnsigned(p.arg.int, LongBits) < Pow2[LongBits]
    <3>1. LongBits <= LongBits
      BY <1>2
    <3> QED
      BY <1>1, <1>2, <3>1, ValueFacts
  <2> QED
    BY <2>1, <2>2 DEF ValueOf
<1>4. BaseOf(p) \in {8, 10, 16}
  BY DEF BaseOf, Base
<1>5. p.conv \in Signed => BaseOf(p) = 10 /\ ShapeOf(p) = Lower
  BY DEF Signed, BaseOf, Base, ShapeOf
<1> QED
  BY <1>3, <1>4, <1>5 DEF Bases, ShapeOf

(* The reverse of a sequence, and of two put together.                     *)
LEMMA ReverseIs ==
  ASSUME NEW S, NEW a \in Seq(S)
  PROVE  /\ Reverse(a) \in Seq(S) /\ Len(Reverse(a)) = Len(a)
         /\ \A i \in 1 .. Len(a) : Reverse(a)[i] = a[(Len(a) - i) + 1]
<1>1. \A i \in 1 .. Len(a) : (Len(a) - i) + 1 \in 1 .. Len(a) /\ a[(Len(a) - i) + 1] \in S
  <2>1. \A i \in 1 .. Len(a) : (Len(a) - i) + 1 \in 1 .. Len(a)
    OBVIOUS
  <2> QED
    BY <2>1
<1>2. Reverse(a) \in [1 .. Len(a) -> S]
  BY <1>1 DEF Reverse
<1>3. Len(a) \in Nat
  OBVIOUS
<1>4. \A i \in 1 .. Len(a) : Reverse(a)[i] = a[(Len(a) - i) + 1]
  BY DEF Reverse
<1> QED
  BY <1>2, <1>3, <1>4

LEMMA TogetherAt ==
  ASSUME NEW S, NEW a \in Seq(S), NEW b \in Seq(S)
  PROVE  /\ \A i \in 1 .. Len(a) : (a \o b)[i] = a[i]
         /\ \A i \in 1 .. Len(b) : (a \o b)[Len(a) + i] = b[i]
OBVIOUS

LEMMA ReverseTogether ==
  ASSUME NEW S, NEW a \in Seq(S), NEW b \in Seq(S)
  PROVE  Reverse(a \o b) = Reverse(b) \o Reverse(a)
<1> DEFINE c == a \o b
           u == Reverse(b)
           v == Reverse(a)
           r == Reverse(c)
           n1 == Len(a)
           n2 == Len(b)
<1>1. c \in Seq(S) /\ Len(c) = n1 + n2 /\ n1 \in Nat /\ n2 \in Nat
  OBVIOUS
<1>2. \A i \in 1 .. n1 : c[i] = a[i]
  OBVIOUS
<1>3. \A i \in 1 .. n2 : c[n1 + i] = b[i]
  OBVIOUS
<1>4. u \in Seq(S) /\ Len(u) = n2 /\ \A i \in 1 .. n2 : u[i] = b[(n2 - i) + 1]
  BY ReverseIs
<1>5. v \in Seq(S) /\ Len(v) = n1 /\ \A i \in 1 .. n1 : v[i] = a[(n1 - i) + 1]
  BY ReverseIs
<1>6. r \in Seq(S) /\ Len(r) = n1 + n2 /\ \A i \in 1 .. n1 + n2 : r[i] = c[((n1 + n2) - i) + 1]
  <2> HIDE DEF c, n1, n2
  <2>1. r \in Seq(S) /\ Len(r) = Len(c) /\ \A i \in 1 .. Len(c) : r[i] = c[(Len(c) - i) + 1]
    BY <1>1, ReverseIs
  <2> QED
    BY <1>1, <2>1
<1> HIDE DEF c, u, v, r, n1, n2
<1>7. u \o v \in Seq(S) /\ Len(u \o v) = n2 + n1
  BY <1>4, <1>5, Together
<1>8. ASSUME NEW i \in 1 .. n1 + n2
      PROVE  r[i] = (u \o v)[i]
  <2>1. CASE i <= n2
    <3>1. i \in 1 .. n2 /\ (n2 - i) + 1 \in 1 .. n2 /\ ((n1 + n2) - i) + 1 = n1 + ((n2 - i) + 1)
      BY <1>1, <2>1
    <3>2. (u \o v)[i] = u[i]
      BY <1>4, <1>5, <3>1
    <3>3. r[i] = b[(n2 - i) + 1]
      BY <1>3, <1>6, <3>1
    <3> QED
      BY <1>4, <3>1, <3>2, <3>3
  <2>2. CASE i > n2
    <3> DEFINE j == i - n2
    <3>1. /\ j \in 1 .. n1 /\ i = n2 + j /\ ((n1 + n2) - i) + 1 = (n1 - j) + 1
          /\ (n1 - j) + 1 \in 1 .. n1
      BY <1>1, <2>2
    <3> HIDE DEF j
    <3>2. (u \o v)[n2 + j] = v[j]
      <4>1. u \in Seq(S) /\ v \in Seq(S) /\ j \in 1 .. Len(v) /\ Len(u) = n2
        BY <1>4, <1>5, <3>1
      <4>2. (u \o v)[Len(u) + j] = v[j]
        BY <4>1, TogetherAt
      <4> QED
        BY <4>1, <4>2
    <3>3. r[i] = a[(n1 - j) + 1]
      BY <1>2, <1>6, <3>1
    <3> QED
      BY <1>5, <3>1, <3>2, <3>3
  <2>3. i <= n2 \/ i > n2
    BY <1>1
  <2> QED
    BY <2>1, <2>2, <2>3
<1>9. Len(r) = Len(u \o v) /\ \A i \in 1 .. Len(r) : r[i] = (u \o v)[i]
  <2>1. Len(r) = n1 + n2 /\ Len(u \o v) = n1 + n2
    BY <1>1, <1>6, <1>7
  <2> QED
    BY <1>8, <2>1
<1>10. r = u \o v
  BY <1>6, <1>7, <1>9, SameSequence
<1> QED
  BY <1>10 DEF r, u, v, c

(* What is put for a precision of 0 and a value of 0, the octal zero, and  *)
(* the digits between.                                                     *)
Exact(p)   == p.prec.given /\ p.prec.n >= 0
Nothing(p) == p.conv # "p" /\ ValueOf(p) = 0 /\ Exact(p) /\ p.prec.n = 0
Leads(p)   == p.conv = "o" /\ ValueOf(p) # 0 /\ Has(p, "#")
Lead(p)    == IF Leads(p) THEN <<"0">> ELSE <<>>
Plain(p)   == IF Nothing(p) THEN <<>> ELSE Forward(ValueOf(p), BaseOf(p), ShapeOf(p))
Reversed(p) == IF Nothing(p) THEN <<>> ELSE Rev(ValueOf(p), BaseOf(p), ShapeOf(p))

(* The fields of the specification whose stars have been replaced.         *)
LEMMA FinalFields ==
  ASSUME NEW p, NEW e
  PROVE  /\ Final(p, e).conv = p.conv /\ Final(p, e).bits = CBits(p) /\ Final(p, e).prec = p.prec.n
         /\ Final(p, e).alt = Has(p, "#") /\ Final(p, e).zero = ZeroOf(p)
         /\ Final(p, e).prepend = PrependOf(p)
         /\ Final(p, e).left = (Has(p, "-") \/ p.width.n < 0)
         /\ Final(p, e).width = Magnitude(p.width.n)
         /\ Final(p, e).prec_opt = IF Exact(p) THEN "literal" ELSE "none"
         /\ Final(p, e).width_opt = IF p.width.given THEN "literal" ELSE "none"
         /\ Final(p, e).next = e
BY DEF Final, Exact

(* What a number puts into cbuf: its digits, last to first, and the octal  *)
(* zero.                                                                   *)
LEMMA CbufIs ==
  ASSUME NEW p \in Piece, p.conv \in Numeric, NEW e
  PROVE  /\ Cbuf(Final(p, e), p.arg) = Reversed(p) \o Lead(p)
         /\ Reversed(p) \in Seq(Chars) /\ Len(Reversed(p)) <= Enough
         /\ Plain(p) = Reverse(Reversed(p)) /\ Plain(p) \in Seq(Chars)
         /\ Lead(p) \in Seq(Chars) /\ Len(Lead(p)) <= 1
<1> DEFINE F == Final(p, e)
           a == p.arg
           x == ValueOf(p)
           none == F.prec_opt = "literal" /\ F.prec = 0
<1>1. F.conv = p.conv /\ F.bits = CBits(p) /\ F.alt = Has(p, "#")
  BY FinalFields
<1>2. none <=> Exact(p) /\ p.prec.n = 0
  BY FinalFields
<1>3. /\ ValueOf(p) \in Nat /\ ValueOf(p) < Pow2[LongBits] /\ BaseOf(p) \in Bases
      /\ ShapeOf(p) \in {Lower, Upper}
  BY NumericFacts
<1>4. Reversed(p) \in Seq(Chars) /\ Len(Reversed(p)) <= Enough
  <2>1. \E len : IsForward(len, ValueOf(p), BaseOf(p), ShapeOf(p))
    BY <1>3, ForwardIs
  <2>2. Enough \in Nat
    BY EnoughFacts, LongFacts
  <2>3. <<>> \in Seq(Chars) /\ Len(<<>>) = 0
    OBVIOUS
  <2> QED
    BY <2>1, <2>2, <2>3 DEF IsForward, Ends, Reversed
<1>5. Plain(p) = Reverse(Reversed(p))
  <2>1. Reverse(<<>>) = <<>>
    BY DEF Reverse
  <2> QED
    BY <2>1 DEF Plain, Reversed, Forward
<1>6. Plain(p) \in Seq(Chars)
  BY <1>4, <1>5, ReverseIs
<1>7. Lead(p) \in Seq(Chars) /\ Len(Lead(p)) <= 1
  <2>1. "0" \in Chars
    BY CharsAssumption DEF FlagChars
  <2>2. <<"0">> \in Seq(Chars) /\ Len(<<"0">>) = 1 /\ <<>> \in Seq(Chars) /\ Len(<<>>) = 0
    BY <2>1
  <2> QED
    BY <2>2 DEF Lead
<1>8. \A t \in Seq(Chars) : t \o <<>> = t
  OBVIOUS
<1> HIDE DEF F, none
<1>9. CASE p.conv \in Signed
  <2> DEFINE s == AsSigned(a.int, CBits(p))
  <2>1. x = Magnitude(s) /\ BaseOf(p) = 10 /\ ShapeOf(p) = Lower
    BY <1>9, NumericFacts DEF ValueOf
  <2>2. s \in Int
    <3>1. a.int \in Int
      BY DEF Piece, Arg
    <3> QED
      BY <3>1, BitsFacts, ValueFacts
  <2>3. p.conv \notin {"%", "c", "s", "p", "o"} /\ p.conv \notin Unsigned
    BY <1>9 DEF Signed, Unsigned
  <2> HIDE DEF s
  <2>4. (x = 0 <=> s = 0) /\ x = IF s < 0 THEN -s ELSE s
    BY <2>1, <2>2 DEF Magnitude
  <2>5. Cbuf(F, a) = IF s = 0 /\ none THEN <<>> ELSE npf_itoa_rev(s)
    BY <1>1, <1>9, <2>3 DEF Cbuf, s, none
  <2>6. npf_itoa_rev(s) = Rev(x, 10, Lower)
    BY <2>4 DEF npf_itoa_rev
  <2>7. Nothing(p) <=> s = 0 /\ none
    BY <1>2, <2>3, <2>4 DEF Nothing
  <2>8. Cbuf(F, a) = Reversed(p)
    BY <2>1, <2>5, <2>6, <2>7 DEF Reversed
  <2>9. Lead(p) = <<>>
    BY <2>3 DEF Lead, Leads
  <2>10. Cbuf(F, a) = Reversed(p) \o Lead(p)
    BY <1>4, <1>8, <2>8, <2>9
  <2> QED
    BY <1>4, <1>5, <1>6, <1>7, <2>10 DEF F
<1>10. CASE p.conv \in Unsigned
  <2>1. p.conv \notin {"%", "c", "s", "p"} /\ p.conv \notin Signed
    BY <1>10 DEF Signed, Unsigned
  <2>2. x = AsUnsigned(a.int, CBits(p)) /\ BaseOf(p) = Base(p.conv)
    BY <2>1 DEF ValueOf, BaseOf
  <2>3. Cbuf(F, a) = (IF x = 0 /\ none THEN <<>>
                      ELSE npf_utoa_rev(x, Base(p.conv), IF p.conv = "X" THEN Upper ELSE Lower))
                     \o (IF OctalZero(F, x) THEN <<"0">> ELSE <<>>)
    BY <1>1, <1>10, <2>1, <2>2 DEF Cbuf, none
  <2>4. OctalZero(F, x) <=> Leads(p)
    BY <1>1 DEF OctalZero, Leads
  <2>5. Nothing(p) <=> x = 0 /\ none
    BY <1>2, <2>1 DEF Nothing
  <2>6. npf_utoa_rev(x, Base(p.conv), IF p.conv = "X" THEN Upper ELSE Lower)
          = Rev(x, BaseOf(p), ShapeOf(p))
    BY <2>2 DEF npf_utoa_rev, ShapeOf
  <2>7. Cbuf(F, a) = Reversed(p) \o Lead(p)
    BY <2>3, <2>4, <2>5, <2>6 DEF Reversed, Lead
  <2> QED
    BY <1>4, <1>5, <1>6, <1>7, <2>7 DEF F
<1>11. CASE p.conv = "p"
  <2>1. x = AsUnsigned(a.int, LongBits) /\ BaseOf(p) = 16 /\ ShapeOf(p) = Lower
    BY <1>11 DEF ValueOf, BaseOf, ShapeOf, Signed
  <2>2. Cbuf(F, a) = npf_utoa_rev(x, 16, Lower)
    <3>1. p.conv \notin Signed /\ p.conv \notin Unsigned /\ p.conv \notin {"%", "c", "s"}
      BY <1>11 DEF Signed, Unsigned
    <3> QED
      BY <1>1, <1>11, <2>1, <3>1 DEF Cbuf
  <2>3. ~Nothing(p) /\ Lead(p) = <<>>
    BY <1>11 DEF Nothing, Lead, Leads
  <2>4. Cbuf(F, a) = Reversed(p)
    BY <2>1, <2>2, <2>3 DEF npf_utoa_rev, Reversed
  <2>5. Cbuf(F, a) = Reversed(p) \o Lead(p)
    BY <1>4, <1>8, <2>3, <2>4
  <2> QED
    BY <1>4, <1>5, <1>6, <1>7, <2>5 DEF F
<1> QED
  BY <1>9, <1>10, <1>11 DEF Numeric

-----------------------------------------------------------------------------
(* Format: the digits of a conversion are C's.                             *)

(* What is put n times.                                                    *)
LEMMA PutFacts ==
  ASSUME NEW c \in Chars, NEW m \in Int
  PROVE  /\ Put(c, m) \in Seq(Chars)
         /\ (m <= 0 => Put(c, m) = <<>>) /\ (m > 0 => Len(Put(c, m)) = m)
         /\ (m > 0 => Put(c, m)[1] = c /\ Put(c, m) = Put(c, m - 1) \o <<c>>)
         /\ Put(c, npf_max(0, m)) = Put(c, m)
<1>1. CASE m <= 0
  <2>1. ~(m > 0) /\ ~(0 > 0) /\ npf_max(0, m) = 0
    BY <1>1 DEF npf_max
  <2>2. <<>> \in Seq(Chars)
    OBVIOUS
  <2> QED
    BY <1>1, <2>1, <2>2 DEF Put
<1>2. CASE m > 0
  <2> DEFINE s == [i \in 1 .. m |-> c]
             r == Put(c, m - 1)
             d == <<c>>
  <2>1. s \in Seq(Chars) /\ Len(s) = m /\ s[1] = c /\ \A i \in 1 .. m : s[i] = c
    BY <1>2
  <2>2. Put(c, m) = s /\ npf_max(0, m) = m
    BY <1>2 DEF Put, npf_max
  <2>3. r \in Seq(Chars) /\ Len(r) = m - 1 /\ \A i \in 1 .. m - 1 : r[i] = c
    <3>1. CASE m - 1 > 0
      BY <1>2, <3>1 DEF Put
    <3>2. CASE ~(m - 1 > 0)
      <4>1. m - 1 = 0 /\ r = <<>>
        BY <1>2, <3>2 DEF Put
      <4>2. <<>> \in Seq(Chars) /\ Len(<<>>) = 0
        OBVIOUS
      <4> HIDE DEF r
      <4> QED
        BY <4>1, <4>2
    <3> QED
      BY <3>1, <3>2
  <2>4. d \in Seq(Chars) /\ Len(d) = 1 /\ d[1] = c
    OBVIOUS
  <2> HIDE DEF s, r, d
  <2>5. r \o d \in Seq(Chars) /\ Len(r \o d) = (m - 1) + 1
    BY <2>3, <2>4, Together
  <2>6. ASSUME NEW i \in 1 .. m
        PROVE  (r \o d)[i] = c
    <3>1. CASE i \in 1 .. m - 1
      BY <2>3, <2>4, <3>1, TogetherAt
    <3>2. CASE i = m
      <4>1. 1 \in 1 .. Len(d) /\ Len(r) + 1 = m
        BY <2>3, <2>4, <3>2
      <4>2. (r \o d)[Len(r) + 1] = d[1]
        BY <2>3, <2>4, <4>1, TogetherAt
      <4> QED
        BY <2>4, <3>2, <4>1, <4>2
    <3>3. i \in 1 .. m - 1 \/ i = m
      OBVIOUS
    <3> QED
      BY <3>1, <3>2, <3>3
  <2>7. Len(s) = Len(r \o d) /\ \A i \in 1 .. Len(s) : s[i] = (r \o d)[i]
    BY <2>1, <2>5, <2>6
  <2>8. s = r \o d
    BY <2>1, <2>5, <2>7, SameSequence
  <2> QED
    BY <1>2, <2>1, <2>2, <2>8 DEF r, d
<1> QED
  BY <1>1, <1>2

LEMMA ZeroChar == /\ "0" \in Chars /\ " " \in Chars /\ "-" \in Chars /\ "+" \in Chars
                  /\ "x" \in Chars /\ "X" \in Chars
BY CharsAssumption DEF FlagChars, Conversions, Unsigned

(* The parts of a piece: a precision that is not Exact is none, and what   *)
(* is negative is a star.                                                  *)
LEMMA PrecFacts ==
  ASSUME NEW p \in Piece, IsConversion(p)
  PROVE  /\ p.prec.n \in Int /\ p.prec.given \in BOOLEAN /\ Exact(p) \in BOOLEAN
         /\ ~Exact(p) => p.prec.n <= 0
         /\ Exact(p) => p.prec.n \in Nat
         /\ ~p.prec.given => p.prec.n = 0
         /\ p.width.n \in Int /\ p.width.given \in BOOLEAN /\ (~p.width.given => p.width.n = 0)
         /\ p.width.n < 0 => p.width.star # <<>>
         /\ p.prec.n < 0 => p.prec.star # <<>>
<1>1. IsPart(p.prec) /\ IsPart(p.width)
  BY PartsOf
<1>2. \A y : <<y>> # <<>>
  OBVIOUS
<1>3. ASSUME NEW q, IsPart(q)
      PROVE  /\ q.n \in Int /\ q.given \in BOOLEAN /\ (q.given = FALSE => q.n = 0)
             /\ q.n < 0 => q.star # <<>>
  <2>0. \A y \in Nat : y \in Int /\ ~(y < 0)
    OBVIOUS
  <2>1. CASE q.star = <<>> /\ q.n \in Nat /\ q.given = FALSE /\ q.n = 0
    <3>1. q.n \in Int /\ ~(q.n < 0)
      BY <2>0, <2>1, Zenon
    <3> QED
      BY <2>1, <3>1, Zenon
  <2>2. CASE q.star = <<>> /\ q.n \in Nat /\ q.given = TRUE
    <3>1. q.n \in Int /\ ~(q.n < 0)
      BY <2>0, <2>2, Zenon
    <3>2. q.given \in BOOLEAN /\ q.given # FALSE
      BY <2>2
    <3> QED
      BY <3>1, <3>2, Zenon
  <2>3. CASE q.star = <<IntArg(q.n)>> /\ q.n \in Int /\ q.given = TRUE
    <3>1. q.star # <<>>
      BY <1>2, <2>3
    <3> QED
      BY <2>3, <3>1
  <2> QED
    BY <1>3, <2>1, <2>2, <2>3 DEF IsPart
<1>4. /\ p.prec.n \in Int /\ p.prec.given \in BOOLEAN /\ (p.prec.given = FALSE => p.prec.n = 0)
      /\ p.prec.n < 0 => p.prec.star # <<>>
  BY <1>1, <1>3
<1>5. /\ p.width.n \in Int /\ p.width.given \in BOOLEAN /\ (p.width.given = FALSE => p.width.n = 0)
      /\ p.width.n < 0 => p.width.star # <<>>
  BY <1>1, <1>3
<1> QED
  BY <1>4, <1>5 DEF Exact

(* The digits of cbuf as they are put.                                     *)
LEMMA PayloadIs ==
  ASSUME NEW p \in Piece, p.conv \in Numeric, NEW e
  PROVE  /\ Payload(Final(p, e), p.arg) = Put("0", PrecPad(Final(p, e), p.arg)) \o (Lead(p) \o Plain(p))
         /\ Len(Cbuf(Final(p, e), p.arg)) = Len(Plain(p)) + Len(Lead(p))
         /\ Plain(p) \in Seq(Chars) /\ Lead(p) \in Seq(Chars)
<1> DEFINE b == Reversed(p)
           l == Lead(p)
           cb == Cbuf(Final(p, e), p.arg)
<1>1. /\ cb = b \o l /\ b \in Seq(Chars) /\ l \in Seq(Chars) /\ Plain(p) = Reverse(b)
      /\ Plain(p) \in Seq(Chars)
  BY CbufIs
<1>2. Reverse(l) = l
  <2>1. Reverse(<<>>) = <<>>
    BY DEF Reverse
  <2>2. Reverse(<<"0">>) = <<"0">>
    <3>1. <<"0">> \in Seq(Chars) /\ Len(<<"0">>) = 1 /\ <<"0">>[1] = "0"
      <4>1. \A c \in Chars : <<c>> \in Seq(Chars) /\ Len(<<c>>) = 1 /\ <<c>>[1] = c
        OBVIOUS
      <4> QED
        BY <4>1, ZeroChar
    <3> DEFINE z == <<"0">>
    <3> HIDE DEF z
    <3>2. z \in Seq(Chars) /\ Len(z) = 1
      BY <3>1 DEF z
    <3>3. /\ Reverse(z) \in Seq(Chars) /\ Len(Reverse(z)) = Len(z)
          /\ \A i \in 1 .. Len(z) : Reverse(z)[i] = z[(Len(z) - i) + 1]
      BY <3>2, ReverseIs
    <3>4. \A i \in 1 .. Len(z) : Reverse(z)[i] = z[i]
      BY <3>2, <3>3
    <3>5. Reverse(z) = z
      BY <3>2, <3>3, <3>4, SameSequence
    <3> QED
      BY <3>5 DEF z
  <2> QED
    BY <2>1, <2>2 DEF Lead
<1> HIDE DEF b, l, cb
<1>3. Reverse(cb) = l \o Plain(p)
  <2>1. Reverse(b \o l) = Reverse(l) \o Reverse(b)
    BY <1>1, ReverseTogether
  <2> QED
    BY <1>1, <1>2, <2>1
<1>4. Len(cb) = Len(Plain(p)) + Len(l)
  <2>1. Len(b \o l) = Len(b) + Len(l) /\ Len(b) \in Nat /\ Len(l) \in Nat
    BY <1>1, Together
  <2>2. Len(Reverse(b)) = Len(b)
    BY <1>1, ReverseIs
  <2> QED
    BY <1>1, <2>1, <2>2
<1>5. Final(p, e).conv # "s"
  <2>1. p.conv # "s"
    BY DEF Numeric, Signed, Unsigned
  <2> QED
    BY <2>1, FinalFields
<1>6. Payload(Final(p, e), p.arg) = Put("0", PrecPad(Final(p, e), p.arg)) \o Reverse(cb)
  BY <1>5 DEF Payload, cb
<1> QED
  BY <1>1, <1>3, <1>4, <1>6 DEF l, cb

LEMMA HeadFacts ==
  ASSUME NEW S, NEW a \in Seq(S), NEW b \in Seq(S), a # <<>>
  PROVE  Head(a \o b) = a[1] /\ a \o b # <<>> /\ Head(a) = a[1]
<1>1. Len(a) \in Nat /\ Len(a) # 0
  OBVIOUS
<1>2. Len(a \o b) = Len(a) + Len(b) /\ Len(b) \in Nat /\ a \o b \in Seq(S)
  BY Together
<1>3. 1 \in 1 .. Len(a)
  BY <1>1
<1>4. (a \o b)[1] = a[1]
  BY <1>3, TogetherAt
<1> DEFINE c == a \o b
<1>5. Len(c) # 0
  BY <1>1, <1>2
<1>6. c # <<>> /\ Head(c) = c[1]
  <2> HIDE DEF c
  <2>1. c # <<>>
    BY <1>5
  <2> QED
    BY <2>1
<1> QED
  BY <1>4, <1>6

(* The digits of a number are C's numeral, and none where C has none.      *)
LEMMA PlainIs ==
  ASSUME NEW p \in Piece, p.conv \in Numeric
  PROVE  /\ Plain(p) \in Seq(Chars)
         /\ Nothing(p) => Plain(p) = <<>> /\ ValueOf(p) = 0
         /\ ValueOf(p) = 0 /\ ~Nothing(p) => Plain(p) = <<"0">>
         /\ ValueOf(p) # 0 => Plain(p) # <<>> /\ Plain(p)[1] # "0" /\ Len(Plain(p)) \in Nat \ {0}
         /\ ~Nothing(p) => Plain(p) = Numeral(ValueOf(p), BaseOf(p), ShapeOf(p))
<1>1. /\ ValueOf(p) \in Nat /\ ValueOf(p) < Pow2[LongBits] /\ BaseOf(p) \in Bases
      /\ ShapeOf(p) \in {Lower, Upper}
  BY NumericFacts
<1>2. Plain(p) \in Seq(Chars)
  <2>1. \A e : Plain(p) \in Seq(Chars)
    BY CbufIs
  <2> QED
    BY <2>1
<1>3. Nothing(p) => Plain(p) = <<>> /\ ValueOf(p) = 0
  BY DEF Nothing, Plain
<1> DEFINE t == Forward(ValueOf(p), BaseOf(p), ShapeOf(p))
<1>4. ~Nothing(p) => Plain(p) = t
  BY DEF Plain
<1>5. \E len : IsForward(len, ValueOf(p), BaseOf(p), ShapeOf(p))
  BY <1>1, ForwardIs
<1>6. Len(t) \in Nat \ {0}
  BY <1>5, EnoughFacts, LongFacts DEF IsForward, Ends
<1>7. /\ ValueOf(p) < BaseOf(p) => t = <<ShapeOf(p)[ValueOf(p) + 1]>>
      /\ ValueOf(p) # 0 => t[1] # "0"
  BY <1>1, ForwardStep
<1>8. ValueOf(p) = 0 => t = <<"0">>
  <2>1. 0 < BaseOf(p)
    BY <1>1 DEF Bases
  <2>2. ShapeOf(p)[0 + 1] = "0"
    BY <1>1, DigitFacts
  <2> QED
    BY <1>7, <2>1, <2>2
<1>9. Numeral(ValueOf(p), BaseOf(p), ShapeOf(p)) = t
  BY <1>1, NumeralIs
<1>10. ValueOf(p) # 0 => ~Nothing(p)
  BY <1>3
<1>11. Len(<<>>) = 0
  OBVIOUS
<1> HIDE DEF t
<1> QED
  BY <1>2, <1>3, <1>4, <1>6, <1>7, <1>8, <1>9, <1>10, <1>11

(* How many zeros are put before the digits.                               *)
LEMMA PrecisionIs ==
  ASSUME NEW p \in Piece, IsConversion(p), p.conv \in Numeric, NEW e
  PROVE  /\ Precision(Final(p, e), p.arg)
              = IF p.conv = "o" /\ Has(p, "#") /\ Nothing(p) THEN 1 ELSE p.prec.n
         /\ PrecPad(Final(p, e), p.arg)
              = npf_max(0, Precision(Final(p, e), p.arg) - (Len(Plain(p)) + Len(Lead(p))))
<1> DEFINE F == Final(p, e)
<1>1. /\ F.conv = p.conv /\ F.alt = Has(p, "#") /\ F.prec = p.prec.n /\ F.bits = CBits(p)
      /\ F.prec_opt = "literal" <=> Exact(p)
  BY FinalFields
<1>2. p.conv # "s"
  BY DEF Numeric, Signed, Unsigned
<1>3. Len(Cbuf(F, p.arg)) = Len(Plain(p)) + Len(Lead(p))
  BY PayloadIs
<1> HIDE DEF F
<1>4. PrecPad(F, p.arg) = npf_max(0, Precision(F, p.arg) - (Len(Plain(p)) + Len(Lead(p))))
  BY <1>1, <1>2, <1>3 DEF PrecPad
<1>5. p.conv = "o" => ValueOf(p) = AsUnsigned(p.arg.int, CBits(p)) /\ p.conv # "p"
  BY DEF ValueOf, Signed
<1>6. (/\ F.conv = "o" /\ F.alt /\ F.prec_opt = "literal" /\ F.prec = 0
       /\ AsUnsigned(p.arg.int, F.bits) = 0)
      <=> p.conv = "o" /\ Has(p, "#") /\ Nothing(p)
  BY <1>1, <1>5 DEF Nothing
<1>7. Precision(F, p.arg) = IF p.conv = "o" /\ Has(p, "#") /\ Nothing(p) THEN 1 ELSE p.prec.n
  BY <1>1, <1>6 DEF Precision
<1> QED
  BY <1>4, <1>7 DEF F

(* The payload of an integer is C's digits.                                *)
LEMMA DigitsAre ==
  ASSUME NEW p \in Piece, IsConversion(p), p.conv \in Signed \cup Unsigned, NEW e
  PROVE  Payload(Final(p, e), p.arg) = CDigits(p, ValueOf(p))
<1> DEFINE q  == p.prec.n
           P  == Plain(p)
           l  == Lead(p)
           x  == ValueOf(p)
           F  == Final(p, e)
           pr == Precision(F, p.arg)
           octal == p.conv = "o" /\ Has(p, "#")
           most == IF Exact(p) THEN q ELSE 1
           plain == IF x = 0 THEN <<>> ELSE P
           len == Len(P)
           filled == Put("0", most - Len(plain)) \o plain
           z == <<"0">>
<1>1. p.conv \in Numeric /\ p.conv # "p" /\ BaseOf(p) = Base(p.conv)
  BY DEF Numeric, BaseOf, Signed, Unsigned
<1>2. x \in Nat
  BY NumericFacts
<1>3. /\ P \in Seq(Chars) /\ (Nothing(p) => P = <<>> /\ x = 0) /\ (x = 0 /\ ~Nothing(p) => P = z)
      /\ x # 0 => P # <<>> /\ P[1] # "0" /\ len \in Nat \ {0}
      /\ ~Nothing(p) => P = Numeral(x, BaseOf(p), ShapeOf(p))
  BY <1>1, PlainIs
<1>4. /\ pr = (IF octal /\ Nothing(p) THEN 1 ELSE q)
      /\ PrecPad(F, p.arg) = npf_max(0, pr - (len + Len(l)))
  BY <1>1, PrecisionIs
<1>5. Payload(F, p.arg) = Put("0", PrecPad(F, p.arg)) \o (l \o P) /\ l \in Seq(Chars)
  BY <1>1, PayloadIs
<1>6. l = IF octal /\ x # 0 THEN z ELSE <<>>
  BY DEF Lead, Leads
<1>7. q \in Int /\ Exact(p) \in BOOLEAN /\ (~Exact(p) => q <= 0) /\ (Exact(p) => q \in Nat)
  BY PrecFacts
<1>8. /\ "0" \in Chars /\ z \in Seq(Chars) /\ Len(z) = 1 /\ <<>> \in Seq(Chars) /\ Len(<<>>) = 0
      /\ z # <<>> /\ z[1] = "0"
  <2>1. "0" \in Chars
    BY ZeroChar
  <2> QED
    BY <2>1
<1>9. CDigits(p, x) = IF octal /\ (filled = <<>> \/ Head(filled) # "0") THEN z \o filled ELSE filled
  <2>1. plain = IF x = 0 THEN <<>> ELSE Numeral(x, Base(p.conv), IF p.conv = "X" THEN Upper ELSE Lower)
    <3>1. x # 0 => ~Nothing(p)
      BY <1>3
    <3> QED
      BY <1>1, <1>3, <3>1 DEF ShapeOf
  <2>2. most = IF p.prec.given /\ p.prec.n >= 0 THEN p.prec.n ELSE 1
    BY DEF Exact
  <2> HIDE DEF most, plain, x
  <2> QED
    BY <2>1, <2>2 DEF CDigits
<1>10. Nothing(p) <=> x = 0 /\ Exact(p) /\ q = 0
  BY <1>1 DEF Nothing
<1>11. most \in Int /\ plain \in Seq(Chars) /\ Len(plain) \in Nat /\ len \in Nat /\ Len(l) \in Nat
  BY <1>3, <1>5, <1>7, <1>8
<1>12. \A t \in Seq(Chars) : <<>> \o t = t /\ t \o <<>> = t
  OBVIOUS
<1>13. pr \in Int
  BY <1>4, <1>7
<1> HIDE DEF P, l, x, F, pr, octal, plain, len, filled, z, most, q
<1>14. Payload(F, p.arg) = Put("0", pr - (len + Len(l))) \o (l \o P)
  <2>1. pr - (len + Len(l)) \in Int
    BY <1>11, <1>13
  <2>2. Put("0", npf_max(0, pr - (len + Len(l)))) = Put("0", pr - (len + Len(l)))
    BY <1>8, <2>1, PutFacts
  <2> QED
    BY <1>4, <1>5, <2>2
<1>15. CASE Nothing(p)
  <2>1. P = <<>> /\ len = 0 /\ l = <<>> /\ plain = <<>> /\ most = 0 /\ q = 0
    BY <1>3, <1>6, <1>8, <1>10, <1>15 DEF len, plain, most
  <2>2. filled = <<>>
    <3>1. most - Len(plain) = 0
      <4>1. Len(plain) = 0 /\ most = 0
        BY <1>8, <2>1
      <4> QED
        BY <4>1
    <3>2. Put("0", 0) = <<>>
      BY <1>8, PutFacts
    <3> QED
      BY <1>8, <1>12, <2>1, <3>1, <3>2 DEF filled
  <2>3. CASE octal
    <3>1. pr - (len + Len(l)) = 1
      BY <1>4, <1>8, <1>15, <2>1, <2>3
    <3>2. Put("0", 1) = Put("0", 0) \o <<"0">> /\ Put("0", 0) = <<>>
      <4>1. 1 > 0 /\ 1 \in Int /\ 0 \in Int /\ 0 <= 0 /\ 1 - 1 = 0
        OBVIOUS
      <4>2. Put("0", 0) = <<>>
        BY <1>8, <4>1, PutFacts
      <4>3. Put("0", 1) = Put("0", 1 - 1) \o <<"0">>
        BY <1>8, <4>1, PutFacts
      <4> QED
        BY <4>1, <4>2, <4>3
    <3>3. Payload(F, p.arg) = z
      BY <1>8, <1>12, <1>14, <2>1, <3>1, <3>2 DEF z
    <3> QED
      BY <1>8, <1>9, <1>12, <2>2, <2>3, <3>3 DEF F, x
  <2>4. CASE ~octal
    <3>1. pr - (len + Len(l)) = 0
      BY <1>4, <1>8, <2>1, <2>4
    <3>2. Put("0", 0) = <<>>
      BY <1>8, PutFacts
    <3> QED
      BY <1>8, <1>9, <1>12, <1>14, <2>1, <2>2, <2>4, <3>1, <3>2 DEF F, x
  <2> QED
    BY <2>3, <2>4
<1>16. CASE ~Nothing(p) /\ x = 0
  <2>1. P = z /\ len = 1 /\ l = <<>> /\ plain = <<>> /\ pr = q
    BY <1>3, <1>4, <1>6, <1>8, <1>16 DEF len, plain
  <2>2. most > 0 /\ (Exact(p) => most = q) /\ (~Exact(p) => most = 1)
    BY <1>7, <1>10, <1>16 DEF most
  <2>3. filled = Put("0", most)
    <3>1. most - Len(plain) = most
      BY <1>8, <1>11, <2>1
    <3>2. Put("0", most) \in Seq(Chars)
      BY <1>8, <1>11, PutFacts
    <3> QED
      BY <1>12, <2>1, <3>1, <3>2 DEF filled
  <2>4. /\ Put("0", most) = Put("0", most - 1) \o z /\ Put("0", most)[1] = "0"
        /\ Put("0", most) \in Seq(Chars)
        /\ Len(Put("0", most)) = most
    BY <1>8, <1>11, <2>2, PutFacts DEF z
  <2>5. Put("0", q - 1) = Put("0", most - 1)
    <3>1. CASE Exact(p)
      BY <2>2, <3>1
    <3>2. CASE ~Exact(p)
      <4>1. q - 1 \in Int /\ q - 1 <= 0 /\ most - 1 = 0
        BY <1>7, <2>2, <3>2
      <4> QED
        BY <1>8, <4>1, PutFacts
    <3> QED
      BY <3>1, <3>2
  <2>6. Payload(F, p.arg) = Put("0", most - 1) \o z
    <3>1. pr - (len + Len(l)) = q - 1
      BY <1>7, <1>8, <2>1
    <3>2. l \o P = z
      BY <1>8, <1>12, <2>1
    <3> QED
      BY <1>14, <2>5, <3>1, <3>2
  <2>7. filled # <<>> /\ Head(filled) = "0"
    <3>1. filled \in Seq(Chars) /\ filled # <<>> /\ filled[1] = "0"
      BY <1>8, <2>2, <2>3, <2>4
    <3> QED
      BY <1>8, <3>1, HeadFacts
  <2> QED
    BY <1>9, <2>3, <2>4, <2>6, <2>7 DEF F, x
<1>17. CASE x # 0
  <2>1. plain = P /\ P # <<>> /\ P[1] # "0" /\ len \in Nat \ {0} /\ pr = q /\ Len(plain) = len
    BY <1>3, <1>4, <1>10, <1>17 DEF len, plain
  <2>2. filled = Put("0", most - len) \o P
    BY <2>1 DEF filled
  <2>3. most - len \in Int /\ q - len \in Int /\ q - (len + 1) \in Int
    BY <1>7, <1>11
  <2>4. Put("0", q - len) = Put("0", most - len)
    <3>1. CASE Exact(p)
      BY <3>1 DEF most
    <3>2. CASE ~Exact(p)
      <4>1. q - len <= 0 /\ most - len <= 0
        BY <1>7, <2>1, <3>2 DEF most
      <4> QED
        BY <1>8, <2>3, <4>1, PutFacts
    <3> QED
      BY <1>7, <3>1, <3>2
  <2>5. CASE ~octal
    <3>1. l = <<>> /\ l \o P = P /\ pr - (len + Len(l)) = q - len
      BY <1>3, <1>6, <1>7, <1>8, <1>12, <2>1, <2>5
    <3> QED
      BY <1>9, <1>14, <2>2, <2>4, <2>5, <3>1 DEF F, x
  <2>6. CASE octal
    <3>1. l = z /\ pr - (len + Len(l)) = q - (len + 1)
      BY <1>6, <1>7, <1>8, <1>17, <2>1, <2>6
    <3>2. CASE most - len > 0
      <4>1. Exact(p) /\ most = q
        BY <1>7, <2>1, <3>2 DEF most
      <4> DEFINE r == Put("0", (most - len) - 1)
                 s == Put("0", most - len)
      <4>2. s = r \o z /\ s[1] = "0" /\ s \in Seq(Chars) /\ Len(s) = most - len
        BY <1>8, <2>3, <3>2, PutFacts DEF z
      <4>3. r \in Seq(Chars)
        BY <1>8, <2>3, PutFacts
      <4>4. q - (len + 1) = (most - len) - 1
        BY <1>7, <1>11, <4>1
      <4> HIDE DEF r, s
      <4>5. s # <<>>
        BY <1>8, <3>2, <4>2
      <4>6. filled # <<>> /\ Head(filled) = "0"
        BY <1>3, <2>2, <4>2, <4>5, HeadFacts DEF s
      <4>7. (r \o z) \o P = r \o (z \o P)
        BY <1>3, <1>8, <4>3, Regrouped, SMTT(20)
      <4>8. Payload(F, p.arg) = r \o (z \o P)
        BY <1>14, <3>1, <4>4 DEF r
      <4> QED
        BY <1>9, <2>2, <4>2, <4>6, <4>7, <4>8 DEF F, x, s
    <3>3. CASE ~(most - len > 0)
      <4>1. Put("0", most - len) = <<>>
        BY <1>8, <2>3, <3>3, PutFacts
      <4>2. filled = P
        BY <1>3, <1>12, <2>2, <4>1
      <4>3. Head(filled) # "0"
        <5>1. Head(P) = P[1]
          BY <1>3, <2>1, HeadFacts
        <5> QED
          BY <2>1, <4>2, <5>1
      <4>4. q - (len + 1) <= 0
        BY <1>7, <1>11, <2>1, <3>3 DEF most
      <4>5. Put("0", q - (len + 1)) = <<>>
        BY <1>8, <2>3, <4>4, PutFacts
      <4>6. z \o P \in Seq(Chars)
        BY <1>3, <1>8, Together
      <4>7. Payload(F, p.arg) = z \o P
        BY <1>12, <1>14, <3>1, <4>5, <4>6
      <4> QED
        BY <1>9, <2>6, <4>2, <4>3, <4>7 DEF F, x
    <3> QED
      BY <3>2, <3>3
  <2> QED
    BY <2>5, <2>6
<1> QED
  BY <1>15, <1>16, <1>17

(* The argument a conversion is given.                                     *)
ArgumentOf(p) == IF p.conv = "%" THEN NoArg ELSE p.arg

(* The payload is what C shows behind the prefix, and as long as it is     *)
(* taken to be.                                                            *)
Shows(p, e) ==
  /\ CBody(p).digits = Payload(Final(p, e), ArgumentOf(p))
  /\ Payload(Final(p, e), ArgumentOf(p)) \in Seq(Chars)
  /\ Len(Cbuf(Final(p, e), ArgumentOf(p))) \in Nat
  /\ PrecPad(Final(p, e), ArgumentOf(p)) \in Nat
  /\ Len(Payload(Final(p, e), ArgumentOf(p)))
       = Len(Cbuf(Final(p, e), ArgumentOf(p))) + PrecPad(Final(p, e), ArgumentOf(p))

(* A number is laid out as C says, its sign and its prefix left aside.     *)
LEMMA NumericShows ==
  ASSUME NEW p \in Piece, IsConversion(p), p.conv \in Numeric, NEW e
  PROVE  Shows(p, e)
<1> DEFINE F  == Final(p, e)
           a  == p.arg
           P  == Plain(p)
           l  == Lead(p)
           pp == PrecPad(F, a)
           cb == Cbuf(F, a)
<1>1. ArgumentOf(p) = a
  BY DEF ArgumentOf, Numeric, Signed, Unsigned
<1>2. /\ Payload(F, a) = Put("0", pp) \o (l \o P) /\ Len(cb) = Len(P) + Len(l)
      /\ P \in Seq(Chars) /\ l \in Seq(Chars)
  BY PayloadIs
<1>3. pp = npf_max(0, Precision(F, a) - (Len(P) + Len(l)))
  BY PrecisionIs
<1>4. Precision(F, a) = IF p.conv = "o" /\ Has(p, "#") /\ Nothing(p) THEN 1 ELSE p.prec.n
  BY PrecisionIs
<1>5. p.prec.n \in Int /\ (~p.prec.given => p.prec.n = 0)
  BY PrecFacts
<1>6. CBody(p).digits = Payload(F, a)
  <2>1. CASE p.conv \in Signed
    <3>1. CBody(p) = CSigned(p)
      BY <2>1 DEF CBody, Signed, Unsigned
    <3>2. CSigned(p).digits = CDigits(p, ValueOf(p))
      BY <2>1 DEF CSigned, ValueOf, Magnitude
    <3> QED
      BY <2>1, <3>1, <3>2, DigitsAre
  <2>2. CASE p.conv \in Unsigned
    <3>1. CBody(p) = CUnsigned(p)
      BY <2>2 DEF CBody, Signed, Unsigned
    <3>2. CUnsigned(p).digits = CDigits(p, ValueOf(p))
      BY <2>2 DEF CUnsigned, ValueOf, Signed, Unsigned
    <3> QED
      BY <2>2, <3>1, <3>2, DigitsAre
  <2>3. CASE p.conv = "p"
    <3>1. CBody(p).digits = Numeral(AsUnsigned(p.arg.int, LongBits), 16, Lower)
      BY <2>3 DEF CBody, Signed, Unsigned
    <3>2. ValueOf(p) = AsUnsigned(p.arg.int, LongBits) /\ BaseOf(p) = 16 /\ ShapeOf(p) = Lower
      BY <2>3 DEF ValueOf, BaseOf, ShapeOf, Signed
    <3>3. ~Nothing(p) /\ l = <<>>
      BY <2>3 DEF Nothing, Lead, Leads
    <3>4. P = Numeral(AsUnsigned(p.arg.int, LongBits), 16, Lower)
      BY <3>2, <3>3, PlainIs
    <3>5. Precision(F, a) = 0
      <4>1. p.prec.given => p.conv \in Signed \cup Unsigned \cup {"s"}
        BY DEF IsConversion, Defined
      <4>2. ~p.prec.given
        BY <2>3, <4>1 DEF Signed, Unsigned
      <4> QED
        BY <1>4, <1>5, <2>3, <4>2
    <3>6. pp = 0
      <4>1. Len(P) + Len(l) \in Nat
        BY <1>2
      <4> DEFINE u == Len(P) + Len(l)
      <4>2. u \in Nat /\ pp = npf_max(0, 0 - u)
        BY <1>3, <3>5, <4>1
      <4> HIDE DEF u, pp
      <4> QED
        BY <4>2 DEF npf_max
    <3>7. Put("0", 0) = <<>>
      BY DEF Put
    <3>8. Payload(F, a) = <<>> \o (<<>> \o P)
      BY <1>2, <3>3, <3>6, <3>7
    <3>9. \A t \in Seq(Chars) : <<>> \o (<<>> \o t) = t
      OBVIOUS
    <3> HIDE DEF P
    <3>10. Payload(F, a) = P
      BY <1>2, <3>8, <3>9
    <3> QED
      BY <3>1, <3>4, <3>10
  <2> QED
    BY <2>1, <2>2, <2>3 DEF Numeric
<1>7. /\ pp \in Nat /\ Len(cb) \in Nat /\ Payload(F, a) \in Seq(Chars)
      /\ Len(Payload(F, a)) = Len(cb) + pp
  <2> DEFINE u == Len(P)
             v == Len(l)
             s == Put("0", pp)
             r == Precision(F, a)
  <2>1. r \in Int
    BY <1>4, <1>5
  <2>2. u \in Nat /\ v \in Nat
    BY <1>2
  <2>3. pp \in Nat
    <3>1. pp = npf_max(0, r - (u + v))
      BY <1>3
    <3> HIDE DEF pp, r, u, v
    <3> QED
      BY <2>1, <2>2, <3>1 DEF npf_max
  <2>4. s \in Seq(Chars) /\ Len(s) = pp
    <3> HIDE DEF pp
    <3>1. (pp <= 0 => s = <<>>) /\ (pp > 0 => Len(s) = pp) /\ s \in Seq(Chars)
      <4>1. "0" \in Chars
        BY ZeroChar
      <4>2. pp \in Int
        BY <2>3
      <4> QED
        BY <4>1, <4>2, PutFacts
    <3>2. Len(<<>>) = 0
      OBVIOUS
    <3> HIDE DEF s
    <3> QED
      BY <2>3, <3>1, <3>2
  <2>5. l \o P \in Seq(Chars) /\ Len(l \o P) = v + u
    BY <1>2, Together
  <2> HIDE DEF s, l, P, cb, u, v, pp
  <2>6. s \o (l \o P) \in Seq(Chars) /\ Len(s \o (l \o P)) = pp + (v + u)
    BY <2>4, <2>5, Together
  <2>7. Len(cb) = u + v
    BY <1>2 DEF u, v
  <2>8. Payload(F, a) = s \o (l \o P)
    BY <1>2 DEF s
  <2> QED
    BY <2>2, <2>3, <2>6, <2>7, <2>8
<1> QED
  BY <1>1, <1>6, <1>7 DEF Shows

LEMMA ReverseOne ==
  ASSUME NEW c \in Chars
  PROVE  Reverse(<<c>>) = <<c>> /\ <<c>> \in Seq(Chars) /\ Len(<<c>>) = 1
<1> DEFINE z == <<c>>
<1>1. z \in Seq(Chars) /\ Len(z) = 1
  OBVIOUS
<1> HIDE DEF z
<1>2. /\ Reverse(z) \in Seq(Chars) /\ Len(Reverse(z)) = Len(z)
      /\ \A i \in 1 .. Len(z) : Reverse(z)[i] = z[(Len(z) - i) + 1]
  BY <1>1, ReverseIs
<1>3. \A i \in 1 .. Len(z) : Reverse(z)[i] = z[i]
  BY <1>1, <1>2
<1>4. Reverse(z) = z
  BY <1>1, <1>2, <1>3, SameSequence
<1> QED
  BY <1>1, <1>4 DEF z

LEMMA MemType ==
  ASSUME NEW p \in Piece
  PROVE  p.arg.mem \in Seq(Chars) /\ p.arg.int \in Int
<1>1. p.arg \in Arg
  BY PieceTypes
<1> QED
  BY <1>1 DEF Arg

(* So is a single character.                                               *)
LEMMA SingleShows ==
  ASSUME NEW p \in Piece, IsConversion(p), p.conv \in {"%", "c"}, NEW e
  PROVE  Shows(p, e) /\ Len(Cbuf(Final(p, e), ArgumentOf(p))) = 1
<1> DEFINE F  == Final(p, e)
           a  == ArgumentOf(p)
           c  == IF p.conv = "%" THEN "%" ELSE p.arg.mem[1]
           cb == Cbuf(F, a)
           pp == PrecPad(F, a)
<1>1. p.arg.mem \in Seq(Chars) /\ (p.conv = "c" => Len(p.arg.mem) = 1)
  BY MemType DEF IsConversion, Defined
<1>2. c \in Chars
  <2>1. "%" \in Chars
    BY CharsAssumption DEF Conversions
  <2>2. p.conv = "c" => p.arg.mem[1] \in Chars
    BY <1>1
  <2> QED
    BY <2>1, <2>2
<1>3. /\ F.conv = p.conv /\ F.prec = p.prec.n /\ F.conv # "o" /\ F.conv # "s"
  BY FinalFields
<1>4. p.prec.n = 0
  <2>1. p.prec.given => p.conv \in Signed \cup Unsigned \cup {"s"}
    BY DEF IsConversion, Defined
  <2>2. ~p.prec.given
    BY <2>1 DEF Signed, Unsigned
  <2> QED
    BY <2>2, PrecFacts
<1> HIDE DEF F
<1>5. cb = <<c>>
  <2>1. CASE p.conv = "%"
    BY <1>3, <2>1 DEF Cbuf, Signed, Unsigned
  <2>2. CASE p.conv = "c"
    <3>1. a = p.arg
      BY <2>2 DEF ArgumentOf
    <3> HIDE DEF a
    <3>2. cb = <<a.mem[1]>>
      BY <1>3, <2>2 DEF Cbuf, Signed, Unsigned
    <3> QED
      BY <2>2, <3>1, <3>2
  <2> QED
    BY <2>1, <2>2
<1>6. Reverse(<<c>>) = <<c>> /\ <<c>> \in Seq(Chars) /\ Len(<<c>>) = 1
  BY <1>2, ReverseOne
<1>7. pp = 0
  <2>1. Precision(F, a) = 0
    BY <1>3, <1>4 DEF Precision
  <2>2. Len(cb) = 1
    BY <1>5, <1>6
  <2>3. npf_max(0, 0 - 1) = 0
    BY DEF npf_max
  <2> HIDE DEF a
  <2> QED
    BY <1>3, <2>1, <2>2, <2>3 DEF PrecPad
<1>8. Payload(F, a) = <<c>>
  <2>1. Put("0", 0) = <<>>
    BY DEF Put
  <2>2. Payload(F, a) = Put("0", pp) \o Reverse(cb)
    <3> HIDE DEF a
    <3> QED
      BY <1>3 DEF Payload
  <2>3. Payload(F, a) = <<>> \o <<c>>
    <3> HIDE DEF pp, cb, a
    <3> QED
      BY <1>5, <1>6, <1>7, <2>1, <2>2
  <2>4. \A t \in Seq(Chars) : <<>> \o t = t
    OBVIOUS
  <2> QED
    BY <1>6, <2>3, <2>4
<1>9. CBody(p).digits = <<c>>
  <2>1. CASE p.conv = "%"
    <3>1. CBody(p).digits = <<"%">>
      BY <2>1 DEF CBody, Signed, Unsigned
    <3> QED
      BY <2>1, <3>1
  <2>2. CASE p.conv = "c"
    <3> DEFINE m == p.arg.mem
    <3>1. CBody(p).digits = m
      BY <2>2 DEF CBody, Signed, Unsigned
    <3>2. m \in Seq(Chars) /\ Len(m) = 1
      BY <1>1, <2>2
    <3>3. c = m[1]
      BY <2>2
    <3> HIDE DEF m, c
    <3>4. Len(<<c>>) = Len(m) /\ \A i \in 1 .. Len(m) : m[i] = <<c>>[i]
      BY <1>6, <3>2, <3>3
    <3>5. m = <<c>>
      BY <1>6, <3>2, <3>4, SameSequence
    <3> QED
      BY <3>1, <3>5
  <2> QED
    BY <2>1, <2>2
<1>10. Len(cb) = 1 /\ Len(cb) \in Nat /\ pp \in Nat /\ Len(cb) + pp = 1
  <2>1. Len(cb) = 1
    BY <1>5, <1>6
  <2> HIDE DEF cb, pp
  <2> QED
    BY <1>7, <2>1
<1> HIDE DEF c, cb, pp, a
<1>11. Payload(F, a) \in Seq(Chars) /\ Len(Payload(F, a)) = 1 /\ CBody(p).digits = Payload(F, a)
  BY <1>6, <1>8, <1>9
<1> QED
  BY <1>10, <1>11 DEF Shows, F, a, cb, pp

(* A string ends at its NUL or where the precision is reached.             *)
LEMMA StringIs ==
  ASSUME NEW p \in Piece, IsConversion(p), p.conv = "s", NEW e
  PROVE  /\ String(Final(p, e), p.arg.mem).len \in 0 .. Len(p.arg.mem)
         /\ String(Final(p, e), p.arg.mem).reads <= Len(p.arg.mem)
         /\ CBody(p).prefix = <<>>
         /\ CBody(p).digits = SubSeq(p.arg.mem, 1, String(Final(p, e), p.arg.mem).len)
<1> DEFINE mem == p.arg.mem
           F == Final(p, e)
           q == p.prec.n
           top == Len(mem)
           Bounded(k) == F.prec_opt # "none" /\ k >= F.prec
           U == {k \in 0 .. top : Bounded(k) \/ (k < top /\ mem[k + 1] = NUL)}
           ends == {i - 1 : i \in {j \in DOMAIN mem : mem[j] = NUL}}
           most == IF p.prec.given /\ p.prec.n >= 0 THEN {p.prec.n} ELSE {}
<1>1. mem \in Seq(Chars) /\ top \in Nat /\ DOMAIN mem = 1 .. top
  BY MemType
<1>2. \A k : Bounded(k) <=> Exact(p) /\ k >= q
  BY FinalFields
<1>3. /\ Exact(p) \in BOOLEAN /\ (Exact(p) => q \in Nat) /\ (Exact(p) <=> p.prec.given /\ q >= 0)
  BY PrecFacts DEF Exact
<1>4. (\E i \in 1 .. top : mem[i] = NUL) \/ (Exact(p) /\ q \in 0 .. top)
  <2>1. (\E i \in DOMAIN mem : mem[i] = NUL) \/ (p.prec.given /\ q \in 0 .. top)
    BY DEF IsConversion, Defined
  <2>2. q \in 0 .. top => q >= 0
    OBVIOUS
  <2> QED
    BY <1>1, <1>3, <2>1, <2>2
<1>5. most = IF Exact(p) THEN {q} ELSE {}
  BY DEF Exact
<1> HIDE DEF mem, top, most, Bounded
<1>6. \A k \in 0 .. top : k \in U <=> (Exact(p) /\ k >= q) \/ (k < top /\ mem[k + 1] = NUL)
  BY <1>2
<1>7. \A k \in Int : k \in ends <=> k \in 0 .. top - 1 /\ mem[k + 1] = NUL
  <2>1. \A k \in Int : k \in 0 .. top - 1 /\ mem[k + 1] = NUL => k + 1 \in 1 .. top /\ (k + 1) - 1 = k
    BY <1>1
  <2>2. \A i \in 1 .. top : (i - 1) + 1 = i /\ i - 1 \in 0 .. top - 1
    BY <1>1
  <2>3. \A k : k \in ends <=> \E i \in 1 .. top : mem[i] = NUL /\ k = i - 1
    BY <1>1
  <2> HIDE DEF ends
  <2> QED
    BY <2>1, <2>2, <2>3
<1>8. \A k \in ends : k \in Int
  BY <1>1
<1> HIDE DEF ends
<1>9. U # {}
  <2>1. CASE \E i \in 1 .. top : mem[i] = NUL
    <3>1. PICK i \in 1 .. top : mem[i] = NUL
      BY <2>1
    <3>2. i - 1 \in 0 .. top /\ i - 1 < top /\ (i - 1) + 1 = i
      BY <1>1, <3>1
    <3>3. i - 1 \in U
      BY <1>6, <3>1, <3>2
    <3> QED
      BY <3>3
  <2>2. CASE Exact(p) /\ q \in 0 .. top
    <3>1. q \in U
      BY <1>6, <2>2
    <3> QED
      BY <3>1
  <2> QED
    BY <1>4, <2>1, <2>2
<1>10. PICK k \in U : \A y \in U : k <= y
  <2>1. U \subseteq Nat
    BY <1>1
  <2> HIDE DEF U
  <2> QED
    BY <1>9, <2>1, LeastNumber
<1>11. k \in 0 .. top /\ k \in Nat
  BY <1>1
<1>12. Min(U) = k
  <2>1. U \subseteq Int
    BY <1>1
  <2> HIDE DEF U
  <2> QED
    BY <1>10, <2>1, MinIs
<1>13. (Exact(p) /\ k >= q) \/ (k < top /\ mem[k + 1] = NUL)
  BY <1>6, <1>11
<1>14. \A y \in 0 .. top : y \in U => k <= y
  BY <1>10
<1> HIDE DEF U
<1>15. k \in ends \cup most
  <2>1. CASE k < top /\ mem[k + 1] = NUL
    <3>1. k \in 0 .. top - 1 /\ k \in Int
      BY <1>1, <1>11, <2>1
    <3> QED
      BY <1>7, <2>1, <3>1
  <2>2. CASE Exact(p) /\ k >= q
    <3>1. q \in 0 .. top
      BY <1>1, <1>3, <1>11, <2>2
    <3>2. k <= q
      BY <1>3, <1>6, <1>14, <2>2, <3>1
    <3>3. k = q
      BY <1>3, <1>11, <2>2, <3>2
    <3> QED
      BY <1>5, <2>2, <3>3
  <2> QED
    BY <1>13, <2>1, <2>2
<1>16. \A y \in ends \cup most : y \in Int /\ k <= y
  <2> SUFFICES ASSUME NEW y \in ends \cup most
               PROVE  y \in Int /\ k <= y
    OBVIOUS
  <2>1. CASE y \in ends
    <3>1. y \in Int /\ y \in 0 .. top - 1 /\ mem[y + 1] = NUL
      BY <1>7, <1>8, <2>1
    <3>2. y \in 0 .. top /\ y < top
      BY <1>1, <3>1
    <3> QED
      BY <1>6, <1>14, <3>1, <3>2
  <2>2. CASE y \in most
    <3>1. Exact(p) /\ y = q /\ q \in Nat
      BY <1>3, <1>5, <2>2
    <3>2. CASE q \in 0 .. top
      BY <1>6, <1>14, <3>1, <3>2
    <3>3. CASE ~(q \in 0 .. top)
      BY <1>1, <1>11, <3>1, <3>3
    <3> QED
      BY <3>2, <3>3
  <2> QED
    BY <2>1, <2>2
<1>17. Min(ends \cup most) = k
  <2>1. ends \cup most \subseteq Int
    BY <1>16
  <2> DEFINE V == ends \cup most
  <2>2. V \subseteq Int /\ k \in V /\ \A y \in V : k <= y
    BY <1>15, <1>16, <2>1
  <2> HIDE DEF V
  <2>3. Min(V) = k
    BY <2>2, MinIs
  <2> QED
    BY <2>3 DEF V
<1>18. String(F, mem).len = k
  <2>1. String(F, mem).len = Min(U)
    BY DEF String, U, Bounded, top
  <2> QED
    BY <1>12, <2>1
<1>19. String(F, mem).reads = IF Bounded(k) THEN k ELSE k + 1
  <2>1. String(F, mem).reads = IF Bounded(Min(U)) THEN Min(U) ELSE Min(U) + 1
    BY DEF String, U, Bounded, top
  <2> QED
    BY <1>12, <2>1
<1>20. String(F, mem).reads <= top
  <2>1. CASE Bounded(k)
    BY <1>11, <1>19, <2>1
  <2>2. CASE ~Bounded(k)
    <3>1. k < top
      BY <1>2, <1>13, <2>2
    <3> QED
      BY <1>1, <1>11, <1>19, <2>2, <3>1
  <2> QED
    BY <2>1, <2>2
<1>21. CBody(p) = [prefix |-> <<>>, digits |-> SubSeq(mem, 1, Min(ends \cup most))]
  BY DEF CBody, Signed, Unsigned, mem, ends, most
<1>22. CBody(p).prefix = <<>> /\ CBody(p).digits = SubSeq(mem, 1, String(F, mem).len)
  <2> DEFINE m == Min(ends \cup most)
             d == SubSeq(mem, 1, m)
  <2>1. CBody(p) = [prefix |-> <<>>, digits |-> d]
    BY <1>21
  <2>2. m = String(F, mem).len
    BY <1>17, <1>18
  <2> HIDE DEF d
  <2>3. CBody(p).prefix = <<>> /\ CBody(p).digits = d
    BY <2>1
  <2>4. d = SubSeq(mem, 1, String(F, mem).len)
    BY <2>2 DEF d
  <2> HIDE DEF F
  <2> QED
    BY <2>3, <2>4
<1>23. String(F, mem).len \in 0 .. top
  BY <1>11, <1>18
<1> QED
  BY <1>20, <1>22, <1>23 DEF mem, top

(* So is a string.                                                         *)
LEMMA StringShows ==
  ASSUME NEW p \in Piece, IsConversion(p), p.conv = "s", NEW e
  PROVE  Shows(p, e)
<1> DEFINE F  == Final(p, e)
           a  == ArgumentOf(p)
           cb == Cbuf(F, a)
           pp == PrecPad(F, a)
           k  == String(F, p.arg.mem).len
<1>1. a = p.arg
  BY DEF ArgumentOf
<1>2. F.conv = "s"
  BY FinalFields
<1>3. /\ k \in 0 .. Len(p.arg.mem)
      /\ CBody(p).digits = SubSeq(p.arg.mem, 1, k)
  BY StringIs
<1>4. p.arg.mem \in Seq(Chars)
  BY MemType
<1>5. SubSeq(p.arg.mem, 1, k) \in Seq(Chars)
  <2> DEFINE m == p.arg.mem
  <2>1. m \in Seq(Chars) /\ k \in 0 .. Len(m)
    BY <1>3, <1>4
  <2> HIDE DEF m, k
  <2>2. SubSeq(m, 1, k) \in Seq(Chars)
    BY <2>1
  <2> QED
    BY <2>2 DEF m
<1> HIDE DEF F, a
<1>6. cb = SubSeq(p.arg.mem, 1, k)
  BY <1>1, <1>2 DEF Cbuf, Signed, Unsigned
<1>7. pp = 0
  BY <1>2 DEF PrecPad
<1>8. Payload(F, a) = cb
  <2>1. Put("0", 0) = <<>>
    BY DEF Put
  <2>2. Payload(F, a) = Put("0", pp) \o cb
    BY <1>2 DEF Payload
  <2> HIDE DEF cb, pp
  <2>3. \A t \in Seq(Chars) : <<>> \o t = t
    OBVIOUS
  <2> QED
    BY <1>5, <1>6, <1>7, <2>1, <2>2, <2>3
<1> HIDE DEF cb, pp, k
<1>9. cb \in Seq(Chars) /\ Len(cb) \in Nat /\ pp \in Nat /\ Len(cb) = Len(cb) + pp
  <2>1. cb \in Seq(Chars)
    BY <1>5, <1>6
  <2> QED
    BY <1>7, <2>1
<1>10. CBody(p).digits = Payload(F, a)
  BY <1>3, <1>6, <1>8
<1> QED
  BY <1>8, <1>9, <1>10 DEF Shows, F, a, cb, pp

(* There is no other conversion.                                           *)
LEMMA EveryConversion ==
  ASSUME NEW p, IsConversion(p)
  PROVE  p.conv \in Numeric \/ p.conv \in {"%", "c"} \/ p.conv = "s"
BY DEF IsConversion, Conversions, Numeric

LEMMA BodyShows ==
  ASSUME NEW p \in Piece, IsConversion(p), NEW e
  PROVE  Shows(p, e)
BY EveryConversion, NumericShows, SingleShows, StringShows

(* The prefix is the sign or the base's, never both.                       *)
LEMMA PrefixIs ==
  ASSUME NEW p \in Piece, IsConversion(p), NEW e
  PROVE  /\ Sign(Final(p, e), ArgumentOf(p)) \in Seq(Chars)
         /\ Hex(Final(p, e), ArgumentOf(p)) \in Seq(Chars)
         /\ CBody(p).prefix = Sign(Final(p, e), ArgumentOf(p)) \o Hex(Final(p, e), ArgumentOf(p))
         /\ CBody(p).prefix = Hex(Final(p, e), ArgumentOf(p)) \o Sign(Final(p, e), ArgumentOf(p))
<1> DEFINE F  == Final(p, e)
           a  == ArgumentOf(p)
           sg == Sign(F, a)
           hx == Hex(F, a)
<1>1. F.conv = p.conv /\ F.bits = CBits(p) /\ F.alt = Has(p, "#") /\ F.prepend = PrependOf(p)
  BY FinalFields
<1>2. Has(p, "#") => p.conv \in {"o", "x", "X"}
  BY DEF IsConversion, Defined
<1>3. \A t \in Seq(Chars) : <<>> \o t = t /\ t \o <<>> = t
  OBVIOUS
<1>4. \A c, d \in Chars : <<c>> \in Seq(Chars) /\ <<c, d>> \in Seq(Chars) /\ <<>> \in Seq(Chars)
  OBVIOUS
<1>5. /\ <<>> \in Seq(Chars) /\ <<"-">> \in Seq(Chars) /\ <<"+">> \in Seq(Chars)
      /\ <<" ">> \in Seq(Chars)
      /\ <<"0", "x">> \in Seq(Chars) /\ <<"0", "X">> \in Seq(Chars)
  BY <1>4, ZeroChar
<1> HIDE DEF F
<1>6. CASE p.conv \in Signed
  <2>1. p.conv \notin {"p", "x", "X", "%", "c", "s"} /\ p.conv \notin Unsigned
    BY <1>6 DEF Signed, Unsigned
  <2>2. a = p.arg
    BY <2>1 DEF ArgumentOf
  <2> HIDE DEF a
  <2>3. hx = <<>>
    BY <1>1, <2>1 DEF Hex
  <2>4. sg = Opt(IF AsSigned(p.arg.int, CBits(p)) < 0 THEN "-" ELSE PrependOf(p))
    BY <1>1, <1>6, <2>2 DEF Sign
  <2>5. CBody(p) = CSigned(p)
    BY <1>6, <2>1 DEF CBody
  <2>6. CSigned(p).prefix = sg
    BY <2>4 DEF CSigned, Opt, PrependOf
  <2>7. sg \in Seq(Chars)
    BY <1>5, <2>4 DEF Opt, PrependOf
  <2> HIDE DEF sg, hx
  <2>8. CBody(p).prefix = sg /\ hx \in Seq(Chars) /\ sg \o hx = sg /\ hx \o sg = sg
    BY <1>3, <1>5, <2>3, <2>5, <2>6, <2>7
  <2> QED
    BY <2>7, <2>8 DEF sg, hx, a, F
<1>7. CASE p.conv \notin Signed
  <2>1. sg = <<>>
    BY <1>1, <1>7 DEF Sign
  <2>2. hx \in Seq(Chars) /\ CBody(p).prefix = hx
    <3>1. CASE p.conv \in Unsigned
      <4>1. p.conv \notin {"p", "%", "c", "s"} /\ (p.conv = "o" \/ p.conv = "u" \/ p.conv \in {"x", "X"})
            /\ "o" \notin {"x", "X"} /\ "u" \notin {"o", "x", "X"}
        BY <3>1 DEF Unsigned
      <4>2. a = p.arg
        BY <4>1 DEF ArgumentOf
      <4> HIDE DEF a
      <4>3. hx = IF Has(p, "#") /\ p.conv \in {"x", "X"} /\ AsUnsigned(p.arg.int, CBits(p)) # 0
                   THEN <<"0", p.conv>> ELSE <<>>
        BY <1>1, <4>1, <4>2 DEF Hex
      <4>4. CBody(p) = CUnsigned(p)
        BY <1>7, <3>1, <4>1 DEF CBody
      <4>5. CUnsigned(p).prefix = IF AsUnsigned(p.arg.int, CBits(p)) # 0 /\ Has(p, "#") /\ p.conv # "o"
                                    THEN <<"0", p.conv>> ELSE <<>>
        BY DEF CUnsigned
      <4>6. (Has(p, "#") /\ p.conv # "o") <=> (Has(p, "#") /\ p.conv \in {"x", "X"})
        BY <1>2, <4>1
      <4>7. CBody(p).prefix = hx
        BY <4>3, <4>4, <4>5, <4>6
      <4>8. hx \in Seq(Chars)
        BY <1>5, <4>3
      <4> QED
        BY <4>7, <4>8
    <3>2. CASE p.conv = "p"
      <4>1. hx = <<"0", "x">>
        BY <1>1, <3>2 DEF Hex
      <4>2. CBody(p).prefix = <<"0", "x">>
        BY <3>2 DEF CBody, Signed, Unsigned
      <4> QED
        BY <1>5, <4>1, <4>2
    <3>3. CASE p.conv \in {"%", "c", "s"}
      <4>1. hx = <<>>
        BY <1>1, <3>3 DEF Hex
      <4>2. CBody(p).prefix = <<>>
        <5>1. CASE p.conv = "%"
          BY <5>1 DEF CBody, Signed, Unsigned
        <5>2. CASE p.conv = "c"
          BY <5>2 DEF CBody, Signed, Unsigned
        <5>3. CASE p.conv = "s"
          BY <5>3, StringIs
        <5> QED
          BY <3>3, <5>1, <5>2, <5>3
      <4> QED
        BY <1>5, <4>1, <4>2
    <3> QED
      BY <1>7, <3>1, <3>2, <3>3, EveryConversion DEF Numeric
  <2> HIDE DEF sg, hx
  <2>3. CBody(p).prefix = hx /\ sg \in Seq(Chars) /\ sg \o hx = hx /\ hx \o sg = hx
    BY <1>3, <1>5, <2>1, <2>2
  <2> QED
    BY <2>2, <2>3 DEF sg, hx, F
<1> QED
  BY <1>6, <1>7

-----------------------------------------------------------------------------
(* Format: the layout of a conversion is C's.                              *)

(* Where a negative star does not meet the flag 0.                         *)
Agreed(p) == Has(p, "0") => ~NegativeStar(p.width) /\ ~NegativeStar(p.prec)

(* The character a field is filled with.                                   *)
LEMMA PadCharIs ==
  ASSUME NEW p \in Piece, IsConversion(p), NEW e
  PROVE  PadChar(Final(p, e), ArgumentOf(p))
           = IF p.width.given THEN IF ZeroOf(p) THEN "0" ELSE " " ELSE ""
<1> DEFINE F == Final(p, e)
           a == ArgumentOf(p)
<1>1. F.conv = p.conv /\ F.zero = ZeroOf(p)
  BY FinalFields
<1>2. F.width_opt # "none" <=> p.width.given
  BY FinalFields
<1>3. ZeroOf(p) => p.conv \notin {"s", "c", "%"} /\ F.prec_opt # "literal"
  <2>1. Has(p, "0") => p.conv \in Signed \cup Unsigned
    BY DEF IsConversion, Defined
  <2>2. ZeroOf(p) => ~Exact(p)
    BY DEF ZeroOf, Exact
  <2>3. ~Exact(p) => F.prec_opt = "none"
    BY FinalFields
  <2> QED
    BY <2>1, <2>2, <2>3 DEF ZeroOf, Signed, Unsigned
<1> HIDE DEF F, a
<1>4. CASE ~p.width.given
  BY <1>2, <1>4 DEF PadChar, F, a
<1>5. CASE p.width.given /\ ~ZeroOf(p)
  BY <1>1, <1>2, <1>5 DEF PadChar, F, a
<1>6. CASE p.width.given /\ ZeroOf(p)
  <2>1. PadChar(F, a) = "0"
    BY <1>1, <1>2, <1>3, <1>6 DEF PadChar
  <2> QED
    BY <1>6, <2>1 DEF F, a
<1> QED
  BY <1>4, <1>5, <1>6

(* The layout of a conversion is what C prints, where the flag 0 meets no  *)
(* negative star.                                                          *)
LEMMA LayoutIs ==
  ASSUME NEW p \in Piece, IsConversion(p), NEW e
  PROVE  /\ Layout(Final(p, e), ArgumentOf(p)) \in Seq(Chars)
         /\ Agreed(p) => Layout(Final(p, e), ArgumentOf(p)) = CPrints(p)
<1> DEFINE F  == Final(p, e)
           a  == ArgumentOf(p)
           sg == Sign(F, a)
           hx == Hex(F, a)
           d  == Payload(F, a)
           pc == PadChar(F, a)
           fp == FieldPad(F, a)
           pad == IF pc = "" THEN <<>> ELSE Put(pc, fp)
           left == Has(p, "-") \/ p.width.n < 0
           zeros == Has(p, "0") /\ ~left /\ ~(p.prec.given /\ p.prec.n >= 0)
           w  == Magnitude(p.width.n)
           px == CBody(p).prefix
           fill == w - Len(px) - Len(d)
<1>1. /\ sg \in Seq(Chars) /\ hx \in Seq(Chars) /\ px = sg \o hx /\ px = hx \o sg
  BY PrefixIs
<1>2. /\ CBody(p).digits = d /\ d \in Seq(Chars) /\ Len(Cbuf(F, a)) \in Nat /\ PrecPad(F, a) \in Nat
      /\ Len(d) = Len(Cbuf(F, a)) + PrecPad(F, a)
  BY BodyShows DEF Shows
<1>3. F.left = left /\ F.width = w
  BY FinalFields
<1>4. pc = IF p.width.given THEN IF ZeroOf(p) THEN "0" ELSE " " ELSE ""
  BY PadCharIs
<1>5. /\ p.width.n \in Int /\ p.width.given \in BOOLEAN /\ (~p.width.given => p.width.n = 0)
      /\ (p.width.n < 0 => p.width.star # <<>>) /\ (p.prec.n < 0 => p.prec.star # <<>>)
      /\ p.prec.n \in Int
  BY PrecFacts
<1>6. w \in Nat /\ (~p.width.given => w = 0)
  <2> DEFINE m == p.width.n
  <2>1. m \in Int /\ (~p.width.given => m = 0)
    BY <1>5
  <2> HIDE DEF m
  <2>2. Magnitude(m) \in Nat /\ (m = 0 => Magnitude(m) = 0)
    BY <2>1 DEF Magnitude
  <2> QED
    BY <2>1, <2>2 DEF m
<1>7. /\ px \in Seq(Chars) /\ Len(px) = Len(sg) + Len(hx) /\ Len(sg) \in Nat /\ Len(hx) \in Nat
      /\ Len(d) \in Nat
  <2> HIDE DEF sg, hx, px, d
  <2>1. /\ sg \o hx \in Seq(Chars) /\ Len(sg \o hx) = Len(sg) + Len(hx) /\ Len(sg) \in Nat
        /\ Len(hx) \in Nat
    BY <1>1, Together
  <2>2. Len(d) \in Nat
    BY <1>2
  <2> QED
    BY <1>1, <2>1, <2>2
<1>8. fill \in Int /\ fp = npf_max(0, fill) /\ (~p.width.given => fill <= 0)
  <2> DEFINE cl == Len(Cbuf(F, a))
             pp == PrecPad(F, a)
             sl == Len(sg)
             hl == Len(hx)
             pl == Len(px)
             dl == Len(d)
  <2>1. fp = npf_max(0, w - cl - sl - hl - pp)
    <3> HIDE DEF F, a
    <3> QED
      BY <1>3 DEF FieldPad
  <2>2. /\ cl \in Nat /\ pp \in Nat /\ dl = cl + pp /\ sl \in Nat /\ hl \in Nat /\ pl = sl + hl
    BY <1>2, <1>7
  <2>3. fill = w - pl - dl
    OBVIOUS
  <2> HIDE DEF cl, pp, sl, hl, pl, dl, w, fp, fill
  <2>4. w - cl - sl - hl - pp = fill /\ fill \in Int /\ (w = 0 => fill <= 0)
    BY <1>6, <2>2, <2>3
  <2> QED
    BY <1>6, <2>1, <2>4
<1>9. Agreed(p) => zeros = ZeroOf(p) /\ (left => ~ZeroOf(p))
  <2>1. Has(p, "0") /\ Agreed(p) => p.width.n >= 0 /\ p.prec.n >= 0
    BY <1>5 DEF Agreed, NegativeStar
  <2>2. Has(p, "0") /\ Agreed(p) => ~(p.width.n < 0)
    BY <1>5, <2>1
  <2> QED
    BY <2>1, <2>2 DEF ZeroOf
<1>10. p.conv # ""
  BY DEF IsConversion, Conversions, Signed, Unsigned
<1>11. CPrints(p) = IF left THEN px \o d \o Put(" ", fill)
                    ELSE IF zeros THEN px \o Put("0", fill) \o d
                    ELSE Put(" ", fill) \o px \o d
  <2>1. w = IF p.width.n < 0 THEN -p.width.n ELSE p.width.n
    BY DEF Magnitude
  <2>2. CPrints(p) = IF left THEN px \o CBody(p).digits \o Put(" ", w - Len(px) - Len(CBody(p).digits))
                     ELSE IF zeros THEN px \o Put("0", w - Len(px) - Len(CBody(p).digits)) \o CBody(p).digits
                     ELSE Put(" ", w - Len(px) - Len(CBody(p).digits)) \o px \o CBody(p).digits
    <3> HIDE DEF left, w
    <3> QED
      BY <1>10, <2>1 DEF CPrints, left, w, Magnitude
  <2> HIDE DEF left, zeros, d, px, w
  <2>3. w - Len(px) - Len(CBody(p).digits) = fill
    BY <1>2
  <2> QED
    BY <1>2, <2>2, <2>3
<1>12. Layout(F, a) = IF left THEN hx \o sg \o d \o pad
                      ELSE IF pc = "0" THEN sg \o hx \o pad \o d
                      ELSE pad \o hx \o sg \o d
  <2> HIDE DEF F, a, left
  <2> QED
    BY <1>3 DEF Layout
<1>13. /\ pad \in Seq(Chars)
       /\ (p.width.given => pad = Put(pc, fill)) /\ (~p.width.given => pad = <<>>)
  <2>1. <<>> \in Seq(Chars)
    OBVIOUS
  <2>2. "0" # "" /\ " " # "" /\ "0" \in Chars /\ " " \in Chars
    BY ZeroChar
  <2> HIDE DEF pc, fp, fill
  <2>3. \A c \in Chars : Put(c, fill) \in Seq(Chars) /\ Put(c, npf_max(0, fill)) = Put(c, fill)
    BY <1>8, PutFacts
  <2>4. CASE p.width.given
    <3>1. pc \in Chars /\ pc # ""
      BY <1>4, <2>2, <2>4
    <3> QED
      BY <1>8, <2>3, <2>4, <3>1
  <2>5. CASE ~p.width.given
    BY <1>4, <2>1, <2>5
  <2> QED
    BY <2>4, <2>5
<1>14. /\ Put(" ", fill) \in Seq(Chars) /\ Put("0", fill) \in Seq(Chars)
       /\ ~p.width.given => Put(" ", fill) = <<>> /\ Put("0", fill) = <<>>
  <2>1. "0" \in Chars /\ " " \in Chars
    BY ZeroChar
  <2> HIDE DEF fill
  <2>2. \A c \in Chars : Put(c, fill) \in Seq(Chars) /\ (fill <= 0 => Put(c, fill) = <<>>)
    BY <1>8, PutFacts
  <2> QED
    BY <1>8, <2>1, <2>2
<1> HIDE DEF F, a, sg, hx, d, pc, fp, left, zeros, w, px, fill, pad
<1>15. Layout(F, a) = IF left THEN px \o d \o pad
                      ELSE IF pc = "0" THEN px \o pad \o d
                      ELSE pad \o px \o d
  <2>1. (pad \o hx) \o sg = pad \o (hx \o sg)
    BY <1>1, <1>13, Regrouped, SMTT(20)
  <2> QED
    BY <1>1, <1>12, <2>1
<1>16. Layout(F, a) \in Seq(Chars)
  <2>1. px \o d \in Seq(Chars) /\ px \o pad \in Seq(Chars) /\ pad \o px \in Seq(Chars)
    BY <1>2, <1>7, <1>13, Together
  <2>2. /\ (px \o d) \o pad \in Seq(Chars) /\ (px \o pad) \o d \in Seq(Chars)
        /\ (pad \o px) \o d \in Seq(Chars)
    BY <1>2, <1>13, <2>1, Together
  <2> QED
    BY <1>15, <2>2
<1>17. Agreed(p) => Layout(F, a) = CPrints(p)
  <2> SUFFICES ASSUME Agreed(p)
               PROVE  Layout(F, a) = CPrints(p)
    OBVIOUS
  <2>1. \A t \in Seq(Chars) : <<>> \o t = t /\ t \o <<>> = t
    OBVIOUS
  <2>2. CASE p.width.given /\ ZeroOf(p)
    <3>1. pad = Put("0", fill) /\ pc = "0" /\ zeros /\ ~left
      BY <1>4, <1>9, <1>13, <2>2
    <3> QED
      BY <1>11, <1>15, <3>1
  <2>3. CASE p.width.given /\ ~ZeroOf(p)
    <3>1. pad = Put(" ", fill) /\ pc = " " /\ ~zeros
      BY <1>4, <1>9, <1>13, <2>3
    <3> QED
      BY <1>11, <1>15, <3>1
  <2>4. CASE ~p.width.given
    <3>1. pad = <<>> /\ Put(" ", fill) = <<>> /\ Put("0", fill) = <<>> /\ pc # "0"
      BY <1>4, <1>13, <1>14, <2>4
    <3>2. px \o <<>> = px /\ <<>> \o px = px
      BY <1>7, <2>1
    <3>3. Layout(F, a) = IF left THEN px \o d \o <<>> ELSE px \o d
      BY <1>15, <3>1, <3>2
    <3>4. CPrints(p) = IF left THEN px \o d \o <<>> ELSE px \o d
      <4>1. CASE left
        BY <1>11, <3>1, <4>1
      <4>2. CASE ~left /\ zeros
        BY <1>11, <3>1, <3>2, <4>2
      <4>3. CASE ~left /\ ~zeros
        BY <1>11, <3>1, <3>2, <4>3
      <4> QED
        BY <4>1, <4>2, <4>3
    <3> QED
      BY <3>3, <3>4
  <2> QED
    BY <2>2, <2>3, <2>4
<1> QED
  BY <1>16, <1>17 DEF F, a

-----------------------------------------------------------------------------
(* Format: the pieces of a format.                                         *)

(* The text of a conversion in the format is a text.                       *)
LEMMA FormatOfType ==
  ASSUME NEW p \in Piece, p.conv \in Conversions
  PROVE  FormatOf(p) \in Seq(Chars)
<1> DEFINE a == <<"%">>
           b == p.flags
           c == p.width.text
           d == p.prec.text
           g == p.len
           h == <<p.conv>>
<1>1. \A ch \in Chars : <<ch>> \in Seq(Chars)
  OBVIOUS
<1>2. p.conv \in Chars /\ "%" \in Chars
  BY PieceTypes, CharsAssumption DEF Conversions
<1>3. a \in Seq(Chars) /\ h \in Seq(Chars)
  BY <1>1, <1>2
<1>4. b \in Seq(Chars) /\ c \in Seq(Chars) /\ d \in Seq(Chars) /\ g \in Seq(Chars)
  BY PieceTypes
<1>5. FormatOf(p) = ((((a \o b) \o c) \o d) \o g) \o h
  <2>1. p.conv # ""
    BY DEF Conversions, Signed, Unsigned
  <2> QED
    BY <2>1 DEF FormatOf
<1> HIDE DEF a, b, c, d, g, h
<1>6. a \o b \in Seq(Chars)
  BY <1>3, <1>4, Together
<1>7. (a \o b) \o c \in Seq(Chars)
  BY <1>4, <1>6, Together
<1>8. ((a \o b) \o c) \o d \in Seq(Chars)
  BY <1>4, <1>7, Together
<1>9. (((a \o b) \o c) \o d) \o g \in Seq(Chars)
  BY <1>4, <1>8, Together
<1>10. ((((a \o b) \o c) \o d) \o g) \o h \in Seq(Chars)
  BY <1>3, <1>9, Together
<1> QED
  BY <1>5, <1>10

(* A piece that is text.                                                   *)
LEMMA TextFacts ==
  ASSUME NEW ps, NEW k, IsText(ps, k)
  PROVE  /\ ps[k].conv = "" /\ FormatOf(ps[k]) = ps[k].text /\ ArgsOf(ps[k]) = <<>>
         /\ CPrints(ps[k]) = ps[k].text /\ ps[k].text # <<>>
<1> DEFINE t == ps[k].text
<1>1. ps[k] = Text(t) /\ t # <<>>
  BY DEF IsText
<1>2. Text(t).conv = "" /\ Text(t).text = t
  BY DEF Text
<1>3. ps[k].conv = ""
  BY <1>1, <1>2
<1> QED
  BY <1>1, <1>3 DEF FormatOf, ArgsOf, CPrints

(* A piece that is a conversion.                                           *)
LEMMA ConversionFacts ==
  ASSUME NEW p \in Piece, IsConversion(p)
  PROVE  /\ p.conv # "" /\ FormatOf(p) \in Seq(Chars) /\ Len(FormatOf(p)) \in Nat \ {0}
         /\ ArgsOf(p) \in Seq(Arg) /\ (Agreed(p) => CPrints(p) \in Seq(Chars))
<1>1. p.conv \in Conversions
  BY DEF IsConversion
<1>2. p.conv # ""
  BY <1>1 DEF Conversions, Signed, Unsigned
<1>3. FormatOf(p) \in Seq(Chars)
  BY <1>1, FormatOfType
<1>4. Len(FormatOf(p)) \in Nat \ {0}
  <2> DEFINE f == FormatOf(p)
             i == 1
  <2>1. Here(f, f, 1)
    <3>1. \A j \in 1 .. Len(f) : (1 - 1) + j = j /\ j <= Len(f)
      BY <1>3
    <3> HIDE DEF f
    <3> QED
      BY <3>1 DEF Here, At
  <2>2. \E a, b, c, d \in Nat \ {0} :
           /\ a = (1 + 1) + Len(p.flags) /\ b = a + Len(p.width.text)
           /\ c = b + Len(p.prec.text) /\ d = c + Len(p.len) /\ d + 1 = 1 + Len(FormatOf(p))
           /\ At(f, 1) = "%" /\ Here(p.flags, f, 1 + 1) /\ Here(p.width.text, f, a)
           /\ Here(p.prec.text, f, b) /\ Here(p.len, f, c) /\ At(f, d) = p.conv
    <3> HIDE DEF f
    <3>1. 1 \in Nat \ {0} /\ Here(FormatOf(p), f, 1)
      BY <2>1 DEF f
    <3> QED
      BY <1>1, <3>1, PieceParts
  <2>3. PICK d \in Nat \ {0} : d + 1 = 1 + Len(FormatOf(p))
    BY <2>2
  <2>4. Len(FormatOf(p)) \in Nat
    BY <1>3
  <2> DEFINE u == Len(FormatOf(p))
  <2>5. u \in Nat /\ d + 1 = 1 + u
    BY <2>3, <2>4
  <2> HIDE DEF u
  <2>6. u \in Nat \ {0}
    BY <2>5
  <2> QED
    BY <2>6 DEF u
<1>5. ArgsOf(p) \in Seq(Arg)
  <2>1. \A s \in Seq(Arg) : ArgsOf(p) \in Seq(Arg)
    BY StarsTaken
  <2>2. <<>> \in Seq(Arg)
    OBVIOUS
  <2> QED
    BY <2>1, <2>2
<1>6. Agreed(p) => CPrints(p) \in Seq(Chars)
  <2>1. \A e : Layout(Final(p, e), ArgumentOf(p)) \in Seq(Chars)
              /\ (Agreed(p) => Layout(Final(p, e), ArgumentOf(p)) = CPrints(p))
    BY LayoutIs
  <2> QED
    BY <2>1
<1> QED
  BY <1>2, <1>3, <1>4, <1>5, <1>6

(* Where the code promises what C says.                                    *)
AllAgreed(ps) == \A i \in DOMAIN ps : Agreed(ps[i])

(* The pieces of a format, and the texts and arguments they are made of.   *)
LEMMA FormatsFacts ==
  ASSUME NEW ps \in Formats
  PROVE  /\ ps \in Seq(Piece) /\ DOMAIN ps = 1 .. Len(ps) /\ Len(ps) \in Nat
         /\ \A k \in 1 .. Len(ps) : ps[k] \in Piece /\ (IsText(ps, k) \/ IsConversion(ps[k]))
         /\ Texts(ps) \in Seq(Seq(Chars)) /\ Len(Texts(ps)) = Len(ps)
         /\ \A k \in 1 .. Len(ps) : Texts(ps)[k] = FormatOf(ps[k]) /\ FormatOf(ps[k]) \in Seq(Chars)
         /\ Lists(ps) \in Seq(Seq(Arg)) /\ Len(Lists(ps)) = Len(ps)
         /\ \A k \in 1 .. Len(ps) : Lists(ps)[k] = ArgsOf(ps[k]) /\ ArgsOf(ps[k]) \in Seq(Arg)
         /\ \A k \in 1 .. Len(ps) : Printed(ps)[k] = CPrints(ps[k])
         /\ AllAgreed(ps) => Printed(ps) \in Seq(Seq(Chars)) /\ Len(Printed(ps)) = Len(ps)
<1>1. ps \in Seq(Piece) /\ \A k \in DOMAIN ps : IsText(ps, k) \/ IsConversion(ps[k])
  BY FormatsAssumption
<1>2. DOMAIN ps = 1 .. Len(ps) /\ Len(ps) \in Nat /\ \A k \in 1 .. Len(ps) : ps[k] \in Piece
  BY <1>1
<1>3. \A k \in 1 .. Len(ps) : IsText(ps, k) \/ IsConversion(ps[k])
  BY <1>1, <1>2
<1>4. ASSUME NEW k \in 1 .. Len(ps)
      PROVE  /\ FormatOf(ps[k]) \in Seq(Chars) /\ ArgsOf(ps[k]) \in Seq(Arg)
             /\ Agreed(ps[k]) => CPrints(ps[k]) \in Seq(Chars)
  <2>1. CASE IsText(ps, k)
    <3>1. ps[k].text \in Seq(Chars)
      BY <1>2, PieceTypes
    <3>2. <<>> \in Seq(Arg)
      OBVIOUS
    <3> QED
      BY <2>1, <3>1, <3>2, TextFacts
  <2>2. CASE IsConversion(ps[k])
    BY <1>2, <2>2, ConversionFacts
  <2> QED
    BY <1>3, <2>1, <2>2
<1>5. /\ Texts(ps) = [k \in 1 .. Len(ps) |-> FormatOf(ps[k])]
      /\ Lists(ps) = [k \in 1 .. Len(ps) |-> ArgsOf(ps[k])]
      /\ Printed(ps) = [k \in 1 .. Len(ps) |-> CPrints(ps[k])]
  BY <1>2 DEF Texts, Lists, Printed
<1>6. /\ Texts(ps) \in Seq(Seq(Chars)) /\ Len(Texts(ps)) = Len(ps)
      /\ \A k \in 1 .. Len(ps) : Texts(ps)[k] = FormatOf(ps[k])
  <2>1. Texts(ps) \in [1 .. Len(ps) -> Seq(Chars)]
    BY <1>4, <1>5
  <2> QED
    BY <1>2, <1>5, <2>1
<1>7. /\ Lists(ps) \in Seq(Seq(Arg)) /\ Len(Lists(ps)) = Len(ps)
      /\ \A k \in 1 .. Len(ps) : Lists(ps)[k] = ArgsOf(ps[k])
  <2>1. Lists(ps) \in [1 .. Len(ps) -> Seq(Arg)]
    BY <1>4, <1>5
  <2> QED
    BY <1>2, <1>5, <2>1
<1>8. AllAgreed(ps) => Printed(ps) \in Seq(Seq(Chars)) /\ Len(Printed(ps)) = Len(ps)
  <2> SUFFICES ASSUME AllAgreed(ps)
               PROVE  Printed(ps) \in Seq(Seq(Chars)) /\ Len(Printed(ps)) = Len(ps)
    OBVIOUS
  <2>1. \A k \in 1 .. Len(ps) : CPrints(ps[k]) \in Seq(Chars)
    BY <1>2, <1>4 DEF AllAgreed
  <2>2. Printed(ps) \in [1 .. Len(ps) -> Seq(Chars)]
    BY <1>5, <2>1
  <2> QED
    BY <1>2, <1>5, <2>2
<1>9. \A k \in 1 .. Len(ps) : Printed(ps)[k] = CPrints(ps[k])
  BY <1>5
<1> QED
  BY <1>1, <1>2, <1>3, <1>4, <1>6, <1>7, <1>8, <1>9

(* What a conversion builds in cbuf fits: the longest octal number and its *)
(* zero.                                                                   *)
LEMMA CbufFits ==
  ASSUME NEW p \in Piece, IsConversion(p), p.conv # "s", NEW e
  PROVE  Len(Cbuf(Final(p, e), ArgumentOf(p))) \in 0 .. CbufSize
<1>1. Enough \in Nat \ {0} /\ CbufSize = Enough + 1
  BY EnoughFacts, LongFacts
<1>2. CASE p.conv \in {"%", "c"}
  <2>1. Len(Cbuf(Final(p, e), ArgumentOf(p))) = 1
    BY <1>2, SingleShows
  <2> HIDE DEF Enough
  <2> QED
    BY <1>1, <2>1
<1>3. CASE p.conv \in Numeric
  <2> DEFINE b == Reversed(p)
             g == Lead(p)
  <2>1. ArgumentOf(p) = p.arg
    BY <1>3 DEF ArgumentOf, Numeric, Signed, Unsigned
  <2>2. /\ Cbuf(Final(p, e), p.arg) = Reversed(p) \o Lead(p)
        /\ Reversed(p) \in Seq(Chars) /\ Len(Reversed(p)) <= Enough
        /\ Lead(p) \in Seq(Chars) /\ Len(Lead(p)) <= 1
    BY <1>3, CbufIs
  <2>3. /\ Cbuf(Final(p, e), ArgumentOf(p)) = b \o g /\ b \in Seq(Chars) /\ g \in Seq(Chars)
        /\ Len(b) <= Enough /\ Len(g) <= 1
    BY <2>1, <2>2
  <2> HIDE DEF b, g
  <2>4. Len(b \o g) = Len(b) + Len(g) /\ Len(b) \in Nat /\ Len(g) \in Nat
    BY <2>3, Together
  <2> DEFINE x == Len(b)
             y == Len(g)
  <2>5. Len(b \o g) = x + y /\ x \in Nat /\ y \in Nat /\ x <= Enough /\ y <= 1
    BY <2>3, <2>4
  <2> HIDE DEF x, y, Enough
  <2>6. x + y \in 0 .. CbufSize
    BY <1>1, <2>5
  <2> QED
    BY <2>3, <2>5, <2>6
<1> QED
  BY <1>2, <1>3, EveryConversion

-----------------------------------------------------------------------------
(* Format: the place of a piece in the format and in the arguments.        *)

(* A piece is found in the format behind the ones before it.               *)
LEMMA PieceIsHere ==
  ASSUME NEW ps \in Formats, NEW k \in 0 .. Len(ps), k < Len(ps)
  PROVE  LET f == Joined(Texts(ps))[Len(ps)]
             b == Len(Joined(Texts(ps))[k])
             h == Len(FormatOf(ps[k + 1]))
         IN  /\ f \in Seq(Chars) /\ b \in Nat /\ h \in Nat
             /\ Here(FormatOf(ps[k + 1]), f, b + 1) /\ b + h <= Len(f)
             /\ Len(Joined(Texts(ps))[k + 1]) = b + h
<1> DEFINE J == Joined(Texts(ps))
           a == J[k]
           c == FormatOf(ps[k + 1])
<1>1. k + 1 \in 1 .. Len(ps) /\ (k + 1) - 1 = k /\ Len(ps) \in Nat
  BY FormatsFacts
<1>2. /\ Texts(ps) \in Seq(Seq(Chars)) /\ Len(Texts(ps)) = Len(ps)
      /\ Texts(ps)[k + 1] = c /\ c \in Seq(Chars)
  BY <1>1, FormatsFacts
<1>3. k + 1 \in 1 .. Len(Texts(ps))
  BY <1>1, <1>2
<1>4. /\ J[(k + 1) - 1] \in Seq(Chars) /\ J[Len(Texts(ps))] \in Seq(Chars)
      /\ J[k + 1] = J[(k + 1) - 1] \o Texts(ps)[k + 1]
      /\ \E t \in Seq(Chars) : J[Len(Texts(ps))] = (J[(k + 1) - 1] \o Texts(ps)[k + 1]) \o t
  <2> HIDE DEF J
  <2> QED
    BY <1>2, <1>3, JoinedPart DEF J
<1>5. /\ a \in Seq(Chars) /\ J[Len(ps)] \in Seq(Chars) /\ J[k + 1] = a \o c
      /\ \E t \in Seq(Chars) : J[Len(ps)] = (a \o c) \o t
  <2> HIDE DEF J, c
  <2> QED
    BY <1>1, <1>2, <1>4
<1>6. PICK t \in Seq(Chars) : J[Len(ps)] = (a \o c) \o t
  BY <1>5
<1> DEFINE f == J[Len(ps)]
<1>7. /\ a \in Seq(Chars) /\ c \in Seq(Chars) /\ f \in Seq(Chars) /\ f = (a \o c) \o t
      /\ J[k + 1] = a \o c
  BY <1>2, <1>5, <1>6
<1> HIDE DEF J, a, c, f
<1>8. /\ Here(c, (a \o c) \o t, Len(a) + 1) /\ Len((a \o c) \o t) = Len(a) + Len(c) + Len(t)
      /\ Len(a \o c) = Len(a) + Len(c)
  BY <1>7, HereIn
<1>9. Len(a) \in Nat /\ Len(c) \in Nat /\ Len(t) \in Nat
  BY <1>7
<1>10. /\ Here(c, f, Len(a) + 1) /\ Len(a) + Len(c) <= Len(f) /\ Len(J[k + 1]) = Len(a) + Len(c)
       /\ f \in Seq(Chars) /\ Len(a) \in Nat /\ Len(c) \in Nat
  <2> DEFINE x == Len(a)
             y == Len(c)
             z == Len(t)
             w == Len(f)
  <2>1. x \in Nat /\ y \in Nat /\ z \in Nat /\ w = x + y + z
    BY <1>7, <1>8, <1>9
  <2> HIDE DEF x, y, z, w
  <2>2. x + y <= w
    BY <2>1
  <2> QED
    BY <1>7, <1>8, <1>9, <2>2 DEF x, y, w
<1> QED
  BY <1>10 DEF J, a, c, f

(* The arguments left at a piece begin with its own.                       *)
LEMMA ArgsAreHere ==
  ASSUME NEW ps \in Formats, NEW k \in 0 .. Len(ps), k < Len(ps), NEW s \in Seq(Arg),
         Joined(Lists(ps))[Len(ps)] = Joined(Lists(ps))[k] \o s
  PROVE  \E r \in Seq(Arg) : /\ s = ArgsOf(ps[k + 1]) \o r
                             /\ Joined(Lists(ps))[Len(ps)] = Joined(Lists(ps))[k + 1] \o r
<1> DEFINE J == Joined(Lists(ps))
           a == J[k]
           c == ArgsOf(ps[k + 1])
<1>1. k + 1 \in 1 .. Len(ps) /\ (k + 1) - 1 = k /\ Len(ps) \in Nat
  BY FormatsFacts
<1>2. /\ Lists(ps) \in Seq(Seq(Arg)) /\ Len(Lists(ps)) = Len(ps)
      /\ Lists(ps)[k + 1] = c /\ c \in Seq(Arg)
  BY <1>1, FormatsFacts
<1>3. k + 1 \in 1 .. Len(Lists(ps))
  BY <1>1, <1>2
<1>4. /\ J[(k + 1) - 1] \in Seq(Arg)
      /\ J[k + 1] = J[(k + 1) - 1] \o Lists(ps)[k + 1]
      /\ \E t \in Seq(Arg) : J[Len(Lists(ps))] = (J[(k + 1) - 1] \o Lists(ps)[k + 1]) \o t
  <2> HIDE DEF J
  <2> QED
    BY <1>2, <1>3, JoinedPart DEF J
<1>5. a \in Seq(Arg) /\ J[k + 1] = a \o c /\ \E t \in Seq(Arg) : J[Len(ps)] = (a \o c) \o t
  <2> HIDE DEF J, c
  <2> QED
    BY <1>1, <1>2, <1>4
<1>6. PICK t \in Seq(Arg) : J[Len(ps)] = (a \o c) \o t
  BY <1>5
<1>7. a \in Seq(Arg) /\ c \in Seq(Arg) /\ t \in Seq(Arg) /\ J[Len(ps)] = a \o s
  BY <1>2, <1>5
<1> HIDE DEF a, c, J
<1>8. (a \o c) \o t = a \o (c \o t)
  BY <1>7, Regrouped, SMTT(20)
<1>9. c \o t \in Seq(Arg)
  BY <1>6, <1>7
<1> DEFINE w == c \o t
<1>10. a \in Seq(Arg) /\ s \in Seq(Arg) /\ w \in Seq(Arg) /\ a \o s = a \o w
  BY <1>6, <1>7, <1>8, <1>9
<1> HIDE DEF w
<1>11. s = w
  BY <1>10, SameRest
<1> QED
  BY <1>5, <1>6, <1>11 DEF a, c, w, J

(* What a piece prints comes behind what the pieces before it print.       *)
LEMMA PrintedStep ==
  ASSUME NEW ps \in Formats, AllAgreed(ps), NEW k \in 0 .. Len(ps), k < Len(ps)
  PROVE  /\ Joined(Printed(ps))[k] \in Seq(Chars) /\ CPrints(ps[k + 1]) \in Seq(Chars)
         /\ Joined(Printed(ps))[k + 1] = Joined(Printed(ps))[k] \o CPrints(ps[k + 1])
<1>1. k + 1 \in 1 .. Len(ps) /\ (k + 1) - 1 = k /\ Len(ps) \in Nat
  BY FormatsFacts
<1>2. /\ Printed(ps) \in Seq(Seq(Chars)) /\ Len(Printed(ps)) = Len(ps)
      /\ Printed(ps)[k + 1] = CPrints(ps[k + 1])
  BY <1>1, FormatsFacts
<1>3. k + 1 \in 1 .. Len(Printed(ps))
  BY <1>1, <1>2
<1>4. /\ Joined(Printed(ps))[(k + 1) - 1] \in Seq(Chars)
      /\ Joined(Printed(ps))[k + 1] = Joined(Printed(ps))[(k + 1) - 1] \o Printed(ps)[k + 1]
  BY <1>2, <1>3, JoinedPart
<1>5. Printed(ps)[k + 1] \in Seq(Chars)
  BY <1>2, <1>3
<1> QED
  BY <1>1, <1>2, <1>4, <1>5

-----------------------------------------------------------------------------
(* Format: the loop.  Its place is between two pieces or in a text: a      *)
(* conversion is done in one turn.                                         *)

(* k pieces have been done, and of the text of the next one t.  The text   *)
(* put is C's where it should be.                                          *)
Reached(k, t) ==
  /\ k \in 0 .. Len(pieces) /\ t \in Seq(Chars)
  /\ t # <<>> =>
       /\ k < Len(pieces) /\ IsText(pieces, k + 1)
       /\ \E u \in Seq(Chars) : u # <<>> /\ pieces[k + 1].text = t \o u
  /\ cur = Len(Joined(Texts(pieces))[k]) + Len(t) + 1
  /\ args \in Seq(Arg) /\ Joined(Lists(pieces))[Len(pieces)] = Joined(Lists(pieces))[k] \o args
  /\ AllAgreed(pieces) => out = Joined(Printed(pieces))[k] \o t

FormatInv ==
  /\ pieces \in Formats /\ format = Joined(Texts(pieces))[Len(pieces)]
  /\ cbuf_len \in 0 .. CbufSize /\ overrun = FALSE
  /\ \E k, t : Reached(k, t)

(* In the beginning no piece has been done.                                *)
LEMMA FormatInvInit == Init => FormatInv
<1> SUFFICES ASSUME Init PROVE FormatInv
  OBVIOUS
<1>1. /\ pieces \in Formats /\ format = Joined(Texts(pieces))[Len(pieces)]
      /\ args = Joined(Lists(pieces))[Len(pieces)]
      /\ cur = 1 /\ out = <<>> /\ cbuf_len = 0 /\ overrun = FALSE
  BY DEF Init
<1>2. 0 \in 0 .. CbufSize
  <2>1. Enough \in Nat /\ CbufSize = Enough + 1
    BY EnoughFacts, LongFacts
  <2> HIDE DEF Enough
  <2> QED
    BY <2>1
<1>3. /\ Len(pieces) \in Nat
      /\ Texts(pieces) \in Seq(Seq(Chars)) /\ Lists(pieces) \in Seq(Seq(Arg))
      /\ Len(Lists(pieces)) = Len(pieces)
      /\ AllAgreed(pieces) => Printed(pieces) \in Seq(Seq(Chars))
  BY <1>1, FormatsFacts
<1>4. Joined(Texts(pieces))[0] = <<>>
  BY <1>3, JoinedSteps
<1>5. Joined(Lists(pieces))[0] = <<>> /\ args \in Seq(Arg)
  <2>1. /\ Joined(Lists(pieces)) \in [0 .. Len(Lists(pieces)) -> Seq(Arg)]
        /\ Joined(Lists(pieces))[0] = <<>>
    BY <1>3, JoinedSteps
  <2> QED
    BY <1>1, <1>3, <2>1
<1>6. AllAgreed(pieces) => Joined(Printed(pieces))[0] = <<>>
  BY <1>3, JoinedSteps
<1>7. Reached(0, <<>>)
  <2>1. \A s \in Seq(Arg) : <<>> \o s = s
    OBVIOUS
  <2>2. <<>> \in Seq(Chars) /\ Len(<<>>) = 0 /\ <<>> \o <<>> = <<>> /\ 0 \in 0 .. Len(pieces)
    BY <1>3
  <2>3. cur = Len(Joined(Texts(pieces))[0]) + Len(<<>>) + 1
    BY <1>1, <1>4
  <2>4. Joined(Lists(pieces))[Len(pieces)] = Joined(Lists(pieces))[0] \o args
    BY <1>1, <1>5, <2>1
  <2> QED
    BY <1>1, <1>5, <1>6, <2>2, <2>3, <2>4 DEF Reached
<1> QED
  BY <1>1, <1>2, <1>7 DEF FormatInv

(* Where all the pieces have been done, the format ends.                   *)
LEMMA FormatEnds ==
  ASSUME FormatInv, NEW k, NEW t, Reached(k, t), k = Len(pieces)
  PROVE  ~More /\ t = <<>> /\ cur = Len(format) + 1
<1>1. pieces \in Formats /\ format = Joined(Texts(pieces))[Len(pieces)]
  BY DEF FormatInv
<1>2. k \in 0 .. Len(pieces) /\ t = <<>> /\ cur = Len(Joined(Texts(pieces))[k]) + Len(t) + 1
  <2>1. k \in 0 .. Len(pieces) /\ (t # <<>> => k < Len(pieces)) /\ cur = Len(Joined(Texts(pieces))[k]) + Len(t) + 1
    BY DEF Reached
  <2>2. Len(pieces) \in Nat
    BY <1>1, FormatsFacts
  <2> QED
    BY <2>1, <2>2
<1>3. format \in Seq(Chars)
  <2>1. Len(pieces) \in Nat /\ Texts(pieces) \in Seq(Seq(Chars)) /\ Len(Texts(pieces)) = Len(pieces)
    BY <1>1, FormatsFacts
  <2>2. Joined(Texts(pieces)) \in [0 .. Len(Texts(pieces)) -> Seq(Chars)]
    BY <2>1, JoinedSteps
  <2> QED
    BY <1>1, <2>1, <2>2
<1>4. Len(format) \in Nat /\ cur = Len(format) + 1
  <2>1. Len(t) = 0 /\ Len(format) \in Nat
    BY <1>2, <1>3
  <2>2. cur = Len(format) + 0 + 1
    BY <1>1, <1>2, <2>1
  <2> QED
    BY <2>1, <2>2
<1>5. At(format, cur) = NUL
  BY <1>4 DEF At
<1> QED
  BY <1>2, <1>4, <1>5 DEF More

(* Where a piece is a conversion, it is parsed as such.                    *)
LEMMA AtConversion ==
  ASSUME FormatInv, NEW k, NEW t, Reached(k, t), k < Len(pieces), IsConversion(pieces[k + 1])
  PROVE  /\ t = <<>> /\ pieces[k + 1] \in Piece /\ k + 1 \in 0 .. Len(pieces)
         /\ At(format, cur) = "%"
         /\ Parse(format, cur) = Parsed(pieces[k + 1], Len(Joined(Texts(pieces))[k + 1]) + 1)
<1> DEFINE p == pieces[k + 1]
           b == Len(Joined(Texts(pieces))[k])
           h == Len(FormatOf(p))
           e == Len(Joined(Texts(pieces))[k + 1])
<1>1. pieces \in Formats /\ format = Joined(Texts(pieces))[Len(pieces)]
  BY DEF FormatInv
<1>2. /\ k \in 0 .. Len(pieces) /\ cur = b + Len(t) + 1
      /\ t # <<>> => IsText(pieces, k + 1)
  BY DEF Reached
<1>3. t = <<>>
  <2>1. IsText(pieces, k + 1) => p.conv = ""
    BY TextFacts
  <2>2. p.conv # ""
    BY DEF IsConversion, Conversions, Signed, Unsigned
  <2> QED
    BY <1>2, <2>1, <2>2
<1>4. k + 1 \in 1 .. Len(pieces) /\ k + 1 \in 0 .. Len(pieces) /\ p \in Piece
  <2>1. Len(pieces) \in Nat /\ \A i \in 1 .. Len(pieces) : pieces[i] \in Piece
    BY <1>1, FormatsFacts
  <2>2. k + 1 \in 1 .. Len(pieces) /\ k + 1 \in 0 .. Len(pieces)
    BY <1>2, <2>1
  <2> QED
    BY <2>1, <2>2
<1>5. /\ format \in Seq(Chars) /\ b \in Nat /\ h \in Nat
      /\ Here(FormatOf(p), format, b + 1) /\ b + h <= Len(format) /\ e = b + h
  BY <1>1, <1>2, PieceIsHere
<1>6. cur = b + 1
  <2>1. Len(t) = 0
    BY <1>3
  <2> HIDE DEF b
  <2> QED
    BY <1>2, <1>5, <2>1
<1>7. /\ cur \in Nat \ {0} /\ Here(FormatOf(p), format, cur)
      /\ cur + Len(FormatOf(p)) <= Len(format) + 1
      /\ cur + Len(FormatOf(p)) = e + 1
  <2> DEFINE w == Len(format)
  <2>1. w \in Nat /\ b + h <= w
    <3> HIDE DEF b, h
    <3> QED
      BY <1>5
  <2> HIDE DEF b, h, w, e, p
  <2>2. cur \in Nat \ {0} /\ cur + h <= w + 1 /\ cur + h = e + 1
    BY <1>5, <1>6, <2>1
  <2> QED
    BY <1>5, <1>6, <2>2 DEF h, w
<1>8. Parse(format, cur) = Parsed(p, cur + Len(FormatOf(p))) /\ At(format, cur) = "%"
  <2>1. p \in Piece /\ IsConversion(p) /\ format \in Seq(Chars)
    BY <1>4, <1>5
  <2> HIDE DEF p
  <2> QED
    BY <1>7, <2>1, PieceParsed
<1> QED
  BY <1>3, <1>4, <1>7, <1>8

(* A conversion that is parsed and has its arguments in front takes them   *)
(* and puts its layout; it reads no string behind its memory.              *)
LEMMA ConvertIs ==
  ASSUME NEW p \in Piece, IsConversion(p), NEW e, NEW r \in Seq(Arg),
         Parse(format, cur) = Parsed(p, e), args = ArgsOf(p) \o r,
         overrun = FALSE, cbuf_len \in 0 .. CbufSize, Convert
  PROVE  /\ cur' = e /\ args' = r /\ out' = out \o Layout(Final(p, e), ArgumentOf(p))
         /\ cbuf_len' \in 0 .. CbufSize /\ overrun' = FALSE
         /\ pieces' = pieces /\ format' = format
<1> DEFINE F == Final(p, e)
           as == Own(p) \o r
           g == IF F.conv = "%" THEN NoArg ELSE as[1]
<1>1. PICK s : /\ s = StarredTwice(Starred(Parsed(p, e), args))
               /\ PutText(s.fs, s.args) /\ cur' = Parsed(p, e).next
  BY DEF Convert
<1>2. s = [fs |-> F, args |-> as]
  BY <1>1, StarsTaken
<1>3. PutText(F, as)
  <2> HIDE DEF F, as
  <2>1. s.fs = F /\ s.args = as
    BY <1>2
  <2> QED
    BY <1>1, <2>1
<1>4. cur' = e
  BY <1>1 DEF Parsed
<1>5. F.conv = p.conv
  BY FinalFields
<1>6. g = ArgumentOf(p) /\ (IF F.conv = "%" THEN as ELSE Tail(as)) = r
  <2>1. CASE p.conv = "%"
    <3>1. <<>> \o r = r
      OBVIOUS
    <3> QED
      BY <1>5, <2>1, <3>1 DEF Own, ArgumentOf
  <2>2. CASE p.conv # "%"
    <3>1. p.arg \in Arg
      BY PieceTypes
    <3>2. as = <<p.arg>> \o r
      BY <2>2 DEF Own
    <3>3. (<<p.arg>> \o r)[1] = p.arg /\ Tail(<<p.arg>> \o r) = r
      BY <3>1, Popped
    <3> HIDE DEF F
    <3> QED
      BY <1>5, <2>2, <3>2, <3>3 DEF ArgumentOf
  <2> QED
    BY <2>1, <2>2
<1>7. /\ args' = IF F.conv = "%" THEN as ELSE Tail(as)
      /\ out' = out \o Layout(F, g)
      /\ cbuf_len' = IF F.conv = "s" THEN cbuf_len ELSE Len(Cbuf(F, g))
      /\ overrun' = (overrun \/ (F.conv = "s" /\ String(F, g.mem).reads > Len(g.mem)))
  <2> HIDE DEF F, as
  <2> QED
    BY <1>3 DEF PutText
<1>8. pieces' = pieces /\ format' = format
  BY DEF Convert
<1> HIDE DEF F, as, g
<1>9. args' = r /\ out' = out \o Layout(F, ArgumentOf(p))
  BY <1>6, <1>7
<1>10. cbuf_len' \in 0 .. CbufSize
  <2>1. CASE p.conv = "s"
    BY <1>5, <1>7, <2>1
  <2>2. CASE p.conv # "s"
    <3>1. cbuf_len' = Len(Cbuf(F, ArgumentOf(p)))
      BY <1>5, <1>6, <1>7, <2>2
    <3>2. Len(Cbuf(Final(p, e), ArgumentOf(p))) \in 0 .. CbufSize
      BY <2>2, CbufFits
    <3> QED
      BY <3>1, <3>2 DEF F
  <2> QED
    BY <2>1, <2>2
<1>11. overrun' = FALSE
  <2>1. CASE p.conv = "s"
    <3>1. ArgumentOf(p) = p.arg
      BY <2>1 DEF ArgumentOf
    <3> DEFINE x == String(F, p.arg.mem).reads
               y == Len(p.arg.mem)
    <3>2. /\ String(Final(p, e), p.arg.mem).reads <= Len(p.arg.mem)
          /\ String(Final(p, e), p.arg.mem).len \in 0 .. Len(p.arg.mem)
      BY <2>1, StringIs
    <3>3. overrun' = (x > y)
      BY <1>5, <1>6, <1>7, <2>1, <3>1
    <3>4. x <= y
      BY <3>2 DEF F
    <3>5. y \in Nat /\ x \in Int
      <4>1. y \in Nat
        BY MemType
      <4>2. String(F, p.arg.mem).len \in Int
        <5> HIDE DEF y
        <5> QED
          BY <3>2, <4>1 DEF F, y
      <4> DEFINE l == String(F, p.arg.mem).len
      <4>3. x = l \/ x = l + 1
        BY DEF String
      <4> HIDE DEF l, x, y
      <4> QED
        BY <4>1, <4>2, <4>3 DEF l
    <3> HIDE DEF x, y
    <3>6. (x > y) = FALSE
      BY <3>4, <3>5
    <3> QED
      BY <3>3, <3>6
  <2>2. CASE p.conv # "s"
    BY <1>5, <1>7, <2>2
  <2> QED
    BY <2>1, <2>2
<1> QED
  BY <1>4, <1>8, <1>9, <1>10, <1>11 DEF F

(* A turn of the loop at a conversion converts it.                         *)
LEMMA ConversionTurn ==
  ASSUME FormatInv, NEW k, NEW t, Reached(k, t), k < Len(pieces), IsConversion(pieces[k + 1]), Next
  PROVE  FormatInv'
<1> DEFINE p == pieces[k + 1]
           e == Len(Joined(Texts(pieces))[k + 1]) + 1
<1>1. /\ pieces \in Formats /\ format = Joined(Texts(pieces))[Len(pieces)]
      /\ cbuf_len \in 0 .. CbufSize /\ overrun = FALSE
  BY DEF FormatInv
<1>2. /\ t = <<>> /\ p \in Piece /\ k + 1 \in 0 .. Len(pieces)
      /\ At(format, cur) = "%" /\ Parse(format, cur) = Parsed(p, e)
  BY AtConversion
<1>3. p.conv \in Conversions /\ Parsed(p, e).conv = p.conv /\ IsConversion(p)
  BY DEF IsConversion, Parsed
<1>4. Convert
  <2>1. ~Literal
    BY <1>2, <1>3 DEF Literal
  <2> QED
    BY <2>1 DEF Next
<1>5. /\ k \in 0 .. Len(pieces) /\ args \in Seq(Arg)
      /\ Joined(Lists(pieces))[Len(pieces)] = Joined(Lists(pieces))[k] \o args
      /\ AllAgreed(pieces) => out = Joined(Printed(pieces))[k] \o t
  BY DEF Reached
<1>6. PICK r \in Seq(Arg) : /\ args = ArgsOf(p) \o r
                            /\ Joined(Lists(pieces))[Len(pieces)] = Joined(Lists(pieces))[k + 1] \o r
  BY <1>1, <1>5, ArgsAreHere
<1>7. /\ cur' = e /\ args' = r /\ out' = out \o Layout(Final(p, e), ArgumentOf(p))
      /\ cbuf_len' \in 0 .. CbufSize /\ overrun' = FALSE
      /\ pieces' = pieces /\ format' = format
  <2> HIDE DEF p, e
  <2> QED
    BY <1>1, <1>2, <1>3, <1>4, <1>6, ConvertIs
<1>8. AllAgreed(pieces) => out' = Joined(Printed(pieces))[k + 1] \o <<>>
  <2> SUFFICES ASSUME AllAgreed(pieces) PROVE out' = Joined(Printed(pieces))[k + 1] \o <<>>
    OBVIOUS
  <2> DEFINE a == Joined(Printed(pieces))[k]
             c == CPrints(p)
  <2>1. a \in Seq(Chars) /\ c \in Seq(Chars) /\ Joined(Printed(pieces))[k + 1] = a \o c
    BY <1>1, <1>5, PrintedStep
  <2>2. Agreed(p)
    <3>1. Len(pieces) \in Nat /\ DOMAIN pieces = 1 .. Len(pieces)
      BY <1>1, FormatsFacts
    <3>2. k + 1 \in DOMAIN pieces
      BY <1>5, <3>1
    <3> QED
      BY <3>2 DEF AllAgreed
  <2>3. Layout(Final(p, e), ArgumentOf(p)) = c
    <3> HIDE DEF p, e
    <3> QED
      BY <1>2, <1>3, <2>2, LayoutIs
  <2>4. out = a \o <<>>
    BY <1>2, <1>5
  <2> HIDE DEF a, c, p, e
  <2>5. a \o <<>> = a /\ (a \o c) \o <<>> = a \o c
    BY <2>1
  <2> QED
    BY <1>7, <2>1, <2>3, <2>4, <2>5
<1>9. Reached(k + 1, <<>>)'
  <2>1. <<>> \in Seq(Chars) /\ Len(<<>>) = 0
    OBVIOUS
  <2>2. cur' = Len(Joined(Texts(pieces))[k + 1]) + Len(<<>>) + 1
    <3> DEFINE x == Len(Joined(Texts(pieces))[k + 1])
    <3>1. x \in Nat
      <4>1. /\ Len(Joined(Texts(pieces))[k]) \in Nat /\ Len(FormatOf(p)) \in Nat
            /\ x = Len(Joined(Texts(pieces))[k]) + Len(FormatOf(p))
        BY <1>1, <1>5, PieceIsHere
      <4> DEFINE y == Len(Joined(Texts(pieces))[k])
                 z == Len(FormatOf(p))
      <4>2. y \in Nat /\ z \in Nat /\ x = y + z
        BY <4>1
      <4> HIDE DEF x, y, z
      <4> QED
        BY <4>2
    <3>2. cur' = x + 1
      BY <1>7
    <3> HIDE DEF x
    <3>3. x + 1 = x + Len(<<>>) + 1
      BY <2>1, <3>1
    <3> QED
      BY <3>2, <3>3 DEF x
  <2> HIDE DEF p, e
  <2> QED
    BY <1>2, <1>6, <1>7, <1>8, <2>1, <2>2 DEF Reached
<1>10. /\ pieces' \in Formats /\ format' = Joined(Texts(pieces'))[Len(pieces')]
  BY <1>1, <1>7
<1> QED
  BY <1>7, <1>9, <1>10 DEF FormatInv

(* The first character of what is left of a text moves to what is done.    *)
LEMMA TextParts ==
  ASSUME NEW S, NEW t \in Seq(S), NEW u \in Seq(S), u # <<>>
  PROVE  /\ t \o u = (t \o <<u[1]>>) \o Tail(u) /\ Tail(u) \in Seq(S) /\ t \o <<u[1]>> \in Seq(S)
         /\ (t \o u)[Len(t) + 1] = u[1] /\ Len(t) + 1 \in 1 .. Len(t \o u) /\ Len(t) \in Nat
         /\ Len(t \o <<u[1]>>) = Len(t) + 1 /\ u[1] \in S /\ t \o <<u[1]>> # <<>>
<1>1. Len(u) \in Nat \ {0} /\ u[1] \in S /\ Tail(u) \in Seq(S) /\ u = <<u[1]>> \o Tail(u)
  OBVIOUS
<1>2. \A c \in S : <<c>> \in Seq(S) /\ Len(<<c>>) = 1
  OBVIOUS
<1> DEFINE c == u[1]
           d == <<c>>
           v == Tail(u)
<1>3. d \in Seq(S) /\ v \in Seq(S) /\ u = d \o v /\ Len(d) = 1
  BY <1>1, <1>2
<1>4. (t \o u)[Len(t) + 1] = u[1] /\ Len(t \o u) = Len(t) + Len(u) /\ Len(t) \in Nat
  BY <1>1
<1> HIDE DEF d, v
<1>5. (t \o d) \o v = t \o (d \o v) /\ t \o d \in Seq(S) /\ Len(t \o d) = Len(t) + Len(d)
  <2>1. (t \o d) \o v = t \o (d \o v)
    BY <1>3, Regrouped, SMTT(20)
  <2>2. t \o d \in Seq(S) /\ Len(t \o d) = Len(t) + Len(d)
    BY <1>3, Together
  <2> QED
    BY <2>1, <2>2
<1>6. Len(t) + 1 \in 1 .. Len(t \o u) /\ Len(t \o d) = Len(t) + 1
  BY <1>1, <1>3, <1>4, <1>5
<1>7. t \o d # <<>>
  BY <1>4, <1>5, <1>6
<1> QED
  BY <1>1, <1>3, <1>4, <1>5, <1>6, <1>7 DEF d, v

(* Where the next character is of a text, it is put as it is.              *)
LEMMA AtText ==
  ASSUME FormatInv, NEW k, NEW t, Reached(k, t), k < Len(pieces), IsText(pieces, k + 1)
  PROVE  \E u \in Seq(Chars) :
           /\ u # <<>> /\ pieces[k + 1].text = t \o u /\ At(format, cur) = u[1] /\ u[1] # NUL
           /\ ~Convert
<1> DEFINE p == pieces[k + 1]
           x == p.text
           b == Len(Joined(Texts(pieces))[k])
<1>1. pieces \in Formats /\ format = Joined(Texts(pieces))[Len(pieces)]
  BY DEF FormatInv
<1>2. /\ k \in 0 .. Len(pieces) /\ t \in Seq(Chars) /\ cur = b + Len(t) + 1
      /\ t # <<>> => \E u \in Seq(Chars) : u # <<>> /\ x = t \o u
  BY DEF Reached
<1>3. FormatOf(p) = x /\ x # <<>>
  BY TextFacts
<1>4. p \in Piece
  <2>1. Len(pieces) \in Nat /\ \A i \in 1 .. Len(pieces) : pieces[i] \in Piece
    BY <1>1, FormatsFacts
  <2>2. k + 1 \in 1 .. Len(pieces)
    BY <1>2, <2>1
  <2> QED
    BY <2>1, <2>2
<1>5. x \in Seq(Chars \ {NUL}) /\ x \in Seq(Chars)
  <2> HIDE DEF p
  <2> QED
    BY <1>4, PieceTypes
<1>6. \E u \in Seq(Chars) : u # <<>> /\ x = t \o u
  <2>1. CASE t = <<>>
    <3>1. x = <<>> \o x
      <4> HIDE DEF x
      <4> QED
        BY <1>5
    <3> QED
      BY <1>3, <1>5, <2>1, <3>1
  <2> QED
    BY <1>2, <2>1
<1>7. PICK u \in Seq(Chars) : u # <<>> /\ x = t \o u
  BY <1>6
<1> DEFINE i == Len(t) + 1
<1>8. x[i] = u[1] /\ i \in 1 .. Len(x) /\ Len(t) \in Nat
  <2> HIDE DEF x
  <2> QED
    BY <1>2, <1>7, TextParts
<1>9. b \in Nat /\ Here(x, format, b + 1)
  <2>1. b \in Nat /\ Here(FormatOf(p), format, b + 1)
    BY <1>1, <1>2, PieceIsHere
  <2> QED
    BY <1>3, <2>1
<1>10. cur = b + i /\ cur = ((b + 1) - 1) + i
  <2> HIDE DEF b
  <2> QED
    BY <1>2, <1>8, <1>9
<1>11. At(format, cur) = u[1]
  <2> HIDE DEF b, x, i
  <2> QED
    BY <1>8, <1>9, <1>10 DEF Here
<1>12. u[1] # NUL
  <2>1. x[i] \in Chars \ {NUL}
    <3> HIDE DEF x, i
    <3> QED
      BY <1>5, <1>8
  <2> QED
    BY <1>8, <2>1
<1>13. ~Convert
  <2> SUFFICES ASSUME Convert PROVE FALSE
    OBVIOUS
  <2>1. At(format, cur) = "%" /\ Parse(format, cur).conv \in Conversions
    BY DEF Convert
  <2>2. \A j \in DOMAIN x : x[j] = "%" =>
          Parse(Joined(Texts(pieces))[Len(pieces)],
                Len(Joined(Texts(pieces))[(k + 1) - 1]) + j).conv \notin Conversions
    BY DEF IsText
  <2>3. (k + 1) - 1 = k /\ i \in DOMAIN x
    <3>1. Len(pieces) \in Nat
      BY <1>1, FormatsFacts
    <3>2. DOMAIN x = 1 .. Len(x)
      <4> HIDE DEF x
      <4> QED
        BY <1>5
    <3> QED
      BY <1>2, <1>8, <3>1, <3>2
  <2>4. x[i] = "%"
    BY <1>8, <1>11, <2>1
  <2>5. Parse(format, b + i).conv \notin Conversions
    <3> HIDE DEF x, i
    <3> QED
      BY <1>1, <2>2, <2>3, <2>4
  <2> QED
    BY <1>10, <2>1, <2>5
<1> QED
  BY <1>7, <1>11, <1>12, <1>13

(* A turn of the loop in a text puts its next character; behind the last   *)
(* one the next piece begins.                                              *)
LEMMA TextTurn ==
  ASSUME FormatInv, NEW k, NEW t, Reached(k, t), k < Len(pieces), IsText(pieces, k + 1), Next
  PROVE  FormatInv'
<1> DEFINE p == pieces[k + 1]
           x == p.text
           b == Len(Joined(Texts(pieces))[k])
           L == Len(pieces)
<1>1. /\ pieces \in Formats /\ format = Joined(Texts(pieces))[L]
      /\ cbuf_len \in 0 .. CbufSize /\ overrun = FALSE
  BY DEF FormatInv
<1>2. PICK u \in Seq(Chars) :
         u # <<>> /\ x = t \o u /\ At(format, cur) = u[1] /\ u[1] # NUL /\ ~Convert
  BY AtText
<1> DEFINE c == u[1]
           t1 == t \o <<c>>
           v == Tail(u)
<1>3. /\ k \in 0 .. L /\ t \in Seq(Chars) /\ cur = b + Len(t) + 1
      /\ args \in Seq(Arg) /\ Joined(Lists(pieces))[L] = Joined(Lists(pieces))[k] \o args
      /\ AllAgreed(pieces) => out = Joined(Printed(pieces))[k] \o t
  BY DEF Reached
<1>4. Literal
  BY <1>2 DEF Next
<1>5. /\ out' = Append(out, c) /\ cur' = cur + 1 /\ args' = args /\ pieces' = pieces
      /\ format' = format /\ cbuf_len' = cbuf_len /\ overrun' = overrun
  BY <1>2, <1>4 DEF Literal
<1>6. FormatOf(p) = x /\ ArgsOf(p) = <<>> /\ CPrints(p) = x /\ x # <<>>
  BY TextFacts
<1>7. /\ x = t1 \o v /\ v \in Seq(Chars) /\ t1 \in Seq(Chars) /\ t1 # <<>>
      /\ Len(t1) = Len(t) + 1 /\ Len(t) \in Nat /\ c \in Chars
  <2>1. /\ t \o u = (t \o <<u[1]>>) \o Tail(u) /\ Tail(u) \in Seq(Chars)
        /\ t \o <<u[1]>> \in Seq(Chars)
        /\ Len(t) \in Nat /\ Len(t \o <<u[1]>>) = Len(t) + 1 /\ u[1] \in Chars
        /\ t \o <<u[1]>> # <<>>
    <3>1. t \in Seq(Chars) /\ u \in Seq(Chars) /\ u # <<>>
      BY <1>2, <1>3
    <3> QED
      BY <3>1, TextParts
  <2> QED
    BY <1>2, <2>1
<1>8. L \in Nat /\ k + 1 \in 0 .. L /\ b \in Nat /\ Len(Joined(Texts(pieces))[k + 1]) = b + Len(x)
  <2>1. L \in Nat
    BY <1>1, FormatsFacts
  <2>2. k + 1 \in 0 .. L
    BY <1>3, <2>1
  <2>3. b \in Nat /\ Len(Joined(Texts(pieces))[k + 1]) = b + Len(FormatOf(p))
    BY <1>1, <1>3, PieceIsHere
  <2> QED
    BY <1>6, <2>1, <2>2, <2>3
<1>9. cur' = b + Len(t1) + 1
  <2> HIDE DEF b, t1
  <2> QED
    BY <1>3, <1>5, <1>7, <1>8
<1>10. AllAgreed(pieces) =>
         /\ Joined(Printed(pieces))[k] \in Seq(Chars) /\ out' = Joined(Printed(pieces))[k] \o t1
         /\ Joined(Printed(pieces))[k + 1] = Joined(Printed(pieces))[k] \o x
  <2> SUFFICES ASSUME AllAgreed(pieces)
               PROVE  /\ Joined(Printed(pieces))[k] \in Seq(Chars)
                      /\ out' = Joined(Printed(pieces))[k] \o t1
                      /\ Joined(Printed(pieces))[k + 1] = Joined(Printed(pieces))[k] \o x
    OBVIOUS
  <2> DEFINE a == Joined(Printed(pieces))[k]
  <2>1. a \in Seq(Chars) /\ Joined(Printed(pieces))[k + 1] = a \o CPrints(p)
    BY <1>1, <1>3, PrintedStep
  <2>2. out = a \o t
    BY <1>3
  <2>3. out' = a \o t1
    <3> DEFINE d == <<c>>
    <3>1. d \in Seq(Chars) /\ a \o t \in Seq(Chars)
      <4> HIDE DEF a, c
      <4> QED
        BY <1>3, <1>7, <2>1
    <3>2. Append(a \o t, c) = (a \o t) \o d
      <4> DEFINE w == a \o t
      <4>1. w \in Seq(Chars)
        BY <3>1
      <4> HIDE DEF w, c
      <4>2. Append(w, c) = w \o <<c>>
        BY <1>7, <4>1
      <4> QED
        BY <4>2 DEF w
    <3> HIDE DEF a, d
    <3>3. (a \o t) \o d = a \o (t \o d)
      <4>1. a \in Seq(Chars) /\ t \in Seq(Chars) /\ d \in Seq(Chars)
        BY <1>3, <2>1, <3>1
      <4> QED
        BY <4>1, Regrouped, SMTT(20)
    <3> QED
      BY <1>5, <2>2, <3>2, <3>3 DEF d
  <2> QED
    BY <1>6, <2>1, <2>3
<1>11. \E m, s : Reached(m, s)'
  <2>1. CASE v # <<>>
    <3>1. Reached(k, t1)'
      <4> HIDE DEF t1, v, c
      <4>1. \E w \in Seq(Chars) : w # <<>> /\ pieces[k + 1].text = t1 \o w
        BY <1>7, <2>1
      <4> QED
        BY <1>3, <1>5, <1>7, <1>9, <1>10, <4>1 DEF Reached
    <3> QED
      BY <3>1
  <2>2. CASE v = <<>>
    <3>1. x = t1
      <4> HIDE DEF t1, x
      <4>1. t1 \o <<>> = t1
        BY <1>7
      <4> QED
        BY <1>7, <2>2, <4>1
    <3>2. PICK r \in Seq(Arg) : /\ args = ArgsOf(p) \o r
                                /\ Joined(Lists(pieces))[L] = Joined(Lists(pieces))[k + 1] \o r
      BY <1>1, <1>3, ArgsAreHere
    <3>3. r = args
      <4>1. <<>> \o r = r
        OBVIOUS
      <4> QED
        BY <1>6, <3>2, <4>1
    <3>4. <<>> \in Seq(Chars) /\ Len(<<>>) = 0
      OBVIOUS
    <3>5. cur' = Len(Joined(Texts(pieces))[k + 1]) + Len(<<>>) + 1
      <4> DEFINE y == Len(t1)
      <4>1. cur' = b + y + 1 /\ Len(Joined(Texts(pieces))[k + 1]) = b + y
        BY <1>8, <1>9, <3>1
      <4>2. y \in Nat
        <5> HIDE DEF t1
        <5> QED
          BY <1>7
      <4> HIDE DEF b, y
      <4>3. b + y + 1 = b + y + Len(<<>>) + 1
        BY <1>8, <3>4, <4>2
      <4> QED
        BY <4>1, <4>3
    <3>6. AllAgreed(pieces) => out' = Joined(Printed(pieces))[k + 1] \o <<>>
      <4> SUFFICES ASSUME AllAgreed(pieces) PROVE out' = Joined(Printed(pieces))[k + 1] \o <<>>
        OBVIOUS
      <4> DEFINE a == Joined(Printed(pieces))[k]
      <4>1. a \in Seq(Chars) /\ out' = a \o t1 /\ Joined(Printed(pieces))[k + 1] = a \o t1
        BY <1>10, <3>1
      <4> HIDE DEF a, t1
      <4>2. (a \o t1) \o <<>> = a \o t1
        BY <1>7, <4>1
      <4> QED
        BY <4>1, <4>2
    <3>7. Reached(k + 1, <<>>)'
      <4> HIDE DEF t1, x, b, c, v
      <4> QED
        BY <1>5, <1>8, <3>2, <3>3, <3>4, <3>5, <3>6 DEF Reached
    <3> QED
      BY <3>7
  <2> QED
    BY <2>1, <2>2
<1>12. /\ pieces' \in Formats /\ format' = Joined(Texts(pieces'))[Len(pieces')]
       /\ cbuf_len' \in 0 .. CbufSize /\ overrun' = FALSE
  BY <1>1, <1>5
<1> QED
  BY <1>11, <1>12 DEF FormatInv

(* Each turn of the loop does a piece or a character of one.               *)
LEMMA FormatInvStep == FormatInv /\ [Next]_vars => FormatInv'
<1> SUFFICES ASSUME FormatInv, [Next]_vars PROVE FormatInv'
  OBVIOUS
<1>1. CASE Next
  <2>1. PICK k, t : Reached(k, t)
    BY DEF FormatInv
  <2>2. pieces \in Formats /\ k \in 0 .. Len(pieces)
    BY <2>1 DEF FormatInv, Reached
  <2>3. /\ Len(pieces) \in Nat
        /\ \A i \in 1 .. Len(pieces) : IsText(pieces, i) \/ IsConversion(pieces[i])
    BY <2>2, FormatsFacts
  <2>4. CASE k = Len(pieces)
    <3>1. ~More
      BY <2>1, <2>4, FormatEnds
    <3> QED
      BY <1>1, <3>1 DEF Next, Literal, Convert
  <2>5. CASE k < Len(pieces)
    <3>1. k + 1 \in 1 .. Len(pieces)
      BY <2>2, <2>3, <2>5
    <3>2. CASE IsText(pieces, k + 1)
      BY <1>1, <2>1, <2>5, <3>2, TextTurn
    <3>3. CASE IsConversion(pieces[k + 1])
      BY <1>1, <2>1, <2>5, <3>3, ConversionTurn
    <3> QED
      BY <2>3, <3>1, <3>2, <3>3
  <2> QED
    BY <2>2, <2>3, <2>4, <2>5
<1>2. CASE UNCHANGED vars
  <2>1. /\ pieces' = pieces /\ format' = format /\ args' = args /\ cur' = cur /\ out' = out
        /\ cbuf_len' = cbuf_len /\ overrun' = overrun
    BY <1>2 DEF vars
  <2>2. PICK k, t : Reached(k, t)
    BY DEF FormatInv
  <2>3. Reached(k, t)'
    BY <2>1, <2>2 DEF Reached
  <2> QED
    BY <2>1, <2>3 DEF FormatInv
<1> QED
  BY <1>1, <1>2

(* The index stays in the format.                                          *)
LEMMA InsideHolds == FormatInv => Inside
<1> SUFFICES ASSUME FormatInv PROVE Inside
  OBVIOUS
<1>1. cbuf_len <= CbufSize /\ ~overrun
  <2>1. Enough \in Nat /\ CbufSize = Enough + 1
    BY EnoughFacts, LongFacts
  <2> HIDE DEF Enough
  <2> QED
    BY <2>1 DEF FormatInv
<1>2. PICK k, t : Reached(k, t)
  BY DEF FormatInv
<1>3. pieces \in Formats /\ k \in 0 .. Len(pieces) /\ format = Joined(Texts(pieces))[Len(pieces)]
  BY <1>2 DEF FormatInv, Reached
<1>4. /\ Len(pieces) \in Nat
      /\ \A i \in 1 .. Len(pieces) : IsText(pieces, i) \/ IsConversion(pieces[i])
  BY <1>3, FormatsFacts
<1>5. CASE k = Len(pieces)
  <2>1. cur = Len(format) + 1
    BY <1>2, <1>5, FormatEnds
  <2>2. Len(format) \in Nat
    <3>1. Texts(pieces) \in Seq(Seq(Chars)) /\ Len(Texts(pieces)) = Len(pieces)
      BY <1>3, FormatsFacts
    <3>2. Joined(Texts(pieces)) \in [0 .. Len(Texts(pieces)) -> Seq(Chars)]
      BY <3>1, JoinedSteps
    <3> QED
      BY <1>3, <1>4, <3>1, <3>2
  <2> QED
    BY <1>1, <2>1, <2>2 DEF Inside
<1>6. CASE k < Len(pieces)
  <2>1. k + 1 \in 1 .. Len(pieces)
    BY <1>3, <1>4, <1>6
  <2> DEFINE b == Len(Joined(Texts(pieces))[k])
             h == Len(FormatOf(pieces[k + 1]))
             w == Len(format)
  <2>2. b \in Nat /\ h \in Nat /\ b + h <= w /\ w \in Nat
    <3>1. b \in Nat /\ h \in Nat /\ b + h <= Len(format) /\ format \in Seq(Chars)
      BY <1>3, <1>6, PieceIsHere
    <3> HIDE DEF b, h
    <3> QED
      BY <3>1
  <2>3. cur = b + Len(t) + 1
    BY <1>2 DEF Reached
  <2>4. Len(t) \in 0 .. h
    <3>1. CASE IsConversion(pieces[k + 1])
      <4>1. t = <<>>
        BY <1>2, <1>6, <3>1, AtConversion
      <4>2. Len(t) = 0
        BY <4>1
      <4> HIDE DEF h
      <4> QED
        BY <2>2, <4>2
    <3>2. CASE IsText(pieces, k + 1)
      <4>1. PICK u \in Seq(Chars) : u # <<>> /\ pieces[k + 1].text = t \o u
        BY <1>2, <1>6, <3>2, AtText
      <4>2. FormatOf(pieces[k + 1]) = t \o u /\ t \in Seq(Chars)
        BY <1>2, <3>2, <4>1, TextFacts DEF Reached
      <4>3. Len(t \o u) = Len(t) + Len(u) /\ Len(t) \in Nat /\ Len(u) \in Nat
        BY <4>1, <4>2, Together
      <4>4. h = Len(t) + Len(u)
        BY <4>2, <4>3
      <4> HIDE DEF h
      <4> QED
        BY <4>3, <4>4
    <3> QED
      BY <1>4, <2>1, <3>1, <3>2
  <2> HIDE DEF b, h, w
  <2>5. cur <= w + 1
    BY <2>2, <2>3, <2>4
  <2> QED
    BY <1>1, <2>5 DEF Inside, w
<1> QED
  BY <1>3, <1>4, <1>5, <1>6

(* At the end of the format all the pieces have been done, and nothing is  *)
(* left of the arguments.                                                  *)
LEMMA ConformsHolds == FormatInv => Conforms
<1> SUFFICES ASSUME FormatInv, AllAgreed(pieces), ~More
             PROVE  out = Expected /\ args = <<>>
  BY DEF Conforms, Prints, AllAgreed, Agreed
<1>1. PICK k, t : Reached(k, t)
  BY DEF FormatInv
<1>2. pieces \in Formats /\ k \in 0 .. Len(pieces)
  BY <1>1 DEF FormatInv, Reached
<1>3. /\ Len(pieces) \in Nat
      /\ \A i \in 1 .. Len(pieces) : IsText(pieces, i) \/ IsConversion(pieces[i])
  BY <1>2, FormatsFacts
<1>4. k = Len(pieces)
  <2> SUFFICES ASSUME k < Len(pieces) PROVE FALSE
    BY <1>2, <1>3
  <2>1. k + 1 \in 1 .. Len(pieces)
    BY <1>2, <1>3
  <2>2. "%" # NUL
    BY DEF NUL
  <2>3. CASE IsConversion(pieces[k + 1])
    <3>1. At(format, cur) = "%"
      BY <1>1, <2>3, AtConversion
    <3> QED
      BY <2>2, <3>1 DEF More
  <2>4. CASE IsText(pieces, k + 1)
    <3>1. At(format, cur) # NUL
      BY <1>1, <2>4, AtText
    <3> QED
      BY <3>1 DEF More
  <2> QED
    BY <1>3, <2>1, <2>3, <2>4
<1>5. t = <<>>
  BY <1>1, <1>4, FormatEnds
<1>6. /\ args \in Seq(Arg) /\ Joined(Lists(pieces))[k] = Joined(Lists(pieces))[k] \o args
      /\ out = Joined(Printed(pieces))[k] \o <<>>
  BY <1>1, <1>4, <1>5 DEF Reached
<1>7. /\ Lists(pieces) \in Seq(Seq(Arg)) /\ Len(Lists(pieces)) = Len(pieces)
      /\ Printed(pieces) \in Seq(Seq(Chars)) /\ Len(Printed(pieces)) = Len(pieces)
  BY <1>2, FormatsFacts
<1>8. Joined(Lists(pieces))[k] \in Seq(Arg)
  <2>1. Joined(Lists(pieces)) \in [0 .. Len(Lists(pieces)) -> Seq(Arg)]
    BY <1>7, JoinedSteps
  <2> QED
    BY <1>2, <1>7, <2>1
<1>9. Joined(Printed(pieces))[k] \in Seq(Chars)
  <2>1. Joined(Printed(pieces)) \in [0 .. Len(Printed(pieces)) -> Seq(Chars)]
    BY <1>7, JoinedSteps
  <2> QED
    BY <1>2, <1>7, <2>1
<1>10. args = <<>>
  <2> DEFINE a == Joined(Lists(pieces))[k]
  <2>1. a \in Seq(Arg) /\ a = a \o args
    BY <1>6, <1>8
  <2> HIDE DEF a
  <2>2. a \o <<>> = a /\ <<>> \in Seq(Arg)
    BY <2>1
  <2>3. a \o <<>> = a \o args
    BY <2>1, <2>2
  <2> QED
    BY <1>6, <2>1, <2>2, <2>3, SameRest
<1>11. out = Expected
  <2> DEFINE a == Joined(Printed(pieces))[k]
  <2>1. a \in Seq(Chars) /\ out = a \o <<>>
    BY <1>6, <1>9
  <2>2. Expected = a
    BY <1>4 DEF Expected
  <2> HIDE DEF a
  <2>3. a \o <<>> = a
    BY <2>1
  <2> QED
    BY <2>1, <2>2, <2>3
<1> QED
  BY <1>10, <1>11

(* The invariant of npf_vpprintf's loop.                                   *)
LEMMA FormatInvariant == Spec => []FormatInv
  BY FormatInvInit, FormatInvStep, PTL DEF Spec

(* npf_vpprintf stays inside its format, its cbuf and the strings it is    *)
(* given.                                                                  *)
THEOREM FormatStaysInside == Spec => []Inside
  BY FormatInvariant, InsideHolds, PTL

(* npf_vpprintf prints what C says and takes each argument for the         *)
(* conversion it was passed for, but for the flag 0 with a negative star.  *)
THEOREM FormatConforms == Spec => []Conforms
  BY FormatInvariant, ConformsHolds, PTL

=============================================================================
