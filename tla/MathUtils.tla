----------------------------- MODULE MathUtils ------------------------------
(***************************************************************************)
(* math_utils.hpp: the rounding macros on numbers of W bits, and a bitmap  *)
(* of n bits kept with the others in an array of bytes.                    *)
(***************************************************************************)
EXTENDS Integers, Powers

CONSTANTS
  W,       \* bits of an operand, 64
  Sizes,   \* numbers of bits a bitmap may have
  Indices  \* of bits that are used

ASSUME WidthAssumption == W \in Nat \ {0} /\ Sizes \subseteq 0 .. Pow2[W] - 8
ASSUME IndicesAssumption == Indices \subseteq Nat

VARIABLES
  n,      \* bits of the bitmap
  bitmap  \* its bytes

bitmapVars == <<n, bitmap>>

-----------------------------------------------------------------------------
(* Operators of C on W bits.                                               *)

Wrap(v)   == v % Pow2[W]
Bits(v)   == {k \in 0 .. W - 1 : (v \div Pow2[k]) % 2 = 1}
Value(ks) ==
  LET sum[k \in 0 .. W] ==
        IF k = 0 THEN 0 ELSE sum[k - 1] + IF k - 1 \in ks THEN Pow2[k - 1] ELSE 0
  IN  sum[W]

AndNot(v, m) == Value(Bits(v) \ Bits(m))

-----------------------------------------------------------------------------
MAX(x, y) == IF x > y THEN x ELSE y
MIN(x, y) == IF x < y THEN x ELSE y

DIV_ROUNDUP(x, y)   == Wrap(x + y - 1) \div y
DIV_ROUNDDOWN(x, y) == x \div y

\* Mutant: the mask is added whole.
AlignUpOneMore(x, base) == AndNot(Wrap(x + base), Wrap(base - 1))

ALIGN_UP(x, base)   == AndNot(Wrap(x + base - 1), Wrap(base - 1))
ALIGN_DOWN(x, base) == AndNot(x, Wrap(base - 1))

POW(base, exponent) ==
  LET out[i \in 0 .. exponent] == IF i = 0 THEN 1 ELSE Wrap(out[i - 1] * base)
  IN  out[exponent]

-----------------------------------------------------------------------------
Bit(i)         == Pow2[i % 8]
IsSet(byte, i) == (byte \div Bit(i)) % 2 = 1

BITMAP_READ_BIT(b, i)  == IF IsSet(b[i \div 8], i) THEN Bit(i) ELSE 0
BITMAP_SET_BIT(b, i)   == [b EXCEPT ![i \div 8] = IF IsSet(@, i) THEN @ ELSE @ + Bit(i)]

\* Mutant: the bit is changed, not cleared.
UnsetToggles(b, i)     ==
  [b EXCEPT ![i \div 8] = IF IsSet(@, i) THEN @ - Bit(i) ELSE @ + Bit(i)]

BITMAP_UNSET_BIT(b, i) == [b EXCEPT ![i \div 8] = IF IsSet(@, i) THEN @ - Bit(i) ELSE @]
BITMAP_CLEAR(b, size)  == [k \in DOMAIN b |-> IF k < size THEN 0 ELSE b[k]]

Used == {i \in Indices : i < n}

Set(i)   == bitmap' = BITMAP_SET_BIT(bitmap, i)
Unset(i) == bitmap' = BITMAP_UNSET_BIT(bitmap, i)
Clear    == bitmap' = BITMAP_CLEAR(bitmap, DIV_ROUNDUP(n, 8))

(* The bitmap has the bytes it takes, all zero or all ones.                *)
BitmapInit ==
  /\ n \in Sizes
  /\ \E v \in {0, 255} : bitmap = [k \in 0 .. DIV_ROUNDUP(n, 8) - 1 |-> v]

BitmapNext == UNCHANGED n /\ (Clear \/ \E i \in Used : Set(i) \/ Unset(i))

BitmapSpec == BitmapInit /\ [][BitmapNext]_bitmapVars

-----------------------------------------------------------------------------
(* Properties.                                                             *)

(* The bytes are a set of numbers below n: a bit set, unset or cleared     *)
(* leaves all others as they are, and the last byte, of which only a part  *)
(* is used, has room for the last bit.                                     *)
Members == {i \in 0 .. n - 1 : BITMAP_READ_BIT(bitmap, i) # 0}
ActsOnSet ==
  /\ \A i \in Used : /\ Set(i) => Members' = Members \cup {i}
                    /\ Unset(i) => Members' = Members \ {i}
  /\ Clear => Members' = {}
IsSetOfBits == [][ActsOnSet]_bitmapVars

(* ALIGN_DOWN and ALIGN_UP give the multiples of a power of two next to a  *)
(* number, the upper one modulo 2^W; DIV_ROUNDUP rounds up for every       *)
(* divisor whose sum with the number does not overflow; POW counts powers  *)
(* of two without a loss up to the width.                                  *)
Rounds ==
  /\ \A k \in 0 .. W - 1 :
       LET base == POW(2, k) IN
         /\ base = Pow2[k]
         /\ ALIGN_DOWN(n, base) = base * DIV_ROUNDDOWN(n, base)
         /\ ALIGN_UP(n, base) = Wrap(base * DIV_ROUNDDOWN(n + base - 1, base))
  /\ \A y \in 1 .. Pow2[W] - n :
       LET q == DIV_ROUNDUP(n, y) IN q * y >= n /\ (q > 0 => (q - 1) * y < n)

=============================================================================
