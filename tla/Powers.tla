------------------------------- MODULE Powers -------------------------------
(* Powers of two, of which the widths of C's integers are.  A recursive    *)
(* function, since the provers know nothing of ^.                          *)
EXTENDS Naturals

Pow2[k \in Nat] == IF k = 0 THEN 1 ELSE 2 * Pow2[k - 1]
=============================================================================
