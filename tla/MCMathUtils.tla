---------------------------- MODULE MCMathUtils -----------------------------
(* Instances of MathUtils for TLC: operands of six bits, and bits at both  *)
(* ends of the first three bytes.                                          *)
EXTENDS MathUtils

MCSizes == 0 .. 56
=============================================================================
