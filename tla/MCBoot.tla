------------------------------- MODULE MCBoot -------------------------------
(* Instances of Boot for TLC.                                              *)
EXTENDS Boot

(* IRQ 0 where the BIOS left it (vector 8, a double fault to the kernel),  *)
(* and remapped to the first vector behind the exceptions.                 *)
MCIrqVectors == {8, 32}

=============================================================================
