----------------------------- MODULE MCConsole ------------------------------
(* Instances of Console for TLC: a buffer of three bytes, messages         *)
(* empty, just fitting and one too long.                                   *)
EXTENDS Console

(* The build of config.hpp, the same without the mirror, and the long      *)
(* panics: with all registers, with the basic ones and quiet, with none.   *)
Build(mirror, verbose, simple, verbose_idt, dump_reg) ==
  [mirror |-> mirror, verbose |-> verbose, simple |-> simple,
   verbose_idt |-> verbose_idt, dump_reg |-> dump_reg]
MCConfigs ==
  {Build(TRUE, TRUE, TRUE, FALSE, FALSE), Build(FALSE, TRUE, TRUE, FALSE, FALSE),
   Build(TRUE, TRUE, FALSE, TRUE, FALSE), Build(TRUE, FALSE, FALSE, FALSE, TRUE),
   Build(FALSE, TRUE, FALSE, FALSE, FALSE)}

(* One register of the basic dump and two of the full one.                 *)
MCBasicRegisters == <<"RIP">>
MCAllRegisters   == <<"CR2", "RIP">>

(* No frame, an NMI's, and page faults with some bits and with the others.  *)
MCFrames ==
  {NULL, [vector |-> 2, err |-> {}],
   [vector |-> 14, err |-> {1, 4, 16}], [vector |-> 14, err |-> {2, 8}]}

(* A long report is some eighty characters: two calls, or a panic in a     *)
(* call, or a panic in a panic; one more of them with the short one.       *)
MCMaxEvents == [build \in MCConfigs |-> IF build.simple THEN 3 ELSE 2]
=============================================================================
