---------------------------- MODULE MainProgram -----------------------------
(* What an interrupt handler promises to the code it interrupts: that code *)
(* runs as if there were no interrupts.  Its instruction pointer,          *)
(* registers, stack and interrupt flag change by its own steps only, and   *)
(* it may be stopped for good at any of them.                              *)
EXTENDS Naturals, Sequences

CONSTANTS
  RegFiles, \* the contents the general registers may have
  Locals    \* the words the program may have pushed

VARIABLES rip, regs, stk, flag,
          work \* parity of the steps taken: no step is mistaken for none

vars == <<rip, regs, stk, flag, work>>

Init ==
  /\ rip = <<"main", 0>> /\ work = 0
  /\ regs \in RegFiles /\ stk \in Locals /\ flag \in BOOLEAN

Step ==
  /\ rip' = <<"main", 1 - rip[2]>> /\ work' = 1 - work
  /\ regs' \in RegFiles /\ stk' \in Locals /\ flag' \in BOOLEAN

Spec == Init /\ [][Step]_vars

=============================================================================
