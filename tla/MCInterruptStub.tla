-------------------------- MODULE MCInterruptStub ---------------------------
(* Instances of InterruptStub for TLC.                                     *)
EXTENDS InterruptStub

(* What the program computes with: values in registers and in its stack.   *)
MCData == (Gprs \cup {"local"}) \X {0, 1}

(* Every register holds a value of its own, so that no two can be mixed up *)
(* unnoticed; two such contents, so that stale ones show.                  *)
MCRegFiles == {[r \in Gprs |-> <<r, n>>] : n \in {0, 1}}

(* rsp 16-byte aligned, and not.                                           *)
MCLocals == {<<>>, <<<<"local", 0>>>>}

=============================================================================
