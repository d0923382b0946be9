----------------------------- MODULE SerialLine -----------------------------
(***************************************************************************)
(* What a port promises its user: once open, a channel to the remote end   *)
(* and one from it, which lose, invent and reorder nothing they took.      *)
(***************************************************************************)
EXTENDS Sequences

CONSTANTS
  Bytes,      \* what is written
  RemoteBytes \* what the remote end sends

VARIABLES
  open,
  written, out, sent, \* bytes taken from the user, on the way, at the remote end
  in, got             \* bytes that wait for the user, and those it got

vars == <<open, written, out, sent, in, got>>

Init == ~open /\ written = <<>> /\ out = <<>> /\ sent = <<>> /\ in = <<>> /\ got = <<>>

(* Bytes of the remote end may be waiting already.                         *)
Open ==
  /\ ~open /\ open' /\ in' \in Seq(RemoteBytes)
  /\ UNCHANGED <<written, out, sent, got>>

Write ==
  /\ open /\ \E b \in Bytes : written' = Append(written, b) /\ out' = Append(out, b)
  /\ UNCHANGED <<open, sent, in, got>>

Deliver ==
  /\ open /\ out # <<>> /\ sent' = Append(sent, Head(out)) /\ out' = Tail(out)
  /\ UNCHANGED <<open, written, in, got>>

Receive ==
  /\ open /\ \E b \in RemoteBytes : in' = Append(in, b)
  /\ UNCHANGED <<open, written, out, sent, got>>

Read ==
  /\ open /\ in # <<>> /\ got' = Append(got, Head(in)) /\ in' = Tail(in)
  /\ UNCHANGED <<open, written, out, sent>>

Next == Open \/ Write \/ Deliver \/ Receive \/ Read

Spec == Init /\ [][Next]_vars /\ WF_vars(Deliver)

=============================================================================
