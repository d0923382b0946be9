------------------------------- MODULE MCTar --------------------------------
(* Instances of Tar for TLC: archives of up to three entries, with files   *)
(* of no, part of a, exactly one and more than one block.                  *)
EXTENDS Tar, SequencesExt

CONSTANTS a, b, prose

MCNames == {a, b}

Sizes   == {0, 1, Block, Block + 1}
Files   == [name : MCNames, size : Sizes, dir : {FALSE}]
Dirs    == [name : MCNames, size : {0}, dir : {TRUE}]

(* Each behind the one before it.                                          *)
Placed(s) ==
  LET at[k \in 1 .. Len(s)] ==
        IF k = 1 THEN 0 ELSE at[k - 1] + 1 + CeilDiv(s[k - 1].size, Block)
  IN  [k \in 1 .. Len(s) |-> [at |-> at[k]] @@ s[k]]

MCArchives == {Placed(s) : s \in SeqOf(Files \cup Dirs, 3)}

(* The contents of a file read as nothing, as a header, as those of an     *)
(* archive in the archive do, or as a text: a name that is nobody's.       *)
Prose == [name |-> prose, size |-> <<1>>, dir |-> FALSE, text |-> Block]
MCContents == {Zero, Header([name |-> a, size |-> 0, dir |-> FALSE]), Prose}
=============================================================================
