------------------------------ MODULE MCFormat ------------------------------
(* Instances of Format for TLC: every conversion that C defines with a     *)
(* choice of flags, widths, precisions, length modifiers and arguments;    *)
(* and short formats of several pieces, malformed ones included.           *)
EXTENDS Format

MCChars ==
  {NUL, ".", "*", "k", "n", "L", "O", "K"} \cup FlagChars \cup ModifierChars \cup Conversions
  \cup Range(Lower) \cup Range(Upper)

FlagSeqs ==
  {<<f>> : f \in FlagChars} \cup
  {<<>>, <<"-", "0">>, <<"0", "-">>, <<"0", "+">>, <<"+", " ">>, <<" ", "+">>, <<"#", "0">>, <<"#", "-">>}
Widths == {Absent, Given(<<"4">>, 4), Given(<<"1", "0">>, 10), Star(<<"*">>, 4), Star(<<"*">>, -4)}
Precs ==
  {Absent, Given(<<".">>, 0), Given(<<".", "0">>, 0), Given(<<".", "3">>, 3),
   Star(<<".", "*">>, 2), Star(<<".", "*">>, -1)}

(* Type limits, sign changes by a narrower type, and zero.                 *)
IntArgs(l) ==
  CASE l = <<>> -> {0, 9, -2 ^ (IntBits - 1)}
    [] l = <<"h">> -> {2 ^ (ShortBits - 1)}
    [] l = <<"h", "h">> -> {2 ^ (CharBits - 1) - 2 ^ CharBits}
    [] l = <<"l">> -> {-2 ^ (LongBits - 1), 2 ^ (LongBits - 1) - 1}
    [] OTHER -> {-1}

(* Every layout of ints; every type with a few layouts.                    *)
Layouts ==
  {Conversion(f, w, p, <<>>, c, IntArg(n)) :
     f \in FlagSeqs, w \in Widths, p \in Precs, c \in Signed \cup Unsigned, n \in IntArgs(<<>>)}
Types ==
  {Conversion(f, w, p, ln[1], c, IntArg(ln[2])) :
     f \in {<<>>, <<"+">>, <<"#">>}, w \in {Absent, Given(<<"1", "0">>, 10)},
     p \in {Absent, Given(<<".", "3">>, 3)}, c \in Signed \cup Unsigned,
     ln \in UNION {{l} \X IntArgs(l) : l \in Lengths}}

Plain == {<<>>, <<"-">>, <<"+">>}
Pointers == {Conversion(f, w, Absent, <<>>, "p", IntArg(n)) : f \in Plain, w \in Widths, n \in {0, -1}}
Characters ==
  {Conversion(f, w, Absent, <<>>, c, StrArg(<<"a">>)) : f \in Plain, w \in Widths, c \in {"c", "%"}}
Strings ==
  {Conversion(f, w, p, <<>>, "s", StrArg(m)) :
     f \in Plain, w \in Widths, p \in Precs,
     m \in {<<NUL>>, <<"a", "b", "c">>, <<"a", "b", "c", "d", "e", NUL>>}}

OneConversion == {p \in Layouts \cup Types \cup Pointers \cup Characters \cup Strings : Defined(p)}

(* Of the kernel's own formats: %-6s, 0x%.16llx (with fewer digits), %s,   *)
(* %u, %d; a percent sign; and text.                                       *)
Few ==
  {Conversion(<<"-">>, Given(<<"6">>, 6), Absent, <<>>, "s", StrArg(<<"O", "K", NUL>>)),
   Conversion(<<>>, Absent, Given(<<".", "3">>, 3), <<"l", "l">>, "x", IntArg(-1)),
   Conversion(<<>>, Absent, Absent, <<>>, "s", StrArg(<<"d", NUL>>)),
   Conversion(<<>>, Absent, Absent, <<>>, "u", IntArg(9)),
   Conversion(<<>>, Star(<<"*">>, 3), Star(<<".", "*">>, 2), <<>>, "d", IntArg(-7)),
   Conversion(<<>>, Absent, Absent, <<>>, "%", IntArg(0)),
   Text(<<"0", "x">>), Text(<<"d">>)}

(* No specifications, which are printed as they are.                       *)
Malformed ==
  {Text(t) : t \in {<<"%">>, <<"%", "5">>, <<"%", "-", "*">>, <<"%", ".", "*", "l", "l">>,
                    <<"%", "h">>, <<"%", "L", "k">>, <<"%", "n">>}}

MCFormats ==
  {<<p>> : p \in OneConversion} \cup {<<p, q, r>> : p, q \in Few, r \in Few \cup Malformed}
=============================================================================
