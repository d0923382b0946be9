------------------------------- MODULE Format -------------------------------
(***************************************************************************)
(* npf_vpprintf of nanoprintf.h, built as tty.cpp configures it (width,    *)
(* precision and long long, no floats): the format parser, the extraction  *)
(* of the arguments and the layout of a conversion, one step per turn of   *)
(* the loop over the format; and what the C standard says a format prints. *)
(*                                                                         *)
(* A character is a string of length one; "" stands for a sign or a pad    *)
(* character that is not there.  The integer types have a bit width each.  *)
(***************************************************************************)
EXTENDS Integers, Sequences, SequencesExt, FiniteSetsExt, Powers

CONSTANTS
  CharBits, ShortBits, IntBits, LongBits, \* widths of char, short, int, long
  CbufSize,                               \* NANOPRINTF_CONVERSION_BUFFER_SIZE
  Chars,                                  \* the characters, with NUL
  Formats                                 \* what callers mean: sequences of pieces

ASSUME WidthsAssumption ==
  /\ {CharBits, ShortBits, IntBits, LongBits} \subseteq Nat \ {0}
  /\ CharBits <= ShortBits /\ ShortBits <= IntBits /\ IntBits <= LongBits

(* 64 bits and 23 characters in the build.                                 *)
ASSUME CbufAssumption == CbufSize = (LongBits + 2) \div 3 + 1

VARIABLES
  pieces,   \* what the caller meant
  format,   \* what it passed
  args,     \* the arguments not yet extracted
  cur,      \* index into the format
  out,      \* the characters put
  cbuf_len, \* of the last conversion that was built in cbuf
  overrun   \* has a string been read behind its memory?

vars == <<pieces, format, args, cur, out, cbuf_len, overrun>>

NUL == "NUL"
Lower == <<"0", "1", "2", "3", "4", "5", "6", "7", "8", "9", "a", "b", "c", "d", "e", "f">>
Upper == <<"0", "1", "2", "3", "4", "5", "6", "7", "8", "9", "A", "B", "C", "D", "E", "F">>
Digits == {"0", "1", "2", "3", "4", "5", "6", "7", "8", "9"}
FlagChars == {"-", "0", "+", " ", "#"}
ModifierChars == {"h", "l", "j", "z", "t"}
Signed   == {"i", "d"}
Unsigned == {"o", "u", "x", "X"}
Conversions == {"%", "c", "s", "p"} \cup Signed \cup Unsigned

ASSUME CharsAssumption ==
  /\ {NUL, ".", "*"} \cup FlagChars \cup ModifierChars \cup Conversions \subseteq Chars
  /\ Range(Lower) \cup Range(Upper) \subseteq Chars

NoArg     == [int |-> 0, mem |-> <<>>]

(* The first k of a sequence of sequences put together, for each k.        *)
Joined(ss) ==
  LET joined[k \in 0 .. Len(ss)] == IF k = 0 THEN <<>> ELSE joined[k - 1] \o ss[k]
  IN  joined

(* c put while n-- > 0.                                                    *)
Put(c, n) == IF n > 0 THEN [i \in 1 .. n |-> c] ELSE <<>>
Opt(c)    == IF c = "" THEN <<>> ELSE <<c>>

-----------------------------------------------------------------------------
(* npf_parse_format_spec, on format f.                                     *)

At(f, i) == IF i <= Len(f) THEN f[i] ELSE NUL

(* The first index from i on whose character is not in S.                  *)
Span(f, i, S) == Min({j \in i .. Len(f) + 1 : At(f, j) \notin S})

(* The number that a text of digits is.                                    *)
Number(t) ==
  LET n[k \in 0 .. Len(t)] ==
        IF k = 0 THEN 0 ELSE n[k - 1] * 10 + (CHOOSE d \in 0 .. 9 : Lower[d + 1] = t[k])
  IN  n[Len(t)]

NoFlags == [left |-> FALSE, zero |-> FALSE, prepend |-> "", alt |-> FALSE]

\* Mutant: '-' forgets a '0' before it.
FlagKeepsZero(fs, c) ==
  CASE c = "-" -> [fs EXCEPT !.left = TRUE]
    [] c = "0" -> [fs EXCEPT !.zero = ~fs.left]
    [] c = "+" -> [fs EXCEPT !.prepend = "+"]
    [] c = " " -> IF fs.prepend = "" THEN [fs EXCEPT !.prepend = " "] ELSE fs
    [] c = "#" -> [fs EXCEPT !.alt = TRUE]

Flag(fs, c) ==
  CASE c = "-" -> [fs EXCEPT !.left = TRUE, !.zero = FALSE]
    [] c = "0" -> [fs EXCEPT !.zero = ~fs.left]
    [] c = "+" -> [fs EXCEPT !.prepend = "+"]
    [] c = " " -> IF fs.prepend = "" THEN [fs EXCEPT !.prepend = " "] ELSE fs
    [] c = "#" -> [fs EXCEPT !.alt = TRUE]

ParseFlags(t) ==
  LET fs[k \in 0 .. Len(t)] == IF k = 0 THEN NoFlags ELSE Flag(fs[k - 1], t[k])
  IN  fs[Len(t)]

(* The width, the precision and the length modifier at i, and where they   *)
(* end.                                                                    *)
ParseWidth(f, i) ==
  LET e == Span(f, i, Digits)
  IN  IF At(f, i) = "*" THEN [opt |-> "star", n |-> 0, end |-> i + 1]
      ELSE [opt |-> IF e > i THEN "literal" ELSE "none", n |-> Number(SubSeq(f, i, e - 1)), end |-> e]

ParsePrec(f, i) ==
  LET minus == At(f, i + 1) = "-"
      d == IF minus THEN i + 2 ELSE i + 1
      e == Span(f, d, Digits)
  IN  IF At(f, i) # "." THEN [opt |-> "none", n |-> 0, end |-> i]
      ELSE IF At(f, i + 1) = "*" THEN [opt |-> "star", n |-> 0, end |-> i + 2]
      ELSE [opt |-> IF minus THEN "none" ELSE "literal", n |-> Number(SubSeq(f, d, e - 1)), end |-> e]

ParseModifier(f, i) ==
  LET Mod(bits, len) == [bits |-> bits, end |-> i + len]
  IN  CASE At(f, i) = "h" -> IF At(f, i + 1) = "h" THEN Mod(CharBits, 2) ELSE Mod(ShortBits, 1)
        [] At(f, i) = "l" -> Mod(LongBits, IF At(f, i + 1) = "l" THEN 2 ELSE 1)
        [] At(f, i) \in ModifierChars \ {"h", "l"} -> Mod(LongBits, 1)
        [] At(f, i) \notin ModifierChars -> Mod(IntBits, 0)

(* The specification at i, where a '%' is, and the index behind it.  When  *)
(* it is none, conv is not a conversion and the function returns 0.        *)
Parse(f, i) ==
  LET a == Span(f, i + 1, FlagChars)
      flags == ParseFlags(SubSeq(f, i + 1, a - 1))
      w == ParseWidth(f, a)
      p == ParsePrec(f, w.end)
      m == ParseModifier(f, p.end)
      conv == At(f, m.end)
      prec_opt == IF conv \in {"%", "c", "p"} THEN "none" ELSE p.opt
  IN [left      |-> flags.left,
      zero      |-> /\ flags.zero /\ conv # "s"
                    /\ conv \in Signed \cup Unsigned => prec_opt = "none",
      prepend   |-> flags.prepend,
      alt       |-> flags.alt,
      width_opt |-> w.opt,
      width     |-> w.n,
      prec_opt  |-> prec_opt,
      prec      |-> p.n,
      bits      |-> m.bits,
      conv      |-> conv,
      next      |-> m.end + 1]

-----------------------------------------------------------------------------
(* The conversion of an argument; fs is the specification with its stars   *)
(* replaced.                                                               *)

StarWidth(fs, n) ==
  [fs EXCEPT !.width_opt = "literal", !.width = IF n < 0 THEN -n ELSE n,
             !.left = fs.left \/ n < 0]

StarPrecision(fs, n) ==
  [fs EXCEPT !.prec = n, !.prec_opt = IF n >= 0 THEN "literal" ELSE "none"]

(* An argument is an int or a long, in the two's complement of its width.  *)
AsUnsigned(n, bits) == n % Pow2[bits]
AsSigned(n, bits) == ((n + Pow2[bits - 1]) % Pow2[bits]) - Pow2[bits - 1]

(* The digits of n from the last to the first, and what they look like:    *)
(* the loop divides until nothing is left.                                 *)
Rests(n, base) ==
  LET rest[k \in 0 .. LongBits] == IF k = 0 THEN n ELSE rest[k - 1] \div base
  IN  rest
Rev(n, base, digits) ==
  LET len == Min({k \in 1 .. LongBits : Rests(n, base)[k] = 0})
  IN  [k \in 1 .. len |-> digits[(Rests(n, base)[k - 1] % base) + 1]]

(* The remainders are negated and not the number, which may be the least.  *)
npf_itoa_rev(n) == Rev(IF n < 0 THEN -n ELSE n, 10, Lower)
npf_utoa_rev(n, base, digits) == Rev(n, base, digits)

npf_max(x, y) == IF x > y THEN x ELSE y

\* Mutant: the byte is read before the precision is looked at.
StringReadsFirst(fs, mem) ==
  LET Bounded(n) == fs.prec_opt # "none" /\ n >= fs.prec
      len == Min({n \in 0 .. Len(mem) : Bounded(n) \/ (n < Len(mem) /\ mem[n + 1] = NUL)})
  IN [len |-> len, reads |-> len + 1]

(* How long the string is taken to be, and how many of its bytes are read  *)
(* to find out.                                                            *)
String(fs, mem) ==
  LET Bounded(n) == fs.prec_opt # "none" /\ n >= fs.prec
      len == Min({n \in 0 .. Len(mem) : Bounded(n) \/ (n < Len(mem) /\ mem[n + 1] = NUL)})
  IN [len |-> len, reads |-> IF Bounded(len) THEN len ELSE len + 1]

Base(conv) == CASE conv = "o" -> 8 [] conv \in {"x", "X"} -> 16 [] OTHER -> 10

(* The octal '0' of the alternative form.                                  *)
OctalZero(fs, val) == val # 0 /\ fs.alt /\ fs.conv = "o"

(* What the conversion puts into cbuf, its digits last to first; for %s,   *)
(* the text cbuf points at.                                                *)
Cbuf(fs, arg) ==
  LET s == AsSigned(arg.int, fs.bits)
      u == AsUnsigned(arg.int, fs.bits)
      none == fs.prec_opt = "literal" /\ fs.prec = 0
  IN CASE fs.conv = "%" -> <<"%">>
       [] fs.conv = "c" -> <<arg.mem[1]>>
       [] fs.conv = "s" -> SubSeq(arg.mem, 1, String(fs, arg.mem).len)
       [] fs.conv = "p" -> npf_utoa_rev(AsUnsigned(arg.int, LongBits), 16, Lower)
       [] fs.conv \in Signed -> IF s = 0 /\ none THEN <<>> ELSE npf_itoa_rev(s)
       [] fs.conv \in Unsigned ->
            (IF u = 0 /\ none THEN <<>>
             ELSE npf_utoa_rev(u, Base(fs.conv), IF fs.conv = "X" THEN Upper ELSE Lower))
            \o (IF OctalZero(fs, u) THEN <<"0">> ELSE <<>>)

-----------------------------------------------------------------------------
(* The layout of a converted argument.                                     *)

Sign(fs, arg) ==
  IF fs.conv \notin Signed THEN <<>>
  ELSE Opt(IF AsSigned(arg.int, fs.bits) < 0 THEN "-" ELSE fs.prepend)

Hex(fs, arg) ==
  IF fs.conv = "p" THEN <<"0", "x">>
  ELSE IF fs.alt /\ fs.conv \in {"x", "X"} /\ AsUnsigned(arg.int, fs.bits) # 0
    THEN <<"0", fs.conv>> ELSE <<>>

(* The pad character; there is none where no width is given.               *)
PadChar(fs, arg) ==
  LET zero == fs.conv \in Signed \cup Unsigned /\ AsUnsigned(arg.int, fs.bits) = 0
  IN CASE fs.width_opt = "none" -> ""
       [] fs.width_opt # "none" /\ ~fs.zero -> " "
       [] fs.width_opt # "none" /\ fs.zero ->
            IF fs.conv \in {"s", "c", "%"} THEN ""
            ELSE IF fs.prec_opt = "literal" /\ fs.prec = 0 /\ zero THEN " " ELSE "0"

(* The precision, which is 1 for the octal zero of nothing.                *)
Precision(fs, arg) ==
  IF /\ fs.conv = "o" /\ fs.alt /\ fs.prec_opt = "literal" /\ fs.prec = 0
     /\ AsUnsigned(arg.int, fs.bits) = 0
    THEN 1 ELSE fs.prec

PrecPad(fs, arg) ==
  IF fs.conv = "s" THEN 0 ELSE npf_max(0, Precision(fs, arg) - Len(Cbuf(fs, arg)))

FieldPad(fs, arg) ==
  npf_max(0, fs.width - Len(Cbuf(fs, arg)) - Len(Sign(fs, arg)) - Len(Hex(fs, arg)) - PrecPad(fs, arg))

Payload(fs, arg) ==
  Put("0", PrecPad(fs, arg))
  \o (IF fs.conv = "s" THEN Cbuf(fs, arg) ELSE Reverse(Cbuf(fs, arg)))

Layout(fs, arg) ==
  LET sign == Sign(fs, arg)
      hex  == Hex(fs, arg)
      pad_c == PadChar(fs, arg)
      pad == IF pad_c = "" THEN <<>> ELSE Put(pad_c, FieldPad(fs, arg))
  IN IF fs.left THEN hex \o sign \o Payload(fs, arg) \o pad
     ELSE IF pad_c = "0" THEN sign \o hex \o pad \o Payload(fs, arg)
     ELSE pad \o hex \o sign \o Payload(fs, arg)

-----------------------------------------------------------------------------
(* npf_vpprintf's loop.                                                    *)

More == At(format, cur) # NUL

(* NPF_PUTC( *cur++ ): a character that is no specification, or does not   *)
(* begin one.                                                              *)
Literal ==
  /\ More /\ (At(format, cur) # "%" \/ Parse(format, cur).conv \notin Conversions)
  /\ out' = Append(out, At(format, cur))
  /\ cur' = cur + 1
  /\ UNCHANGED <<pieces, format, args, cbuf_len, overrun>>

(* The specification and the arguments left, after a star for the width    *)
(* and one for the precision have taken theirs.                            *)
Starred(fs, as) ==
  IF fs.width_opt = "star"
    THEN [fs |-> StarWidth(fs, as[1].int), args |-> Tail(as)] ELSE [fs |-> fs, args |-> as]
StarredTwice(s) ==
  IF s.fs.prec_opt = "star"
    THEN [fs |-> StarPrecision(s.fs, s.args[1].int), args |-> Tail(s.args)] ELSE s

PutText(fs, as) ==
  LET arg == IF fs.conv = "%" THEN NoArg ELSE as[1]
  IN /\ args' = IF fs.conv = "%" THEN as ELSE Tail(as)
     /\ out' = out \o Layout(fs, arg)
     /\ cbuf_len' = IF fs.conv = "s" THEN cbuf_len ELSE Len(Cbuf(fs, arg))
     /\ overrun' = (overrun \/ (fs.conv = "s" /\ String(fs, arg.mem).reads > Len(arg.mem)))

Convert ==
  /\ More /\ At(format, cur) = "%"
  /\ \E p \in {Parse(format, cur)} :
       /\ p.conv \in Conversions
       /\ \E s \in {StarredTwice(t) : t \in {Starred(p, args)}} : PutText(s.fs, s.args)
       /\ cur' = p.next
  /\ UNCHANGED <<pieces, format>>

-----------------------------------------------------------------------------
(* What the caller means: text, or a conversion with its parts.  A part    *)
(* has the text it takes in the format, the argument of its star if it is  *)
(* one, and its value.                                                     *)
IntArg(n) == [int |-> n, mem |-> <<>>]
StrArg(m) == [int |-> 0, mem |-> m]
Arg       == [int : Int, mem : Seq(Chars)]

Absent      == [text |-> <<>>, star |-> <<>>, given |-> FALSE, n |-> 0]
Given(t, n) == [text |-> t, star |-> <<>>, given |-> TRUE, n |-> n]
Star(t, n)  == [text |-> t, star |-> <<IntArg(n)>>, given |-> TRUE, n |-> n]
Part        == [text : Seq(Chars), star : Seq(Arg), given : BOOLEAN, n : Int]

(* The int of a width can be negated.                                      *)
Fits(n) == -Pow2[IntBits - 1] < n /\ n < Pow2[IntBits - 1]

IsWidth(w) ==
  /\ Fits(w.n)
  /\ \/ w = Absent
     \/ w = Star(<<"*">>, w.n)
     \/ /\ w.text \in Seq(Digits) \ {<<>>} /\ w.text[1] # "0"
        /\ w = Given(w.text, Number(w.text))

IsPrec(p) ==
  /\ Fits(p.n)
  /\ \/ p = Absent
     \/ p = Star(<<".", "*">>, p.n)
     \/ /\ p.text # <<>> /\ p.text[1] = "." /\ Tail(p.text) \in Seq(Digits)
        /\ p = Given(p.text, Number(Tail(p.text)))

Lengths == {<<>>, <<"h">>, <<"h", "h">>, <<"l">>, <<"l", "l">>, <<"j">>, <<"z">>, <<"t">>}

Text(t) == [text |-> t, flags |-> <<>>, width |-> Absent, prec |-> Absent,
            len |-> <<>>, conv |-> "", arg |-> IntArg(0)]
Conversion(f, w, p, l, c, a) ==
  [text |-> <<>>, flags |-> f, width |-> w, prec |-> p, len |-> l, conv |-> c, arg |-> a]
Piece == [text : Seq(Chars \ {NUL}), flags : Seq(FlagChars), width : Part, prec : Part,
          len : Lengths, conv : Conversions \cup {""}, arg : Arg]

FormatOf(p) ==
  IF p.conv = "" THEN p.text
  ELSE <<"%">> \o p.flags \o p.width.text \o p.prec.text \o p.len \o <<p.conv>>

ArgsOf(p) ==
  IF p.conv = "" THEN <<>>
  ELSE p.width.star \o p.prec.star \o (IF p.conv = "%" THEN <<>> ELSE <<p.arg>>)

Has(p, f) == \E i \in DOMAIN p.flags : p.flags[i] = f

(* Where C (7.21.6.1) leaves no conversion undefined, and a string has a   *)
(* NUL or is as long as the precision.                                     *)
Defined(p) ==
  /\ Has(p, "#") => p.conv \in {"o", "x", "X"}
  /\ Has(p, "0") => p.conv \in Signed \cup Unsigned
  /\ p.prec.given => p.conv \in Signed \cup Unsigned \cup {"s"}
  /\ p.len # <<>> => p.conv \in Signed \cup Unsigned
  /\ p.conv = "%" => FormatOf(p) = <<"%", "%">>
  /\ p.conv = "c" => Len(p.arg.mem) = 1
  /\ p.conv = "s" => \/ \E i \in DOMAIN p.arg.mem : p.arg.mem[i] = NUL
                     \/ p.prec.given /\ p.prec.n \in 0 .. Len(p.arg.mem)

(* The formats of pieces, and the arguments.                               *)
Texts(ps) == [k \in DOMAIN ps |-> FormatOf(ps[k])]
Lists(ps) == [k \in DOMAIN ps |-> ArgsOf(ps[k])]

(* A '%' of a text begins no specification, whatever comes behind it.      *)
IsText(ps, k) ==
  /\ ps[k] = Text(ps[k].text) /\ ps[k].text # <<>>
  /\ \A i \in DOMAIN ps[k].text : ps[k].text[i] = "%" =>
       Parse(Joined(Texts(ps))[Len(ps)], Len(Joined(Texts(ps))[k - 1]) + i).conv \notin Conversions
IsConversion(p) ==
  p.conv \in Conversions /\ IsWidth(p.width) /\ IsPrec(p.prec) /\ Defined(p)

ASSUME FormatsAssumption ==
  /\ Formats \subseteq Seq(Piece)
  /\ \A ps \in Formats : \A k \in DOMAIN ps : IsText(ps, k) \/ IsConversion(ps[k])

Init ==
  /\ pieces \in Formats
  /\ format = Joined(Texts(pieces))[Len(pieces)]
  /\ args = Joined(Lists(pieces))[Len(pieces)]
  /\ cur = 1 /\ out = <<>> /\ cbuf_len = 0 /\ overrun = FALSE

Next == Literal \/ Convert

Spec == Init /\ [][Next]_vars

-----------------------------------------------------------------------------
(* The C standard, for the conversions that are Defined.                   *)

CBits(p) == CASE p.len = <<>> -> IntBits [] p.len = <<"h">> -> ShortBits
              [] p.len = <<"h", "h">> -> CharBits [] OTHER -> LongBits

(* The numeral of n in a base.                                             *)
Numeral(n, base, digits) ==
  LET numeral[m \in 0 .. n] ==
        IF m < base THEN <<digits[m + 1]>>
        ELSE Append(numeral[m \div base], digits[(m % base) + 1])
  IN  numeral[n]

(* An integer without its sign, with at least as many digits as the        *)
(* precision says, 1 if it says nothing.                                   *)
CDigits(p, n) ==
  LET min == IF p.prec.given /\ p.prec.n >= 0 THEN p.prec.n ELSE 1
      plain == IF n = 0 THEN <<>>
               ELSE Numeral(n, Base(p.conv), IF p.conv = "X" THEN Upper ELSE Lower)
      filled == Put("0", min - Len(plain)) \o plain
  IN IF p.conv = "o" /\ Has(p, "#") /\ (filled = <<>> \/ Head(filled) # "0")
       THEN <<"0">> \o filled ELSE filled

CSigned(p) ==
  LET n == AsSigned(p.arg.int, CBits(p))
  IN [prefix |-> IF n < 0 THEN <<"-">> ELSE IF Has(p, "+") THEN <<"+">>
                 ELSE IF Has(p, " ") THEN <<" ">> ELSE <<>>,
      digits |-> CDigits(p, IF n < 0 THEN -n ELSE n)]

CUnsigned(p) ==
  LET n == AsUnsigned(p.arg.int, CBits(p))
  IN [prefix |-> IF n # 0 /\ Has(p, "#") /\ p.conv # "o" THEN <<"0", p.conv>> ELSE <<>>,
      digits |-> CDigits(p, n)]

(* %p is left to the implementation: 0x and the address.                   *)
CBody(p) ==
  CASE p.conv \in Signed -> CSigned(p)
    [] p.conv \in Unsigned -> CUnsigned(p)
    [] p.conv = "p" -> [prefix |-> <<"0", "x">>,
                        digits |-> Numeral(AsUnsigned(p.arg.int, LongBits), 16, Lower)]
    [] p.conv = "%" -> [prefix |-> <<>>, digits |-> <<"%">>]
    [] p.conv = "c" -> [prefix |-> <<>>, digits |-> p.arg.mem]
    [] p.conv = "s" ->
         LET ends == {i - 1 : i \in {j \in DOMAIN p.arg.mem : p.arg.mem[j] = NUL}}
             most == IF p.prec.given /\ p.prec.n >= 0 THEN {p.prec.n} ELSE {}
         IN [prefix |-> <<>>, digits |-> SubSeq(p.arg.mem, 1, Min(ends \cup most))]

CPrints(p) ==
  LET body == CBody(p)
      left == Has(p, "-") \/ p.width.n < 0
      zeros == Has(p, "0") /\ ~left /\ ~(p.prec.given /\ p.prec.n >= 0)
      width == IF p.width.n < 0 THEN -p.width.n ELSE p.width.n
      fill == width - Len(body.prefix) - Len(body.digits)
  IN IF p.conv = "" THEN p.text
     ELSE IF left THEN body.prefix \o body.digits \o Put(" ", fill)
     ELSE IF zeros THEN body.prefix \o Put("0", fill) \o body.digits
     ELSE Put(" ", fill) \o body.prefix \o body.digits

Printed(ps) == [k \in DOMAIN ps |-> CPrints(ps[k])]
Expected == Joined(Printed(pieces))[Len(pieces)]

-----------------------------------------------------------------------------
(* Properties.                                                             *)

NegativeStar(part) == part.star # <<>> /\ part.n < 0

(* What a "printf replacement" (nanoprintf.h:1) promises: at the end of    *)
(* the format all of C's text and nothing else has been put, and every     *)
(* argument was taken by the conversion it was passed for.  Of a star C    *)
(* says that a negative width is the flag '-', which makes 0 ignored, and  *)
(* a positive width, and that a negative precision is none.                *)
Prints == ~More => out = Expected /\ args = <<>>

(* npf_vpprintf prints what C says and takes each argument for the         *)
(* conversion it was passed for, but for the flag 0 with a negative star,  *)
(* where it does not (see Prints).                                         *)
Conforms ==
  (\A i \in DOMAIN pieces :
     Has(pieces[i], "0") => ~NegativeStar(pieces[i].width) /\ ~NegativeStar(pieces[i].prec))
  => Prints

(* npf_vpprintf stays inside its format, its cbuf, whose size the longest  *)
(* octal number with its zero just fits, and the strings it is given, also *)
(* where only the precision ends them.                                     *)
Inside == cur <= Len(format) + 1 /\ cbuf_len <= CbufSize /\ ~overrun

=============================================================================
