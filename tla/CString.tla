------------------------------ MODULE CString -------------------------------
(***************************************************************************)
(* The functions of string.cpp that read strings: strlen, strcmp, strncmp, *)
(* strchr, strrchr and strstr, one step per iteration of their loops, and  *)
(* what the C library promises of them.  A string is the sequence of its   *)
(* bytes, NUL left out; an index, 1 for the first byte, stands for a       *)
(* pointer, NULL is 0.  A behaviour is one call.                           *)
(***************************************************************************)
EXTENDS Integers, Sequences, SequencesExt

CONSTANTS
  ByteValues, \* values of a byte but NUL, as unsigned char
  MaxLen      \* of a string

ASSUME StringsAssumption == ByteValues \subseteq 1 .. 255 /\ MaxLen \in Nat

Str == SeqOf(ByteValues, MaxLen)

Searching == {"strlen", "strchr", "strrchr", "strstr"}
Comparing == {"strcmp", "strncmp"}

VARIABLES
  fn,     \* the function called
  s, t,   \* its strings: s1 and s2, haystack and needle
  c,      \* strchr's and strrchr's int
  count,  \* strncmp's count, as it was given
  at,     \* the pointer of a search: p, s or haystack
  last,   \* strrchr's last_occurrence
  s1, s2, \* the pointers of a comparison, into s and t
  left,   \* what is left of the count
  loop,   \* the loop it is in, or "back"
  ret     \* what the function returned

args     == <<fn, s, t, c, count>>
callVars == <<args, at, last, s1, s2, left, loop, ret>>

NULL == 0

(* The byte at index i; the NUL ends the string.                           *)
At(a, i) == IF i <= Len(a) THEN a[i] ELSE 0

(* static_cast<char>(c), as the unsigned char of the same bits.            *)
Byte == c % 256

-----------------------------------------------------------------------------
CallInit ==
  /\ fn \in Searching \cup Comparing
  /\ s \in Str /\ t \in IF fn \in {"strlen", "strchr", "strrchr"} THEN {<<>>} ELSE Str
  /\ c \in IF fn \in {"strchr", "strrchr"}
           THEN {0} \cup ByteValues \cup {b - 256 : b \in ByteValues} ELSE {0}
  /\ count \in IF fn = "strncmp" THEN 0 .. MaxLen + 1 ELSE {0}
  /\ at = 1 /\ last = NULL /\ s1 = 1 /\ s2 = 1 /\ left = count
  /\ loop = (IF fn \in Searching THEN "search" ELSE "compare") /\ ret = 0

Answer(value) ==
  /\ loop' = "back" /\ ret' = value
  /\ UNCHANGED <<args, at, last, s1, s2, left>>

-----------------------------------------------------------------------------
(* The loops of the comparisons.                                           *)

(* The condition of strcmp's loop, and of strncmp's.                       *)
Same ==
  /\ fn = "strncmp" => left > 0
  /\ At(s, s1) # 0 /\ At(s, s1) = At(t, s2)

CompareOn ==
  /\ loop = "compare" /\ Same
  /\ s1' = s1 + 1 /\ s2' = s2 + 1
  /\ left' = IF fn = "strncmp" THEN left - 1 ELSE left
  /\ UNCHANGED <<args, at, last, loop, ret>>

\* Mutant: the bytes are subtracted as signed chars.
Signed(b) == IF b > 127 THEN b - 256 ELSE b
DifferenceSigned == Signed(At(s, s1)) - Signed(At(t, s2))

(* The difference strcmp returns, of the bytes as unsigned char.           *)
Difference == At(s, s1) - At(t, s2)

Compared ==
  /\ loop = "compare" /\ fn \in Comparing /\ ~Same
  /\ Answer(IF fn = "strncmp" /\ left = 0 THEN 0 ELSE Difference)

-----------------------------------------------------------------------------
(* The searches.                                                           *)

Search(name) == loop = "search" /\ fn = name
AtNul        == At(s, at) = 0

Advance(occurrence) ==
  /\ at' = at + 1 /\ last' = occurrence
  /\ UNCHANGED <<args, s1, s2, left, loop, ret>>

strlen ==
  /\ Search("strlen")
  /\ \/ AtNul /\ Answer(at - 1)
     \/ ~AtNul /\ Advance(last)

strchr ==
  /\ Search("strchr")
  /\ \/ AtNul /\ Answer(NULL)
     \/ ~AtNul /\ At(s, at) = Byte /\ Answer(at)
     \/ ~AtNul /\ At(s, at) # Byte /\ Advance(last)

\* Mutant: the first occurrence is kept.
StrrchrFirst ==
  /\ Search("strrchr")
  /\ \/ AtNul /\ Answer(last)
     \/ ~AtNul /\ Advance(IF At(s, at) = Byte /\ last = NULL THEN at ELSE last)

strrchr ==
  /\ Search("strrchr")
  /\ \/ AtNul /\ Answer(last)
     \/ ~AtNul /\ Advance(IF At(s, at) = Byte THEN at ELSE last)

(* strstr compares with strcmp what is left of the haystack, all of it,    *)
(* where the needle's first byte is.                                       *)
strstr ==
  /\ Search("strstr")
  /\ \/ t = <<>> /\ Answer(at)
     \/ t # <<>> /\ AtNul /\ Answer(NULL)
     \/ t # <<>> /\ ~AtNul /\ At(s, at) # At(t, 1) /\ Advance(last)
     \/ /\ t # <<>> /\ ~AtNul /\ At(s, at) = At(t, 1)
        /\ loop' = "compare" /\ s1' = at /\ s2' = 1
        /\ UNCHANGED <<args, at, last, left, ret>>

(* strcmp is back in strstr.                                               *)
StrstrCompared ==
  /\ loop = "compare" /\ fn = "strstr" /\ ~Same
  /\ \/ Difference = 0 /\ Answer(at)
     \/ /\ Difference # 0
        /\ loop' = "search" /\ at' = at + 1
        /\ UNCHANGED <<args, last, s1, s2, left, ret>>

CallNext ==
  \/ CompareOn \/ Compared
  \/ strlen \/ strchr \/ strrchr \/ strstr \/ StrstrCompared

CallSpec == CallInit /\ [][CallNext]_callVars

-----------------------------------------------------------------------------
(* Properties.                                                             *)

Returned(name) == fn = name /\ loop = "back"

(* The order of the C library: a proper prefix first, else the first       *)
(* differing byte, as unsigned char, decides.                              *)
Less(a, b) ==
  \/ IsStrictPrefix(a, b)
  \/ \E i \in 1 .. Len(a) : /\ i <= Len(b) /\ a[i] < b[i]
                            /\ SubSeq(a, 1, i - 1) = SubSeq(b, 1, i - 1)
Orders(r, a, b) == (r = 0 <=> a = b) /\ (r < 0 <=> Less(a, b))

(* strcmp's sign is the order of the strings: get_file_tar takes equality, *)
(* and nothing but equality, for 0.  strncmp is strcmp of what the count   *)
(* leaves of the strings.                                                  *)
Cut(a) == SubSeq(a, 1, IF count < Len(a) THEN count ELSE Len(a))
Compares ==
  /\ Returned("strcmp") => Orders(ret, s, t)
  /\ Returned("strncmp") => Orders(ret, Cut(s), Cut(t))

(* strlen, strchr and strrchr come to the string's end, to the first and   *)
(* to the last occurrence of the character, whatever the sign of the int it*)
(* comes in; strstr, to the one suffix of the haystack that is the needle. *)
(* And no loop, whatever the strings, goes on behind the NUL of one.       *)
InStrings    == {at, s1} \subseteq 1 .. Len(s) + 1 /\ s2 \in 1 .. Len(t) + 1
Where(i)     == i \in 1 .. Len(s) /\ s[i] % 256 = c % 256
Suffix(a, i) == SubSeq(a, i, Len(a))
IsNeedle(i)  == i \in 1 .. Len(s) /\ Suffix(s, i) = t
Searches ==
  /\ InStrings
  /\ Returned("strlen") => ret = Len(s)
  /\ Returned("strchr") /\ c # 0 =>
       IF \E i \in 1 .. Len(s) : Where(i)
         THEN Where(ret) /\ \A i \in 1 .. ret - 1 : ~Where(i) ELSE ret = NULL
  /\ Returned("strrchr") /\ c # 0 =>
       IF \E i \in 1 .. Len(s) : Where(i)
         THEN Where(ret) /\ \A i \in ret + 1 .. Len(s) : ~Where(i) ELSE ret = NULL
  /\ Returned("strstr") =>
       IF t = <<>> THEN ret = 1
       ELSE IF \E i \in 1 .. Len(s) : IsNeedle(i) THEN IsNeedle(ret) ELSE ret = NULL

(* string.hpp calls the functions POSIX C string functions: strstr finds   *)
(* the needle wherever it occurs in the haystack, and strchr takes the NUL *)
(* for a character of the string, so that strchr(s, 0) is the string's end.*)
SearchesAsPosix ==
  /\ Returned("strstr") /\ ret = NULL => ~\E i \in 1 .. Len(s) : IsPrefix(t, Suffix(s, i))
  /\ Returned("strchr") /\ c = 0 => ret = Len(s) + 1

=============================================================================
