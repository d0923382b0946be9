---------------------------- MODULE ConsoleProofs ----------------------------
(***************************************************************************)
(* Proofs about Console, for buffers, messages, registers and builds of any*)
(* kind: what comes out of interrupted prints is characters of messages,   *)
(* whole and in order, and the same on both devices when they are mirrored.*)
(***************************************************************************)
EXTENDS Console, Integers, SequenceTheorems, TLAPS

-----------------------------------------------------------------------------
(* Types.  Texts is finite where the code has any string.                  *)

Texts == ToSet(Kinds) \cup {"body", "garbled", "reset", "text"} \cup PanicTexts
           \cup ToSet(AllRegisters) \cup ToSet(BasicRegisters)
Msg   == [frame : Nat \ {0}, call : Nat, text : Texts, len : Nat]

(* The loops a print may have left.                                        *)
OnFb  == <<<<"fb">>>>
OnDbg == <<<<"dbg">>>>
Both  == <<<<"fb">>, <<"dbg">>>>
Mixed == <<<<"dbg", "fb">>>>
Outputs == [msg : Msg, loops : {OnFb, OnDbg, Both, Mixed}]

(* Characters of messages that fit.                                        *)
Char == {c \in Msg \X Nat : c[2] \in 1 .. c[1].len /\ c[1].len < BufSize}

FrameType == [prints : Seq(Outputs), i : Nat, d : Nat]

Devices == {"fb", "dbg"}
Out(D)  == IF D = "fb" THEN fb ELSE dbg
Top     == stack[Len(stack)]

(* A frame is at a character its message has.                              *)
InLoop(f) ==
  /\ f.prints = <<>> => f.i = 0 /\ f.d = 0
  /\ f.prints # <<>> =>
       /\ f.i > 0 \/ f.d > 0 => Fits(f.prints[1].msg)
       /\ f.i + f.d <= f.prints[1].msg.len
       /\ f.d < Len(f.prints[1].loops[1])

Types ==
  /\ calls \in Nat /\ level \in DEBUG .. ERROR /\ config \in Configs
  /\ stack \in Seq(FrameType) /\ Len(stack) \in Nat \ {0}
  /\ InLoop(Top)
  /\ fb \in Seq(Char) /\ dbg \in Seq(Char)

-----------------------------------------------------------------------------
(* Order: what a device has, and what the frame on top has for it still.   *)

Goes(p, D) == p.loops # IF D = "fb" THEN OnDbg ELSE OnFb

(* How many characters of its first message the frame has written to D.    *)
Got(f, D) ==
  IF f.prints = <<>> THEN 0
  ELSE LET loop == f.prints[1].loops[1]
       IN  IF D = loop[1] THEN f.i + f.d ELSE IF Len(loop) = 2 THEN f.i ELSE 0

(* Messages to come, of activation n, are new to the device; the one under *)
(* way is the last there.                                                  *)
Ordered(f, D, out, n) ==
  /\ \A j, k \in 1 .. Len(f.prints) : f.prints[j].msg = f.prints[k].msg => j = k
  /\ \A k \in 1 .. Len(f.prints) :
       /\ f.prints[k].msg.frame = n
       /\ f.prints[k].msg.call <= calls
       /\ Goes(f.prints[k], D) /\ ~(k = 1 /\ Got(f, D) > 0) => f.prints[k].msg \notin Shown(out)
  /\ Got(f, D) > 0 => out # <<>> /\ out[Len(out)] = <<f.prints[1].msg, Got(f, D)>>
  /\ Got(f, D) = 0 /\ out # <<>> =>
       LastChar(out[Len(out)]) \/ out[Len(out)][1].frame < n

Order ==
  \A D \in Devices :
    /\ Unbroken(Out(D))
    /\ Ordered(Top, D, Out(D), Len(stack))
    /\ \A m \in Shown(Out(D)) : m.call <= calls /\ m.frame <= Len(stack)

-----------------------------------------------------------------------------
(* Mirroring: while no panic prints.                                       *)

(* The one has what the other has, and of m a characters from b on.        *)
Ahead(u, v, m, a, b) ==
  /\ Len(u) = Len(v) + a
  /\ \A k \in 1 .. Len(v) : u[k] = v[k]
  /\ \A k \in 1 .. a : u[Len(v) + k] = <<m, b + k>>

Synced(f, u, v) ==
  /\ \A k \in 1 .. Len(f.prints) :
       f.prints[k].loops \in {Both, Mixed} \/ (k = 1 /\ f.prints[k].loops = OnDbg)
  /\ f.prints = <<>> => Ahead(u, v, 0, 0, 0)
  /\ f.prints # <<>> =>
       LET p == f.prints[1]
       IN  /\ p.loops = Both => Ahead(u, v, p.msg, f.i, 0)
           /\ p.loops = OnDbg => Ahead(u, v, p.msg, IF Fits(p.msg) THEN p.msg.len - f.i ELSE 0, f.i)
           /\ p.loops = Mixed => Ahead(v, u, p.msg, f.d, f.i)

(* Prints of a log line, or of a text.                                     *)
IsKind(p)  == p.msg.text \in ToSet(Kinds) /\ p.msg.len \in 1 .. BufSize - 1
IsBody(p)  == p.msg.text \in {"body", "garbled"}
IsReset(p) == p.msg.text = "reset" /\ p.msg.len \in 1 .. BufSize - 1
IsText(p)  == p.msg.text = "text"

Shape(s) ==
  \/ s = <<>>
  \/ Len(s) = 1 /\ (IsReset(s[1]) \/ IsText(s[1]))
  \/ Len(s) = 2 /\ IsBody(s[1]) /\ IsReset(s[2])
  \/ Len(s) = 3 /\ IsKind(s[1]) /\ IsBody(s[2]) /\ IsReset(s[3])

Kinded(out) == Calls(out, ToSet(Kinds))
ResetAt(out) == Calls(out, {"reset"})

(* The frame has begun its first print on D, or is done with D.            *)
Wrote(f, D) == Got(f, D) > 0 \/ ~Goes(f.prints[1], D)

Coloured(f, D, out, call) ==
  /\ \A c \in 0 .. call - 1 : c \in Kinded(out) <=> c \in ResetAt(out)
  /\ \A k \in 1 .. Len(f.prints) : f.prints[k].msg.call = call
  /\ \A k \in 2 .. Len(f.prints) : Goes(f.prints[k], D)
  /\ Len(f.prints) = 3 => (call \in Kinded(out) <=> Wrote(f, D)) /\ call \notin ResetAt(out)
  /\ Len(f.prints) = 2 => call \in Kinded(out) /\ call \notin ResetAt(out)
  /\ Len(f.prints) = 1 /\ IsReset(f.prints[1]) =>
       call \in Kinded(out) /\ (call \in ResetAt(out) <=> Wrote(f, D))
  /\ f.prints = <<>> \/ (Len(f.prints) = 1 /\ IsText(f.prints[1])) =>
       (call \in Kinded(out) <=> call \in ResetAt(out))

Used(D) == D = "fb" \/ config.mirror

Alike ==
  Len(stack) = 1 =>
    /\ Shape(Top.prints)
    /\ config.mirror => Synced(Top, fb, dbg)
    /\ \A D \in Devices :
         /\ Used(D) => Coloured(Top, D, Out(D), calls)
         /\ ~Used(D) => Out(D) = <<>> /\ \A k \in 1 .. Len(Top.prints) : ~Goes(Top.prints[k], D)

IInv == Types /\ Order /\ Alike

-----------------------------------------------------------------------------
(* Prints, loops and devices.                                              *)

(* The loops of a print: how many are left, and where each writes.         *)
LEMMA LoopFacts ==
  /\ Len(OnFb) = 1 /\ Len(OnDbg) = 1 /\ Len(Both) = 2 /\ Len(Mixed) = 1
  /\ OnFb[1] = <<"fb">> /\ OnDbg[1] = <<"dbg">> /\ Both[1] = <<"fb">> /\ Mixed[1] = <<"dbg", "fb">>
  /\ Tail(Both) = OnDbg
  /\ OnFb # OnDbg /\ OnFb # Both /\ OnFb # Mixed /\ OnDbg # Both /\ OnDbg # Mixed /\ Both # Mixed
  /\ <<"fb">> # <<"dbg">> /\ <<"fb">> # <<"dbg", "fb">> /\ <<"dbg">> # <<"dbg", "fb">>
<1>1. /\ Len(OnFb) = 1 /\ Len(OnDbg) = 1 /\ Len(Both) = 2 /\ Len(Mixed) = 1
      /\ OnFb[1] = <<"fb">> /\ OnDbg[1] = <<"dbg">> /\ Both[1] = <<"fb">> /\ Mixed[1] = <<"dbg", "fb">>
  BY DEF OnFb, OnDbg, Both, Mixed
<1>2. Tail(Both) = OnDbg
  BY DEF OnDbg, Both
<1>3. <<"fb">> # <<"dbg">> /\ <<"fb">> # <<"dbg", "fb">> /\ <<"dbg">> # <<"dbg", "fb">>
  OBVIOUS
<1>4. OnFb # OnDbg /\ OnFb # Mixed /\ OnDbg # Both /\ OnDbg # Mixed /\ Both # Mixed
  BY <1>1, <1>3
<1>5. OnFb # Both
  BY <1>1
<1> QED
  BY <1>1, <1>2, <1>3, <1>4, <1>5

(* The first print of a frame, and the loop it is in.                      *)
LEMMA HeadFacts ==
  ASSUME NEW f \in FrameType, f.prints # <<>>, InLoop(f)
  PROVE  /\ Head(f.prints) = f.prints[1] /\ f.prints[1] \in Outputs /\ Len(f.prints) \in Nat \ {0}
         /\ Head(f.prints[1].loops) = f.prints[1].loops[1]
         /\ f.prints[1].loops[1] \in {<<"fb">>, <<"dbg">>, <<"dbg", "fb">>}
<1>1. f.prints \in Seq(Outputs)
  BY DEF FrameType
<1>2. Len(f.prints) \in Nat \ {0} /\ f.prints[1] \in Outputs /\ Head(f.prints) = f.prints[1]
  BY <1>1
<1>3. f.prints[1].loops \in {OnFb, OnDbg, Both, Mixed}
  BY <1>2 DEF Outputs
<1>4. f.prints[1].loops[1] \in {<<"fb">>, <<"dbg">>, <<"dbg", "fb">>}
  BY <1>3, LoopFacts
<1>5. Head(f.prints[1].loops) = f.prints[1].loops[1]
  BY <1>3 DEF OnFb, OnDbg, Both, Mixed
<1> QED
  BY <1>2, <1>4, <1>5

(* Sequences of characters: what one more changes.                         *)
LEMMA OneMore ==
  ASSUME NEW out \in Seq(Char), NEW c \in Char
  PROVE  /\ Append(out, c) \in Seq(Char)
         /\ Len(Append(out, c)) = Len(out) + 1 /\ Append(out, c) # <<>>
         /\ Append(out, c)[Len(out) + 1] = c
         /\ \A k \in 1 .. Len(out) : Append(out, c)[k] = out[k]
         /\ Shown(Append(out, c)) = Shown(out) \cup {c[1]}
<1>1. /\ Append(out, c) \in Seq(Char)
      /\ Len(Append(out, c)) = Len(out) + 1
      /\ Append(out, c)[Len(out) + 1] = c
      /\ \A k \in 1 .. Len(out) : Append(out, c)[k] = out[k]
      /\ Len(out) \in Nat
  OBVIOUS
<1>2. Append(out, c) # <<>>
  BY <1>1
<1>3. Chars(Append(out, c)) = Chars(out) \cup {c}
  <2>1. 1 .. Len(out) + 1 = (1 .. Len(out)) \cup {Len(out) + 1}
    BY <1>1
  <2> QED
    BY <1>1, <2>1 DEF Chars
<1>4. Shown(Append(out, c)) = Shown(out) \cup {c[1]}
  BY <1>3 DEF Shown
<1> QED
  BY <1>1, <1>2, <1>4

(* A character that follows the last one leaves the order unbroken.        *)
LEMMA StillUnbroken ==
  ASSUME NEW out \in Seq(Char), NEW c \in Char, Unbroken(out),
         out = <<>> => FirstChar(c),
         out # <<>> => Follows(out[Len(out)], c)
  PROVE  Unbroken(Append(out, c))
<1> DEFINE o == Append(out, c)
<1>1. /\ Len(o) = Len(out) + 1 /\ o[Len(out) + 1] = c /\ Len(out) \in Nat
      /\ \A k \in 1 .. Len(out) : o[k] = out[k]
  BY OneMore
<1>2. out = <<>> <=> Len(out) = 0
  OBVIOUS
<1> HIDE DEF o
<1>3. FirstChar(o[1])
  BY <1>1, <1>2 DEF Unbroken
<1>4. ASSUME NEW i \in 1 .. Len(o) - 1
      PROVE  Follows(o[i], o[i + 1])
  <2>1. CASE i = Len(out)
    BY <1>1, <1>2, <1>4, <2>1
  <2>2. CASE i # Len(out)
    <3>1. i \in 1 .. Len(out) - 1
      BY <1>1, <2>2
    <3>2. o[i] = out[i] /\ o[i + 1] = out[i + 1]
      BY <1>1, <3>1
    <3> QED
      BY <3>1, <3>2 DEF Unbroken
  <2> QED
    BY <2>1, <2>2
<1> QED
  BY <1>3, <1>4 DEF Unbroken, o

-----------------------------------------------------------------------------
(* The steps of the loops, as the properties see them.                     *)

Msg1  == Top.prints[1].msg
Loop1 == Top.prints[1].loops[1]

(* EXCEPT replaces an element of a sequence.                               *)
LEMMA Replaced ==
  ASSUME NEW S, NEW s \in Seq(S), NEW n \in 1 .. Len(s), NEW x \in S
  PROVE  /\ [s EXCEPT ![n] = x] \in Seq(S) /\ Len([s EXCEPT ![n] = x]) = Len(s)
         /\ [s EXCEPT ![n] = x][n] = x
         /\ \A k \in 1 .. Len(s) : k # n => [s EXCEPT ![n] = x][k] = s[k]
OBVIOUS

(* The frame on top.                                                       *)
LEMMA TopType ==
  ASSUME Types
  PROVE  Top \in FrameType /\ InLoop(Top)
<1>1. Len(stack) \in Nat \ {0} /\ stack \in Seq(FrameType) /\ InLoop(Top)
  BY DEF Types
<1> DEFINE n == Len(stack)
<1>2. n \in 1 .. Len(stack)
  BY <1>1
<1> HIDE DEF n
<1>3. stack[n] \in FrameType
  BY <1>1, <1>2
<1> QED
  BY <1>1, <1>3 DEF Top, n

(* Places in loops that write to one device or to two.                     *)
LEMMA Places ==
  ASSUME NEW x \in Nat, NEW n \in {1, 2}, x < n
  PROVE  /\ x = 0 \/ (x = 1 /\ n = 2)
         /\ x + 1 < n => x = 0
         /\ 0 < n
OBVIOUS

(* One character goes to one device, and the frame counts it.              *)
LEMMA WriteFacts ==
  ASSUME Types, Write
  PROVE  \E D \in Devices :
           /\ Top.prints # <<>> /\ Fits(Msg1) /\ Top.i < Msg1.len
           /\ D = Loop1[Top.d + 1] /\ <<Msg1, Top.i + 1>> \in Char
           /\ Out(D)' = Append(Out(D), <<Msg1, Top.i + 1>>)
           /\ \A E \in Devices : E # D => Out(E)' = Out(E)
           /\ stack' \in Seq(FrameType) /\ Len(stack') = Len(stack) /\ InLoop(Top')
           /\ Top'.prints = Top.prints
           /\ IF Top.d + 1 < Len(Loop1) THEN Top'.d = Top.d + 1 /\ Top'.i = Top.i
              ELSE Top'.d = 0 /\ Top'.i = Top.i + 1
<1> DEFINE f == Top
           n == Len(stack)
           char == <<Msg1, Top.i + 1>>
           g == IF f.d + 1 < Len(Loop1) THEN [f EXCEPT !.d = @ + 1]
                ELSE [f EXCEPT !.d = 0, !.i = @ + 1]
<1>1. n \in Nat \ {0} /\ f = stack[n] /\ f \in FrameType /\ InLoop(f) /\ stack \in Seq(FrameType)
  BY TopType DEF Types, Top
<1>2. f.prints # <<>>
  BY DEF Write, WriteOf, Top
<1>3. /\ Head(f.prints) = f.prints[1] /\ f.prints[1] \in Outputs
      /\ Head(f.prints[1].loops) = Loop1 /\ Loop1 \in {<<"fb">>, <<"dbg">>, <<"dbg", "fb">>}
  BY <1>1, <1>2, HeadFacts DEF Loop1
<1>4. Fits(Msg1) /\ f.i < Msg1.len
  BY <1>3 DEF Write, WriteOf, More, Top, Msg1
<1>5. Msg1 \in Msg /\ f.i \in Nat /\ f.d \in Nat
  BY <1>1, <1>3 DEF Outputs, FrameType, Msg1
<1>6. Msg1.len \in Nat /\ BufSize \in Nat
  BY <1>5, SizesAssumption DEF Msg
<1>7. Buffer(Msg1)[f.i] = char
  BY <1>4, <1>5, <1>6 DEF Buffer, Fits
<1>8. char \in Char
  BY <1>4, <1>5, <1>6 DEF Char, Fits
<1>9. f.d < Len(Loop1)
  BY <1>1, <1>2 DEF InLoop, Loop1
<1>10. PICK D \in Devices : D = Loop1[f.d + 1]
  <2>1. \/ Loop1 \in {<<"fb">>, <<"dbg">>} /\ Len(Loop1) = 1
        \/ Loop1 = <<"dbg", "fb">> /\ Len(Loop1) = 2
    BY <1>3
  <2> HIDE DEF f
  <2>2. f.d = 0 \/ (f.d = 1 /\ Loop1 = <<"dbg", "fb">>)
    <3>1. Len(Loop1) \in {1, 2} /\ (Len(Loop1) = 2 => Loop1 = <<"dbg", "fb">>)
      BY <2>1
    <3>2. f.d = 0 \/ (f.d = 1 /\ Len(Loop1) = 2)
      BY <1>5, <1>9, <3>1, Places
    <3> QED
      BY <3>1, <3>2
  <2> QED
    BY <1>3, <2>2 DEF Devices
<1>11. /\ fb' = IF D = "fb" THEN Append(fb, char) ELSE fb
       /\ dbg' = IF D = "dbg" THEN Append(dbg, char) ELSE dbg
       /\ stack' = [stack EXCEPT ![n] = g]
  BY <1>3, <1>7, <1>10 DEF Write, WriteOf, Top, Msg1, Loop1
<1>12. g \in FrameType /\ g.prints = f.prints
  <2>1. f \in [prints : Seq(Outputs), i : Nat, d : Nat]
    BY <1>1 DEF FrameType
  <2> HIDE DEF f
  <2>2. CASE f.d + 1 < Len(Loop1)
    BY <2>1, <2>2 DEF FrameType
  <2>3. CASE ~(f.d + 1 < Len(Loop1))
    <3>1. f.i + 1 \in Nat /\ g = [f EXCEPT !.d = 0, !.i = f.i + 1]
      BY <2>1, <2>3
    <3> HIDE DEF g
    <3> QED
      BY <2>1, <3>1 DEF FrameType
  <2> QED
    BY <2>2, <2>3
<1>13. /\ f.d + 1 < Len(Loop1) => g.d = f.d + 1 /\ g.i = f.i
       /\ ~(f.d + 1 < Len(Loop1)) => g.d = 0 /\ g.i = f.i + 1
  BY <1>1 DEF FrameType
<1> HIDE DEF f, n, char, g
<1>14. stack' \in Seq(FrameType) /\ Len(stack') = n /\ stack'[n] = g
  <2>1. n \in 1 .. Len(stack)
    BY <1>1 DEF n
  <2> QED
    BY <1>1, <1>11, <1>12, <2>1, Replaced DEF n
<1>15. Top' = g
  BY <1>14 DEF Top, n
<1>16. Out(D)' = Append(Out(D), char) /\ \A E \in Devices : E # D => Out(E)' = Out(E)
  <2>1. CASE D = "fb"
    BY <1>11, <2>1 DEF Out, Devices
  <2>2. CASE D = "dbg"
    BY <1>11, <2>2 DEF Out, Devices
  <2> QED
    BY <1>10, <2>1, <2>2 DEF Devices
<1>17. InLoop(g)
  <2>1. g.prints # <<>> /\ g.prints[1].msg = Msg1 /\ g.prints[1].loops[1] = Loop1
    BY <1>2, <1>12 DEF Msg1, Loop1, f
  <2>2. Len(Loop1) \in {1, 2} /\ f.d + 1 \in Nat
    BY <1>3, <1>5
  <2>3. f.i + f.d <= Msg1.len
    BY <1>1, <1>2 DEF InLoop, Msg1, f
  <2>4. g.i + g.d <= Msg1.len /\ g.d < Len(Loop1)
    <3>1. f.i \in Nat /\ f.d \in Nat /\ f.i < Msg1.len
      BY <1>4, <1>5 DEF f
    <3>2. CASE f.d + 1 < Len(Loop1)
      <4>1. f.d = 0
        BY <1>9, <2>2, <3>1, <3>2, Places DEF f
      <4>2. g.d = f.d + 1 /\ g.i = f.i
        BY <1>13, <3>2
      <4> QED
        BY <1>6, <2>2, <3>1, <3>2, <4>1, <4>2
    <3>3. CASE ~(f.d + 1 < Len(Loop1))
      <4>1. g.d = 0 /\ g.i = f.i + 1
        BY <1>13, <3>3
      <4>2. 0 < Len(Loop1)
        BY <2>2, Places
      <4>3. Msg1.len \in Nat /\ f.i + 1 <= Msg1.len
        BY <1>6, <3>1
      <4> QED
        BY <4>1, <4>2, <4>3, <3>1
    <3> QED
      BY <3>2, <3>3
  <2> QED
    BY <1>4, <2>1, <2>4 DEF InLoop
<1> QED
  BY <1>2, <1>4, <1>8, <1>10, <1>12, <1>13, <1>14, <1>15, <1>16, <1>17 DEF f, n, char

(* What each device has got of the message, before and after a character.  *)
LEMMA WriteCounts ==
  ASSUME Types, Write, NEW D \in Devices, D = Loop1[Top.d + 1],
         Top.prints # <<>>, Top'.prints = Top.prints,
         IF Top.d + 1 < Len(Loop1) THEN Top'.d = Top.d + 1 /\ Top'.i = Top.i
         ELSE Top'.d = 0 /\ Top'.i = Top.i + 1
  PROVE  /\ Got(Top, D) = Top.i /\ Got(Top', D) = Top.i + 1 /\ Goes(Top.prints[1], D)
         /\ \A E \in Devices : E # D => Got(Top', E) = Got(Top, E)
<1> DEFINE f == Top
           g == Top'
           P == Top.prints
<1>1. f \in FrameType /\ InLoop(f)
  BY TopType
<1>2. f.i \in Nat /\ f.d \in Nat /\ f.d < Len(Loop1)
  BY <1>1 DEF FrameType, InLoop, Loop1
<1>3. /\ P[1] \in Outputs /\ Loop1 = P[1].loops[1]
      /\ Loop1 \in {<<"fb">>, <<"dbg">>, <<"dbg", "fb">>}
  BY <1>1, HeadFacts DEF Loop1
<1>4. /\ f.d + 1 < Len(Loop1) => g.d = f.d + 1 /\ g.i = f.i
      /\ ~(f.d + 1 < Len(Loop1)) => g.d = 0 /\ g.i = f.i + 1
  OBVIOUS
<1>5. /\ f.prints = P /\ g.prints = P /\ P # <<>>
  OBVIOUS
<1>6. \A E : Got(f, E) = IF E = Loop1[1] THEN f.i + f.d ELSE IF Len(Loop1) = 2 THEN f.i ELSE 0
  BY <1>5 DEF Got, Loop1
<1>7. \A E : Got(g, E) = IF E = Loop1[1] THEN g.i + g.d ELSE IF Len(Loop1) = 2 THEN g.i ELSE 0
  BY <1>5 DEF Got, Loop1
<1>8. P[1].loops \in {OnFb, OnDbg, Both, Mixed}
  BY <1>3 DEF Outputs
<1>9. D = Loop1[f.d + 1]
  OBVIOUS
<1> HIDE DEF f, g, P
<1>10. CASE Loop1 = <<"fb">>
  <2>1. Len(Loop1) = 1 /\ Loop1[1] = "fb"
    BY <1>10
  <2>2. f.d = 0
    BY <1>2, <2>1, Places
  <2>3. g.d = 0 /\ g.i = f.i + 1 /\ D = "fb"
    BY <1>4, <1>9, <2>1, <2>2
  <2>4. Goes(P[1], D)
    <3>1. P[1].loops[1] # OnDbg[1]
      BY <1>3, <1>10, LoopFacts
    <3> QED
      BY <2>3, <3>1 DEF Goes
  <2> QED
    BY <1>2, <1>6, <1>7, <2>1, <2>2, <2>3, <2>4 DEF Devices, f, g, P
<1>11. CASE Loop1 = <<"dbg">>
  <2>1. Len(Loop1) = 1 /\ Loop1[1] = "dbg"
    BY <1>11
  <2>2. f.d = 0
    BY <1>2, <2>1, Places
  <2>3. g.d = 0 /\ g.i = f.i + 1 /\ D = "dbg"
    BY <1>4, <1>9, <2>1, <2>2
  <2>4. Goes(P[1], D)
    <3>1. P[1].loops[1] # OnFb[1]
      BY <1>3, <1>11, LoopFacts
    <3> QED
      BY <2>3, <3>1 DEF Goes
  <2> QED
    BY <1>2, <1>6, <1>7, <2>1, <2>2, <2>3, <2>4 DEF Devices, f, g, P
<1>12. CASE Loop1 = <<"dbg", "fb">>
  <2>1. Len(Loop1) = 2 /\ Loop1[1] = "dbg" /\ Loop1[2] = "fb"
    BY <1>12
  <2>2. Goes(P[1], D)
    <3>1. P[1].loops[1] # OnDbg[1] /\ P[1].loops[1] # OnFb[1]
      BY <1>3, <1>12, LoopFacts
    <3> QED
      BY <3>1 DEF Goes
  <2>3. CASE f.d = 0
    <3>1. D = "dbg" /\ g.d = 1 /\ g.i = f.i
      BY <1>4, <1>9, <2>1, <2>3
    <3> QED
      BY <1>2, <1>6, <1>7, <2>1, <2>2, <2>3, <3>1 DEF Devices, f, g, P
  <2>4. CASE f.d = 1
    <3>1. D = "fb" /\ g.d = 0 /\ g.i = f.i + 1
      BY <1>4, <1>9, <2>1, <2>4
    <3> QED
      BY <1>2, <1>6, <1>7, <2>1, <2>2, <2>4, <3>1 DEF Devices, f, g, P
  <2> QED
    BY <1>2, <2>1, <2>3, <2>4, Places
<1> QED
  BY <1>3, <1>10, <1>11, <1>12

(* The last character of a device is of a message shown there.             *)
LEMMA LastShown ==
  ASSUME NEW out \in Seq(Char), out # <<>>
  PROVE  Len(out) \in Nat \ {0} /\ out[Len(out)] \in Char /\ out[Len(out)][1] \in Shown(out)
<1>1. Len(out) \in Nat \ {0}
  OBVIOUS
<1>2. Len(out) \in 1 .. Len(out)
  BY <1>1
<1>3. out[Len(out)] \in Char /\ out[Len(out)] \in Chars(out)
  BY <1>1, <1>2 DEF Chars
<1> QED
  BY <1>1, <1>3 DEF Shown

(* Writing keeps the order.                                                *)
LEMMA WriteOrder ==
  ASSUME Types, Order, Write
  PROVE  Types' /\ Order'
<1>1. PICK D \in Devices :
        /\ Top.prints # <<>> /\ Fits(Msg1) /\ Top.i < Msg1.len
        /\ D = Loop1[Top.d + 1] /\ <<Msg1, Top.i + 1>> \in Char
        /\ Out(D)' = Append(Out(D), <<Msg1, Top.i + 1>>)
        /\ \A E \in Devices : E # D => Out(E)' = Out(E)
        /\ stack' \in Seq(FrameType) /\ Len(stack') = Len(stack) /\ InLoop(Top')
        /\ Top'.prints = Top.prints
        /\ IF Top.d + 1 < Len(Loop1) THEN Top'.d = Top.d + 1 /\ Top'.i = Top.i
           ELSE Top'.d = 0 /\ Top'.i = Top.i + 1
  BY WriteFacts
<1> DEFINE P == Top.prints
           c == <<Msg1, Top.i + 1>>
           n == Len(stack)
<1>2. /\ Got(Top, D) = Top.i /\ Got(Top', D) = Top.i + 1 /\ Goes(P[1], D)
      /\ \A E \in Devices : E # D => Got(Top', E) = Got(Top, E)
  BY <1>1, WriteCounts
<1>3. \A E \in Devices : Out(E) \in Seq(Char)
  BY DEF Types, Out
<1>4. UNCHANGED <<config, level, calls, cause>>
  BY DEF Write, WriteOf
<1>5. Top \in FrameType /\ InLoop(Top)
  BY TopType
<1>6. P \in Seq(Outputs) /\ Top.i \in Nat /\ Len(P) \in Nat \ {0} /\ 1 \in 1 .. Len(P)
  BY <1>1, <1>5 DEF FrameType
<1>7. Ordered(Top, D, Out(D), n)
  BY DEF Order
<1>8. ASSUME Top.i = 0
      PROVE  Msg1 \notin Shown(Out(D)) /\ Msg1.frame = n /\ FirstChar(c)
  BY <1>2, <1>6, <1>7, <1>8 DEF Ordered, Msg1, FirstChar
<1>9. ASSUME Top.i > 0
      PROVE  Out(D) # <<>> /\ Out(D)[Len(Out(D))] = <<Msg1, Top.i>>
  BY <1>2, <1>7, <1>9 DEF Ordered, Msg1
<1>10. Unbroken(Append(Out(D), c))
  <2>1. Out(D) = <<>> => FirstChar(c)
    BY <1>6, <1>8, <1>9
  <2>2. ASSUME Out(D) # <<>>
        PROVE  Follows(Out(D)[Len(Out(D))], c)
    <3> DEFINE last == Out(D)[Len(Out(D))]
    <3>1. CASE Top.i > 0
      <4>1. last = <<Msg1, Top.i>>
        BY <1>9, <3>1
      <4> HIDE DEF last
      <4> QED
        BY <4>1 DEF Follows, last
    <3>2. CASE Top.i = 0
      <4>1. last[1] \in Shown(Out(D)) /\ last \in Char
        BY <1>3, <2>2, LastShown
      <4>2. last[1] # Msg1 /\ FirstChar(c)
        BY <1>8, <3>2, <4>1
      <4>3. LastChar(last) \/ last[1].frame < n
        BY <1>2, <1>7, <2>2, <3>2 DEF Ordered
      <4>4. last[1].frame <= n /\ c[1].frame = n
        BY <1>8, <3>2, <4>1 DEF Order
      <4>5. last[1].frame \in Nat /\ n \in Nat
        BY <4>1 DEF Char, Msg, Types
      <4> HIDE DEF last, c, n
      <4>6. c[1].frame > last[1].frame \/ (c[1].frame = last[1].frame /\ LastChar(last))
        BY <4>3, <4>4, <4>5
      <4>7. c[1] = Msg1
        BY DEF c
      <4>8. Follows(last, c)
        BY <4>2, <4>6, <4>7 DEF Follows
      <4> QED
        BY <4>8 DEF last
    <3> QED
      BY <1>6, <3>1, <3>2
  <2> QED
    BY <1>1, <1>3, <2>1, <2>2, StillUnbroken DEF Order
<1>11. /\ Append(Out(D), c) \in Seq(Char) /\ Append(Out(D), c) # <<>>
       /\ Len(Append(Out(D), c)) = Len(Out(D)) + 1
       /\ Append(Out(D), c)[Len(Out(D)) + 1] = c
       /\ Shown(Append(Out(D), c)) = Shown(Out(D)) \cup {Msg1}
  <2>1. c \in Char /\ c[1] = Msg1 /\ Out(D) \in Seq(Char)
    BY <1>1, <1>3
  <2> HIDE DEF c
  <2> QED
    BY <2>1, OneMore
<1>12. Ordered(Top', D, Append(Out(D), c), n)
  <2>1. \A j, k \in 1 .. Len(P) : P[j].msg = P[k].msg => j = k
    BY <1>7 DEF Ordered
  <2>2. ASSUME NEW k \in 1 .. Len(P)
        PROVE  /\ P[k].msg.frame = n
               /\ P[k].msg.call <= calls
               /\ Goes(P[k], D) /\ k # 1 => P[k].msg \notin Shown(Append(Out(D), c))
    <3>1. /\ P[k].msg.frame = n
          /\ P[k].msg.call <= calls
          /\ Goes(P[k], D) /\ k # 1 => P[k].msg \notin Shown(Out(D))
      BY <1>7 DEF Ordered
    <3>2. k # 1 => P[k].msg # Msg1
      BY <1>6, <2>1 DEF Msg1
    <3> QED
      BY <1>11, <3>1, <3>2
  <2>3. Got(Top', D) > 0 /\ ~(Got(Top', D) = 0)
    BY <1>2, <1>6
  <2> HIDE DEF P, c, n
  <2>4. Append(Out(D), c)[Len(Append(Out(D), c))] = c /\ c = <<P[1].msg, Got(Top', D)>>
    BY <1>2, <1>11 DEF c, P, Msg1
  <2>5. Top'.prints = P
    BY <1>1 DEF P
  <2> QED
    BY <1>11, <2>1, <2>2, <2>3, <2>4, <2>5 DEF Ordered
<1>13. ASSUME NEW E \in Devices, E # D
       PROVE  Ordered(Top', E, Out(E), n)
  <2>1. Ordered(Top, E, Out(E), n)
    BY DEF Order
  <2>2. Top'.prints = Top.prints /\ Got(Top', E) = Got(Top, E)
    BY <1>1, <1>2, <1>13
  <2> QED
    BY <2>1, <2>2 DEF Ordered
<1>14. \A m \in Shown(Append(Out(D), c)) : m.call <= calls /\ m.frame <= n
  <2>1. Msg1.call <= calls /\ Msg1.frame <= n
    <3>1. P[1].msg.frame = n /\ P[1].msg.call <= calls
      BY <1>6, <1>7 DEF Ordered
    <3>2. n <= n
      BY DEF Types
    <3> QED
      BY <3>1, <3>2 DEF Msg1
  <2>2. \A m \in Shown(Out(D)) : m.call <= calls /\ m.frame <= n
    BY DEF Order
  <2> QED
    BY <1>11, <2>1, <2>2
<1>15. Types'
  <2>1. fb' = Out("fb")' /\ dbg' = Out("dbg")'
    BY DEF Out
  <2>2. \A E \in Devices : Out(E)' \in Seq(Char)
    BY <1>1, <1>3, <1>11
  <2> QED
    BY <1>1, <1>4, <2>1, <2>2 DEF Types, Devices
<1> QED
  BY <1>1, <1>4, <1>10, <1>12, <1>13, <1>14, <1>15 DEF Order, Ordered

(* A loop writes to a device at least.                                     *)
LEMMA OneOrTwo ==
  ASSUME NEW n \in {1, 2}
  PROVE  0 < n
OBVIOUS

(* A frame at the start of its prints is where its message is.             *)
LEMMA FrameFacts ==
  ASSUME NEW s \in Seq(Outputs)
  PROVE  /\ Frame(s) \in FrameType /\ InLoop(Frame(s))
         /\ Frame(s).prints = s /\ Frame(s).i = 0 /\ Frame(s).d = 0
<1>1. Frame(s) \in FrameType /\ Frame(s).prints = s /\ Frame(s).i = 0 /\ Frame(s).d = 0
  BY DEF Frame, FrameType
<1>2. ASSUME s # <<>>
      PROVE  0 <= s[1].msg.len /\ 0 < Len(s[1].loops[1])
  <2>1. s[1] \in Outputs
    BY <1>2
  <2>2. s[1].msg.len \in Nat /\ s[1].loops \in {OnFb, OnDbg, Both, Mixed}
    BY <2>1 DEF Outputs, Msg
  <2>3. s[1].loops[1] \in {<<"fb">>, <<"dbg">>, <<"dbg", "fb">>}
    BY <2>2, LoopFacts
  <2>4. Len(s[1].loops[1]) \in {1, 2}
    BY <2>3
  <2>5. 0 < Len(s[1].loops[1])
    BY <2>4, OneOrTwo
  <2> QED
    BY <2>2, <2>5
<1> QED
  BY <1>1, <1>2 DEF InLoop

(* A loop that is over is left for the next of the print, or for the next  *)
(* print; a message that was begun has come out whole.                     *)
LEMMA ReturnFacts ==
  ASSUME Types, Return
  PROVE  /\ Top.prints # <<>> /\ ~(Fits(Msg1) /\ Top.i < Msg1.len) /\ Top.d = 0
         /\ Top.i > 0 => Fits(Msg1) /\ Top.i = Msg1.len
         /\ stack' \in Seq(FrameType) /\ Len(stack') = Len(stack)
         /\ Top' \in FrameType /\ InLoop(Top')
         /\ Top'.i = 0 /\ Top'.d = 0
         /\ UNCHANGED <<config, level, calls, cause, fb, dbg>>
         /\ \/ /\ Top.prints[1].loops = Both
               /\ Top'.prints # <<>> /\ Len(Top'.prints) = Len(Top.prints)
               /\ Top'.prints[1].msg = Msg1 /\ Top'.prints[1].loops = OnDbg
               /\ \A k \in 2 .. Len(Top.prints) : Top'.prints[k] = Top.prints[k]
            \/ /\ Top.prints[1].loops # Both
               /\ Len(Top'.prints) = Len(Top.prints) - 1
               /\ \A k \in 1 .. Len(Top.prints) - 1 : Top'.prints[k] = Top.prints[k + 1]
<1> DEFINE f == Top
           n == Len(stack)
           P == Top.prints
           Q == IF P[1].loops = Both THEN [P EXCEPT ![1].loops = OnDbg] ELSE Tail(P)
<1>1. n \in Nat \ {0} /\ f = stack[n] /\ f \in FrameType /\ InLoop(f) /\ stack \in Seq(FrameType)
  BY TopType DEF Types, Top
<1>2. P # <<>>
  BY DEF Return, Top
<1>3. Head(P) = P[1] /\ P[1] \in Outputs /\ Len(P) \in Nat \ {0}
  BY <1>1, <1>2, HeadFacts
<1>4. P \in Seq(Outputs)
  BY <1>1 DEF FrameType
<1>5. P[1].loops \in {OnFb, OnDbg, Both, Mixed} /\ Msg1 \in Msg
  BY <1>3 DEF Outputs, Msg1
<1>6. ~(Fits(Msg1) /\ f.i < Msg1.len)
  BY <1>3 DEF Return, More, Top, Msg1
<1>7. f.i \in Nat /\ f.d \in Nat /\ Msg1.len \in Nat /\ f.i + f.d <= Msg1.len
      /\ (f.i > 0 \/ f.d > 0 => Fits(Msg1))
  BY <1>1, <1>2, <1>5 DEF FrameType, InLoop, Msg, Msg1
<1>8. f.d = 0 /\ (f.i > 0 => Fits(Msg1) /\ f.i = Msg1.len)
  <2> HIDE DEF f
  <2> QED
    BY <1>6, <1>7
<1>9. Len(P[1].loops) > 1 <=> P[1].loops = Both
  <2>1. Len(P[1].loops) = IF P[1].loops = Both THEN 2 ELSE 1
    BY <1>5, LoopFacts
  <2> HIDE DEF P
  <2> QED
    BY <2>1
<1>10. P[1].loops = Both => Tail(P[1].loops) = OnDbg
  BY LoopFacts
<1>11. stack' = [stack EXCEPT ![n] =
                  Frame(IF Len(P[1].loops) > 1 THEN [P EXCEPT ![1].loops = Tail(@)] ELSE Tail(P))]
       /\ UNCHANGED <<config, level, calls, cause, fb, dbg>>
  BY <1>3 DEF Return, Top
<1>12. stack' = [stack EXCEPT ![n] = Frame(Q)]
  <2>1. CASE P[1].loops = Both
    <3>1. [P EXCEPT ![1].loops = Tail(@)] = [P EXCEPT ![1].loops = OnDbg]
      BY <1>10, <2>1
    <3> QED
      BY <1>9, <1>11, <2>1, <3>1
  <2>2. CASE P[1].loops # Both
    BY <1>9, <1>11, <2>2
  <2> QED
    BY <2>1, <2>2
<1>13. /\ Q \in Seq(Outputs)
       /\ \/ /\ P[1].loops = Both
             /\ Q # <<>> /\ Len(Q) = Len(P)
             /\ Q[1].msg = Msg1 /\ Q[1].loops = OnDbg
             /\ \A k \in 2 .. Len(P) : Q[k] = P[k]
          \/ /\ P[1].loops # Both
             /\ Len(Q) = Len(P) - 1
             /\ \A k \in 1 .. Len(P) - 1 : Q[k] = P[k + 1]
  <2>1. CASE P[1].loops = Both
    <3> DEFINE p == [P[1] EXCEPT !.loops = OnDbg]
    <3>1. p \in Outputs /\ p.msg = Msg1 /\ p.loops = OnDbg
      BY <1>3 DEF Outputs, Msg1
    <3>2. Q = [P EXCEPT ![1] = p]
      BY <2>1
    <3>3. 1 \in 1 .. Len(P)
      BY <1>3
    <3> HIDE DEF p, Q
    <3>4. Q \in Seq(Outputs) /\ Len(Q) = Len(P) /\ Q[1] = p
          /\ \A k \in 1 .. Len(P) : k # 1 => Q[k] = P[k]
      BY <1>4, <3>1, <3>2, <3>3, Replaced
    <3>5. Q # <<>>
      BY <1>3, <3>4
    <3> QED
      BY <1>3, <2>1, <3>1, <3>4, <3>5
  <2>2. CASE P[1].loops # Both
    BY <1>2, <1>3, <1>4, <2>2
  <2> QED
    BY <2>1, <2>2
<1> HIDE DEF Q
<1>14. Frame(Q) \in FrameType /\ InLoop(Frame(Q)) /\ Frame(Q).prints = Q
       /\ Frame(Q).i = 0 /\ Frame(Q).d = 0
  BY <1>13, FrameFacts
<1>15. stack' \in Seq(FrameType) /\ Len(stack') = n /\ stack'[n] = Frame(Q)
  <2>1. n \in 1 .. Len(stack)
    BY <1>1
  <2> QED
    BY <1>1, <1>12, <1>14, <2>1, Replaced
<1>16. Top' = Frame(Q)
  BY <1>15 DEF Top
<1> QED
  BY <1>2, <1>6, <1>8, <1>11, <1>13, <1>14, <1>15, <1>16

(* A call that returns keeps the order.                                    *)
LEMMA ReturnOrder ==
  ASSUME Types, Order, Return
  PROVE  Types' /\ Order'
<1> DEFINE P == Top.prints
           Q == Top'.prints
           n == Len(stack)
           Next2 == /\ P[1].loops = Both
                    /\ Q # <<>> /\ Len(Q) = Len(P)
                    /\ Q[1].msg = Msg1 /\ Q[1].loops = OnDbg
                    /\ \A k \in 2 .. Len(P) : Q[k] = P[k]
           Pop == /\ P[1].loops # Both
                  /\ Len(Q) = Len(P) - 1
                  /\ \A k \in 1 .. Len(P) - 1 : Q[k] = P[k + 1]
<1>1. /\ P # <<>> /\ Top.d = 0
      /\ Top.i > 0 => Fits(Msg1) /\ Top.i = Msg1.len
      /\ stack' \in Seq(FrameType) /\ Len(stack') = Len(stack) /\ InLoop(Top')
      /\ Top'.i = 0 /\ Top'.d = 0
      /\ UNCHANGED <<config, level, calls, cause, fb, dbg>>
      /\ Next2 \/ Pop
  BY ReturnFacts
<1>2. Types'
  BY <1>1 DEF Types
<1>3. Len(P) \in Nat \ {0} /\ Top.i \in Nat /\ P[1] \in Outputs
      /\ P[1].loops[1] \in {<<"fb">>, <<"dbg">>, <<"dbg", "fb">>}
  <2>1. Top \in FrameType /\ InLoop(Top)
    BY TopType
  <2> QED
    BY <1>1, <2>1, HeadFacts DEF FrameType
<1>4. \A D \in Devices : Got(Top', D) = 0
  BY <1>1 DEF Got
<1>5. \A D \in Devices : Got(Top, D) \in {0, Top.i}
  BY <1>1, <1>3 DEF Got
<1>6. P[1].loops = Both => Got(Top, "dbg") = 0
  <2> SUFFICES ASSUME P[1].loops = Both
               PROVE  Got(Top, "dbg") = 0
    OBVIOUS
  <2> DEFINE loop == P[1].loops[1]
  <2>1. loop = <<"fb">>
    BY LoopFacts
  <2>2. loop[1] # "dbg" /\ Len(loop) # 2
    BY <2>1
  <2>3. Got(Top, "dbg") = IF "dbg" = loop[1] THEN Top.i + Top.d ELSE IF Len(loop) = 2 THEN Top.i ELSE 0
    BY <1>1 DEF Got
  <2> QED
    BY <2>2, <2>3
<1> HIDE DEF P, Q, n
<1>7. ASSUME NEW D \in Devices
      PROVE  Ordered(Top', D, Out(D), n)
  <2>1. Ordered(Top, D, Out(D), n)
    BY DEF Order, n
  <2>2. /\ \A j, k \in 1 .. Len(P) : P[j].msg = P[k].msg => j = k
        /\ \A k \in 1 .. Len(P) :
             /\ P[k].msg.frame = n
             /\ P[k].msg.call <= calls
             /\ Goes(P[k], D) /\ ~(k = 1 /\ Got(Top, D) > 0) => P[k].msg \notin Shown(Out(D))
        /\ Got(Top, D) > 0 => Out(D) # <<>> /\ Out(D)[Len(Out(D))] = <<P[1].msg, Got(Top, D)>>
        /\ Got(Top, D) = 0 /\ Out(D) # <<>> =>
             LastChar(Out(D)[Len(Out(D))]) \/ Out(D)[Len(Out(D))][1].frame < n
    BY <2>1 DEF Ordered, P
  <2>3. Out(D) # <<>> => LastChar(Out(D)[Len(Out(D))]) \/ Out(D)[Len(Out(D))][1].frame < n
    <3>1. CASE Got(Top, D) = 0
      BY <2>2, <3>1
    <3>2. CASE Got(Top, D) # 0
      <4>1. Got(Top, D) = Top.i /\ Top.i > 0
        BY <1>3, <1>5, <3>2
      <4>2. Out(D)[Len(Out(D))] = <<Msg1, Msg1.len>>
        BY <1>1, <2>2, <4>1 DEF Msg1, P
      <4> QED
        BY <4>2 DEF LastChar
    <3> QED
      BY <3>1, <3>2
  <2>4. CASE Next2
    <3>1. \A k \in 1 .. Len(P) : Q[k].msg = P[k].msg
      BY <1>3, <2>4 DEF Msg1, P
    <3>2. \A j, k \in 1 .. Len(Q) : Q[j].msg = Q[k].msg => j = k
      BY <2>2, <2>4, <3>1
    <3>3. ASSUME NEW k \in 1 .. Len(Q)
          PROVE  /\ Q[k].msg.frame = n
                 /\ Q[k].msg.call <= calls
                 /\ Goes(Q[k], D) => Q[k].msg \notin Shown(Out(D))
      <4>1. k \in 1 .. Len(P) /\ Q[k].msg = P[k].msg
        BY <2>4, <3>1
      <4>2. Q[k].msg.frame = n /\ Q[k].msg.call <= calls
        BY <2>2, <4>1
      <4>3. CASE k = 1
        <5>1. Goes(Q[k], D) => D = "dbg"
          BY <2>4, <4>3 DEF Goes, Devices
        <5>2. Goes(P[k], "dbg")
          BY <2>4, <4>3, LoopFacts DEF Goes
        <5>3. Got(Top, "dbg") = 0
          BY <1>6, <2>4
        <5>4. ASSUME D = "dbg"
              PROVE  P[k].msg \notin Shown(Out(D))
          <6>1. Goes(P[k], D) /\ ~(Got(Top, D) > 0)
            BY <5>2, <5>3, <5>4
          <6> QED
            BY <2>2, <4>1, <6>1
        <5> QED
          BY <4>1, <4>2, <5>1, <5>4
      <4>4. CASE k # 1
        <5>1. Q[k] = P[k]
          BY <1>3, <2>4, <4>1, <4>4
        <5> QED
          BY <2>2, <4>1, <4>2, <4>4, <5>1
      <4> QED
        BY <4>3, <4>4
    <3> QED
      BY <1>4, <2>3, <3>2, <3>3 DEF Ordered, Q
  <2>5. CASE Pop
    <3>1. \A k \in 1 .. Len(Q) : k + 1 \in 1 .. Len(P) /\ k + 1 # 1 /\ Q[k] = P[k + 1]
      BY <1>3, <2>5
    <3>2. \A j, k \in 1 .. Len(Q) : Q[j].msg = Q[k].msg => j = k
      <4> SUFFICES ASSUME NEW j \in 1 .. Len(Q), NEW k \in 1 .. Len(Q), Q[j].msg = Q[k].msg
                   PROVE  j = k
        OBVIOUS
      <4>1. P[j + 1].msg = P[k + 1].msg
        BY <3>1
      <4>2. j + 1 = k + 1
        BY <2>2, <3>1, <4>1
      <4> QED
        BY <4>2
    <3>3. \A k \in 1 .. Len(Q) :
            /\ Q[k].msg.frame = n
            /\ Q[k].msg.call <= calls
            /\ Goes(Q[k], D) => Q[k].msg \notin Shown(Out(D))
      BY <2>2, <3>1
    <3> QED
      BY <1>4, <2>3, <3>2, <3>3 DEF Ordered, Q
  <2> QED
    BY <1>1, <2>4, <2>5
<1>8. \A D \in Devices : Out(D)' = Out(D)
  BY <1>1 DEF Out
<1> QED
  BY <1>1, <1>2, <1>7, <1>8 DEF Order, Ordered, n

-----------------------------------------------------------------------------
(* What is printed: log lines, texts and the panic's report.               *)

(* Prints of messages of an activation and a call, each message once.      *)
Prints(s, frame, call) ==
  /\ s \in Seq(Outputs)
  /\ \A k \in 1 .. Len(s) : s[k].msg.frame = frame /\ s[k].msg.call = call
  /\ \A j, k \in 1 .. Len(s) : s[j].msg = s[k].msg => j = k

(* The kinds of the levels.                                                *)
LEMMA KindFacts ==
  /\ ToSet(Kinds) = {"DEBUG", "INFO", "OK", "WARN", "ERROR"}
  /\ \A lvl \in DEBUG .. ERROR : get_kind(lvl) \in ToSet(Kinds)
<1>1. DOMAIN Kinds = 1 .. 5
  BY DEF Kinds
<1>2. 1 .. 5 = {1, 2, 3, 4, 5}
  OBVIOUS
<1>3. ToSet(Kinds) = {Kinds[1], Kinds[2], Kinds[3], Kinds[4], Kinds[5]}
  BY <1>1, <1>2 DEF ToSet
<1>4. ToSet(Kinds) = {"DEBUG", "INFO", "OK", "WARN", "ERROR"}
  BY <1>3 DEF Kinds
<1>5. ASSUME NEW lvl \in DEBUG .. ERROR
      PROVE  get_kind(lvl) \in ToSet(Kinds)
  <2>1. lvl + 1 \in 1 .. 5
    BY DEF DEBUG, ERROR
  <2> QED
    BY <1>1, <2>1 DEF get_kind, ToSet
<1> QED
  BY <1>4, <1>5

(* Every way to print makes a print of the message.                        *)
LEMMA PrintFacts ==
  ASSUME NEW m \in Msg
  PROVE  \A p \in {vprintf(m), KMPRINTF(m), printf(m), DPRINTF(m)} : p \in Outputs /\ p.msg = m
<1>1. \A l \in {OnFb, OnDbg, Both, Mixed} : Output(m, l) \in Outputs /\ Output(m, l).msg = m
  BY DEF Output, Outputs
<1>2. vprintf(m) \in {Output(m, OnFb), Output(m, Mixed)}
  BY DEF vprintf, OnFb, Mixed
<1>3. KMPRINTF(m) = Output(m, Both) /\ kprintf(m) = Output(m, OnFb) /\ kdprintf(m) = Output(m, OnDbg)
  BY DEF KMPRINTF, kprintf, kdprintf, Both, OnFb, OnDbg
<1>4. printf(m) \in {KMPRINTF(m), kprintf(m)} /\ DPRINTF(m) \in {KMPRINTF(m), kdprintf(m)}
  BY DEF printf, DPRINTF
<1> QED
  BY <1>1, <1>2, <1>3, <1>4

(* The prints of a log line are of three messages.                         *)
LEMMA LogLineFacts ==
  ASSUME NEW lvl \in DEBUG .. ERROR, NEW text \in {"body", "garbled"}, NEW len \in Nat, calls \in Nat
  PROVE  /\ Prints(LogLine(lvl, text, len), 1, calls + 1)
         /\ LogLine(lvl, text, len) =
              <<printf(Message(1, calls + 1, get_kind(lvl), FixedLen)),
                vprintf(Message(1, calls + 1, text, len)), printf(Message(1, calls + 1, "reset", 1))>>
<1> DEFINE a == Message(1, calls + 1, get_kind(lvl), FixedLen)
           b == Message(1, calls + 1, text, len)
           c == Message(1, calls + 1, "reset", 1)
<1>1. get_kind(lvl) \in ToSet(Kinds)
  BY KindFacts
<1>2. a \in Msg /\ b \in Msg /\ c \in Msg
  BY <1>1, SizesAssumption DEF Message, Msg, Texts
<1>3. a.text \in ToSet(Kinds) /\ b.text = text /\ c.text = "reset"
      /\ a.call = calls + 1 /\ b.call = calls + 1 /\ c.call = calls + 1
      /\ a.frame = 1 /\ b.frame = 1 /\ c.frame = 1
  BY <1>1 DEF Message
<1>4. a # b /\ a # c /\ b # c
  BY <1>3, KindFacts
<1> HIDE DEF a, b, c
<1>5. /\ printf(a) \in Outputs /\ printf(a).msg = a
      /\ vprintf(b) \in Outputs /\ vprintf(b).msg = b
      /\ printf(c) \in Outputs /\ printf(c).msg = c
  BY <1>2, PrintFacts
<1> DEFINE s == <<printf(a), vprintf(b), printf(c)>>
<1>6. s \in Seq(Outputs) /\ Len(s) = 3 /\ s[1] = printf(a) /\ s[2] = vprintf(b) /\ s[3] = printf(c)
  BY <1>5
<1> HIDE DEF s
<1>7. s[1].msg = a /\ s[2].msg = b /\ s[3].msg = c
  BY <1>5, <1>6
<1>8. \A k \in 1 .. Len(s) : k = 1 \/ k = 2 \/ k = 3
  BY <1>6
<1>9. Prints(s, 1, calls + 1)
  BY <1>3, <1>4, <1>6, <1>7, <1>8 DEF Prints
<1> QED
  BY <1>9 DEF LogLine, s, a, b, c

(* A text is one print, of a message of its own.                           *)
LEMMA TextFacts ==
  ASSUME NEW len \in Nat, calls \in Nat
  PROVE  Prints(<<printf(Message(1, calls + 1, "text", len))>>, 1, calls + 1)
<1> DEFINE m == Message(1, calls + 1, "text", len)
<1>1. m \in Msg /\ m.frame = 1 /\ m.call = calls + 1
  BY DEF Message, Msg, Texts
<1> HIDE DEF m
<1>2. printf(m) \in Outputs /\ printf(m).msg = m
  BY <1>1, PrintFacts
<1> QED
  BY <1>1, <1>2 DEF Prints, m

(* Sequences without repetition.                                           *)
LEMMA ShortInjective ==
  /\ \A S : <<>> \in Seq(S)
  /\ IsInjective(<<>>)
  /\ \A x : <<x>> \in Seq({x}) /\ IsInjective(<<x>>)
  /\ \A x, y : x # y => <<x, y>> \in Seq({x, y}) /\ IsInjective(<<x, y>>)
<1>1. (\A S : <<>> \in Seq(S)) /\ IsInjective(<<>>)
  BY DEF IsInjective
<1>2. ASSUME NEW x
      PROVE  <<x>> \in Seq({x}) /\ IsInjective(<<x>>)
  <2>1. DOMAIN <<x>> = {1}
    OBVIOUS
  <2> QED
    BY <2>1 DEF IsInjective
<1>3. ASSUME NEW x, NEW y, x # y
      PROVE  <<x, y>> \in Seq({x, y}) /\ IsInjective(<<x, y>>)
  <2> DEFINE s == <<x, y>>
  <2>1. s \in Seq({x, y}) /\ Len(s) = 2 /\ s[1] = x /\ s[2] = y
    OBVIOUS
  <2> HIDE DEF s
  <2>2. DOMAIN s = 1 .. 2
    BY <2>1
  <2>3. \A i \in 1 .. 2 : i = 1 \/ i = 2
    OBVIOUS
  <2>4. IsInjective(s)
    BY <1>3, <2>1, <2>2, <2>3 DEF IsInjective
  <2> QED
    BY <2>1, <2>4 DEF s
<1> QED
  BY <1>1, <1>2, <1>3

(* Four different lines are distinct in a sequence.                        *)
LEMMA FourInjective ==
  ASSUME NEW S, NEW w \in S, NEW x \in S, NEW y \in S, NEW z \in S,
         w # x, w # y, w # z, x # y, x # z, y # z
  PROVE  <<w, x, y, z>> \in Seq(S) /\ IsInjective(<<w, x, y, z>>)
<1> DEFINE s == <<w, x, y, z>>
<1>1. s \in Seq(S) /\ Len(s) = 4 /\ s[1] = w /\ s[2] = x /\ s[3] = y /\ s[4] = z
  OBVIOUS
<1> HIDE DEF s
<1>2. DOMAIN s = 1 .. 4
  BY <1>1
<1>3. \A i \in 1 .. 4 : i = 1 \/ i = 2 \/ i = 3 \/ i = 4
  OBVIOUS
<1>4. IsInjective(s)
  BY <1>1, <1>2, <1>3 DEF IsInjective
<1> QED
  BY <1>1, <1>4 DEF s

(* Sequences without repetition, with nothing in common.                   *)
LEMMA ConcatInjective ==
  ASSUME NEW X, NEW Y, NEW s \in Seq(X), NEW t \in Seq(Y), X \cap Y = {}, IsInjective(s), IsInjective(t)
  PROVE  s \o t \in Seq(X \cup Y) /\ IsInjective(s \o t)
<1>1. s \in Seq(X \cup Y) /\ t \in Seq(X \cup Y) /\ Len(s) \in Nat /\ Len(t) \in Nat
  OBVIOUS
<1> DEFINE u == s \o t
<1>2. /\ u \in Seq(X \cup Y) /\ Len(u) = Len(s) + Len(t)
      /\ \A i \in 1 .. Len(s) + Len(t) : u[i] = IF i <= Len(s) THEN s[i] ELSE t[i - Len(s)]
  BY <1>1, ConcatProperties
<1>3. DOMAIN u = 1 .. Len(s) + Len(t) /\ DOMAIN s = 1 .. Len(s) /\ DOMAIN t = 1 .. Len(t)
  BY <1>1, <1>2
<1> HIDE DEF u
<1>4. ASSUME NEW a \in DOMAIN u, NEW b \in DOMAIN u, u[a] = u[b]
      PROVE  a = b
  <2>1. \A i \in DOMAIN u : \/ i \in DOMAIN s /\ u[i] = s[i] /\ u[i] \in X /\ i <= Len(s)
                            \/ i - Len(s) \in DOMAIN t /\ u[i] = t[i - Len(s)] /\ u[i] \in Y /\ i > Len(s)
    BY <1>1, <1>2, <1>3
  <2>2. CASE a <= Len(s) /\ b <= Len(s)
    BY <1>3, <1>4, <2>1, <2>2 DEF IsInjective
  <2>3. CASE a > Len(s) /\ b > Len(s)
    <3>1. a - Len(s) = b - Len(s)
      BY <1>3, <1>4, <2>1, <2>3 DEF IsInjective
    <3> QED
      BY <1>1, <1>3, <3>1
  <2>4. CASE a <= Len(s) /\ b > Len(s)
    BY <1>1, <1>3, <1>4, <2>1, <2>4
  <2>5. CASE a > Len(s) /\ b <= Len(s)
    BY <1>1, <1>3, <1>4, <2>1, <2>5
  <2> QED
    BY <1>1, <1>3, <2>2, <2>3, <2>4, <2>5
<1> QED
  BY <1>2, <1>4 DEF IsInjective, u

(* Lines of a panic that begins now, of texts from X, each text once.      *)
OfPanic(m) == m.frame = Len(stack) + 1 /\ m.call = 0
Lines(s, X) ==
  /\ s \in Seq(Outputs)
  /\ \A k \in 1 .. Len(s) : OfPanic(s[k].msg) /\ s[k].msg.text \in X
  /\ \A j, k \in 1 .. Len(s) : s[j].msg = s[k].msg => j = k

(* A panic's lines, printed by either macro: its own, each once.           *)
LEMMA LinesOf ==
  ASSUME NEW X, X \subseteq Texts, NEW t \in Seq(X), IsInjective(t), Len(stack) \in Nat
  PROVE  Lines(KLines(t), X) /\ Lines(DLines(t), X)
<1>1. FixedLen \in Nat
  BY SizesAssumption
<1>2. Len(t) \in Nat /\ DOMAIN t = 1 .. Len(t) /\ \A n \in 1 .. Len(t) : t[n] \in X
  OBVIOUS
<1>3. \A n \in 1 .. Len(t) : Line(t[n]) \in Msg /\ OfPanic(Line(t[n])) /\ Line(t[n]).text = t[n]
  BY <1>1, <1>2 DEF Line, Message, Msg, OfPanic
<1>4. \A n \in 1 .. Len(t) : /\ KMPRINTF(Line(t[n])) \in Outputs /\ KMPRINTF(Line(t[n])).msg = Line(t[n])
                             /\ DPRINTF(Line(t[n])) \in Outputs /\ DPRINTF(Line(t[n])).msg = Line(t[n])
  BY <1>3, PrintFacts
<1>5. \A j, k \in 1 .. Len(t) : Line(t[j]) = Line(t[k]) => j = k
  BY <1>2, <1>3 DEF IsInjective
<1>6. /\ KLines(t) \in Seq(Outputs) /\ Len(KLines(t)) = Len(t)
      /\ \A n \in 1 .. Len(t) : KLines(t)[n].msg = Line(t[n])
  BY <1>2, <1>4 DEF KLines
<1>7. /\ DLines(t) \in Seq(Outputs) /\ Len(DLines(t)) = Len(t)
      /\ \A n \in 1 .. Len(t) : DLines(t)[n].msg = Line(t[n])
  BY <1>2, <1>4 DEF DLines
<1> QED
  BY <1>2, <1>3, <1>5, <1>6, <1>7 DEF Lines

(* So are the lines of two parts of a report that share none.              *)
LEMMA ConcatLines ==
  ASSUME NEW X, NEW Y, X \cap Y = {}, NEW s, NEW t, Lines(s, X), Lines(t, Y)
  PROVE  Lines(s \o t, X \cup Y)
<1>1. s \in Seq(Outputs) /\ t \in Seq(Outputs) /\ Len(s) \in Nat /\ Len(t) \in Nat
  BY DEF Lines
<1> DEFINE u == s \o t
<1>2. /\ u \in Seq(Outputs) /\ Len(u) = Len(s) + Len(t)
      /\ \A i \in 1 .. Len(s) + Len(t) : u[i] = IF i <= Len(s) THEN s[i] ELSE t[i - Len(s)]
  BY <1>1, ConcatProperties
<1> HIDE DEF u
<1>3. \A i \in 1 .. Len(u) :
        \/ i \in 1 .. Len(s) /\ u[i] = s[i] /\ u[i].msg.text \in X /\ OfPanic(u[i].msg)
        \/ i - Len(s) \in 1 .. Len(t) /\ u[i] = t[i - Len(s)] /\ u[i].msg.text \in Y /\ OfPanic(u[i].msg)
             /\ i > Len(s)
  BY <1>1, <1>2 DEF Lines
<1>4. ASSUME NEW a \in 1 .. Len(u), NEW b \in 1 .. Len(u), u[a].msg = u[b].msg
      PROVE  a = b
  <2>1. CASE a <= Len(s) /\ b <= Len(s)
    <3>1. a \in 1 .. Len(s) /\ b \in 1 .. Len(s) /\ s[a].msg = s[b].msg
      BY <1>1, <1>2, <1>4, <2>1
    <3> QED
      BY <3>1 DEF Lines
  <2>2. CASE a > Len(s) /\ b > Len(s)
    <3>1. /\ a - Len(s) \in 1 .. Len(t) /\ b - Len(s) \in 1 .. Len(t)
          /\ t[a - Len(s)].msg = t[b - Len(s)].msg
      BY <1>1, <1>2, <1>4, <2>2
    <3>2. a - Len(s) = b - Len(s)
      BY <3>1 DEF Lines
    <3> QED
      BY <1>1, <1>2, <3>2
  <2>3. ASSUME u[a].msg.text \in X, u[b].msg.text \in Y
        PROVE  FALSE
    BY <1>4, <2>3
  <2>4. ASSUME u[b].msg.text \in X, u[a].msg.text \in Y
        PROVE  FALSE
    BY <1>4, <2>4
  <2> QED
    BY <1>1, <1>2, <1>3, <2>1, <2>2, <2>3, <2>4
<1> QED
  BY <1>2, <1>3, <1>4 DEF Lines, u

Registers == {"registers"} \cup ToSet(AllRegisters) \cup ToSet(BasicRegisters)

(* The dump of registers, and a page fault's details: texts of their own.  *)
LEMMA RegisterDumpFacts ==
  ASSUME NEW f
  PROVE  RegisterDump(f) \in Seq(Registers) /\ IsInjective(RegisterDump(f))
<1>1. ASSUME NEW dump \in {AllRegisters, BasicRegisters}
      PROVE  <<"registers">> \o dump \in Seq(Registers) /\ IsInjective(<<"registers">> \o dump)
  <2>1. dump \in Seq(ToSet(dump)) /\ IsInjective(dump) /\ ToSet(dump) \cap PanicTexts = {}
    BY RegistersAssumption
  <2>2. {"registers"} \cap ToSet(dump) = {}
    BY <2>1 DEF PanicTexts
  <2>3. <<"registers">> \in Seq({"registers"}) /\ IsInjective(<<"registers">>)
    BY DEF IsInjective
  <2>4. <<"registers">> \o dump \in Seq({"registers"} \cup ToSet(dump))
        /\ IsInjective(<<"registers">> \o dump)
    BY <2>1, <2>2, <2>3, ConcatInjective
  <2>5. {"registers"} \cup ToSet(dump) \subseteq Registers
    BY DEF Registers
  <2> QED
    BY <2>4, <2>5
<1>2. <<>> \in Seq(Registers) /\ IsInjective(<<>>)
  BY DEF IsInjective
<1> QED
  BY <1>1, <1>2 DEF RegisterDump, If

(* The lines about a page fault: of those texts, each once.                *)
LEMMA PageFaultFacts ==
  ASSUME NEW f
  PROVE  PageFault(f) \in Seq(PageFaultTexts) /\ IsInjective(PageFault(f))
<1> DEFINE a == IF 1 \in f.err THEN "protection violation" ELSE "non-present page"
           b == IF 2 \in f.err THEN "write" ELSE "read"
           c == IF 4 \in f.err THEN "user" ELSE "supervisor"
           A == {"page fault", "protection violation", "non-present page", "write", "read", "user",
                 "supervisor"}
           s == <<"page fault", a, b, c>>
           t == If(8 \in f.err, <<"reserved write">>)
           u == If(16 \in f.err, <<"instruction fetch">>)
<1>1. s \in Seq(A) /\ IsInjective(s)
  <2>1. a \in {"protection violation", "non-present page"} /\ b \in {"write", "read"}
        /\ c \in {"user", "supervisor"}
    OBVIOUS
  <2> HIDE DEF a, b, c
  <2>2. a \in A /\ b \in A /\ c \in A /\ "page fault" \in A
    BY <2>1
  <2> HIDE DEF A
  <2>3. "page fault" # a /\ "page fault" # b /\ "page fault" # c /\ a # b /\ a # c /\ b # c
    BY <2>1
  <2> QED
    BY <2>2, <2>3, FourInjective
<1>2. t \in Seq({"reserved write"}) /\ IsInjective(t)
  <2>1. CASE 8 \in f.err
    BY <2>1, ShortInjective DEF If
  <2>2. CASE 8 \notin f.err
    <3>1. t = <<>>
      BY <2>2 DEF If
    <3> HIDE DEF t
    <3> QED
      BY <3>1, ShortInjective
  <2> QED
    BY <2>1, <2>2
<1>3. u \in Seq({"instruction fetch"}) /\ IsInjective(u)
  <2>1. CASE 16 \in f.err
    BY <2>1, ShortInjective DEF If
  <2>2. CASE 16 \notin f.err
    <3>1. u = <<>>
      BY <2>2 DEF If
    <3> HIDE DEF u
    <3> QED
      BY <3>1, ShortInjective
  <2> QED
    BY <2>1, <2>2
<1>4. s \o t \in Seq(A \cup {"reserved write"}) /\ IsInjective(s \o t)
  <2>1. A \cap {"reserved write"} = {}
    OBVIOUS
  <2> HIDE DEF A, s, t
  <2> QED
    BY <1>1, <1>2, <2>1, ConcatInjective
<1>5. s \o t \o u \in Seq(PageFaultTexts) /\ IsInjective(s \o t \o u)
  <2>1. (A \cup {"reserved write"}) \cap {"instruction fetch"} = {}
    OBVIOUS
  <2>2. (A \cup {"reserved write"}) \cup {"instruction fetch"} = PageFaultTexts
    BY DEF PageFaultTexts
  <2> HIDE DEF A, s, t, u
  <2> DEFINE B == A \cup {"reserved write"}
             v == s \o t
  <2> HIDE DEF B, v
  <2>3. v \o u \in Seq(B \cup {"instruction fetch"}) /\ IsInjective(v \o u)
    BY <1>3, <1>4, <2>1, ConcatInjective DEF B, v
  <2> QED
    BY <2>2, <2>3 DEF B, v
<1>6. <<>> \in Seq(PageFaultTexts) /\ IsInjective(<<>>)
  BY DEF IsInjective
<1>7. PageFault(f) \in {s \o t \o u, <<>>}
  BY DEF PageFault, If
<1> QED
  BY <1>5, <1>6, <1>7

(* The report has each of its lines once.                                  *)
LEMMA ReportFacts ==
  ASSUME NEW f, Len(stack) \in Nat
  PROVE  Prints(_kpanic_handler(f), Len(stack) + 1, 0)
<1> DEFINE X == {"kernel panic", "file"}
           Y == Registers \cup PageFaultTexts
           Z == {"stack trace", "todo"}
           texts == RegisterDump(f) \o PageFault(f)
<1>1. Registers \cap (PanicTexts \ {"registers"}) = {}
  BY RegistersAssumption DEF Registers
<1>2. Registers \cap PageFaultTexts = {} /\ X \cap Y = {} /\ (X \cup Y) \cap Z = {}
  BY <1>1 DEF PanicTexts, PageFaultTexts
<1>3. X \subseteq Texts /\ Y \subseteq Texts /\ Z \subseteq Texts /\ {"kernel panic"} \subseteq Texts
  BY DEF Texts, PanicTexts, Registers
<1>4. texts \in Seq(Y) /\ IsInjective(texts)
  BY <1>2, RegisterDumpFacts, PageFaultFacts, ConcatInjective
<1>5. <<"kernel panic", "file">> \in Seq(X) /\ IsInjective(<<"kernel panic", "file">>)
  BY ShortInjective
<1>6. <<"stack trace", "todo">> \in Seq(Z) /\ IsInjective(<<"stack trace", "todo">>)
  BY ShortInjective
<1>7. <<"kernel panic">> \in Seq({"kernel panic"}) /\ IsInjective(<<"kernel panic">>)
  BY ShortInjective
<1> DEFINE a == KLines(<<"kernel panic", "file">>)
           b == DLines(texts)
           c == KLines(<<"stack trace", "todo">>)
<1> HIDE DEF X, Y, Z, texts
<1>8. Lines(a, X) /\ Lines(b, Y) /\ Lines(c, Z) /\ Lines(KLines(<<"kernel panic">>), {"kernel panic"})
  BY <1>3, <1>4, <1>5, <1>6, <1>7, LinesOf
<1> HIDE DEF a, b, c
<1>9. Lines(a \o b, X \cup Y)
  BY <1>2, <1>8, ConcatLines
<1>10. Lines((a \o b) \o c, (X \cup Y) \cup Z)
  BY <1>2, <1>8, <1>9, ConcatLines
<1>11. _kpanic_handler(f) \in {KLines(<<"kernel panic">>), (a \o b) \o c}
  BY DEF _kpanic_handler, a, b, c, texts
<1> QED
  BY <1>8, <1>10, <1>11 DEF Lines, Prints, OfPanic

-----------------------------------------------------------------------------
(* The other steps keep the order.                                         *)

(* A frame that has written nothing yet.                                   *)
LEMMA NothingGot ==
  ASSUME NEW s, NEW D
  PROVE  Got(Frame(s), D) = 0
BY DEF Got, Frame

(* The messages a device shows.                                            *)
LEMMA ShownType ==
  ASSUME NEW out \in Seq(Char)
  PROVE  \A m \in Shown(out) :
           m \in Msg /\ m.call \in Nat /\ m.frame \in Nat \ {0} /\ m.len \in 1 .. BufSize - 1
<1>1. \A c \in Char :
        c[1] \in Msg /\ c[1].call \in Nat /\ c[1].frame \in Nat \ {0} /\ c[1].len \in 1 .. BufSize - 1
  <2> SUFFICES ASSUME NEW c \in Char
               PROVE  c[1] \in Msg /\ c[1].call \in Nat /\ c[1].frame \in Nat \ {0} /\ c[1].len \in 1 .. BufSize - 1
    OBVIOUS
  <2>1. c[1] \in Msg /\ c[2] \in 1 .. c[1].len /\ c[1].len < BufSize
    BY DEF Char
  <2>2. c[1].call \in Nat /\ c[1].frame \in Nat \ {0} /\ c[1].len \in Nat
    BY <2>1 DEF Msg
  <2> QED
    BY <2>1, <2>2, SizesAssumption
<1>2. \A i \in 1 .. Len(out) : out[i] \in Char
  OBVIOUS
<1> QED
  BY <1>1, <1>2 DEF Shown, Chars

(* A log call or a printf: its messages are of a call of their own.        *)
LEMMA BeginOrder ==
  ASSUME Types, Order, NEW s, Prints(s, 1, calls + 1), Begin(s)
  PROVE  Types' /\ Order'
<1> DEFINE g == Frame(s)
<1>1. /\ Len(stack) = 1 /\ Top.prints = <<>>
      /\ calls' = calls + 1 /\ stack' = <<g>>
      /\ UNCHANGED <<config, level, cause, fb, dbg>>
  BY DEF Begin, Idle, Top
<1>2. s \in Seq(Outputs)
  BY DEF Prints
<1>3. g \in FrameType /\ InLoop(g) /\ g.prints = s
  BY <1>2, FrameFacts
<1> HIDE DEF g
<1>4. stack' \in Seq(FrameType) /\ Len(stack') = 1 /\ Top' = g
  BY <1>1, <1>3 DEF Top
<1>5. Types'
  BY <1>1, <1>3, <1>4 DEF Types
<1>6. ASSUME NEW D \in Devices
      PROVE  /\ \A m \in Shown(Out(D)) : m.call <= calls /\ m.frame <= 1
             /\ Out(D) # <<>> => LastChar(Out(D)[Len(Out(D))])
  <2>1. \A m \in Shown(Out(D)) : m.call <= calls /\ m.frame <= 1
    BY <1>1 DEF Order
  <2>2. Got(Top, D) = 0
    BY <1>1 DEF Got
  <2>3. Ordered(Top, D, Out(D), 1)
    BY <1>1 DEF Order
  <2>4. ASSUME Out(D) # <<>>, Out(D)[Len(Out(D))][1].frame < 1
        PROVE  FALSE
    <3> DEFINE m == Out(D)[Len(Out(D))][1]
    <3>1. Out(D) \in Seq(Char)
      BY DEF Types, Out
    <3>2. m \in Shown(Out(D))
      BY <2>4, <3>1, LastShown
    <3>3. m.frame \in Nat \ {0}
      BY <3>1, <3>2, ShownType
    <3> HIDE DEF m
    <3>4. ~(m.frame < 1)
      BY <3>3
    <3> QED
      BY <2>4, <3>4 DEF m
  <2> QED
    BY <2>1, <2>2, <2>3, <2>4 DEF Ordered
<1>7. ASSUME NEW D \in Devices
      PROVE  /\ \A k \in 1 .. Len(s) :
                  /\ s[k].msg.frame = 1 /\ s[k].msg.call <= calls + 1
                  /\ s[k].msg \notin Shown(Out(D))
             /\ Got(g, D) = 0
             /\ \A m \in Shown(Out(D)) : m.call <= calls + 1 /\ m.frame <= 1
  <2>1. calls \in Nat /\ Out(D) \in Seq(Char)
    BY DEF Types, Out
  <2>2. \A k \in 1 .. Len(s) : s[k].msg.frame = 1 /\ s[k].msg.call = calls + 1
    BY DEF Prints
  <2>3. \A m \in Shown(Out(D)) : m.call <= calls /\ m.call \in Nat /\ m.frame <= 1
    BY <1>6, <2>1, ShownType
  <2>4. \A m \in Shown(Out(D)) : m.call <= calls + 1 /\ m.call # calls + 1 /\ m.frame <= 1
    BY <2>1, <2>3
  <2>5. calls + 1 <= calls + 1
    BY <2>1
  <2> QED
    BY <2>2, <2>4, <2>5, NothingGot DEF g
<1>8. ASSUME NEW D \in Devices
      PROVE  Ordered(g, D, Out(D), 1)'
  <2>1. Out(D)' = Out(D)
    BY <1>1 DEF Out
  <2>2. \A j, k \in 1 .. Len(s) : s[j].msg = s[k].msg => j = k
    BY DEF Prints
  <2>3. g' = g
    BY DEF g, Frame
  <2> QED
    BY <1>1, <1>3, <1>6, <1>7, <2>1, <2>2, <2>3 DEF Ordered
<1>9. Order'
  <2>1. Len(stack') = 1 /\ \A D \in Devices : Out(D)' = Out(D)
    BY <1>1, <1>4 DEF Out
  <2> QED
    BY <1>1, <1>4, <1>6, <1>7, <1>8, <2>1 DEF Order
<1> QED
  BY <1>5, <1>9

(* A panic: what it interrupts may stay cut short for good.                *)
LEMMA PanicOrder ==
  ASSUME Types, Order, NEW f, Panic(f)
  PROVE  Types' /\ Order' /\ Len(stack') # 1
<1> DEFINE s == _kpanic_handler(f)
           g == Frame(s)
           n == Len(stack)
<1>1. /\ n \in Nat \ {0} /\ stack' = Append(stack, g)
      /\ UNCHANGED <<config, level, calls, fb, dbg>>
  BY DEF Panic, Types
<1>2. Prints(s, n + 1, 0)
  BY <1>1, ReportFacts
<1> HIDE DEF s
<1>3. g \in FrameType /\ InLoop(g) /\ g.prints = s
  BY <1>2, FrameFacts DEF Prints
<1>4. \A D \in Devices : Got(g, D) = 0
  BY NothingGot
<1> HIDE DEF g
<1>5. stack' \in Seq(FrameType) /\ Len(stack') = n + 1 /\ Top' = g
  <2>1. stack \in Seq(FrameType)
    BY DEF Types
  <2>2. \A t \in Seq(FrameType), x \in FrameType :
          /\ Append(t, x) \in Seq(FrameType) /\ Len(Append(t, x)) = Len(t) + 1
          /\ Append(t, x)[Len(t) + 1] = x
    OBVIOUS
  <2>3. /\ Append(stack, g) \in Seq(FrameType) /\ Len(Append(stack, g)) = Len(stack) + 1
        /\ Append(stack, g)[Len(stack) + 1] = g
    BY <1>3, <2>1, <2>2
  <2> QED
    BY <1>1, <2>3 DEF Top
<1> HIDE DEF n
<1>6. n + 1 \in Nat \ {0} /\ n + 1 # 1
  BY <1>1
<1>7. Types'
  BY <1>1, <1>3, <1>5, <1>6 DEF Types
<1>8. ASSUME NEW D \in Devices
      PROVE  /\ \A m \in Shown(Out(D)) : m.call <= calls /\ m.frame < n + 1
             /\ Out(D) # <<>> => Out(D)[Len(Out(D))][1].frame < n + 1
  <2>1. Out(D) \in Seq(Char)
    BY DEF Types, Out
  <2>2. \A m \in Shown(Out(D)) : m.call <= calls /\ m.frame <= n /\ m.frame \in Nat \ {0}
    BY <2>1, ShownType DEF Order, n
  <2>3. \A m \in Shown(Out(D)) : m.call <= calls /\ m.frame < n + 1
    BY <1>1, <2>2
  <2> QED
    BY <2>1, <2>3, LastShown
<1>9. \A D \in Devices : \A k \in 1 .. Len(s) :
        /\ s[k].msg.frame = n + 1 /\ s[k].msg.call <= calls
        /\ s[k].msg \notin Shown(Out(D))
  <2>1. \A k \in 1 .. Len(s) : s[k].msg.frame = n + 1 /\ s[k].msg.call = 0
    BY <1>2 DEF Prints
  <2>2. 0 <= calls /\ ~(n + 1 < n + 1)
    BY <1>1 DEF Types
  <2> QED
    BY <1>8, <2>1, <2>2
<1>10. ASSUME NEW D \in Devices
       PROVE  Ordered(g, D, Out(D), n + 1)
  <2>1. \A j, k \in 1 .. Len(s) : s[j].msg = s[k].msg => j = k
    BY <1>2 DEF Prints
  <2>2. Out(D) # <<>> => Out(D)[Len(Out(D))][1].frame < n + 1
    BY <1>8
  <2>3. \A k \in 1 .. Len(s) :
          /\ s[k].msg.frame = n + 1 /\ s[k].msg.call <= calls
          /\ s[k].msg \notin Shown(Out(D))
    BY <1>9
  <2> QED
    BY <1>3, <1>4, <2>1, <2>2, <2>3 DEF Ordered
<1>11. ASSUME NEW D \in Devices
       PROVE  /\ Unbroken(Out(D))'
              /\ Ordered(Top, D, Out(D), Len(stack))'
              /\ (\A m \in Shown(Out(D)) : m.call <= calls /\ m.frame <= Len(stack))'
  <2>1. Out(D)' = Out(D) /\ Unbroken(Out(D))
    BY <1>1 DEF Out, Order
  <2>2. \A m \in Shown(Out(D)) : m.call <= calls /\ m.frame <= n + 1
    <3>1. Out(D) \in Seq(Char)
      BY DEF Types, Out
    <3>2. \A m \in Shown(Out(D)) : m.call <= calls /\ m.frame < n + 1 /\ m.frame \in Nat \ {0}
      BY <1>8, <3>1, ShownType
    <3> QED
      BY <1>1, <3>2
  <2>3. Ordered(g, D, Out(D), n + 1)
    BY <1>10
  <2> QED
    BY <1>1, <1>5, <2>1, <2>2, <2>3 DEF Ordered
<1>12. Order'
  BY <1>11 DEF Order
<1> QED
  BY <1>5, <1>6, <1>7, <1>12

(* The level of a logger is nothing that shows.                            *)
LEMMA SetLevelOrder ==
  ASSUME Types, Order, NEW lvl \in Levels, SetLevel(lvl)
  PROVE  Types' /\ Order'
<1>1. level' = lvl /\ UNCHANGED <<config, calls, stack, cause, fb, dbg>>
  BY DEF SetLevel
<1>2. lvl \in DEBUG .. ERROR
  BY SizesAssumption
<1>3. Top' = Top /\ \A D \in Devices : Out(D)' = Out(D)
  BY <1>1 DEF Top, Out
<1> QED
  BY <1>1, <1>2, <1>3 DEF Types, Order, Ordered

(* A stutter.                                                              *)
LEMMA UnchangedOrder ==
  ASSUME Types, Order, UNCHANGED vars
  PROVE  Types' /\ Order'
<1>1. UNCHANGED <<config, level, calls, stack, cause, fb, dbg>>
  BY DEF vars
<1>2. Top' = Top /\ \A D \in Devices : Out(D)' = Out(D)
  BY <1>1 DEF Top, Out
<1> QED
  BY <1>1, <1>2 DEF Types, Order, Ordered

(* Nothing printed and nothing to print.                                   *)
LEMMA InitOrder ==
  ASSUME Init
  PROVE  Types /\ Order
<1>1. /\ config \in Configs /\ level = INFO /\ calls = 0 /\ stack = <<Frame(<<>>)>>
      /\ fb = <<>> /\ dbg = <<>>
  BY DEF Init
<1>2. <<>> \in Seq(Outputs)
  BY ShortInjective
<1>3. Frame(<<>>) \in FrameType /\ InLoop(Frame(<<>>)) /\ Frame(<<>>).prints = <<>>
  BY <1>2, FrameFacts
<1>4. stack \in Seq(FrameType) /\ Len(stack) = 1 /\ Top = Frame(<<>>)
  BY <1>1, <1>3 DEF Top
<1>5. Types
  <2>1. fb \in Seq(Char) /\ dbg \in Seq(Char)
    BY <1>1, ShortInjective
  <2> QED
    BY <1>1, <1>3, <1>4, <2>1 DEF Types, INFO, DEBUG, ERROR
<1>6. ASSUME NEW D \in Devices
      PROVE  Unbroken(Out(D)) /\ Shown(Out(D)) = {} /\ Ordered(Top, D, Out(D), Len(stack))
  <2>1. Out(D) = <<>> /\ Len(Out(D)) = 0
    BY <1>1 DEF Out
  <2>2. Unbroken(Out(D)) /\ Shown(Out(D)) = {}
    BY <2>1 DEF Unbroken, Shown, Chars
  <2>3. Got(Top, D) = 0 /\ Top.prints = <<>> /\ Len(Top.prints) = 0
    BY <1>3, <1>4 DEF Got
  <2> QED
    BY <2>1, <2>2, <2>3 DEF Ordered
<1> QED
  BY <1>5, <1>6 DEF Order

(* All a step of the boot thread's may begin, and nothing else.            *)
LEMMA Beginnings ==
  ASSUME Types, Next
  PROVE  \/ Write \/ Return
         \/ \E lvl \in Levels : SetLevel(lvl)
         \/ \E lvl \in DEBUG .. ERROR, text \in {"body", "garbled"}, len \in Nat : Begin(LogLine(lvl, text, len))
         \/ \E len \in Nat : Begin(<<printf(Message(1, calls + 1, "text", len))>>)
         \/ \E f \in Frames : Panic(f)
<1>1. Levels \subseteq DEBUG .. ERROR /\ Lengths \subseteq Nat
  BY SizesAssumption
<1> QED
  BY <1>1 DEF Next, Log, LogWrapped, Printf

(* What comes out is whole messages in order: the inductive invariant.     *)
THEOREM OrderInvariant == Spec => [](Types /\ Order)
<1>1. Init => Types /\ Order
  BY InitOrder
<1>2. Types /\ Order /\ [Next]_vars => (Types /\ Order)'
  <2> SUFFICES ASSUME Types, Order, [Next]_vars
               PROVE  Types' /\ Order'
    OBVIOUS
  <2>1. CASE UNCHANGED vars
    BY <2>1, UnchangedOrder
  <2>2. CASE Next
    <3>1. calls \in Nat
      BY DEF Types
    <3>2. ASSUME NEW lvl \in DEBUG .. ERROR, NEW text \in {"body", "garbled"}, NEW len \in Nat,
                 Begin(LogLine(lvl, text, len))
          PROVE  Types' /\ Order'
      BY <3>1, <3>2, LogLineFacts, BeginOrder
    <3>3. ASSUME NEW len \in Nat, Begin(<<printf(Message(1, calls + 1, "text", len))>>)
          PROVE  Types' /\ Order'
      BY <3>1, <3>3, TextFacts, BeginOrder
    <3> QED
      BY <2>2, <3>2, <3>3, Beginnings, WriteOrder, ReturnOrder, SetLevelOrder, PanicOrder
  <2> QED
    BY <2>1, <2>2
<1> QED
  BY <1>1, <1>2, PTL DEF Spec

(* NoGarbage: neither the NUL that ends the buffer nor a byte of it that   *)
(* npf_vsnprintf did not store reaches a device.                           *)
THEOREM NothingElseShown == Spec => []NoGarbage
<1>1. Types => NoGarbage
  <2> SUFFICES ASSUME Types, NEW out \in {fb, dbg}, NEW c \in Chars(out)
               PROVE  c # Uninit /\ c # Nul
    BY DEF NoGarbage
  <2>1. out \in Seq(Char)
    BY DEF Types
  <2>2. c \in Char
    BY <2>1 DEF Chars
  <2>3. c[2] # 0
    BY <2>2 DEF Char, Msg
  <2>4. Uninit[2] = 0 /\ Nul[2] = 0
    BY DEF Uninit, Nul
  <2> QED
    BY <2>3, <2>4
<1> QED
  BY <1>1, OrderInvariant, PTL

(* InOrder: on each device every message comes out from its first to its   *)
(* last character, and only a panic cuts one short, whatever it interrupts.*)
THEOREM MessagesInOrder == Spec => []InOrder
<1>1. Order => InOrder
  BY DEF Order, InOrder, Out, Devices
<1> QED
  BY <1>1, OrderInvariant, PTL

-----------------------------------------------------------------------------
(* Mirroring.                                                              *)

(* One that is ahead gets a character more.                                *)
LEMMA AheadMore ==
  ASSUME NEW u \in Seq(Char), NEW v \in Seq(Char), NEW m, NEW a \in Nat, NEW b \in Nat,
         Ahead(u, v, m, a, b), <<m, b + a + 1>> \in Char
  PROVE  Ahead(Append(u, <<m, b + a + 1>>), v, m, a + 1, b)
<1> DEFINE c == <<m, b + a + 1>>
           w == Append(u, c)
<1>1. c \in Char
  OBVIOUS
<1>2. Len(u) \in Nat /\ Len(v) \in Nat
  OBVIOUS
<1>3. Len(w) = Len(u) + 1 /\ w[Len(u) + 1] = c /\ \A k \in 1 .. Len(u) : w[k] = u[k]
  BY <1>1, OneMore
<1> HIDE DEF w
<1>4. /\ Len(u) = Len(v) + a
      /\ \A k \in 1 .. Len(v) : u[k] = v[k]
      /\ \A k \in 1 .. a : u[Len(v) + k] = <<m, b + k>>
  BY DEF Ahead
<1>5. Len(w) = Len(v) + (a + 1)
  BY <1>2, <1>3, <1>4
<1>6. \A k \in 1 .. Len(v) : w[k] = v[k]
  BY <1>2, <1>3, <1>4
<1>7. ASSUME NEW k \in 1 .. a + 1
      PROVE  w[Len(v) + k] = <<m, b + k>>
  <2>1. CASE k = a + 1
    <3>1. Len(v) + k = Len(u) + 1 /\ b + k = b + a + 1
      BY <1>2, <1>4, <2>1
    <3> QED
      BY <1>3, <3>1
  <2>2. CASE k # a + 1
    <3>1. k \in 1 .. a
      BY <2>2
    <3>2. Len(v) + k \in 1 .. Len(u)
      BY <1>2, <1>4, <3>1
    <3>3. w[Len(v) + k] = u[Len(v) + k]
      BY <1>3, <3>2
    <3> QED
      BY <1>4, <3>1, <3>3
  <2> QED
    BY <2>1, <2>2
<1> QED
  BY <1>5, <1>6, <1>7 DEF Ahead, w

(* The other gets what the one has.                                        *)
LEMMA AheadLess ==
  ASSUME NEW u \in Seq(Char), NEW v \in Seq(Char), NEW m, NEW a \in Nat \ {0}, NEW b \in Nat,
         Ahead(u, v, m, a, b), <<m, b + 1>> \in Char
  PROVE  Ahead(u, Append(v, <<m, b + 1>>), m, a - 1, b + 1)
<1> DEFINE c == <<m, b + 1>>
           w == Append(v, c)
<1>1. c \in Char
  OBVIOUS
<1>2. Len(u) \in Nat /\ Len(v) \in Nat
  OBVIOUS
<1>3. Len(w) = Len(v) + 1 /\ w[Len(v) + 1] = c /\ \A k \in 1 .. Len(v) : w[k] = v[k]
  BY <1>1, OneMore
<1>4. /\ Len(u) = Len(v) + a
      /\ \A k \in 1 .. Len(v) : u[k] = v[k]
      /\ \A k \in 1 .. a : u[Len(v) + k] = <<m, b + k>>
  BY DEF Ahead
<1>5. u[Len(v) + 1] = c
  BY <1>4
<1> HIDE DEF w, c
<1>6. Len(u) = Len(w) + (a - 1)
  BY <1>2, <1>3, <1>4
<1>7. \A k \in 1 .. Len(w) : u[k] = w[k]
  BY <1>2, <1>3, <1>4, <1>5
<1>8. ASSUME NEW k \in 1 .. a - 1
      PROVE  u[Len(w) + k] = <<m, (b + 1) + k>>
  <2>1. k + 1 \in 1 .. a /\ Len(w) + k = Len(v) + (k + 1) /\ (b + 1) + k = b + (k + 1)
    BY <1>2, <1>3
  <2> QED
    BY <1>4, <2>1
<1> QED
  BY <1>6, <1>7, <1>8 DEF Ahead, w, c

(* Nothing ahead: the same.                                                *)
LEMMA AheadNone ==
  ASSUME NEW u \in Seq(Char), NEW v \in Seq(Char), NEW m, NEW b, Ahead(u, v, m, 0, b)
  PROVE  u = v /\ \A n, d : Ahead(u, v, n, 0, d) /\ Ahead(v, u, n, 0, d)
<1>1. Len(u) \in Nat /\ Len(v) \in Nat
  OBVIOUS
<1>2. Len(u) = Len(v) + 0 /\ \A k \in 1 .. Len(v) : u[k] = v[k]
  BY DEF Ahead
<1>3. Len(u) = Len(v)
  BY <1>1, <1>2
<1>4. u = v
  <2>1. u = [k \in 1 .. Len(u) |-> u[k]] /\ v = [k \in 1 .. Len(v) |-> v[k]]
    OBVIOUS
  <2> QED
    BY <1>2, <1>3, <2>1
<1>5. \A n, d : Ahead(u, u, n, 0, d)
  <2>1. \A k : k \notin 1 .. 0
    OBVIOUS
  <2>2. Len(u) = Len(u) + 0
    BY <1>1
  <2> QED
    BY <2>1, <2>2 DEF Ahead
<1> QED
  BY <1>4, <1>5

(* Which device gets the character, by what is left of the print's loops.  *)
LEMMA WriteCases ==
  ASSUME Types, NEW D, D = Loop1[Top.d + 1], Top.prints # <<>>,
         IF Top.d + 1 < Len(Loop1) THEN Top'.d = Top.d + 1 /\ Top'.i = Top.i
         ELSE Top'.d = 0 /\ Top'.i = Top.i + 1
  PROVE  \/ /\ Top.prints[1].loops \in {OnFb, Both} /\ D = "fb"
            /\ Top.d = 0 /\ Top'.d = 0 /\ Top'.i = Top.i + 1
         \/ /\ Top.prints[1].loops = OnDbg /\ D = "dbg"
            /\ Top.d = 0 /\ Top'.d = 0 /\ Top'.i = Top.i + 1
         \/ /\ Top.prints[1].loops = Mixed /\ D = "dbg"
            /\ Top.d = 0 /\ Top'.d = 1 /\ Top'.i = Top.i
         \/ /\ Top.prints[1].loops = Mixed /\ D = "fb"
            /\ Top.d = 1 /\ Top'.d = 0 /\ Top'.i = Top.i + 1
<1> DEFINE f == Top
           g == Top'
           l == Top.prints[1].loops
<1>1. f \in FrameType /\ InLoop(f)
  BY TopType
<1>2. f.i \in Nat /\ f.d \in Nat /\ f.d < Len(Loop1)
  BY <1>1 DEF FrameType, InLoop, Loop1
<1>3. Top.prints[1] \in Outputs
  BY <1>1, HeadFacts
<1>4. l \in {OnFb, OnDbg, Both, Mixed} /\ Loop1 = l[1]
  BY <1>3 DEF Outputs, Loop1
<1>5. /\ f.d + 1 < Len(Loop1) => g.d = f.d + 1 /\ g.i = f.i
      /\ ~(f.d + 1 < Len(Loop1)) => g.d = 0 /\ g.i = f.i + 1
      /\ D = Loop1[f.d + 1]
  OBVIOUS
<1> HIDE DEF f, g, l
<1>6. CASE l \in {OnFb, Both}
  <2>1. Loop1 = <<"fb">>
    BY <1>4, <1>6, LoopFacts
  <2>2. Len(Loop1) = 1 /\ Loop1[1] = "fb"
    BY <2>1
  <2>3. f.d = 0
    BY <1>2, <2>2, Places
  <2>4. D = "fb" /\ g.d = 0 /\ g.i = f.i + 1
    BY <1>5, <2>2, <2>3
  <2> QED
    BY <1>6, <2>3, <2>4 DEF f, g, l
<1>7. CASE l = OnDbg
  <2>1. Loop1 = <<"dbg">>
    BY <1>4, <1>7, LoopFacts
  <2>2. Len(Loop1) = 1 /\ Loop1[1] = "dbg"
    BY <2>1
  <2>3. f.d = 0
    BY <1>2, <2>2, Places
  <2>4. D = "dbg" /\ g.d = 0 /\ g.i = f.i + 1
    BY <1>5, <2>2, <2>3
  <2> QED
    BY <1>7, <2>3, <2>4 DEF f, g, l
<1>8. CASE l = Mixed
  <2>1. Loop1 = <<"dbg", "fb">>
    BY <1>4, <1>8, LoopFacts
  <2>2. Len(Loop1) = 2 /\ Loop1[1] = "dbg" /\ Loop1[2] = "fb"
    BY <2>1
  <2>3. f.d = 0 \/ f.d = 1
    BY <1>2, <2>2, Places
  <2>4. CASE f.d = 0
    <3>1. D = "dbg" /\ g.d = 1 /\ g.i = f.i
      BY <1>5, <2>2, <2>4
    <3> QED
      BY <1>8, <2>4, <3>1 DEF f, g, l
  <2>5. CASE f.d = 1
    <3>1. D = "fb" /\ g.d = 0 /\ g.i = f.i + 1
      BY <1>5, <2>2, <2>5
    <3> QED
      BY <1>8, <2>5, <3>1 DEF f, g, l
  <2> QED
    BY <2>3, <2>4, <2>5
<1> QED
  BY <1>4, <1>6, <1>7, <1>8

(* A character written leaves the devices as far apart as it should.       *)
LEMMA WriteSynced ==
  ASSUME Types, Write, Synced(Top, fb, dbg)
  PROVE  Synced(Top', fb', dbg')
<1>1. PICK D \in Devices :
        /\ Top.prints # <<>> /\ Fits(Msg1) /\ Top.i < Msg1.len
        /\ D = Loop1[Top.d + 1] /\ <<Msg1, Top.i + 1>> \in Char
        /\ Out(D)' = Append(Out(D), <<Msg1, Top.i + 1>>)
        /\ \A E \in Devices : E # D => Out(E)' = Out(E)
        /\ stack' \in Seq(FrameType) /\ Len(stack') = Len(stack) /\ InLoop(Top')
        /\ Top'.prints = Top.prints
        /\ IF Top.d + 1 < Len(Loop1) THEN Top'.d = Top.d + 1 /\ Top'.i = Top.i
           ELSE Top'.d = 0 /\ Top'.i = Top.i + 1
  BY WriteFacts
<1> DEFINE f == Top
           g == Top'
           l == Top.prints[1].loops
           c == <<Msg1, Top.i + 1>>
<1>2. f \in FrameType /\ InLoop(f)
  BY TopType
<1>3. f.i \in Nat /\ f.prints \in Seq(Outputs) /\ f.prints[1] \in Outputs /\ Len(f.prints) \in Nat \ {0}
  BY <1>1, <1>2, HeadFacts DEF FrameType
<1>4. Msg1.len \in Nat
  BY <1>3 DEF Outputs, Msg, Msg1
<1>5. l \in {Both, Mixed, OnDbg}
  BY <1>3 DEF Synced
<1>6. /\ l = Both => Ahead(fb, dbg, Msg1, f.i, 0)
      /\ l = OnDbg => Ahead(fb, dbg, Msg1, Msg1.len - f.i, f.i)
      /\ l = Mixed => Ahead(dbg, fb, Msg1, f.d, f.i)
  BY <1>1 DEF Synced, Msg1
<1>7. fb \in Seq(Char) /\ dbg \in Seq(Char)
  BY DEF Types
<1>8. /\ D = "fb" => fb' = Append(fb, c) /\ dbg' = dbg
      /\ D = "dbg" => dbg' = Append(dbg, c) /\ fb' = fb
  BY <1>1 DEF Out, Devices
<1>9. \/ l \in {OnFb, Both} /\ D = "fb" /\ f.d = 0 /\ g.d = 0 /\ g.i = f.i + 1
      \/ l = OnDbg /\ D = "dbg" /\ f.d = 0 /\ g.d = 0 /\ g.i = f.i + 1
      \/ l = Mixed /\ D = "dbg" /\ f.d = 0 /\ g.d = 1 /\ g.i = f.i
      \/ l = Mixed /\ D = "fb" /\ f.d = 1 /\ g.d = 0 /\ g.i = f.i + 1
  BY <1>1, WriteCases
<1>10. /\ Both # Mixed /\ Both # OnDbg /\ Mixed # OnDbg /\ OnFb # Mixed /\ OnFb # OnDbg /\ OnFb # Both
  BY LoopFacts
<1>11. c \in Char /\ f.i + 1 = 0 + f.i + 1 /\ f.i + 1 = f.i + 0 + 1 /\ f.i < Msg1.len
  BY <1>1, <1>3
<1> HIDE DEF f, g, l
<1>12. /\ l = Both => Ahead(fb', dbg', Msg1, g.i, 0)
       /\ l = OnDbg => Ahead(fb', dbg', Msg1, Msg1.len - g.i, g.i)
       /\ l = Mixed => Ahead(dbg', fb', Msg1, g.d, g.i)
  <2>1. CASE l = Both
    <3>1. D = "fb" /\ g.i = f.i + 1
      BY <1>9, <1>10, <2>1
    <3>2. Ahead(Append(fb, <<Msg1, 0 + f.i + 1>>), dbg, Msg1, f.i + 1, 0)
      BY <1>3, <1>6, <1>7, <1>11, <2>1, AheadMore DEF f
    <3>3. c = <<Msg1, 0 + f.i + 1>>
      BY <1>11 DEF f
    <3> QED
      BY <1>8, <1>10, <2>1, <3>1, <3>2, <3>3
  <2>2. CASE l = OnDbg
    <3>1. D = "dbg" /\ g.i = f.i + 1
      BY <1>9, <1>10, <2>2
    <3>2. Msg1.len - f.i \in Nat \ {0} /\ (Msg1.len - f.i) - 1 = Msg1.len - (f.i + 1)
      BY <1>3, <1>4, <1>11
    <3>3. c = <<Msg1, f.i + 1>>
      BY DEF f
    <3>4. Ahead(fb, Append(dbg, <<Msg1, f.i + 1>>), Msg1, (Msg1.len - f.i) - 1, f.i + 1)
      BY <1>3, <1>6, <1>7, <1>11, <2>2, <3>2, <3>3, AheadLess
    <3> QED
      BY <1>8, <1>10, <2>2, <3>1, <3>2, <3>3, <3>4
  <2>3. CASE l = Mixed /\ f.d = 0
    <3>1. D = "dbg" /\ g.d = 1 /\ g.i = f.i
      BY <1>9, <1>10, <2>3
    <3>2. c = <<Msg1, f.i + 0 + 1>> /\ 0 + 1 = 1
      BY <1>3, <1>11 DEF f
    <3>3. Ahead(dbg, fb, Msg1, 0, f.i)
      BY <1>6, <2>3
    <3>4. Ahead(Append(dbg, <<Msg1, f.i + 0 + 1>>), fb, Msg1, 0 + 1, f.i)
      BY <1>3, <1>7, <1>11, <3>2, <3>3, AheadMore
    <3> QED
      BY <1>8, <1>10, <2>3, <3>1, <3>2, <3>4
  <2>4. CASE l = Mixed /\ f.d = 1
    <3>1. D = "fb" /\ g.d = 0 /\ g.i = f.i + 1
      BY <1>9, <1>10, <2>4
    <3>2. c = <<Msg1, f.i + 1>> /\ 1 - 1 = 0 /\ 1 \in Nat \ {0}
      BY DEF f
    <3>3. Ahead(dbg, Append(fb, <<Msg1, f.i + 1>>), Msg1, 1 - 1, f.i + 1)
      BY <1>3, <1>6, <1>7, <1>11, <2>4, <3>2, AheadLess
    <3> QED
      BY <1>8, <1>10, <2>4, <3>1, <3>2, <3>3
  <2> QED
    BY <1>5, <1>9, <1>10, <2>1, <2>2, <2>3, <2>4
<1>13. g.prints = f.prints /\ f.prints # <<>> /\ Msg1 = f.prints[1].msg /\ l = f.prints[1].loops
  BY <1>1 DEF f, g, l, Msg1
<1>14. \A k \in 1 .. Len(f.prints) :
         f.prints[k].loops \in {Both, Mixed} \/ (k = 1 /\ f.prints[k].loops = OnDbg)
  BY DEF Synced, f
<1>15. Fits(f.prints[1].msg)
  BY <1>1, <1>13
<1> HIDE DEF c
<1>16. Synced(g, fb', dbg')
  BY <1>12, <1>13, <1>14, <1>15 DEF Synced
<1> QED
  BY <1>16 DEF g

(* And so does the return of a call.                                       *)
LEMMA ReturnSynced ==
  ASSUME Types, Return, Synced(Top, fb, dbg)
  PROVE  Synced(Top', fb', dbg')
<1> DEFINE f == Top
           g == Top'
           P == Top.prints
           Q == Top'.prints
           l == Top.prints[1].loops
           Next2 == /\ l = Both
                    /\ Q # <<>> /\ Len(Q) = Len(P)
                    /\ Q[1].msg = Msg1 /\ Q[1].loops = OnDbg
                    /\ \A k \in 2 .. Len(P) : Q[k] = P[k]
           Pop == /\ l # Both
                  /\ Len(Q) = Len(P) - 1
                  /\ \A k \in 1 .. Len(P) - 1 : Q[k] = P[k + 1]
<1>1. /\ P # <<>> /\ f.d = 0 /\ ~(Fits(Msg1) /\ f.i < Msg1.len)
      /\ f.i > 0 => Fits(Msg1) /\ f.i = Msg1.len
      /\ stack' \in Seq(FrameType) /\ Len(stack') = Len(stack) /\ InLoop(g)
      /\ g.i = 0 /\ g.d = 0
      /\ UNCHANGED <<config, level, calls, cause, fb, dbg>>
      /\ Next2 \/ Pop
  BY ReturnFacts
<1>2. f \in FrameType /\ InLoop(f)
  BY TopType
<1>3. f.i \in Nat /\ P \in Seq(Outputs) /\ P[1] \in Outputs /\ Len(P) \in Nat \ {0}
  BY <1>1, <1>2, HeadFacts DEF FrameType
<1>4. Msg1.len \in Nat /\ f.i <= Msg1.len
  <2>1. Msg1.len \in Nat /\ f.d \in Nat /\ f.i + f.d <= Msg1.len
    BY <1>1, <1>2, <1>3 DEF Outputs, Msg, Msg1, InLoop, FrameType
  <2> QED
    BY <1>3, <2>1
<1>5. \A k \in 1 .. Len(P) : P[k].loops \in {Both, Mixed} \/ (k = 1 /\ P[k].loops = OnDbg)
  BY DEF Synced
<1>6. /\ l = Both => Ahead(fb, dbg, Msg1, f.i, 0)
      /\ l = OnDbg => Ahead(fb, dbg, Msg1, IF Fits(Msg1) THEN Msg1.len - f.i ELSE 0, f.i)
      /\ l = Mixed => Ahead(dbg, fb, Msg1, f.d, f.i)
  BY <1>1 DEF Synced, Msg1
<1>7. fb \in Seq(Char) /\ dbg \in Seq(Char) /\ fb' = fb /\ dbg' = dbg
  BY <1>1 DEF Types
<1>8. Both # Mixed /\ Both # OnDbg /\ Mixed # OnDbg
  BY LoopFacts
<1>9. f.i = IF Fits(Msg1) THEN Msg1.len - 0 ELSE 0
  <2> HIDE DEF f
  <2>1. CASE Fits(Msg1)
    BY <1>1, <1>3, <1>4, <2>1
  <2>2. CASE ~Fits(Msg1)
    BY <1>1, <1>3, <2>2
  <2> QED
    BY <2>1, <2>2
<1>10. g.prints = Q /\ l = P[1].loops
  OBVIOUS
<1> HIDE DEF f, g, P, Q, l
<1>11. CASE Next2
  <2>1. Ahead(fb, dbg, Msg1, IF Fits(Msg1) THEN Msg1.len - 0 ELSE 0, 0)
    BY <1>6, <1>9, <1>11
  <2>2. \A k \in 1 .. Len(Q) : Q[k].loops \in {Both, Mixed} \/ (k = 1 /\ Q[k].loops = OnDbg)
    BY <1>3, <1>5, <1>11
  <2>3. Q # <<>> /\ Q[1].msg = Msg1 /\ Q[1].loops = OnDbg /\ g.i = 0
    BY <1>1, <1>11
  <2>4. Synced(g, fb, dbg)
    BY <1>8, <1>10, <2>1, <2>2, <2>3 DEF Synced
  <2> QED
    BY <1>7, <2>4 DEF g
<1>12. CASE Pop
  <2>1. l \in {Mixed, OnDbg}
    BY <1>3, <1>5, <1>10, <1>12
  <2>2. fb = dbg /\ \A n, d : Ahead(fb, dbg, n, 0, d) /\ Ahead(dbg, fb, n, 0, d)
    <3>1. CASE l = Mixed
      BY <1>1, <1>6, <1>7, <3>1, AheadNone
    <3>2. CASE l = OnDbg
      <4>1. (IF Fits(Msg1) THEN Msg1.len - f.i ELSE 0) = 0
        BY <1>3, <1>4, <1>9
      <4> QED
        BY <1>6, <1>7, <3>2, <4>1, AheadNone
    <3> QED
      BY <2>1, <3>1, <3>2
  <2>3. \A k \in 1 .. Len(Q) : Q[k].loops \in {Both, Mixed}
    <3>1. \A k \in 1 .. Len(Q) : k + 1 \in 1 .. Len(P) /\ k + 1 # 1 /\ Q[k] = P[k + 1]
      BY <1>3, <1>12
    <3> QED
      BY <1>5, <3>1
  <2>4. ASSUME Q # <<>>
        PROVE  Q[1].loops # OnDbg
    <3>1. Q \in Seq(Outputs)
      <4>1. Top' \in FrameType
        BY ReturnFacts
      <4> QED
        BY <4>1 DEF FrameType, Q
    <3>2. 1 \in 1 .. Len(Q)
      BY <2>4, <3>1
    <3> QED
      BY <1>8, <2>3, <3>2
  <2>5. Synced(g, fb, dbg)
    BY <1>1, <1>8, <1>10, <2>2, <2>3, <2>4 DEF Synced
  <2> QED
    BY <1>7, <2>5 DEF g
<1> QED
  BY <1>1, <1>11, <1>12

(* The calls a device shows something of, after one character more.        *)
LEMMA CallsMore ==
  ASSUME NEW out \in Seq(Char), NEW c \in Char, NEW T
  PROVE  Calls(Append(out, c), T) = Calls(out, T) \cup {m.call : m \in {x \in {c[1]} : x.text \in T}}
<1>1. Shown(Append(out, c)) = Shown(out) \cup {c[1]}
  BY OneMore
<1> QED
  BY <1>1 DEF Calls

(* Writing keeps the colours of log lines in order.                        *)
LEMMA WriteColoured ==
  ASSUME NEW f, NEW g, NEW D, NEW out \in Seq(Char), NEW c \in Char, NEW call \in Nat,
         Shape(f.prints), f.prints # <<>>, g.prints = f.prints,
         c[1] = f.prints[1].msg, Got(g, D) > 0, Coloured(f, D, out, call)
  PROVE  Coloured(g, D, Append(out, c), call)
<1> DEFINE o == Append(out, c)
           P == f.prints
           m == c[1]
<1>1. m.call = call
  <2>1. 1 \in 1 .. Len(P)
    BY DEF Shape
  <2> QED
    BY <2>1 DEF Coloured
<1>2. Kinded(o) = Kinded(out) \cup {x.call : x \in {y \in {m} : y.text \in ToSet(Kinds)}}
  BY CallsMore DEF Kinded
<1>3. ResetAt(o) = ResetAt(out) \cup {x.call : x \in {y \in {m} : y.text \in {"reset"}}}
  BY CallsMore DEF ResetAt
<1>4. Wrote(g, D)
  BY DEF Wrote
<1>5. m = P[1].msg /\ P = g.prints /\ P = f.prints
  OBVIOUS
<1> HIDE DEF o, P, m
<1>6. /\ m.text \in ToSet(Kinds) => Kinded(o) = Kinded(out) \cup {call}
      /\ m.text \notin ToSet(Kinds) => Kinded(o) = Kinded(out)
      /\ m.text = "reset" => ResetAt(o) = ResetAt(out) \cup {call}
      /\ m.text # "reset" => ResetAt(o) = ResetAt(out)
  BY <1>1, <1>2, <1>3
<1>7. \A n \in 0 .. call - 1 : n \in Kinded(o) <=> n \in ResetAt(o)
  <2>1. \A n \in 0 .. call - 1 : n # call
    OBVIOUS
  <2>2. \A n \in 0 .. call - 1 : n \in Kinded(out) <=> n \in ResetAt(out)
    BY DEF Coloured
  <2> QED
    BY <1>6, <2>1, <2>2
<1>8. /\ \A k \in 1 .. Len(P) : P[k].msg.call = call
      /\ \A k \in 2 .. Len(P) : Goes(P[k], D)
      /\ Len(P) = 3 => call \notin ResetAt(out)
      /\ Len(P) = 2 => call \in Kinded(out) /\ call \notin ResetAt(out)
      /\ Len(P) = 1 /\ IsReset(P[1]) => call \in Kinded(out)
      /\ Len(P) = 1 /\ IsText(P[1]) => (call \in Kinded(out) <=> call \in ResetAt(out))
  BY <1>5 DEF Coloured
<1>9. "reset" \notin ToSet(Kinds) /\ "text" \notin ToSet(Kinds)
      /\ "body" \notin ToSet(Kinds) /\ "garbled" \notin ToSet(Kinds)
  BY KindFacts
<1>10. P # <<>> /\ Shape(P)
  BY <1>5
<1>11. CASE Len(P) = 1
  <2>1. IsReset(P[1]) \/ IsText(P[1])
    BY <1>10, <1>11 DEF Shape
  <2>2. CASE IsReset(P[1])
    <3>1. m.text = "reset" /\ ~IsText(P[1])
      BY <1>5, <2>2 DEF IsReset, IsText
    <3>2. call \in Kinded(o) /\ call \in ResetAt(o)
      BY <1>6, <1>8, <1>9, <1>11, <2>2, <3>1
    <3> QED
      BY <1>4, <1>5, <1>7, <1>8, <1>10, <1>11, <3>1, <3>2 DEF Coloured, o
  <2>3. CASE IsText(P[1])
    <3>1. m.text = "text" /\ ~IsReset(P[1])
      BY <1>5, <2>3 DEF IsReset, IsText
    <3>2. call \in Kinded(o) <=> call \in ResetAt(o)
      BY <1>6, <1>8, <1>9, <1>11, <2>3, <3>1
    <3> QED
      BY <1>4, <1>5, <1>7, <1>8, <1>10, <1>11, <3>1, <3>2 DEF Coloured, o
  <2> QED
    BY <2>1, <2>2, <2>3
<1>12. CASE Len(P) = 2
  <2>1. m.text \in {"body", "garbled"}
    BY <1>5, <1>10, <1>12 DEF Shape, IsBody
  <2>2. call \in Kinded(o) /\ call \notin ResetAt(o)
    BY <1>6, <1>8, <1>9, <1>12, <2>1
  <2> QED
    BY <1>5, <1>7, <1>8, <1>10, <1>12, <2>2 DEF Coloured, o
<1>13. CASE Len(P) = 3
  <2>1. m.text \in ToSet(Kinds)
    BY <1>5, <1>10, <1>13 DEF Shape, IsKind
  <2>2. call \in Kinded(o) /\ call \notin ResetAt(o)
    BY <1>6, <1>8, <1>9, <1>13, <2>1
  <2> QED
    BY <1>4, <1>5, <1>7, <1>8, <1>10, <1>13, <2>2 DEF Coloured, o
<1> QED
  BY <1>10, <1>11, <1>12, <1>13 DEF Shape

(* A character written keeps all that Mirrored rests on.                   *)
LEMMA WriteAlike ==
  ASSUME Types, Order, Alike, Write
  PROVE  Alike'
<1>1. PICK D \in Devices :
        /\ Top.prints # <<>> /\ Fits(Msg1) /\ Top.i < Msg1.len
        /\ D = Loop1[Top.d + 1] /\ <<Msg1, Top.i + 1>> \in Char
        /\ Out(D)' = Append(Out(D), <<Msg1, Top.i + 1>>)
        /\ \A E \in Devices : E # D => Out(E)' = Out(E)
        /\ stack' \in Seq(FrameType) /\ Len(stack') = Len(stack) /\ InLoop(Top')
        /\ Top'.prints = Top.prints
        /\ IF Top.d + 1 < Len(Loop1) THEN Top'.d = Top.d + 1 /\ Top'.i = Top.i
           ELSE Top'.d = 0 /\ Top'.i = Top.i + 1
  BY WriteFacts
<1>2. UNCHANGED <<config, level, calls, cause>>
  BY DEF Write, WriteOf
<1>3. /\ Got(Top, D) = Top.i /\ Got(Top', D) = Top.i + 1 /\ Goes(Top.prints[1], D)
      /\ \A E \in Devices : E # D => Got(Top', E) = Got(Top, E)
  BY <1>1, WriteCounts
<1>4. Top.i \in Nat /\ Len(Top.prints) \in Nat \ {0}
  BY <1>1, TopType, HeadFacts DEF FrameType
<1>5. calls \in Nat /\ \A E \in Devices : Out(E) \in Seq(Char)
  BY DEF Types, Out
<1> SUFFICES ASSUME Len(stack) = 1
             PROVE  /\ Shape(Top'.prints)
                    /\ config.mirror => Synced(Top', fb', dbg')
                    /\ \A E \in Devices :
                         /\ Used(E) => Coloured(Top', E, Out(E)', calls)
                         /\ ~Used(E) => /\ Out(E)' = <<>>
                                        /\ \A k \in 1 .. Len(Top'.prints) : ~Goes(Top'.prints[k], E)
  BY <1>1, <1>2 DEF Alike, Used
<1>6. Shape(Top'.prints)
  BY <1>1 DEF Alike
<1>7. config.mirror => Synced(Top', fb', dbg')
  BY WriteSynced DEF Alike
<1>8. ASSUME NEW E \in Devices, Used(E)
      PROVE  Coloured(Top', E, Out(E)', calls)
  <2>1. Coloured(Top, E, Out(E), calls) /\ Shape(Top.prints)
    BY <1>8 DEF Alike
  <2>2. CASE E = D
    <3>1. Got(Top', D) > 0
      BY <1>3, <1>4
    <3> DEFINE c == <<Msg1, Top.i + 1>>
    <3>2. c \in Char /\ c[1] = Top.prints[1].msg /\ Out(D)' = Append(Out(D), c)
      BY <1>1 DEF Msg1
    <3> HIDE DEF c
    <3>3. Coloured(Top', D, Append(Out(D), c), calls)
      BY <1>1, <1>5, <2>1, <2>2, <3>1, <3>2, WriteColoured
    <3> QED
      BY <2>2, <3>2, <3>3
  <2>3. CASE E # D
    <3>1. Out(E)' = Out(E) /\ Got(Top', E) = Got(Top, E) /\ Top'.prints = Top.prints
      BY <1>1, <1>3, <2>3
    <3> QED
      BY <2>1, <3>1 DEF Coloured, Wrote
  <2> QED
    BY <2>2, <2>3
<1>9. ASSUME NEW E \in Devices, ~Used(E)
      PROVE  Out(E)' = <<>> /\ \A k \in 1 .. Len(Top'.prints) : ~Goes(Top'.prints[k], E)
  <2>1. Out(E) = <<>> /\ \A k \in 1 .. Len(Top.prints) : ~Goes(Top.prints[k], E)
    BY <1>9 DEF Alike
  <2>2. 1 \in 1 .. Len(Top.prints)
    BY <1>4
  <2>3. E # D
    BY <1>3, <2>1, <2>2
  <2> QED
    BY <1>1, <2>1, <2>3
<1> QED
  BY <1>6, <1>7, <1>8, <1>9

(* What a print was begun on, when its loop is over.                       *)
LEMMA ReturnCounts ==
  ASSUME NEW f \in FrameType, f.prints # <<>>, InLoop(f), f.d = 0, NEW D \in Devices
  PROVE  /\ f.prints[1].loops # Both /\ f.i > 0 => Wrote(f, D)
         /\ f.prints[1].loops = Both => (Wrote(f, "fb") <=> f.i > 0) /\ ~Wrote(f, "dbg")
<1> DEFINE l == f.prints[1].loops
<1>1. l \in {OnFb, OnDbg, Both, Mixed}
  BY HeadFacts DEF Outputs
<1>2. f.i \in Nat /\ f.i + f.d = f.i
  BY DEF FrameType
<1>3. Got(f, D) = IF D = l[1][1] THEN f.i ELSE IF Len(l[1]) = 2 THEN f.i ELSE 0
  BY <1>2 DEF Got
<1>4. "fb" # "dbg" /\ D \in {"fb", "dbg"}
  BY DEF Devices
<1>5. CASE l = OnFb
  <2>1. l[1][1] = "fb" /\ Len(l[1]) = 1
    BY <1>5 DEF OnFb
  <2> QED
    BY <1>2, <1>3, <1>4, <1>5, <2>1, LoopFacts DEF Wrote, Goes
<1>6. CASE l = OnDbg
  <2>1. l[1][1] = "dbg" /\ Len(l[1]) = 1
    BY <1>6 DEF OnDbg
  <2> QED
    BY <1>2, <1>3, <1>4, <1>6, <2>1, LoopFacts DEF Wrote, Goes
<1>7. CASE l = Mixed
  <2>1. Len(l[1]) = 2
    BY <1>7 DEF Mixed
  <2> QED
    BY <1>2, <1>3, <1>4, <1>7, <2>1, LoopFacts DEF Wrote, Goes
<1>8. CASE l = Both
  <2>1. l[1][1] = "fb" /\ Len(l[1]) = 1
    BY <1>8 DEF Both
  <2>2. Got(f, "fb") = f.i /\ Got(f, "dbg") = 0
    BY <1>2, <1>4, <2>1 DEF Got
  <2>3. Goes(f.prints[1], "fb") /\ Goes(f.prints[1], "dbg")
    BY <1>8, LoopFacts DEF Goes
  <2>4. (Wrote(f, "fb") <=> f.i > 0) /\ ~Wrote(f, "dbg")
    BY <1>2, <2>2, <2>3 DEF Wrote
  <2> QED
    BY <1>8, <2>4
<1> QED
  BY <1>1, <1>5, <1>6, <1>7, <1>8

(* The same print on the other device: the colours stay in order.          *)
LEMMA NextColoured ==
  ASSUME NEW f, NEW g, NEW D \in Devices, NEW out, NEW call \in Nat,
         f.prints # <<>>, Shape(f.prints), Coloured(f, D, out, call),
         Len(f.prints) \in Nat, Len(g.prints) = Len(f.prints), g.prints # <<>>,
         g.prints[1].msg = f.prints[1].msg,
         \A k \in 2 .. Len(f.prints) : g.prints[k] = f.prints[k],
         IsKind(f.prints[1]) \/ IsReset(f.prints[1]) => (Wrote(g, D) <=> Wrote(f, D))
  PROVE  Shape(g.prints) /\ Coloured(g, D, out, call)
<1> DEFINE P == f.prints
           Q == g.prints
<1>1. P # <<>> /\ Shape(P) /\ Q # <<>> /\ Len(Q) = Len(P) /\ Q[1].msg = P[1].msg
      /\ \A k \in 2 .. Len(P) : Q[k] = P[k]
  OBVIOUS
<1>2. (IsKind(Q[1]) <=> IsKind(P[1])) /\ (IsBody(Q[1]) <=> IsBody(P[1]))
      /\ (IsReset(Q[1]) <=> IsReset(P[1])) /\ (IsText(Q[1]) <=> IsText(P[1]))
  BY <1>1 DEF IsKind, IsBody, IsReset, IsText
<1>3. /\ \A c \in 0 .. call - 1 : c \in Kinded(out) <=> c \in ResetAt(out)
      /\ \A k \in 1 .. Len(P) : P[k].msg.call = call
      /\ \A k \in 2 .. Len(P) : Goes(P[k], D)
      /\ Len(P) = 3 => (call \in Kinded(out) <=> Wrote(f, D)) /\ call \notin ResetAt(out)
      /\ Len(P) = 2 => call \in Kinded(out) /\ call \notin ResetAt(out)
      /\ Len(P) = 1 /\ IsReset(P[1]) => call \in Kinded(out) /\ (call \in ResetAt(out) <=> Wrote(f, D))
      /\ Len(P) = 1 /\ IsText(P[1]) => (call \in Kinded(out) <=> call \in ResetAt(out))
  BY DEF Coloured
<1>4. IsKind(P[1]) \/ IsReset(P[1]) => (Wrote(g, D) <=> Wrote(f, D))
  OBVIOUS
<1>5. Len(P) \in Nat /\ Q = g.prints
  OBVIOUS
<1> HIDE DEF P, Q
<1>6. Len(P) \in {1, 2, 3} /\ (Len(P) = 3 => IsKind(P[1]))
  BY <1>1 DEF Shape
<1>7. Shape(Q)
  <2>1. CASE Len(P) = 1
    BY <1>1, <1>2, <2>1 DEF Shape
  <2>2. CASE Len(P) = 2
    <3>1. Q[2] = P[2]
      BY <1>1, <2>2
    <3> QED
      BY <1>1, <1>2, <2>2, <3>1 DEF Shape
  <2>3. CASE Len(P) = 3
    <3>1. Q[2] = P[2] /\ Q[3] = P[3]
      BY <1>1, <2>3
    <3> QED
      BY <1>1, <1>2, <2>3, <3>1 DEF Shape
  <2> QED
    BY <1>6, <2>1, <2>2, <2>3
<1>8. \A k \in 1 .. Len(Q) : Q[k].msg.call = call
  <2>1. \A k \in 1 .. Len(Q) : Q[k].msg = P[k].msg
    BY <1>1, <1>5
  <2> QED
    BY <1>1, <1>3, <2>1
<1>9. \A k \in 2 .. Len(Q) : Goes(Q[k], D)
  BY <1>1, <1>3
<1> QED
  BY <1>1, <1>2, <1>3, <1>4, <1>5, <1>6, <1>7, <1>8, <1>9 DEF Coloured

(* What is left of two prints, or three.                                   *)
LEMMA Popped ==
  ASSUME NEW P, NEW Q \in Seq(Outputs), Len(P) \in {2, 3}, Len(Q) = Len(P) - 1,
         \A k \in 1 .. Len(P) - 1 : Q[k] = P[k + 1]
  PROVE  /\ Len(P) = 2 => Len(Q) = 1
         /\ Len(P) = 3 => Len(Q) = 2 /\ Q[2] = P[3]
         /\ Q # <<>> /\ Q[1] = P[2]
<1> DEFINE n == Len(P)
<1>1. n = 2 \/ n = 3
  OBVIOUS
<1>2. Len(Q) = n - 1 /\ \A k \in 1 .. n - 1 : Q[k] = P[k + 1]
  OBVIOUS
<1> HIDE DEF n
<1>3. Q # <<>> <=> Len(Q) # 0
  OBVIOUS
<1>4. CASE n = 2
  BY <1>2, <1>3, <1>4 DEF n
<1>5. CASE n = 3
  BY <1>2, <1>3, <1>5 DEF n
<1> QED
  BY <1>1, <1>4, <1>5

(* A print done with on both devices: on to the next of the line.          *)
LEMMA PopColoured ==
  ASSUME NEW f, NEW g, NEW D \in Devices, NEW out, NEW call \in Nat,
         f.prints # <<>>, Shape(f.prints), Coloured(f, D, out, call),
         g.prints \in Seq(Outputs), Len(g.prints) = Len(f.prints) - 1, g.i = 0, g.d = 0,
         \A k \in 1 .. Len(f.prints) - 1 : g.prints[k] = f.prints[k + 1],
         IsKind(f.prints[1]) \/ IsReset(f.prints[1]) => Wrote(f, D)
  PROVE  Shape(g.prints) /\ Coloured(g, D, out, call)
<1> DEFINE P == f.prints
           Q == g.prints
<1>1. P # <<>> /\ Shape(P) /\ Q \in Seq(Outputs) /\ Len(Q) = Len(P) - 1
      /\ \A k \in 1 .. Len(P) - 1 : Q[k] = P[k + 1]
  OBVIOUS
<1>2. /\ \A c \in 0 .. call - 1 : c \in Kinded(out) <=> c \in ResetAt(out)
      /\ \A k \in 1 .. Len(P) : P[k].msg.call = call
      /\ \A k \in 2 .. Len(P) : Goes(P[k], D)
      /\ Len(P) = 3 => (call \in Kinded(out) <=> Wrote(f, D)) /\ call \notin ResetAt(out)
      /\ Len(P) = 2 => call \in Kinded(out) /\ call \notin ResetAt(out)
      /\ Len(P) = 1 /\ IsReset(P[1]) => call \in Kinded(out) /\ (call \in ResetAt(out) <=> Wrote(f, D))
      /\ Len(P) = 1 /\ IsText(P[1]) => (call \in Kinded(out) <=> call \in ResetAt(out))
  BY DEF Coloured
<1>3. (IsKind(P[1]) \/ IsReset(P[1]) => Wrote(f, D)) /\ Q = g.prints
  OBVIOUS
<1>4. Q # <<>> => Got(g, D) = 0
  <2>1. Q # <<>> => Q[1] \in Outputs
    BY <1>1
  <2>2. Q # <<>> => Got(g, D) \in {g.i + g.d, g.i, 0}
    BY DEF Got
  <2> QED
    BY <2>2
<1>5. Q # <<>> /\ Goes(Q[1], D) => ~Wrote(g, D)
  BY <1>3, <1>4 DEF Wrote
<1> HIDE DEF P, Q
<1>6. Len(P) \in {1, 2, 3}
  BY <1>1 DEF Shape
<1>7. CASE Len(P) = 1
  <2>1. Q = <<>>
    BY <1>1, <1>7
  <2>2. call \in Kinded(out) <=> call \in ResetAt(out)
    <3>1. IsReset(P[1]) \/ IsText(P[1])
      BY <1>1, <1>7 DEF Shape
    <3> QED
      BY <1>2, <1>3, <1>7, <3>1
  <2>3. Len(Q) = 0
    BY <2>1
  <2> QED
    BY <1>2, <1>3, <2>1, <2>2, <2>3 DEF Shape, Coloured
<1>8. CASE Len(P) = 2
  <2>1. Len(Q) = 1 /\ Q # <<>> /\ Q[1] = P[2]
    BY <1>1, <1>8, Popped
  <2>2. IsReset(Q[1]) /\ Goes(Q[1], D) /\ Q[1].msg.call = call
    BY <1>1, <1>2, <1>8, <2>1 DEF Shape
  <2>3. ~IsText(Q[1])
    BY <2>2 DEF IsReset, IsText
  <2>4. \A k \in 1 .. Len(Q) : k = 1
    BY <2>1
  <2>5. \A k : k \notin 2 .. Len(Q)
    BY <2>1
  <2>6. Len(Q) # 2 /\ Len(Q) # 3
    BY <2>1
  <2>7. call \in Kinded(out) /\ call \notin ResetAt(out) /\ ~Wrote(g, D)
    BY <1>2, <1>5, <1>8, <2>1, <2>2
  <2>8. Shape(Q)
    BY <2>1, <2>2 DEF Shape
  <2>9. Coloured(g, D, out, call)
    BY <1>2, <1>3, <2>1, <2>2, <2>3, <2>4, <2>5, <2>6, <2>7 DEF Coloured
  <2> QED
    BY <1>3, <2>8, <2>9
<1>9. CASE Len(P) = 3
  <2>1. Len(Q) = 2 /\ Q # <<>> /\ Q[1] = P[2] /\ Q[2] = P[3]
    BY <1>1, <1>9, Popped
  <2>2. IsKind(P[1]) /\ IsBody(Q[1]) /\ IsReset(Q[2])
    BY <1>1, <1>9, <2>1 DEF Shape
  <2>3. Goes(Q[2], D) /\ Q[1].msg.call = call /\ Q[2].msg.call = call
    BY <1>2, <1>9, <2>1
  <2>4. call \in Kinded(out) /\ call \notin ResetAt(out)
    BY <1>2, <1>3, <1>9, <2>2
  <2>5. \A k \in 1 .. Len(Q) : k = 1 \/ k = 2
    BY <2>1
  <2>6. \A k \in 2 .. Len(Q) : k = 2
    BY <2>1
  <2>7. Len(Q) # 1 /\ Len(Q) # 3
    BY <2>1
  <2>8. Shape(Q)
    BY <2>1, <2>2 DEF Shape
  <2>9. Coloured(g, D, out, call)
    BY <1>2, <1>3, <2>1, <2>2, <2>3, <2>4, <2>5, <2>6, <2>7 DEF Coloured
  <2> QED
    BY <1>3, <2>8, <2>9
<1> QED
  BY <1>6, <1>7, <1>8, <1>9

(* A call that returns keeps all that Mirrored rests on.                   *)
LEMMA ReturnAlike ==
  ASSUME Types, Order, Alike, Return
  PROVE  Alike'
<1> DEFINE P == Top.prints
           Q == Top'.prints
           Next2 == /\ P[1].loops = Both
                    /\ Q # <<>> /\ Len(Q) = Len(P)
                    /\ Q[1].msg = Msg1 /\ Q[1].loops = OnDbg
                    /\ \A k \in 2 .. Len(P) : Q[k] = P[k]
           Pop == /\ P[1].loops # Both
                  /\ Len(Q) = Len(P) - 1
                  /\ \A k \in 1 .. Len(P) - 1 : Q[k] = P[k + 1]
<1>1. /\ P # <<>> /\ Top.d = 0 /\ ~(Fits(Msg1) /\ Top.i < Msg1.len)
      /\ stack' \in Seq(FrameType) /\ Len(stack') = Len(stack)
      /\ Top' \in FrameType /\ Top'.i = 0 /\ Top'.d = 0
      /\ UNCHANGED <<config, level, calls, cause, fb, dbg>>
      /\ Next2 \/ Pop
  BY ReturnFacts
<1>2. Top \in FrameType /\ InLoop(Top)
  BY TopType
<1>3. Q \in Seq(Outputs) /\ Len(P) \in Nat \ {0} /\ calls \in Nat /\ Top.i \in Nat
  BY <1>1, <1>2, HeadFacts DEF FrameType, Types
<1> SUFFICES ASSUME Len(stack) = 1
             PROVE  /\ Shape(Q)
                    /\ config.mirror => Synced(Top', fb', dbg')
                    /\ \A D \in Devices :
                         /\ Used(D) => Coloured(Top', D, Out(D), calls)
                         /\ ~Used(D) => Out(D) = <<>> /\ \A k \in 1 .. Len(Q) : ~Goes(Q[k], D)
  BY <1>1 DEF Alike, Used, Out
<1>4. config.mirror => Synced(Top', fb', dbg')
  BY ReturnSynced DEF Alike
<1>5. Shape(P) /\ \A D \in Devices :
        /\ Used(D) => Coloured(Top, D, Out(D), calls)
        /\ ~Used(D) => Out(D) = <<>> /\ \A k \in 1 .. Len(P) : ~Goes(P[k], D)
  BY DEF Alike
<1>6. IsKind(P[1]) \/ IsReset(P[1]) => Top.i > 0
  <2>1. Msg1.len \in 1 .. BufSize - 1 => Msg1.len < BufSize
    BY SizesAssumption
  <2> QED
    BY <1>1, <1>3, <2>1 DEF IsKind, IsReset, Msg1, Fits
<1>7. /\ \A D \in Devices : P[1].loops # Both /\ Top.i > 0 => Wrote(Top, D)
      /\ P[1].loops = Both => (Wrote(Top, "fb") <=> Top.i > 0) /\ ~Wrote(Top, "dbg")
  <2> HIDE DEF Next2, Pop
  <2>1. \A D \in Devices : P[1].loops # Both /\ Top.i > 0 => Wrote(Top, D)
    BY <1>1, <1>2, ReturnCounts
  <2>2. "fb" \in Devices
    BY DEF Devices
  <2> QED
    BY <1>1, <1>2, <2>1, <2>2, ReturnCounts
<1>8. Q # <<>> => \A D \in Devices : Got(Top', D) = 0
  BY <1>1 DEF Got
<1>9. ASSUME NEW D \in Devices, Used(D), Next2
      PROVE  Shape(Q) /\ Coloured(Top', D, Out(D), calls)
  <2>1. Wrote(Top', D) <=> D = "fb"
    <3>1. Goes(Q[1], D) <=> D # "fb"
      BY <1>9, LoopFacts DEF Goes, Devices
    <3> QED
      BY <1>8, <1>9, <3>1 DEF Wrote
  <2>2. IsKind(P[1]) \/ IsReset(P[1]) => (Wrote(Top', D) <=> Wrote(Top, D))
    <3>1. D = "fb" \/ D = "dbg"
      BY DEF Devices
    <3>2. IsKind(P[1]) \/ IsReset(P[1]) => Wrote(Top, "fb")
      BY <1>6, <1>7, <1>9
    <3>3. ~Wrote(Top, "dbg") /\ "fb" # "dbg"
      BY <1>7, <1>9
    <3> HIDE DEF P
    <3> QED
      BY <2>1, <3>1, <3>2, <3>3
  <2> QED
    BY <1>1, <1>3, <1>5, <1>9, <2>2, NextColoured DEF Msg1
<1>10. ASSUME NEW D \in Devices, Used(D), Pop
       PROVE  Shape(Q) /\ Coloured(Top', D, Out(D), calls)
  <2>1. IsKind(P[1]) \/ IsReset(P[1]) => Wrote(Top, D)
    BY <1>6, <1>7, <1>10
  <2> QED
    BY <1>1, <1>3, <1>5, <1>10, <2>1, PopColoured
<1>11. ASSUME NEW D \in Devices, Used(D)
       PROVE  Shape(Q) /\ Coloured(Top', D, Out(D), calls)
  BY <1>1, <1>9, <1>10, <1>11
<1>12. Shape(Q)
  <2>1. "fb" \in Devices /\ Used("fb")
    BY DEF Devices, Used
  <2> QED
    BY <1>11, <2>1
<1>13. ASSUME NEW D \in Devices, ~Used(D)
       PROVE  Out(D) = <<>> /\ \A k \in 1 .. Len(Q) : ~Goes(Q[k], D)
  <2>1. Out(D) = <<>> /\ \A k \in 1 .. Len(P) : ~Goes(P[k], D)
    BY <1>5, <1>13
  <2>2. ~Next2
    <3>1. 1 \in 1 .. Len(P)
      BY <1>3
    <3>2. P[1].loops = Both => Goes(P[1], D)
      BY LoopFacts DEF Goes
    <3> QED
      BY <2>1, <3>1, <3>2
  <2>3. \A k \in 1 .. Len(Q) : k + 1 \in 1 .. Len(P) /\ Q[k] = P[k + 1]
    BY <1>1, <1>3, <2>2
  <2> QED
    BY <2>1, <2>3
<1> HIDE DEF P, Q
<1> QED
  BY <1>4, <1>11, <1>12, <1>13

(* The calls a device shows something of are calls that were made.         *)
LEMMA CallsMade ==
  ASSUME Types, Order, NEW D \in Devices, NEW T
  PROVE  calls + 1 \notin Calls(Out(D), T) /\ Calls(Out(D), T) \subseteq 0 .. calls
<1>1. calls \in Nat /\ Out(D) \in Seq(Char)
  BY DEF Types, Out
<1>2. \A m \in Shown(Out(D)) : m.call \in Nat /\ m.call <= calls
  BY <1>1, ShownType DEF Order
<1>3. \A m \in Shown(Out(D)) : m.call \in 0 .. calls /\ m.call # calls + 1
  BY <1>1, <1>2
<1> QED
  BY <1>3 DEF Calls

(* The prints of a line that begins, or of a text, are not two.            *)
LEMMA OneOrThree ==
  ASSUME NEW n \in {1, 3}
  PROVE  n # 2
OBVIOUS

(* A log line or a text that begins, with prints as the build has them.    *)
LEMMA BeginAlike ==
  ASSUME Types, Order, Alike, NEW s, Prints(s, 1, calls + 1), Begin(s), Shape(s),
         Len(s) = 3 \/ (Len(s) = 1 /\ IsText(s[1])),
         \A k \in 1 .. Len(s) : s[k].loops \in IF config.mirror THEN {Both, Mixed} ELSE {OnFb}
  PROVE  Alike'
<1> DEFINE g == Frame(s)
<1>1. /\ Len(stack) = 1 /\ Top.prints = <<>>
      /\ calls' = calls + 1 /\ stack' = <<g>>
      /\ UNCHANGED <<config, level, cause, fb, dbg>>
  BY DEF Begin, Idle, Top
<1>2. s \in Seq(Outputs) /\ \A k \in 1 .. Len(s) : s[k].msg.call = calls + 1
  BY DEF Prints
<1>3. g.prints = s /\ g.i = 0 /\ g.d = 0
  BY <1>2, FrameFacts
<1>4. Top' = g /\ Len(stack') = 1
  BY <1>1 DEF Top
<1>5. calls \in Nat /\ fb \in Seq(Char) /\ dbg \in Seq(Char)
  BY DEF Types
<1>6. config.mirror => Synced(Top, fb, dbg)
  BY <1>1 DEF Alike
<1>7. \A D \in Devices : /\ Used(D) => Coloured(Top, D, Out(D), calls)
                         /\ ~Used(D) => Out(D) = <<>>
  BY <1>1 DEF Alike
<1>8. \A D \in Devices : Got(g, D) = 0
  BY NothingGot
<1>9. s # <<>> /\ s[1] \in Outputs /\ 1 \in 1 .. Len(s) /\ Len(s) \in {1, 3}
  <2>1. Len(s) \in {1, 3}
    OBVIOUS
  <2>2. 1 \in 1 .. Len(s)
    BY <2>1
  <2> QED
    BY <1>2, <2>1, <2>2
<1>10. \A D \in Devices, k \in 1 .. Len(s) : Goes(s[k], D) <=> Used(D)
  <2> SUFFICES ASSUME NEW D \in Devices, NEW k \in 1 .. Len(s)
               PROVE  Goes(s[k], D) <=> Used(D)
    OBVIOUS
  <2>1. "fb" # "dbg" /\ (D = "fb" \/ D = "dbg")
    BY DEF Devices
  <2>2. CASE config.mirror
    <3>1. s[k].loops \in {Both, Mixed}
      BY <2>2
    <3> QED
      BY <2>1, <2>2, <3>1, LoopFacts DEF Goes, Used
  <2>3. CASE ~config.mirror
    <3>1. s[k].loops = OnFb
      BY <2>3
    <3> QED
      BY <2>1, <2>3, <3>1, LoopFacts DEF Goes, Used
  <2> QED
    BY <2>2, <2>3
<1> HIDE DEF g
<1>11. ASSUME config.mirror
       PROVE  Synced(g, fb, dbg)
  <2>1. Ahead(fb, dbg, 0, 0, 0)
    BY <1>1, <1>6, <1>11 DEF Synced
  <2>2. \A m, d : Ahead(fb, dbg, m, 0, d) /\ Ahead(dbg, fb, m, 0, d)
    BY <1>5, <2>1, AheadNone
  <2>3. \A k \in 1 .. Len(s) : s[k].loops \in {Both, Mixed}
    BY <1>11
  <2>4. s[1].loops # OnDbg
    BY <1>9, <2>3, LoopFacts
  <2> QED
    BY <1>3, <1>9, <2>2, <2>3, <2>4 DEF Synced
<1>12. ASSUME NEW D \in Devices, Used(D)
       PROVE  Coloured(g, D, Out(D), calls + 1)
  <2>1. /\ \A c \in 0 .. calls - 1 : c \in Kinded(Out(D)) <=> c \in ResetAt(Out(D))
        /\ calls \in Kinded(Out(D)) <=> calls \in ResetAt(Out(D))
    BY <1>1, <1>7, <1>12 DEF Coloured
  <2>2. \A c \in 0 .. (calls + 1) - 1 : c \in Kinded(Out(D)) <=> c \in ResetAt(Out(D))
    <3>1. \A c \in 0 .. (calls + 1) - 1 : c = calls \/ c \in 0 .. calls - 1
      BY <1>5
    <3> QED
      BY <2>1, <3>1
  <2>3. calls + 1 \notin Kinded(Out(D)) /\ calls + 1 \notin ResetAt(Out(D))
    BY CallsMade DEF Kinded, ResetAt
  <2>4. \A k \in 2 .. Len(s) : Goes(s[k], D)
    <3>1. \A k \in 2 .. Len(s) : k \in 1 .. Len(s)
      BY <1>2
    <3> QED
      BY <1>10, <1>12, <3>1
  <2>5. ~Wrote(g, D)
    <3>1. Goes(s[1], D) /\ Got(g, D) = 0
      BY <1>8, <1>9, <1>10, <1>12
    <3> QED
      BY <1>3, <3>1 DEF Wrote
  <2>6. Len(s) = 1 => ~IsReset(s[1])
    BY DEF IsReset, IsText
  <2> HIDE DEF Kinded, ResetAt
  <2>7. Len(s) # 2
    BY <1>9, OneOrThree
  <2> QED
    BY <1>2, <1>3, <2>2, <2>3, <2>4, <2>5, <2>6, <2>7 DEF Coloured
<1>13. Out("fb") = fb /\ Out("dbg") = dbg /\ \A D \in Devices : Out(D)' = Out(D)
  BY <1>1 DEF Out
<1>14. ASSUME NEW D \in Devices, ~Used(D)
       PROVE  Out(D) = <<>> /\ \A k \in 1 .. Len(g.prints) : ~Goes(g.prints[k], D)
  BY <1>3, <1>7, <1>10, <1>14
<1>15. \A D \in Devices : Used(D)' <=> Used(D)
  BY <1>1 DEF Used
<1> QED
  BY <1>1, <1>3, <1>4, <1>11, <1>12, <1>13, <1>14, <1>15 DEF Alike

(* Where the two ways to print a log line or a text print.                 *)
LEMMA MirrorFacts ==
  ASSUME NEW m
  PROVE  \A p \in {printf(m), vprintf(m)} :
           p.msg = m /\ p.loops \in IF config.mirror THEN {Both, Mixed} ELSE {OnFb}
<1>1. CASE config.mirror
  <2>1. printf(m) = Output(m, Both) /\ vprintf(m) = Output(m, Mixed)
    BY <1>1 DEF printf, vprintf, KMPRINTF, Both, Mixed
  <2> QED
    BY <1>1, <2>1 DEF Output
<1>2. CASE ~config.mirror
  <2>1. printf(m) = Output(m, OnFb) /\ vprintf(m) = Output(m, OnFb)
    BY <1>2 DEF printf, vprintf, kprintf, OnFb
  <2> QED
    BY <1>2, <2>1 DEF Output
<1> QED
  BY <1>1, <1>2

(* A log line has its kind, its body and the reset of its colour.          *)
LEMMA LogAlike ==
  ASSUME Types, Order, Alike, NEW lvl \in DEBUG .. ERROR, NEW text \in {"body", "garbled"},
         NEW len \in Nat, Begin(LogLine(lvl, text, len))
  PROVE  Alike'
<1> DEFINE a == Message(1, calls + 1, get_kind(lvl), FixedLen)
           b == Message(1, calls + 1, text, len)
           c == Message(1, calls + 1, "reset", 1)
           s == LogLine(lvl, text, len)
<1>1. calls \in Nat
  BY DEF Types
<1>2. Prints(s, 1, calls + 1) /\ s = <<printf(a), vprintf(b), printf(c)>>
  BY <1>1, LogLineFacts
<1>3. a.text \in ToSet(Kinds) /\ a.len \in 1 .. BufSize - 1
  BY KindFacts, SizesAssumption DEF Message
<1>4. b.text \in {"body", "garbled"}
  BY DEF Message
<1>5. c.text = "reset" /\ c.len \in 1 .. BufSize - 1
  BY SizesAssumption DEF Message
<1>6. Begin(s)
  OBVIOUS
<1> HIDE DEF a, b, c, s
<1>7. Len(s) = 3 /\ s[1] = printf(a) /\ s[2] = vprintf(b) /\ s[3] = printf(c)
  BY <1>2
<1>8. IsKind(s[1]) /\ IsBody(s[2]) /\ IsReset(s[3])
  <2>1. printf(a).msg = a /\ vprintf(b).msg = b /\ printf(c).msg = c
    BY MirrorFacts
  <2> QED
    BY <1>3, <1>4, <1>5, <1>7, <2>1 DEF IsKind, IsBody, IsReset
<1>9. Shape(s)
  BY <1>7, <1>8 DEF Shape
<1>10. \A k \in 1 .. Len(s) : s[k].loops \in IF config.mirror THEN {Both, Mixed} ELSE {OnFb}
  <2>1. \A k \in 1 .. Len(s) : k = 1 \/ k = 2 \/ k = 3
    BY <1>7
  <2>2. \A k \in 1 .. Len(s) : s[k] \in {printf(a), vprintf(b), printf(c)}
    BY <1>7, <2>1
  <2>3. \A m : \A p \in {printf(m), vprintf(m)} :
          p.loops \in IF config.mirror THEN {Both, Mixed} ELSE {OnFb}
    BY MirrorFacts
  <2> QED
    BY <2>2, <2>3
<1> QED
  BY <1>2, <1>6, <1>7, <1>9, <1>10, BeginAlike

(* A text is one print.                                                    *)
LEMMA TextAlike ==
  ASSUME Types, Order, Alike, NEW len \in Nat,
         Begin(<<printf(Message(1, calls + 1, "text", len))>>)
  PROVE  Alike'
<1> DEFINE m == Message(1, calls + 1, "text", len)
           s == <<printf(m)>>
<1>1. calls \in Nat
  BY DEF Types
<1>2. Prints(s, 1, calls + 1)
  BY <1>1, TextFacts
<1>3. m.text = "text" /\ printf(m).msg = m
      /\ printf(m).loops \in IF config.mirror THEN {Both, Mixed} ELSE {OnFb}
  BY MirrorFacts DEF Message
<1>4. Begin(s) /\ Len(s) = 1 /\ s[1] = printf(m)
  OBVIOUS
<1> HIDE DEF m, s
<1>5. Shape(s) /\ IsText(s[1])
  BY <1>3, <1>4 DEF Shape, IsText
<1>6. \A k \in 1 .. Len(s) : s[k].loops \in IF config.mirror THEN {Both, Mixed} ELSE {OnFb}
  <2>1. \A k \in 1 .. Len(s) : k = 1
    BY <1>4
  <2> QED
    BY <1>3, <1>4, <2>1
<1> QED
  BY <1>2, <1>4, <1>5, <1>6, BeginAlike

(* Steps that print nothing.                                               *)
LEMMA QuietAlike ==
  ASSUME Alike, UNCHANGED <<config, calls, stack, fb, dbg>>
  PROVE  Alike'
<1>1. Top' = Top /\ \A D \in Devices : Out(D)' = Out(D) /\ (Used(D)' <=> Used(D))
  BY DEF Top, Out, Used
<1> QED
  BY <1>1 DEF Alike

(* Before any step.                                                        *)
LEMMA InitAlike ==
  ASSUME Init
  PROVE  Alike
<1>1. stack = <<Frame(<<>>)>> /\ fb = <<>> /\ dbg = <<>> /\ calls = 0
  BY DEF Init
<1>2. Top.prints = <<>> /\ Len(Top.prints) = 0
  BY <1>1 DEF Top, Frame
<1>3. \A D \in Devices : Out(D) = <<>>
  BY <1>1 DEF Out
<1>4. Synced(Top, fb, dbg)
  <2>1. fb = dbg /\ Len(fb) = 0 /\ Len(dbg) = 0
    BY <1>1
  <2>2. Ahead(fb, dbg, 0, 0, 0)
    BY <2>1 DEF Ahead
  <2> QED
    BY <1>2, <2>2 DEF Synced
<1>5. ASSUME NEW D \in Devices
      PROVE  Coloured(Top, D, Out(D), calls)
  <2>1. Shown(Out(D)) = {}
    BY <1>3 DEF Shown, Chars
  <2>2. Kinded(Out(D)) = {} /\ ResetAt(Out(D)) = {}
    BY <2>1 DEF Kinded, ResetAt, Calls
  <2>3. \A k : k \notin 2 .. 0 /\ k \notin 1 .. 0
    OBVIOUS
  <2> QED
    BY <1>2, <2>2, <2>3 DEF Coloured
<1>6. \A k : k \notin 1 .. 0
  OBVIOUS
<1> QED
  BY <1>2, <1>3, <1>4, <1>5, <1>6 DEF Alike, Shape

(* The inductive invariant: types, order and what mirroring rests on.      *)
THEOREM MirrorInvariant == Spec => []IInv
<1>1. Init => IInv
  BY InitOrder, InitAlike DEF IInv
<1>2. IInv /\ [Next]_vars => IInv'
  <2> SUFFICES ASSUME Types, Order, Alike, [Next]_vars
               PROVE  Types' /\ Order' /\ Alike'
    BY DEF IInv
  <2>1. CASE UNCHANGED vars
    <3>1. UNCHANGED <<config, calls, stack, fb, dbg>>
      BY <2>1 DEF vars
    <3> QED
      BY <2>1, <3>1, UnchangedOrder, QuietAlike
  <2>2. CASE Next
    <3>1. calls \in Nat
      BY DEF Types
    <3>2. ASSUME NEW lvl \in DEBUG .. ERROR, NEW text \in {"body", "garbled"}, NEW len \in Nat,
                 Begin(LogLine(lvl, text, len))
          PROVE  Types' /\ Order' /\ Alike'
      BY <3>1, <3>2, LogLineFacts, BeginOrder, LogAlike
    <3>3. ASSUME NEW len \in Nat, Begin(<<printf(Message(1, calls + 1, "text", len))>>)
          PROVE  Types' /\ Order' /\ Alike'
      BY <3>1, <3>3, TextFacts, BeginOrder, TextAlike
    <3>4. ASSUME NEW lvl \in Levels, SetLevel(lvl)
          PROVE  Types' /\ Order' /\ Alike'
      <4>1. UNCHANGED <<config, calls, stack, fb, dbg>>
        BY <3>4 DEF SetLevel
      <4> QED
        BY <3>4, <4>1, SetLevelOrder, QuietAlike
    <3>5. ASSUME NEW f \in Frames, Panic(f)
          PROVE  Types' /\ Order' /\ Alike'
      <4>1. Types' /\ Order' /\ Len(stack') # 1
        BY <3>5, PanicOrder
      <4> QED
        BY <4>1 DEF Alike
    <3>6. Write => Types' /\ Order' /\ Alike'
      BY WriteOrder, WriteAlike
    <3>7. Return => Types' /\ Order' /\ Alike'
      BY ReturnOrder, ReturnAlike
    <3> QED
      BY <2>2, <3>2, <3>3, <3>4, <3>5, <3>6, <3>7, Beginnings
  <2> QED
    BY <2>1, <2>2
<1> QED
  BY <1>1, <1>2, PTL DEF Spec

(* A sequence with one character more than another has it at its end.      *)
LEMMA AheadByOne ==
  ASSUME NEW u \in Seq(Char), NEW v \in Seq(Char), NEW m, NEW b, Ahead(u, v, m, 1, b)
  PROVE  v = Front(u)
<1>1. Len(u) = Len(v) + 1 /\ \A k \in 1 .. Len(v) : u[k] = v[k]
  BY DEF Ahead
<1>2. Len(u) \in Nat /\ Len(v) \in Nat
  OBVIOUS
<1> DEFINE w == SubSeq(u, 1, Len(u) - 1)
<1>3. w \in Seq(Char) /\ Len(w) = Len(v)
  BY <1>1, <1>2
<1>4. \A k \in 1 .. Len(v) : w[k] = v[k]
  BY <1>1, <1>2
<1> HIDE DEF w
<1>5. w = v
  <2>1. w = [k \in 1 .. Len(w) |-> w[k]] /\ v = [k \in 1 .. Len(v) |-> v[k]]
    BY <1>3
  <2> QED
    BY <1>3, <1>4, <2>1
<1> QED
  BY <1>5 DEF Front, w

(* What mirrors is never far apart.                                        *)
LEMMA SyncedAhead ==
  ASSUME NEW f \in FrameType, InLoop(f), NEW u \in Seq(Char), NEW v \in Seq(Char),
         Synced(f, u, v)
  PROVE  Len(v) > Len(u) => u = Front(v)
<1> SUFFICES ASSUME Len(v) > Len(u)
             PROVE  u = Front(v)
  OBVIOUS
<1>1. Len(u) \in Nat /\ Len(v) \in Nat
  OBVIOUS
<1>2. \A m, b : \A a \in Nat : ~Ahead(u, v, m, a, b)
  BY <1>1 DEF Ahead
<1>3. f.prints # <<>>
  BY <1>2 DEF Synced
<1> DEFINE p == f.prints[1]
<1>4. p \in Outputs /\ 1 \in 1 .. Len(f.prints) /\ f.i \in Nat /\ f.d \in Nat
  <2>1. f.prints[1] \in Outputs /\ Len(f.prints) \in Nat \ {0}
    BY <1>3, HeadFacts
  <2> QED
    BY <2>1 DEF FrameType
<1>5. p.msg.len \in Nat /\ f.i + f.d <= p.msg.len /\ f.d < Len(p.loops[1])
  BY <1>3, <1>4 DEF InLoop, Outputs, Msg
<1>6. /\ p.loops = Both => Ahead(u, v, p.msg, f.i, 0)
      /\ p.loops = OnDbg => Ahead(u, v, p.msg, IF Fits(p.msg) THEN p.msg.len - f.i ELSE 0, f.i)
      /\ p.loops = Mixed => Ahead(v, u, p.msg, f.d, f.i)
      /\ p.loops \in {Both, Mixed, OnDbg}
  BY <1>3, <1>4 DEF Synced
<1> HIDE DEF p
<1>7. p.msg.len - f.i \in Nat /\ 0 \in Nat
  BY <1>4, <1>5
<1>8. p.loops = Mixed
  BY <1>2, <1>4, <1>6, <1>7
<1>9. f.d = 0 \/ f.d = 1
  <2>1. Len(p.loops[1]) = 2
    BY <1>8 DEF Mixed
  <2> QED
    BY <1>4, <1>5, <2>1
<1>10. Ahead(v, u, p.msg, f.d, f.i)
  BY <1>6, <1>8
<1>11. f.d = 1
  <2>1. Len(v) = Len(u) + f.d
    BY <1>10 DEF Ahead
  <2> QED
    BY <1>1, <1>9, <2>1
<1> QED
  BY <1>10, <1>11, AheadByOne

(* Mirrored: between calls the colour of every log line was reset, and the *)
(* devices of a build that mirrors show the same; and while one is printed *)
(* the debug port is never ahead by more than a character.                 *)
THEOREM DevicesMirrored == Spec => []Mirrored
<1>1. IInv => Mirrored
  <2> SUFFICES ASSUME Types, Order, Alike, Len(stack) = 1
               PROVE  /\ Idle => \A out \in {fb, dbg} : Calls(out, ToSet(Kinds)) = Calls(out, {"reset"})
                      /\ Idle /\ config.mirror => fb = dbg
                      /\ config.mirror /\ Len(dbg) > Len(fb) => fb = Front(dbg)
    BY DEF IInv, Mirrored
  <2>1. fb \in Seq(Char) /\ dbg \in Seq(Char) /\ Top \in FrameType /\ InLoop(Top)
    BY TopType DEF Types
  <2>2. config.mirror => Synced(Top, fb, dbg)
    BY DEF Alike
  <2>3. Idle <=> Top.prints = <<>>
    BY DEF Idle, Top
  <2>4. ASSUME Idle, NEW D \in Devices
        PROVE  Calls(Out(D), ToSet(Kinds)) = Calls(Out(D), {"reset"})
    <3>1. CASE Used(D)
      <4>1. Coloured(Top, D, Out(D), calls)
        BY <3>1 DEF Alike
      <4>2. /\ \A c \in 0 .. calls - 1 : c \in Kinded(Out(D)) <=> c \in ResetAt(Out(D))
            /\ calls \in Kinded(Out(D)) <=> calls \in ResetAt(Out(D))
        BY <2>3, <2>4, <4>1 DEF Coloured
      <4>3. Kinded(Out(D)) \subseteq 0 .. calls /\ ResetAt(Out(D)) \subseteq 0 .. calls
        BY CallsMade DEF Kinded, ResetAt
      <4>4. \A c \in 0 .. calls : c = calls \/ c \in 0 .. calls - 1
        BY DEF Types
      <4>5. Kinded(Out(D)) = ResetAt(Out(D))
        BY <4>2, <4>3, <4>4
      <4> QED
        BY <4>5 DEF Kinded, ResetAt
    <3>2. CASE ~Used(D)
      <4>1. Out(D) = <<>>
        BY <3>2 DEF Alike
      <4>2. Shown(Out(D)) = {}
        BY <4>1 DEF Shown, Chars
      <4> QED
        BY <4>2 DEF Calls
    <3> QED
      BY <3>1, <3>2
  <2>5. Idle => \A out \in {fb, dbg} : Calls(out, ToSet(Kinds)) = Calls(out, {"reset"})
    BY <2>4 DEF Out, Devices
  <2>6. ASSUME Idle, config.mirror
        PROVE  fb = dbg
    <3>1. Ahead(fb, dbg, 0, 0, 0)
      BY <2>2, <2>3, <2>6 DEF Synced
    <3> QED
      BY <2>1, <3>1, AheadNone
  <2>7. config.mirror /\ Len(dbg) > Len(fb) => fb = Front(dbg)
    BY <2>1, <2>2, SyncedAhead
  <2> QED
    BY <2>5, <2>6, <2>7
<1> QED
  BY <1>1, MirrorInvariant, PTL
=============================================================================
