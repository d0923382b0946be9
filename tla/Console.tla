------------------------------ MODULE Console -------------------------------
(***************************************************************************)
(* tty.cpp, tty.hpp and the printing of cpu.cpp, character by character:   *)
(* the printing functions and macros, the Logger, and panics that may      *)
(* interrupt any of it, one another's reports too, and print on the same   *)
(* two devices, in every configuration of config.hpp.  A call formats into *)
(* its own buffer, which nobody sees, so what is left of it are the loops  *)
(* that write the buffer to the devices.  That flanterm is not re-entrant, *)
(* and what happens when the stack is full, is module Boot's concern: here *)
(* a character written comes out, and a full stack ends the panics.        *)
(***************************************************************************)
EXTENDS Naturals, Sequences, SequencesExt

CONSTANTS
  BufSize,    \* sizeof(buffer), 1024
  Lengths,    \* lengths a log message or a text may have
  FixedLen,   \* length of a log line's prefix and of a panic's line
  Levels,     \* levels used, of Logger::Level
  Configs,    \* settings of the switches of config.hpp
  Frames,     \* frames a panic may be given, NULL among them
  AllRegisters, BasicRegisters, \* of SPHYNX_VERBOSE_IDT and SPHYNX_DUMP_REG_ON_INT
  StackFrames, \* activations the stack has room for, the boot thread among them
  MaxEvents    \* log and printf calls and panics of a behaviour, in each build

DEBUG == 0
INFO  == 1
ERROR == 4

NULL == [vector |-> 256, err |-> {}]

(* The panic's own lines.                                                  *)
PageFaultTexts == {"page fault", "protection violation", "non-present page", "write", "read",
                   "user", "supervisor", "reserved write", "instruction fetch"}
PanicTexts     == PageFaultTexts \cup {"kernel panic", "file", "registers", "stack trace", "todo"}

ASSUME SizesAssumption ==
  /\ BufSize \in Nat \ {0} /\ Lengths \subseteq Nat /\ StackFrames \in Nat
  /\ FixedLen \in 1 .. BufSize - 1
  /\ Levels \subseteq DEBUG .. ERROR

ASSUME SwitchesAssumption ==
  /\ Configs \subseteq [{"mirror", "verbose", "simple", "verbose_idt", "dump_reg"} -> BOOLEAN]
  /\ MaxEvents \in [Configs -> Nat]
  /\ \A f \in Frames : f = NULL \/ f.vector \in 0 .. 255

(* Each register has a line of its own.                                    *)
ASSUME RegistersAssumption ==
  \A dump \in {AllRegisters, BasicRegisters} :
    dump \in Seq(ToSet(dump)) /\ IsInjective(dump) /\ ToSet(dump) \cap PanicTexts = {}

VARIABLES
  config,  \* the switches of this build
  level,   \* of the logger
  calls,   \* log and printf calls begun
  stack,   \* what the boot thread and the panics above it have still to write
  cause,   \* the frame of the panic on top
  fb, dbg  \* the characters on the screen and on port 0xE9

vars == <<config, level, calls, stack, cause, fb, dbg>>

-----------------------------------------------------------------------------
(* Printing: a message, its characters, the buffer they are formatted into.*)

(* The activation that prints it, 1 for the boot thread, and the number of *)
(* its call.                                                               *)
Message(frame, call, text, len) == [frame |-> frame, call |-> call, text |-> text, len |-> len]

Uninit == <<Message(0, 0, "uninit", 0), 0>>
Nul    == <<Message(0, 0, "nul", 0), 0>>

(* npf_vsnprintf stores what fits, ends it, and ends the buffer.           *)
Buffer(m) ==
  [i \in 0 .. BufSize - 1 |->
     IF i \in {m.len, BufSize - 1} THEN Nul
     ELSE IF i < m.len THEN <<m, i + 1>> ELSE Uninit]

\* Mutant: length > sizeof(buffer).
FitsOneMore(m) == m.len <= BufSize

Fits(m) == m.len < BufSize

(* A print: a message, and the loops over its buffer, one of each call: the*)
(* devices that get every character in turn.                               *)
Output(m, loops) == [msg |-> m, loops |-> loops]

kprintf(m)  == Output(m, <<<<"fb">>>>)
kdprintf(m) == Output(m, <<<<"dbg">>>>)

\* Mutant: vprintf does not look at SPHYNX_MIRROR_PRINTF.
VprintfUnmirrored(m) == Output(m, <<<<"fb">>>>)

vprintf(m)  == Output(m, IF config.mirror THEN <<<<"dbg", "fb">>>> ELSE <<<<"fb">>>>)
KMPRINTF(m) == Output(m, <<<<"fb">>, <<"dbg">>>>)
printf(m)   == IF config.mirror THEN KMPRINTF(m) ELSE kprintf(m)
DPRINTF(m)  == IF config.verbose THEN KMPRINTF(m) ELSE kdprintf(m)

(* A frame: the prints still to be made, and of the loop under way the     *)
(* index, and how many devices have the character already.                 *)
Frame(prints) == [prints |-> prints, i |-> 0, d |-> 0]

-----------------------------------------------------------------------------
(* The Logger.                                                             *)

Kinds == <<"DEBUG", "INFO", "OK", "WARN", "ERROR">>

(* The kind of a level, and its colour with it.                            *)
get_kind(lvl) == Kinds[lvl + 1]

LogLine(lvl, text, len) ==
  <<printf(Message(1, calls + 1, get_kind(lvl), FixedLen)), vprintf(Message(1, calls + 1, text, len)),
    printf(Message(1, calls + 1, "reset", 1))>>

Idle == Len(stack) = 1 /\ stack[1].prints = <<>>

Begin(prints) ==
  /\ Idle /\ calls < MaxEvents[config]
  /\ calls' = calls + 1 /\ stack' = <<Frame(prints)>>
  /\ UNCHANGED <<config, level, cause, fb, dbg>>

SetLevel(lvl) ==
  /\ Idle /\ level' = lvl
  /\ UNCHANGED <<config, calls, stack, cause, fb, dbg>>

(* A level below the logger's prints nothing and is no step.               *)
Log(lvl, len) == lvl >= level /\ Begin(LogLine(lvl, "body", len))

(* info, ok, warn, error and debug of a format with conversions: log takes *)
(* the va_list they pass for the first argument, and prints anything.      *)
LogWrapped(lvl) ==
  /\ lvl >= level
  /\ \E len \in Lengths : Begin(LogLine(lvl, "garbled", len))

(* printf of a text, as _start does with the welcome file.                 *)
Printf(len) == Begin(<<printf(Message(1, calls + 1, "text", len))>>)

-----------------------------------------------------------------------------
(* _kpanic_handler.                                                        *)

Line(text)   == Message(Len(stack) + 1, 0, text, FixedLen)
KLines(texts) == [n \in 1 .. Len(texts) |-> KMPRINTF(Line(texts[n]))]
DLines(texts) == [n \in 1 .. Len(texts) |-> DPRINTF(Line(texts[n]))]
If(c, texts)  == IF c THEN texts ELSE <<>>

\* Mutant: the registers are read whether there is a frame or not.
RegisterDumpUnguarded(f) ==
  IF config.verbose_idt THEN <<"registers">> \o AllRegisters
  ELSE If(config.dump_reg, <<"registers">> \o BasicRegisters)

RegisterDump(f) ==
  IF config.verbose_idt THEN If(f # NULL, <<"registers">> \o AllRegisters)
  ELSE If(f # NULL /\ config.dump_reg, <<"registers">> \o BasicRegisters)

PageFault(f) ==
  If(f # NULL /\ f.vector = 14,
     <<"page fault", IF 1 \in f.err THEN "protection violation" ELSE "non-present page",
       IF 2 \in f.err THEN "write" ELSE "read", IF 4 \in f.err THEN "user" ELSE "supervisor">>
     \o If(8 \in f.err, <<"reserved write">>) \o If(16 \in f.err, <<"instruction fetch">>))

_kpanic_handler(f) ==
  IF config.simple
    THEN KLines(<<"kernel panic">>)
    ELSE KLines(<<"kernel panic", "file">>) \o DLines(RegisterDump(f) \o PageFault(f))
           \o KLines(<<"stack trace", "todo">>)

(* An exception or an NMI, of the boot thread, in a panic or after one, or *)
(* kpanic(nullptr, ...) of the boot thread between two prints: the panic   *)
(* prints, and nothing below it runs again.                                *)
Panic(f) ==
  /\ Len(stack) < StackFrames /\ calls + Len(stack) <= MaxEvents[config]
  /\ f = NULL => Idle
  /\ stack' = Append(stack, Frame(_kpanic_handler(f))) /\ cause' = f
  /\ UNCHANGED <<config, level, calls, fb, dbg>>

-----------------------------------------------------------------------------
(* The loops over the buffer.                                              *)

(* A message that leaves no room for the NUL is not printed at all.        *)
More(f) == Fits(Head(f.prints).msg) /\ f.i < Head(f.prints).msg.len

(* _putc or _dputc of one character, for frame k.                          *)
WriteOf(k) ==
  LET f    == stack[k]
      loop == Head(Head(f.prints).loops)
      char == Buffer(Head(f.prints).msg)[f.i]
  IN  /\ f.prints # <<>> /\ More(f)
      /\ fb' = IF loop[f.d + 1] = "fb" THEN Append(fb, char) ELSE fb
      /\ dbg' = IF loop[f.d + 1] = "dbg" THEN Append(dbg, char) ELSE dbg
      /\ stack' = [stack EXCEPT ![k] =
                     IF f.d + 1 < Len(loop) THEN [f EXCEPT !.d = @ + 1]
                     ELSE [f EXCEPT !.d = 0, !.i = @ + 1]]
      /\ UNCHANGED <<config, level, calls, cause>>

\* Mutant: a panic does not keep what it interrupted from going on.
WriteAny == \E k \in 1 .. Len(stack) : WriteOf(k)

Write == WriteOf(Len(stack))

(* The call returns: on to the print's next loop, or to the next print.    *)
Return ==
  LET f == stack[Len(stack)]
      p == Head(f.prints)
  IN  /\ f.prints # <<>> /\ ~More(f)
      /\ stack' = [stack EXCEPT ![Len(stack)] =
                     Frame(IF Len(p.loops) > 1
                             THEN [f.prints EXCEPT ![1].loops = Tail(@)]
                             ELSE Tail(f.prints))]
      /\ UNCHANGED <<config, level, calls, cause, fb, dbg>>

Init ==
  /\ config \in Configs /\ level = INFO /\ calls = 0 /\ stack = <<Frame(<<>>)>>
  /\ cause = NULL /\ fb = <<>> /\ dbg = <<>>

Next ==
  \/ Write \/ Return
  \/ \E lvl \in Levels : SetLevel(lvl) \/ LogWrapped(lvl) \/ \E len \in Lengths : Log(lvl, len)
  \/ \E len \in Lengths : Printf(len)
  \/ \E f \in Frames : Panic(f)

(* The CPU runs a print to its end; calls and panics need not come.        *)
Spec == Init /\ [][Next]_vars /\ WF_vars(Write \/ Return)

-----------------------------------------------------------------------------
(* Properties.                                                             *)

(* Only characters of messages reach a device: never the terminator, never *)
(* a byte of the buffer that nothing was stored in.                        *)
Chars(out) == {out[i] : i \in 1 .. Len(out)}
NoGarbage == {Uninit, Nul} \cap (Chars(fb) \cup Chars(dbg)) = {}

(* On each device every message comes out from its first character to its  *)
(* last, with nothing in between; only a panic cuts one short, the boot    *)
(* thread's or a panic's, and then nothing of what it interrupted follows. *)
FirstChar(c) == c[2] = 1
LastChar(c)  == c[2] = c[1].len
Follows(c, d) ==
  \/ d[1] = c[1] /\ d[2] = c[2] + 1
  \/ /\ d[1] # c[1] /\ FirstChar(d)
     /\ d[1].frame > c[1].frame \/ (d[1].frame = c[1].frame /\ LastChar(c))
Unbroken(out) ==
  /\ out # <<>> => FirstChar(out[1])
  /\ \A i \in 1 .. Len(out) - 1 : Follows(out[i], out[i + 1])
InOrder == Unbroken(fb) /\ Unbroken(dbg)

(* When no call is under way every log line's colour was reset after it,   *)
(* whatever of the line was dropped; and of a build that mirrors, the      *)
(* devices show the same text then, and at no time is the debug port ahead *)
(* by more than one character.                                             *)
Shown(out)  == {c[1] : c \in Chars(out)}
Calls(out, texts) == {m.call : m \in {x \in Shown(out) : x.text \in texts}}
Mirrored ==
  Len(stack) = 1 =>
    /\ Idle => \A out \in {fb, dbg} : Calls(out, ToSet(Kinds)) = Calls(out, {"reset"})
    /\ Idle /\ config.mirror => fb = dbg
    /\ config.mirror /\ Len(dbg) > Len(fb) => fb = Front(dbg)

(* A panic, wherever it interrupts, another panic's report included, comes *)
(* to the end of its own, unless a further one interrupts it, which then   *)
(* has to: on the debug port all it has to say, registers only of a frame  *)
(* there is, a page fault's details of every page fault; on the screen the *)
(* same, or without these in a build that is not verbose.                  *)
Report(out) == {m.text : m \in {x \in Shown(out) : x.frame = Len(stack)}}
Reading     == cause # NULL /\ ~config.simple
FullReport(texts) ==
  /\ "kernel panic" \in texts /\ (~config.simple => "todo" \in texts)
  /\ Reading /\ config.verbose_idt <=> ToSet(AllRegisters) \subseteq texts
  /\ Reading /\ (config.verbose_idt \/ config.dump_reg) <=> ToSet(BasicRegisters) \subseteq texts
  /\ Reading /\ cause.vector = 14 <=>
       {"page fault", IF 2 \in cause.err THEN "write" ELSE "read"} \subseteq texts
Reported ==
  /\ stack[Len(stack)].prints = <<>> /\ FullReport(Report(dbg))
  /\ Report(fb) = IF config.verbose THEN Report(dbg)
                  ELSE Report(dbg) \cap {"kernel panic", "file", "stack trace", "todo"}
  /\ \A out \in {fb, dbg} : LastChar(out[Len(out)]) /\ out[Len(out)][1].frame = Len(stack)
PanicShown ==
  \A k \in 2 .. StackFrames : Len(stack) = k ~> Len(stack) > k \/ (Len(stack) = k /\ Reported)

=============================================================================
