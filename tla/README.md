# Sphynx kernel: specifications and proofs

TLA+ modules that model the Sphynx kernel (`kernel/` of this repository), TLC
configurations that check them on small instances, and proofs, checked by
TLAPS, of the safety properties of most of its components for every value of
their parameters. Paths are relative to the repository.

## 1. Inventory

Sphynx is, at this commit, a kernel that boots on one CPU: `sphynxboot` loads
it and jumps to `_start`; it sets up a console, its GDT and its IDT, checks
what the boot loader handed over, prints a file of its RAM file system and
halts. There are no threads and no drivers that run on their own; what makes
it concurrent is that interrupts, NMIs and faults may divert the CPU between
any two instructions, on one stack, with one console.

| component | state | operations | interacts with |
|---|---|---|---|
| boot sequence, `src/kernel.cpp` | `ftCtx`, `bootInfo`, `ramfs`, `framebuffer` | `_start` | calls all of the below; reads the hand-off `boot_t` |
| GDT, `src/core/gdt.cpp` | `GDT::gdt`, `gdtr`, the CPU's GDTR and selectors | `init`, `reload` | the selectors of the gates refer to it |
| IDT, `src/core/idt.cpp` | `IDT::idt`, the CPU's IDTR | `init`, `set_gate`, `load_idt`, `excp_handler` | gates lead to the stubs; exceptions go to the panic |
| stubs, `src/core/idt-stub.asm` | the stack, `last_rbp` | `isr_0`..`isr_255`, `_int_stub` | entered by the CPU, call `excp_handler` |
| panic and halt, `src/sys/cpu.cpp`, `include/sys/cpu.hpp` | none | `_kpanic_handler`, `hcf`, `halt` | prints through the TTY |
| TTY and logger, `src/dev/tty.cpp`, `include/dev/tty.hpp` | the 1024-byte buffers, the two devices, a logger's level | `kprintf`, `kdprintf`, `vprintf`, `printf`, `KMPRINTF`, `DPRINTF`, `Logger` | nanoprintf, flanterm, port 0xE9; `config.hpp`'s switches |
| nanoprintf, `include/external/nanoprintf.h` | format, argument and buffer cursors | `npf_vsnprintf` and below | the TTY |
| TAR reader, `src/stdlib/data/tar.cpp` | a pointer into the image | `get_file_tar`, `list_dir_tar` | `strcmp`, the logger; its result is printed |
| string library, `src/stdlib/string.cpp` | memory | 13 C functions | everywhere, the compiler included |
| serial ports, `src/dev/serial.cpp` | a UART's registers | `Stream`, port I/O | only `outb` is used, for port 0xE9 |
| PMM, `src/core/mm/pmm.cpp` | none yet | stubs | nobody calls it |
| macros, `include/stdlib/math_utils.hpp` | none | arithmetic, bitmaps | nobody expands them |
| boot loader, flanterm | outside the repository | the hand-off, a console context | used by `_start` and the TTY |

What is hard, and what correctness means for each component:

- **Boot, GDT, IDT.** The order of `lgdt`, `lidt`, `sti`, `cli` decides what an
  interrupt finds. `IDT::init` executes `sti` before its table is loaded, exceptions
  use trap gates, so only the stub's own `cli` masks. Correct: no gate in use
  leads nowhere, no print before there is a console, panics are masked and final,
  interrupts stay inside the window, the machine always comes to rest and says why.
- **Stubs.** They nest; some vectors have an error code and others do not.
  Correct: the interrupted program does not notice; `iretq` finds its own frame.
- **GDT, IDT as bytes.** Addresses in three fields, packed structures, flags of eight
  bits that come in signed. Correct: the CPU reads of the bytes what the code means.
- **TTY and panic.** A panic may interrupt a print at any character; a text may be as
  long as the buffer; switches select what is mirrored and how much a panic says.
  Panics interrupt panics. Correct: lines in order and whole unless a panic cuts them,
  the same on both devices; nothing behind a text shown; a panic that nothing interrupts
  reports in full, and reads a frame only if there is one.
- **TAR reader.** Sizes at block boundaries, contents that look like headers,
  images cut short, 32-bit arithmetic. Correct: only headers are read as headers,
  the first match is found, the walk ends, and what is printed of a file is the file.
- **String library.** Overlap, off-by-one, bytes above 127.
- **nanoprintf.** Flags, width, precision and stars change each other's meaning;
  buffers of exactly the size of the longest number. Correct: what C's printf prints.
- **Macros.** Sums that wrap, bytes used in part. Correct: the next multiple; a set.
- **Serial.** A device and a remote end that act on their own; a loopback test
  through the same FIFOs; busy-waiting without limit. Correct: bytes neither lost nor
  invented, a port that reports no error is set up, calls return.

The list of hazards, each at its line and with the properties that cover it, is
`hazards` in `PROJECT.json`.

## 2. Plan

Done: `Boot`, `InterruptStub` over `MainProgram`, `Descriptors`, `Console`, `Tar`, `Memory`,
`CString`, `Serial` over `SerialLine`, `Format` and `MathUtils`, both over `Powers`; proofs, in
a module of its name with `Proofs` behind, about each of `Boot`, `InterruptStub`,
`Descriptors`, `Console`, `Tar` and `Serial`; about `Memory` and `CString` in `StringProofs`,
about `MathUtils` and `Format` in `NumberProofs`, since both compute with the digits of
numbers. Left: nothing; what stays with TLC is named at the end of section 5.

Composition: `Boot` contains a stub as the steps other activations can see and
`InterruptStub` refines just these (`isr`, `excp_handler`, `iretq`); `Boot` takes a log
line as one step and `Console` is that step at character level; `Boot` has the
outcome of the tar walk and `Tar` the walk; `Console` takes the length of a formatted text
as given and `Format` computes the text; `Descriptors` has the bytes of the tables whose
order of loading is `Boot`'s. Each bigger step is atomic only where
nothing in the other frames can tell: a log line diverted in the middle is in
`Boot` a line whose messages are not yet in `fb` and `dbg`.

## 3. Modules and how they correspond to the code

**`Boot`** (`kernel.cpp`, `gdt.cpp`, `idt.cpp`, `cpu.cpp`, `cpu.hpp`). One action per
statement of `_start` and per instruction of the table loading that another
frame can tell apart; `SetGate` is one iteration of the two loops. `stack` is the
stack of activations: frame 1 is `_start`, the others interrupts and exceptions;
`pc` is a location named after the code. `handoff` says which pointers of `boot_t`
are there, what the ramfs holds and whether the firmware left interrupts on; it is
chosen in `Init` and includes every incomplete hand-off. `Irq`, `Nmi` and `Fault` are
the CPU's delivery: through the kernel's gate if it is usable, to the firmware's
handlers while its IDT is loaded and its selector still means code, to a shutdown
(`lost = "shutdown"`) otherwise. No interrupt is acknowledged, because no code does.
A firmware handler that serves an interrupt and returns changes nothing the
kernel sees and is no step. Three pointers are used without a test: `bootInfo->info`, the
archive's address (`handoff.archive`) and the data of a file that was not found. A NULL
there reads whatever page 0 holds or faults; where it is not mapped (`~handoff.page0`) it
faults. `NullReported` says that such a fault ends in a panic that both outputs show.
`ShutdownCause` names both ways to a reset: flanterm's faults, once the kernel's IDT is in
use, and before that a delivery between `lgdt` and `lidt`, when the firmware's gates name
a table that is gone. `FlantermFault`: flanterm entered again while a frame
below is in it may do anything; a fault is the outcome the properties tell apart.

**`InterruptStub`** (`idt-stub.asm`, `int_frame_t`, `excp_handler`). One action per
instruction of `isr_N` and `_int_stub`. The stack is a sequence of words with what was
pushed; the frame `excp_handler` sees is those words under the names of `int_frame_t`. The
interrupted program computes anything, with registers, stack words and the interrupt flag;
`acts` remembers each interrupted context and is read by properties only, but for the
count that bounds the nesting. **`MainProgram`** is the abstract specification: a program
with no interrupts. `Transparent` says that `InterruptStub` implements it, mapping an
interrupted program to what `acts[1]` remembers. Were a register restored wrong, the next
concrete step of the program would be no step of the abstract one, and no stutter either.

**`Descriptors`** (`gdt.cpp`, `idt.cpp`, `load_idt`, the structures of `gdt.hpp` and
`idt.hpp`). The tables, `gdtr` and `idt_p` as bytes in memory, filled field by field: a
field takes the low bytes of what is stored, an `int8_t` comes out of eight bits. `Limit`,
`Base`, `Gate` and `Segment` are what the CPU makes of the bytes. Interruption is `Boot`'s
matter, so the steps are those of an undisturbed boot.

**`Console`** (`tty.cpp`, `tty.hpp`, `cpu.cpp`, the buffer end of `nanoprintf.h`).
`config` is a build, a setting of `config.hpp`'s switches. A print formats into a buffer
of its own call, which no other frame can see, and then writes characters to one or both
devices. What is left of it are its loops over the buffer: `kprintf` and `kdprintf` have
one to one device, `vprintf` one in which every character goes to both, `KMPRINTF` the two
of its two calls. A frame has the `prints` it has still to make, the index `i` of the loop
under way and the count `d` of devices that have its character already. `Write` is one
`_putc` or `_dputc`; `Return` is the end of a loop, after the last character or at once
when the length test fails, and goes on to the next loop or print. `Logger::log` is three
prints, `_kpanic_handler` one of each of its lines. `Panic` puts a further frame on top at
any moment, that of an exception or NMI, also while a panic below prints or has halted:
the interrupted report is cut there for good, and `PanicShown` promises the whole report
of a panic only if no further one interrupts it. `StackFrames` activations are all there
is room for. A message is of the frame that prints it. It is an identity and a length: what a conversion produces is
abstracted to that, and to garbage of any length for the wrappers `info` to `debug`, which
pass a `va_list` on as an argument.

**`Tar`** (`tar.cpp`). The image is a sequence of blocks, each with what a header
laid over it reads. An archive's entries have the block of their header (`HeaderBlock`);
`Image` is what the `tar` command of the `Makefile` writes of them. `Init` also cuts it
short at any block, and lets the contents of files look like headers. The step to the next
header is the code's expression with every operation modulo `Word`. `PrintMsg` is `_start`'s
print of the file it got: as many bytes as there are before a NUL, if they fit the buffer.

**`Memory`** (`memset`, `memcpy`, `memmove`, `strcpy`, `strcat`, `strncpy`). One action per
iteration. A behaviour is one legal call: areas inside memory, strings that end, no
overlap except for `memmove`. `memset` is given an `int`, negative or beyond a byte too,
and stores what the conversion to `unsigned char` leaves of it.

**`CString`** (`strlen`, `strcmp`, `strncmp`, `strchr`, `strrchr`, `strstr`). One step per
iteration, pointers being indices into the strings. `CompareOn` is a turn of the loop of
`strcmp` or `strncmp`, and of the `strcmp` that `strstr` calls; `Compared` and
`StrstrCompared` are its return to the one and the other caller. `Compares` holds the two
results against the C library's order; `Searches` the other four against the string's
end, its occurrences and its suffixes, and has no loop go on behind a NUL.

**`Serial`** (`serial.cpp`). One action per port access of `Stream`'s constructor, `read`
and `write`; a poll that finds nothing changes nothing and is no step. `Outb`, `InData`
and `TakeData` are the port instructions with what a 16550 does on them (divisor latch,
FIFO resets, loopback); `Shift` and `Arrive` are the device and the remote end. The port
may be absent, and may hold a byte when the constructor starts. A port the firmware left
with its latch open is left out, as is a remote end that sends the test byte
(`RemoteAssumption`): in the moment between the FIFO reset and loopback mode it would pass
for the device. The ports of `COM_PORTS` have registers of their own (`PortsAssumption`),
so that one port is modelled. **`SerialLine`** is the abstract specification: once open, a
channel each way. `IsLine` says that `Serial` implements it, a byte being written when it
is in the transmit FIFO and received when it is in the other; a port that fails its test
never opens.

**`Format`** (`npf_parse_format_spec`, `npf_vpprintf`, `npf_itoa_rev`, `npf_utoa_rev`, as
`tty.cpp` configures them). One action per turn of the loop over the format: `Literal` or
`Convert`. The parser and the layout are operators on the format, its arguments and the
specification `fs`; `cbuf` keeps its digits last to first, as the code does. What is to be
printed is written down apart, from the C standard (`CPrints`), for conversions the
standard defines (`Defined`). The formats are those a caller can mean (`Formats`): texts,
in which a `%` may be that begins no specification, and conversions, each with its flags,
the texts of its width and precision or the arguments of their stars, its length modifier
and its argument; `FormatOf` and `ArgsOf` make the call of them. Widths and precisions are
`int`s (`Fits`). The model's sums are of integers: a sum of the code overflows only where
the text of a conversion is longer than an `int` can count, which C excludes.

**`MathUtils`** (`math_utils.hpp`). The macros as operators on numbers of `W` bits, every
sum and product modulo 2^W; a bitmap is an array of bytes that the three bitmap macros
that write it change in any order. **`Powers`** has 2^k as a recursive function, since the
provers know nothing of `^`.

In every module, a definition marked `Mutant` is a plausible mistake in the
definition that follows it. No specification uses it: it shows, put in the place of the real
definition, that a property can fail.

## 4. Runs

| run | configuration | shows |
|---|---|---|
| `boot` | `MCBoot.cfg` | console, tables, masking, diagnosis, shutdown and panic properties from all 1,536 hand-offs; the machine comes to rest, a good boot completes, an untested NULL is reported; 435,796 states |
| `interrupt_stub` | `MCInterruptStub.cfg` | frames, returns, nesting, the refinement of `MainProgram`; 868,384 states |
| `descriptors` | `MCDescriptors.cfg` | every gate and segment as the CPU reads it; 783 states |
| `console` | `MCConsole.cfg` | order, mirroring, panics in prints and in panics, in five builds; 393,562 states |
| `tar_walk` | `MCTar.cfg` | the walk on all small archives, complete or cut, and the printing; 237,896 states |
| `memory` | `MCMemory.cfg` | every legal call on every small memory; 296,250 states |
| `strings` | `MCCString.cfg` | order and search on all short strings, loop by loop; 34,664 states |
| `serial` | `MCSerial.cfg` | setup, the refinement of `SerialLine`, waiting, with and without a device; 38,868 states |
| `format` | `MCFormat.cfg` | 7,936 calls against the C standard, buffers; 18,800 states |
| `math_utils` | `MCMathUtils.cfg` | rounding of the numbers to 56 of six bits, bitmaps of as many bits; 5,477 states |
| `format_stars` | `MCFormatStars.cfg` | violated: with the flag 0 a negative argument for a star is not what printf makes of it |
| `posix_search` | `MCCStringPosix.cfg` | violated: `strchr(s, 0)` is `nullptr`, and so is `strstr("ab", "a")` |

**Bounds.** `Boot`: the table and the number of exceptions are the real ones (256, 32), so
that the loops' boundaries are. The interrupt vectors are 8 (IRQ 0 where the BIOS leaves
it, a double fault to the kernel) and 32 (the first that is no exception); the handlers of
later vectors differ in nothing, and the last gate is `DescriptorsUsable`'s and
`GatesLead`'s. Seven frames: the boot thread, an exception or NMI with an interrupt at its
first instruction, and room for flanterm's faults to recur; a vector comes at most once,
so the nesting is bounded by the model itself but for those faults, which end at any
bound. `InterruptStub`: these and vector 255; exceptions 6 (no error code), 14 (one), 21
(one, which the stub does not expect); four activations are one more than any chain of
interrupts and NMIs in a stub makes before a panic. Two contents of the register file, all
registers distinct; a stack aligned and not. `Descriptors`: the real sizes; three places
for the stubs, across a multiple of 64 KiB, below one, and all over memory, so that no two
parts of an address are alike. `Console`: a buffer of 3 with messages of 0, 2 (just fits)
and 3 (one too long), prefixes of two characters; three activations, the boot thread's and
two panics', which is what it takes to cut a report short, and a third panic would do to
the second what the second does to the first; of calls and panics together, three in a
build with the short panic and two in one with a long one, so that a call is followed by a
call or cut by a panic, and a panic by a panic, in every build (`MaxEvents`); the build of
`config.hpp`, one without the mirror, and the long panic with all registers, with the
basic ones and with none, quiet and verbose; two registers stand for the dump of 25 and
one for that of five, whose lines differ in their text only; no frame, an exception's, and
page faults with no bit of the error code and with all. `Tar`: blocks of 8, sizes 0, 1, 8,
9, up to three entries of two names, so that a first match, a second, none, a directory
and a size on each side of a boundary occur in every order; a print buffer of 11, which
holds a file of 9 and its newline but not a full block and the name behind it. `Memory`: 5
bytes with 3 values, one of them NUL: every overlap of areas of up to 5 bytes. `CString`:
three bytes, one above 127, each as an `int` of either sign; strings up to 3. `Serial`:
FIFOs of two bytes, so that three writes and four arrivals fill them; the writes of the
constructor are the real ones. `MathUtils`: operands of 6 bits, numbers from 0 to 56 with
every power of two, so that sums wrap; bitmaps of 0 to 56 bits, of which bits at both ends
of the first three bytes are used. `Format`: types of 4, 5, 6 and 7 bits, so that their
limits, sign changes and longest numbers occur; `cbuf` is as large as an octal number of
that width with its zero, which for 64 bits is the code's 23 (`CbufAssumption`); thirteen
sequences of flags, five widths, six precisions, all length modifiers and conversions.

The `TypeOK` of `InterruptStub` and `Memory` is proved and in no run: their runs check the
stronger properties instead.

**Deadlock** is checked in `math_utils` only: elsewhere the machine halts, a call returns.

**Fairness.** Weak fairness of the CPU's own steps: it goes on executing
instructions; in `Serial`, of the driver's accesses and of the device's shifting
bytes out, without which `write` waits for ever. In `Console`, of the write of a character
and the return of a print, which nothing can block. Interrupts, NMIs, exceptions, log calls, the
remote end's bytes have none: they need not come.
`BootCompletes`, `NullReported` and `MainResumes` say in their hypotheses what must not happen.

**Findings.** `string.hpp` and `string.cpp` call the functions POSIX C string functions;
`strstr` and `strchr` are not, as `posix_search` shows. Nothing in the kernel calls them
yet. nanoprintf calls itself a printf replacement and differs from printf in the flag 0
with a negative argument for a star; no format of the kernel has a star. Further, the
runs' properties are worded around what the code does and a reader may not expect: between
`lgdt` and `lidt` an NMI resets the machine, and so does an interrupt, which
`IDT::init`'s `sti` lets in before `lidt`; a fault inside
flanterm during a panic ends in a reset, silently (`ShutdownCause`); a file whose size is
a multiple of a block is printed with the name of the next entry, or not at all if that
makes it too long (`TextShown`); a NULL that `_start` does not test panics only if page 0
is not mapped (`NullReported`); the frame of vectors 21 and 29 is off by a word
(`FrameFaithful`).

## 5. Proofs

Each theorem is about `Spec` of its module, for every value of the constants that the
named assumptions admit. Eight modules hold them; each defines its inductive invariants
and proves that `Init` implies them and that each action keeps them, and then what
follows from them. No property below is inductive as it stands.

| module | theorems |
|---|---|
| `BootProofs` | `TypeCorrect`, `ConsoleAlwaysReady`, `DescriptorsAlwaysUsable`, `PanicAlwaysMasked`, `InterruptsOnlyInWindow`, `PanicIsFinal`, `OutputsMirrored` (`Mirrored`), `FirstMissingIsDiagnosed` (`Diagnosis`), `ResetOnlyForTwoReasons` (`ShutdownCause`) |
| `InterruptStubProofs` | `TypeCorrect`, `FrameIsFaithful`, `ReturnIsAligned`, `IrqsDoNotNest`, `InterruptsAreTransparent` (the refinement of `MainProgram`) |
| `DescriptorsProofs` | `GatesAlwaysLead`, `SegmentsAlwaysFlat` |
| `ConsoleProofs` | `NothingElseShown` (`NoGarbage`), `MessagesInOrder` (`InOrder`), `DevicesMirrored` (`Mirrored`) |
| `TarProofs` | `HeadersOnly` (`OnlyHeaders`), `FirstOfTheName` (`FoundRight`), `AllListed` (`ListedAll`), `FileShown` (`TextShown`) |
| `StringProofs` | `NothingElseWritten` (`InArea`), `CallsCopy` (`Result`), `PointersInMemory` of `Memory`; `CallInvariant`, `ComparesRightly`, `SearchesRightly` of `CString` |
| `NumberProofs` | `BitmapType`, `MacrosRound` (`Rounds`), `BitmapIsSet` (`IsSetOfBits`) of `MathUtils`; `FormatStaysInside` (`Inside`), `FormatConforms` (`Conforms`) of `Format` |
| `SerialProofs` | `PortIsGood`, `PortIsLine` (the safety half of the refinement of `SerialLine`) |

**Boot.** For every `IdtEntries`, `NumExceptions`, `IrqVectors`, `FwCS` and `StackFrames`
(`SizesAssumption`: at least 15 exceptions and two frames; vectors within the table; a
natural number for the firmware's selector). The invariant is `TypeOK /\ IInv`, `IInv` being

- `FramesInv`: frame 1 is at a location of `_start`, the others at locations of a
  handler, and there are others only once `lidt` is done;
- `ConsoleInv`: the flanterm context is there from the first log line on, and
  whenever the kernel's IDT is in use;
- `TablesInv`: what of the tables is in place at each location of `_start`, and all
  of it while the kernel's IDT is in use;
- `MaskInv`: frames behind their `cli` run masked, and no frame above them saved
  flags that would open interrupts on its return.

`ConsoleReady` needs to know that a handler runs only after the console was set up,
`PanicMasked` and `IrqWindow` that the flags a later `iretq` restores are masked. Steps of
`_start` use that nothing lies above it (`BootStep`, `BootPureStep`), steps of handlers one
lemma (`HandlerStep`), the deliveries another (`RaiseInv`); `NextInv` has one step per
action. `PanicIsFinal` needs types only.

**Boot's output** adds `OutInv`: a message is on both devices, is a refusal, or is a
panic's between its two writes (`OutputInv`); a handler panics about its exception and
`_start` about the first pointer missing (`ReasonInv`); what `_start` has tested at each
location (`TestedInv`), which is how a name on port 0xE9 is known to be that of the first
missing pointer (`ToldInv`).

**Boot's reset** adds `ShutInv`, which counts what may be on the stack. Only interrupts
return (`ReturnInv`); above a frame that prints or is halted (`Stuck`) there are only an
NMI's and page faults' frames, and the CPU holds further NMIs back, since none of these
returns (`AboveInv`) and all of it runs masked (`HcfInv`, `MaskInv`). So until flanterm is
entered again the stack holds `_start`, the interrupts in service, which nobody
acknowledges, one NMI and at most one page fault of `_start`'s (`RoomInv`): an NMI or an
interrupt finds room, and what fills the stack is a page fault of flanterm. A panic of an
exception that reached port 0xE9 is followed by `hcf`, above which nobody is inside flanterm
(`PrintedInv`). Before `lidt`, `EarlyInv`: while the kernel's GDT is in use under the
firmware's IDT, `_start` is at one of the six locations between `lgdt` and `lidt`, and no
interrupt has been served. A reset there is a delivery whose selector was the firmware's
(`EarlyCause`), one after `lidt` a full stack (`LateCause`), and an interrupt found IF set,
for which `MaskInv` has the reasons. `ResetOnlyForTwoReasons` takes one assumption, `EnoughStack`: four activations,
and three more than `IrqVectors` has members. It is the weakest: TLC finds `ShutdownCause`
violated with three activations and no interrupt, and with four and two. The code justifies
it as far as it can: it programs no interrupt controller and gets its stack from the boot
loader, so that an interrupt whose activation finds no room is nothing it could prevent.

**InterruptStub**, for any depth, any set of interrupt vectors and exceptions and any
contents of registers and stacks (`ContentsAssumption`: they are taken from `Data`). The invariant `Shape` describes
each activation from outside, as the one above it saved it: which word belongs at each
index of its stack (`WordAt`), how far the stub is and so how many words there are
(`Progress`), which registers are still, or again, the interrupted context's (`Intact`). A
delivery or an `iretq` changes no description, and an instruction only the innermost, which
is why nesting of any depth is no harder than one level.

**Descriptors**, for tables at any address, stubs anywhere, 1 to 256 entries: `GdtInv` and
`IdtInv` say what has been filled in at each step; the lemmas read fields back from bytes.

**Console**, for any buffer, message lengths, levels, registers, frames and builds.
Panics nest to any depth.
`SizesAssumption` has a log line's prefix and a panic's line fit the buffer, as the
source's do; `RegistersAssumption` gives each register a line of its own text. The
invariant is `Types /\ Order /\ Alike`.

- `Types`: only characters of messages that fit are on a device, and the frame on top is
  at a character its message has. This is `NoGarbage`.
- `Order`: of the frame on top, `Got` characters of its first message are on each device,
  and the last one there is the last of these; the messages to come are distinct and new to
  the device and of this activation, to which none of those below comes back; if the
  frame has written nothing of its message yet, the device ends with a whole message or
  with one, of a frame below, that the panic cut short. That messages are new is what `InOrder` needs of the
  calls that are to come; it rests on call numbers, and for the panic on its lines being
  distinct (`ReportFacts`).
- `Alike`, while no panic prints: the prints left are the end of a log line or a text
  (`Shape`); for a build that mirrors, which device is ahead, of what message and by how
  much (`Synced`); a call's kind is shown before its reset, and both or neither once it is
  done (`Coloured`); without the mirror nothing goes to the port.

**Tar**, for blocks, words, archives, contents and buffers of any size. `ArchivesAssumption`
says how the `tar` command lays an archive out, that a size has no more digits than its
field and is two blocks less than a `uint32_t` can count at least: above that the step to
the next header overflows. The invariant says that the walk is at the header of the k-th
entry, or where it would be, and what has been passed and logged (`WalkedTo`). `OctalRead`:
`octal_to_decimal` reads the number the field was made of. That the two recursions it is
about have values, and that these agree, is an induction over the digits, done by the least
digit where it fails (`LeastNumber`). `StepOver`: the step does not overflow and rounds up;
`HeaderInImage`, `PartInImage`, `ZeroInImage`: what each block of the image reads as;
`TextOfFile`: where the first NUL behind a file's first byte is.

**Memory**, for memories and areas of any size, bytes with any set of values that has NUL
(`BytesAssumption`, `CharsAssumption`): `Static` says the call is legal, `Loop` what the
memory is at each iteration of each loop: as found, but for what is wanted between two
addresses. Where a string ends is a least element, for which `Least` takes the
well-founded order of finite sets from the library.

**CString**, for strings of any length of bytes 1 to 255. The invariant `CallInv` has what a
loop knows at each iteration: in a comparison (`InCompare`) the bytes up to here are the
same and none is a NUL; in a search (`InSearch`) what was passed is not what is looked for,
or, for `strrchr`, the last of it is remembered (`Latest`); and a call that is back found
what it was called for (`Finds`). Where a comparison ends (`Stops`) the strings have agreed
so far, and there the first one ends or they differ, from which the lemmas have the order
of the C library, and for `strstr` that what is left of the haystack is the needle or is
not. That `strstr` may pass an index where the first byte is not the needle's is another.

**Serial**, for FIFOs of any size, any remote end but one that sends the test byte:
`Registers` gives the device's registers after each write of the constructor, `Fifos` which
bytes may be in the FIFOs between the reset and the loopback test, `Calls` what the driver
knows at each step of a call. `PortIsLine` maps steps to steps of `SerialLine`.

**MathUtils**, for operands of any width and bitmaps of any size that a number of that width
counts. The macros mask bits, and what they are to return is arithmetic: `MaskBits` says
which bits 2^k - 1 has, `HighBits` that the sum of a number's bits from k on is the number
without its remainder by 2^k, both by induction over the width. The induction over the
numbers is by the least number that is not in a set (`LeastNumber`, `AllNumbers`), and
`Recursion` gives a recursive function the values its definition says, again for the least
number where it would not. `BitAdded` says that adding or taking away the one power of two a
byte lacks or has changes that bit and no other, byte values being split at the bit by
`Division`. The bitmap's invariant is its type: `BitmapIsSet` is about each step alone.

**Format**, for integer types of any width (`WidthsAssumption`: each at least a bit and as
wide as the one before; `CbufAssumption`: the size of `cbuf`), any set of characters that
has those of the specifications, and formats of any number of pieces that are texts or
conversions C defines, with any widths, precisions and arguments (`FormatsAssumption`).
The invariant (`FormatInv`, `Reached`) says where the loop is: some pieces have been done
and, in a text, some characters of the next; the arguments left are those of the other
pieces, and what has been put is what C prints of the pieces and characters done, unless a
flag 0 meets a negative star. `Conforms` is about the end of the format only and says
nothing of the way there, so the invariant has all of it. A turn at a conversion is three
lemmas: `PieceParsed`, the parser reads from the text of a conversion, wherever it is in a
format and whatever comes behind it, the flags, width, precision, length and conversion it
was made of; `StarsTaken`, the stars take their own arguments and leave the conversion's in
front; `LayoutIs`, the characters put are C's. The last rests on `NumeralIs`, by induction
over the number: the remainders that `npf_utoa_rev` leaves last to first are, reversed, the
numeral C defines first to last; and on `DigitsAre`, which goes through precision,
suppressed zero and the octal zero. `RestsEnd` divides 2^`LongBits` by 8 until nothing is
left, from which `cbuf` is large enough with the octal zero (`CbufFits`); `StringIs` finds
the end of a string without a read behind its precision. In a text, `IsText` says that no
`%` begins a specification, and the turn puts the character (`AtText`).

**Model-checked only.** Liveness, which needs fairness and `ENABLED`: `ComesToRest`,
`BootCompletes`, `NullReported`, `MainResumes`, `PanicShown`, `WalkEnds`, `Returns`, `CallsReturn`, and the
fairness half of `IsLine`. Where a recursion has to be reasoned about for all inputs, the
library's induction theorems cannot be used and the modules bring their own, by the least
number where a claim would fail (`LeastNumber`, `AllNumbers`, `Recursion`).

## 6. Not modelled

The text of messages and their colours; what exactly a logger's wrappers print of the
`va_list` they misuse; the 16 and 32 bit port instructions, which nobody calls; the PMM's
stubs, which have no state and no caller; the capture of names by the macros of
`math_utils.hpp`, which is of the text of a call; `descriptor_ex_t`, `seif.h`, unused;
what compilers do with the frame that `excp_handler` receives by value and with a stack
aligned by 8; the boot loader, flanterm and the `tar` command, which are modelled from how
the code uses them; page tables and privilege levels, which the kernel does not touch;
other CPUs, never started.
