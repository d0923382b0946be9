-------------------------------- MODULE Tar ---------------------------------
(***************************************************************************)
(* tar.cpp: get_file_tar and list_dir_tar walk the ramfs image the boot    *)
(* loader left in memory, from header to header; and _start, which prints  *)
(* the file it gets as a string.  Memory is a sequence of blocks, each     *)
(* with what a tar_header laid over it reads and the number of bytes before*)
(* its first NUL.  A pointer is a byte offset into the image; the size     *)
(* field and the step to the next header are computed modulo Word, 2^32 in *)
(* the code (uint32_t).                                                    *)
(***************************************************************************)
EXTENDS Integers, Sequences

CONSTANTS
  Block,    \* TAR_BLOCK_SIZE
  Word,     \* numbers of a uint32_t
  Digits,   \* digits of a size field
  PrintBuf, \* kprintf's sizeof(buffer)
  NameLen,  \* length of a name
  Names,    \* names of files and directories
  NoName,   \* a name that starts with NUL
  Archives, \* what the tar command archived: sequences of entries
  Contents  \* what the block of a file reads as, taken for a header

ASSUME BlockAssumption == Block \in Nat \ {0} /\ Word \in Nat \ {0} /\ Digits \in Nat
ASSUME TextAssumption == NameLen \in 1 .. Block - 1 /\ PrintBuf \in Nat \ {0}
ASSUME NoNameAssumption == NoName \notin Names

(* What the tar command archived: the size of a file or directory, and the *)
(* block of the image its header is in.                                    *)
Entry == [name : Names, size : Nat, dir : BOOLEAN, at : Nat]

VARIABLES
  archive, \* what was archived
  image,   \* the blocks in memory
  mode,    \* "get" in get_file_tar, "list" in list_dir_tar
  path,    \* of get_file_tar
  ptr,     \* offset of the header the loop is at
  listed,  \* lines list_dir_tar logged
  result,  \* NotYet, Nothing, or the File returned
  printed  \* what printf was handed, and how much of it came out

walk == <<archive, image, mode, path, ptr, listed>>
vars == <<walk, result, printed>>

NotYet  == [status |-> "running"]
Nothing == [status |-> "none"]
Unprinted == [text |-> 0, shown |-> 0]

-----------------------------------------------------------------------------
(* The image the tar command writes.                                       *)

CeilDiv(a, b) == (a + b - 1) \div b

(* A number, divided by eight as often as one may look at it.              *)
Eighths(n) == LET q[k \in 0 .. Digits] == IF k = 0 THEN n ELSE q[k - 1] \div 8 IN q

(* The digits of a size field, most significant first.                     *)
OctalDigits(n) == [i \in 1 .. Digits |-> Eighths(n)[Digits - i] % 8]

(* The block of the k-th header: behind the contents of the one before.    *)
HeaderBlock(a, k) == IF k = 1 THEN 0 ELSE a[k - 1].at + 1 + CeilDiv(a[k - 1].size, Block)

(* A size has no more digits than its field, and the rounding of it and the*)
(* step over it do not overflow: 1 KiB less than 4 GiB are enough.         *)
ASSUME ArchivesAssumption ==
  \A a \in Archives :
    /\ a \in Seq(Entry)
    /\ \A k \in 1 .. Len(a) : /\ a[k].at = HeaderBlock(a, k)
                              /\ Eighths(a[k].size)[Digits] = 0
                              /\ a[k].size + 2 * Block <= Word
ASSUME ContentsAssumption == \A c \in Contents : c.text \in 0 .. Block

Header(e) == [name |-> e.name, size |-> OctalDigits(e.size), dir |-> e.dir, text |-> NameLen]
Zero      == [name |-> NoName, size |-> <<>>, dir |-> FALSE, text |-> 0]

Least(m, n) == IF m < n THEN m ELSE n

(* A block of contents, padded with NULs behind the last of them.          *)
Part(c, left) ==
  [name |-> c.name, size |-> c.size, dir |-> c.dir, text |-> Least(c.text, left)]

(* Block i of the image, the entry it belongs to, and the first blocks of  *)
(* the image.                                                              *)
EntryOf(a, i) ==
  CHOOSE k \in 1 .. Len(a) : HeaderBlock(a, k) <= i /\ i < HeaderBlock(a, k + 1)
BlockOf(a, c, i) ==
  LET e == a[EntryOf(a, i)]
  IN  IF i >= HeaderBlock(a, Len(a) + 1) THEN Zero
      ELSE IF i = e.at THEN Header(e) ELSE Part(c, e.size - Block * (i - e.at - 1))
Image(a, c, n) == [i \in 1 .. n |-> BlockOf(a, c, i - 1)]

(* Where in the image the header of the k-th entry is.                     *)
HeaderAt(k) == Block * HeaderBlock(archive, k)

-----------------------------------------------------------------------------
End     == Block * Len(image)
HeaderOf(p) == image[p \div Block + 1]

\* Mutant: the number is read as decimal.
OctalAsDecimal(digits) ==
  LET r[i \in 0 .. Len(digits)] == IF i = 0 THEN 0 ELSE (r[i - 1] * 10 + digits[i]) % Word
  IN  r[Len(digits)]

(* octal_to_decimal: result = (result << 3) + digit, in a uint32_t.        *)
octal_to_decimal(digits) ==
  LET r[i \in 0 .. Len(digits)] == IF i = 0 THEN 0 ELSE (r[i - 1] * 8 + digits[i]) % Word
  IN  r[Len(digits)]

\* Mutant: the contents are not rounded up to a block.
AdvanceNotRounded(size) == (Block + (size \div Block) * Block) % Word

\* Mutant: the header's own block is not counted.
AdvanceWithoutHeader(size) == (CeilDiv(size, Block) * Block) % Word

(* TAR_BLOCK_SIZE + ((file_size + TAR_BLOCK_SIZE - 1) / TAR_BLOCK_SIZE)    *)
(* * TAR_BLOCK_SIZE, every operation in a uint32_t.                        *)
Advance(size) ==
  (Block + (((size + Block - 1) % Word) \div Block) * Block) % Word

(* What the loop finds at ptr.                                             *)
AtHeader == ptr < End /\ HeaderOf(ptr).name # NoName
Here     == HeaderOf(ptr)
Size     == octal_to_decimal(Here.size)

Return(r) == result' = r /\ UNCHANGED <<walk, printed>>

\* Mutant: data is where the header is.
FoundAtHeader ==
  /\ result = NotYet /\ mode = "get" /\ AtHeader /\ Here.name = path
  /\ Return([status |-> "file", name |-> path, size |-> Size, data |-> ptr,
             is_directory |-> Here.dir])

(* strcmp(header->name, path) == 0: the File, its data behind the header.  *)
Found ==
  /\ result = NotYet /\ mode = "get" /\ AtHeader /\ Here.name = path
  /\ Return([status |-> "file", name |-> path, size |-> Size, data |-> ptr + Block,
             is_directory |-> Here.dir])

(* On to the next header.                                                  *)
Skip ==
  /\ result = NotYet /\ AtHeader /\ (mode = "get" => Here.name # path)
  /\ ptr' = ptr + Advance(Size)
  /\ listed' = IF mode = "list" /\ Here.dir THEN Append(listed, [dir |-> Here.name])
               ELSE IF mode = "list" THEN Append(listed, [file |-> Here.name, size |-> Size])
               ELSE listed
  /\ UNCHANGED <<archive, image, mode, path, result, printed>>

(* Past the last byte, or at a header without a name: the end marker.      *)
GiveUp == result = NotYet /\ ~AtHeader /\ Return(Nothing)

(* The bytes before the first NUL at or behind p: whole blocks, and part   *)
(* of one.  Where the image has none, it is for what lies behind to end it:*)
(* at least the bytes to its end.                                          *)
Strlen(p) ==
  LET first == p \div Block + 1
      ends  == {j \in first .. Len(image) : image[j].text < Block}
  IN  IF ends = {} THEN End - p
      ELSE LET last == CHOOSE j \in ends : \A l \in ends : j <= l
           IN  (last - first) * Block + image[last].text

\* Mutant: what fits is printed of a text that does not.
PrintMsgCut ==
  /\ result.status = "file" /\ printed = Unprinted
  /\ printed' = [text |-> Strlen(result.data), shown |-> Least(Strlen(result.data) + 1, PrintBuf - 1)]
  /\ UNCHANGED <<walk, result>>

(* printf("%s\n", msg.data): what does not leave room for the NUL is       *)
(* dropped.  (Without a file the data is NULL, see Boot.)                  *)
PrintMsg ==
  /\ result.status = "file" /\ printed = Unprinted
  /\ LET n == Strlen(result.data) IN
       printed' = [text |-> n, shown |-> IF n + 1 < PrintBuf THEN n + 1 ELSE 0]
  /\ UNCHANGED <<walk, result>>

(* The image ends with the archive's zero blocks, or was cut short at some *)
(* block.                                                                  *)
Init ==
  /\ archive \in Archives /\ mode \in {"get", "list"}
  /\ path \in IF mode = "get" THEN Names ELSE {NoName}
  /\ \E c \in Contents, n \in 0 .. HeaderBlock(archive, Len(archive) + 1) + 2 :
       image = Image(archive, c, n)
  /\ ptr = 0 /\ listed = <<>> /\ result = NotYet /\ printed = Unprinted

Next == Found \/ Skip \/ GiveUp \/ PrintMsg

Spec == Init /\ [][Next]_vars /\ WF_vars(Next)

-----------------------------------------------------------------------------
(* Properties.                                                             *)

(* The loop lays a tar_header over headers only: never over the contents   *)
(* of a file, whatever they are, and never over bytes behind the image.    *)
OnlyHeaders ==
  result = NotYet /\ ptr < End =>
    /\ ptr + Block <= End
    /\ \E k \in 1 .. Len(archive) + 1 : ptr = HeaderAt(k)

(* get_file_tar returns the first entry of that name, with its own size    *)
(* and contents, or nothing when no header of the image has the name.      *)
Matches(k) == archive[k].name = path /\ HeaderAt(k) < End
FoundRight ==
  /\ result.status = "file" =>
       \E k \in 1 .. Len(archive) :
         /\ Matches(k) /\ \A j \in 1 .. k - 1 : ~Matches(j)
         /\ result.size = archive[k].size
         /\ result.data = HeaderAt(k) + Block
         /\ result.is_directory = archive[k].dir
  /\ result = Nothing /\ mode = "get" => \A k \in 1 .. Len(archive) : ~Matches(k)

(* list_dir_tar logs every entry whose header is in the image, once and in *)
(* order.                                                                  *)
Line(e) == IF e.dir THEN [dir |-> e.name] ELSE [file |-> e.name, size |-> e.size]
ListedAll ==
  mode = "list" /\ result = Nothing =>
    /\ listed = [k \in 1 .. Len(listed) |-> Line(archive[k])]
    /\ \A k \in 1 .. Len(archive) : HeaderAt(k) < End <=> k <= Len(listed)

(* Of an archive that is complete, the text shown of a file without NULs   *)
(* is the file: all of it or nothing, and nothing behind it but, if its    *)
(* size is a multiple of a block, the name of the entry that follows.  Of  *)
(* no file of such an archive does it reach over the end of the image.     *)
Complete == Len(image) = HeaderBlock(archive, Len(archive) + 1) + 2
Followed(k) == k < Len(archive) /\ archive[k].size % Block = 0
TextShown ==
  Complete /\ printed # Unprinted =>
    /\ result.data + printed.text < End
    /\ \E k \in 1 .. Len(archive) :
         /\ Matches(k) /\ result.data = HeaderAt(k) + Block
         /\ LET n == archive[k].size + IF Followed(k) THEN NameLen ELSE 0 IN
              /\ printed.text <= n
              /\ image[HeaderAt(k) \div Block + 2].text = Least(Block, archive[k].size) /\ archive[k].size > 0 =>
                   printed.text = n /\ printed.shown = IF n + 1 < PrintBuf THEN n + 1 ELSE 0

(* The walk comes to its end on every archive smaller than a uint32_t can  *)
(* count.                                                                  *)
WalkEnds == <>(result # NotYet)

=============================================================================
