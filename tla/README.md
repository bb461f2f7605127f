# A TLA+ model of VibeKernel-x86

VibeKernel-x86 is a small 32-bit kernel: a shell on keyboard and screen, a heap,
paging, a read-only FAT16 file system on two ATA drives, and the loading of raw
and ELF programs. This directory holds TLA+ models of its core, TLC
configurations that check them, and TLAPS proofs about eight of them. Every
definition was translated from the C and assembly code; `PROJECT.json` names the
lines (`map`). Paths below are relative to the kernel's source directory.

## 1. The system

| Part | State | Operations | What is hard |
|---|---|---|---|
| heap (`memory/heap/kheap.c`) | `placement_address`, linked list of headers from `global_base` | `kmalloc`, `kmalloc_a`, `kfree` | page alignment arithmetic, a list that is cut, no limit |
| keyboard (`drivers/keyboard.c`, `ps2.c`) | ring buffer, shift flag | interrupt handler, `keyboard_getc` | the handler runs between any two instructions of the reader |
| interrupts (`cpu/isr.c`, `interrupt.asm`) | `interrupt_handlers`, PIC masks | `isr_install`, `irq_handler` | order of enabling and registering; acknowledgement without reading |
| FAT16 (`fs/fat16.c`) | file cursor and cluster cache per descriptor; `fs_private` per disk | `fat16_resolve`, open, list, read, seek | a cache kept across seeks and disk errors; a volume mounted anew under open files |
| descriptors (`fs/file.c`) | table of 512 slots | `fopen`, `fread`, `fseek`, `fclose`, `fs_list` | slots and objects on error paths |
| disk stream, ATA (`drivers/disk_stream.c`, `ata.c`) | position; the registers of the channel | seek, read; `ata_read_sector` | the drive works on its own; polls give up; two drives share the registers |
| loading (`task/process.c`, `loader/elf.c`) | list of processes | `process_load`, `elf_load` | many failing steps, each with its own clean-up |
| tasks, paging (`task/task.c`, `memory/paging/paging.c`) | tasks, page directories and tables | `task_new`, `task_switch`, `paging_new_4gb`, `paging_set` | heap blocks as pages; identity mapping of blocks that do not start a page |
| shell (`kernel/kernel.c`, `command.c`) | line buffer, command table | line editor, tokenizer, handlers | bounds of line, arguments and table |
| screen (`drivers/screen.c`) | video memory, cursor | `print_string`, `clear_screen` | a cursor that leaves the screen |
| path parser, strings | - | pure algorithms | boundaries, upper and lower case |
| boot, GDT/TSS, serial, ports, panic | tables written once | - | order of initialisation |

The shell is the only thread: it calls `keyboard_getc` and runs a command to its
end. A command calls the loader, which calls the descriptor table, FAT16, the
disk stream and the ATA driver in turn, and takes all its memory from the heap.
Only the keyboard interrupt runs beside it; disks are polled. `run` ends in the
program and never comes back.

## 2. Modules

`KHeap` models the allocator over real addresses, one step per call. `chain` is
the list as a sequence, `block` the headers ever written, `held` the client's
pointers. `Grow`, `Refuse` and `Reuse` are the outcomes of `kmalloc_int`: nothing
fits; the first fit does not start a page (`last` then is in the middle of the
list, and the new block is linked over its tail); the first fit is taken. The
owner of a region may write to all of it (`use`). Sizes are any natural numbers.
Page alignment can put a new header on the block below, in a small one on its
header too; whether any byte of a header was written over, by a header or by an
owner (`Damages`), is `intact`, and the heap is followed up to there: what the
walk of the list does next depends on the bytes that landed in its fields.
`HeapContract` is the allocator a caller expects: fresh regions, disjoint from
those in use and aligned as asked.

`Keyboard` models the controller, the interrupt controller, the interrupt path
as one step, and the main program from boot to the shell, split where an
interrupt can come in: between the test of the ring and the `hlt`, and between
the read of the slot and the write of `buffer_tail` (the code is compiled without
optimisation and reloads both indices). `KeyQueue` is the bounded FIFO queue it
should be.

`FatFile` models `fat16_read`, split at each disk access, and `fat16_seek`. A
byte is named by its place on the disk, so that a wrong byte is told from a right
one. `Faults` says which disk reads may fail. `FileStream` is the plain stream a
reader expects: a read is asked for a number of bytes (`asked`) and delivers that
many, or all that are left, or fewer if the disk failed during that very read.

`Ata` models `diskstream_read` over `ata_read_sector`, split at the register
accesses, and two drives that answer when they like, also after the driver gave
up. `owing` is a history variable: per drive, the sector of a command that the
driver gave up on and has not asked the drive about since. A drive ends a command
with a sector, with an error, or with neither, which the driver's second poll
times out on. That a drive with a sector on offer ignores a new command is the
behaviour of the hardware.
`SectorDisk` is what this promises to a caller: a read fails, gives the sector, or
gives the sector still owed, once.

`FileSystem` reads whole volumes through that disk (it uses `Gives` of
`SectorDisk`, so it sees exactly the failures and late answers that `Ata` is shown
to have). A step is one sector read with what is computed from it: the boot sector
in `fat16_resolve`, an item in a search or a list, a FAT entry, a cluster. A sector
is a record of what its bytes are when read as each of these, so that a read at
the wrong place, or of a late sector, gives something definite. `Tree` is what the
sectors stand for; the properties speak about it only. Files there have one
cluster: the chains of longer ones are `FatFile`'s. `Directories` names the
clusters of each drive that hold directories, and `VolumeAssumption` says what a
consistent volume is: only sector 0 reads as a boot sector, items in use lead to a
directory or to the block of a file, chains of directories stay in directories. `Paths` holds the path parser
and the comparison of names, as operators on sequences of characters.

`Shell` is the loop at the end of `main` and `command_run`, one step per character
or command, on the `Screen`: cells from the video memory on, also behind its last
row, and a cursor. Its input is any character, which is what `KeyQueue` delivers.
`LineEditor` is what it promises: a line, an erase, and the words of a line run by
a new line.

`Loader` models one `run` command at a time over the descriptor table; any file
access may fail. `FileHeap` is what `fopen`, `fs_list` and `fclose` ask of the heap:
each `kmalloc` and `kfree` of the path parser, the disk stream, `fat16_resolve`,
`fat16_open` and the descriptor table, in order and in the real sizes, with every
early return; `own` names the pointers that may still be given back, `Depths` the
numbers of names in a path. It extends `KHeap`, so that the proofs about the heap
hold in it. `AddressSpace` extends `FileHeap` with the commands: `ls`, and `run`
through `process_load`, `elf_load`, `paging_new_4gb`, `paging_set` and `task_init`,
one heap call a step, at the real start of the heap. `table` is the page directory
(index to table address), `user` the pages the program may use. The page of the
screen is mapped with the page directory, for a raw program a little earlier than
in the code, which no step can tell.

`*Proofs` modules hold the theorems about the module they are named for.

`MC*` modules give the constants of the configurations. A definition under a
comment that begins with "Slip" is a plausible wrong version of the next one;
putting it in the place of that definition makes the property named in
`PROJECT.json` (`mutants`) fail.

## 3. What is checked

| Run | Shows |
|---|---|
| `kheap` | with requests of 4 and 8 bytes and of pages, owners filling what they got: only an overlap of two blocks can overwrite a header (`IntactUnlessOverlap`); until then pointers in use are backed and exclusive (`HeldOwned`) and the heap implements `HeapContract` (`Implements`), overlapping blocks included; blocks leave the list only when a page is asked for and an unaligned block would have fitted (`CutOnlyByRefusal`), and then for good (`LostForGood`) |
| `keyboard` | `ImplementsQueue`, `AcceptsWhileRoom`: every character once, in order, dropped only when the ring is full; `HandlerNeverSpins`; `NoWedgeAfterInit`: only a key between `sti` and `keyboard_init` can silence the keyboard; `ReadIfTypingGoesOn` |
| `keyboard_sleep` | violated: the shell may sleep on a character that is in the ring |
| `fatfile` | `ImplementsStream` under failing skips and data reads: what is asked for, or all that is left; `CacheCoherent`; `ReadReturns` |
| `fat_poison` | violated: a failed FAT read at a cluster boundary poisons the cache, and a later read delivers foreign bytes |
| `ata` | `ImplementsDisk`: `ata_read_sector` is the disk of `SectorDisk`, so an answer that comes late spoils the next read of that drive and no other, and every read returns; `StreamIsDisk`: a call of `diskstream_read` delivers the right bytes, but for a first sector that came late, and moves the stream over them or not at all; `OnlySelectedBusy`: waiting on the drive selected last is enough |
| `loader` | `UsesItsDescriptor`; `DescriptorsBalanced` (only a failed raw read keeps a slot, and a FAT descriptor is without one only when the table was full before the command); `ExhaustedForGood`; `StartedIsComplete` (page-aligned segments) |
| `address_space` | `ImageMapped`; `ImageIntact` (except for a copy that ends within 15 bytes below a page boundary: the next page table's header overwrites its end); `TablesPrivate`. The frontier does move back where it is within 15 bytes below a page boundary: a header overlaps the block below by less than a header (`OverlapBounded`), but no header is ever overwritten, by a header or by what an owner writes (`HeadersIntact`); the refusals that cut the list happen (the freed buffers of the path parser fit a small raw program and do not start a page), and it stays ordered (`ChainIncreasing`) |
| `filesystem` | `OpenFindsTheFile`: a path opens the file it names or none, whatever fails and whatever comes late; `ReadIsRight`: an open file stays readable although every `fopen` and `ls` replaces the boot sector of its drive; `ListShowsDirectory`; `FailsOnlyForCause`; `CallReturns` |
| `shell` | `EchoShowsLine`: behind the prompt the cells of the screen show the line in the buffer, as far as the screen goes; `ImplementsEditor`: what runs is the words of the edited line |
| `stack_top` | violated: the top of the user stack is not mapped |
| `stack_safe` | violated: a failed load and a second command take the heap over the stack of `main` |

More observations that the models bring out:

- After a time-out the next read of the drive returns the sector of the command
  before, as a success. `fopen` and `ls` are safe from it because each reads the
  boot sector anew (`fat16.c:361`) and refuses what does not look like one: with
  a boot sector kept from the last mount, `OpenFindsTheFile` is violated (this is
  its mutant). `fread` has no such protection, hence `owed` in `ReadIsRight`.
- `ls` takes a failed read for the end of the items, goes on with the FAT entry of
  the cluster and returns 0: hence `faults' = 0` in `ListShowsDirectory`. It goes
  on behind an end mark too. Volume labels are listed, and opened, like files.
- A doubled slash ends a path and the rest is dropped (`path_parser.c:36`). The
  parser of `Paths` does so; what a path names is stated by `PartsOf`, the non-empty
  pieces between slashes, and the properties leave out texts where an empty piece
  stands before another one (`SingleSlashes`), since no part of the repository says
  what these mean.
- `screen.c:84` says the cursor wraps; it neither wraps nor scrolls. `Screen` lets
  it run off as the code does, and `EchoShowsLine` says nothing of the cells there.
- A header that lands on the block below may hit more than padding. An `ls` of a
  path of 14 names and four of one name bring the frontier to where the page
  directory of the next `run` of an ELF file has its header on the last 8 bytes of
  the newest `fat_private`: its `stream` pointer, of the volume the load reads from
  (`fat16.h:72`). TLC finds this in `AddressSpace` with `Depths = {1, 14}`.
- `isr.c:128` says the timer is unmasked, but 0xFD masks it, so
  `ReadIfTypingGoesOn` needs further keys as its premise.
- `elf_load` starts a program whose segment is not page aligned without that
  segment.

### Bounds

- `KHeap`: 4 blocks. A cut, a lost tail, a reuse and an overlap each need at most
  three. Sizes: the smallest requests of the kernel, 4 and 8 bytes, and a page. The
  start is 12 bytes past a multiple of 16, as in the built kernel, and 52 bytes
  below a page boundary, so that overlaps, also on the header of a small block,
  happen at once; `AddressSpace` has the built kernel's start and all its sizes.
- `Keyboard`: a ring of 3 slots wraps, fills and drops; 2 scancodes wait in the
  controller, so its line is raised again; one letter, one key without character,
  one shift key.
- `FatFile`: 3 clusters of 3 bytes, out of disk order, the last one not full, and
  a cluster of another file; all seeks, all read lengths.
- `Ata`: 2 drives of 2 sectors of 2 bytes; a read spans both sectors.
- `Loader`: 2 slots, 5 commands: the table fills and is tried again; a raw and an
  ELF program, the latter with one aligned and one unaligned segment.
- `FileSystem`: 2 drives of 9 sectors, a sector holding 2 items or 8 FAT entries.
  Drive 0 has clusters of two sectors, a full root directory and a directory with
  room left; drive 1 has two FAT copies, a root directory that fills its second
  sector half, a free item, and a directory of two clusters that are not
  neighbours. 10 texts: both cases, "..", a doubled and a last slash, a name one
  character too long, no such drive, no drive; 3 modes; 2 slots; 2 failed reads
  within a call, enough for a time-out and a failure behind it.
- `Shell`: a screen of 2 rows of 3 columns, a line of 5 characters, 2 words: the
  line fills, crosses rows and, asked for on the last row (`LastPrompt`), leaves the
  screen. `Memory` leaves room behind it, which the module's assumption states.
- `AddressSpace`: real start and sizes, 16 tables, 3 commands of `ls` and `run`,
  each of a path of one name or none; an ELF program with an unaligned segment, a
  raw program that ends 6 bytes below a page boundary, and one of 200 bytes, which
  a freed buffer of the path parser would hold, so that the request is refused.
  Blocks overlap and the list is cut within these bounds. The two violations need
  2 commands and a program whose pages need two page tables of their own.
  `MaxBlocks` is above what the commands ever take.

Deadlock is not checked where the model may stop: the heap at its bound of blocks,
the loaders once a program runs, the shell behind its last prompt.

### Fairness

`Keyboard`: the main program keeps executing, and an interrupt that stays
requested, unmasked and enabled is taken; keys and timer ticks are not forced.
`FatFile`: a call that began is carried on, because nothing else runs. `Ata`: the
driver's loops run, and a busy drive is done some time; without this a wait
without limit (`ata.c:27`) need not end. It implies the fairness of `SectorDisk`:
every read returns. `FileSystem`: a call that began is carried on, which rests on
that. `KHeap`, `Loader`, `AddressSpace` and `Shell` have safety properties only;
the shell waits for keys that nobody has to press.

## 4. What is proved

The theorems hold for every value of the constants that satisfies the named
assumptions of the modules, which TLC evaluates in the runs. Each module states an
inductive invariant, checked by TLC first, with one lemma per action; what follows
says what each part of the invariant is for.

**Heap** (`KHeapProofs`). `Inv == TypeOK /\ OverlapBounded /\ Owned /\ Increasing`,
for any start and any sizes. The point is that a new header lies above every old
one even when the frontier moves back: `AlignUpFacts` shows it moves by at most 15
bytes, and `OverlapBounded` that every block ends at or below the frontier, so a
header (16 bytes) is never passed. From that, order of the list and exclusiveness
of pointers follow: `TypeCorrect`, `OverlapIsBounded`, `HeldIsOwned`,
`ListIsIncreasing`. The same fact (`CarvedIsNew`) makes a lost block stay lost,
because no new block gets its address: `LostBlocksStayLost`; `ListIsCutByRefusal`
says when it gets lost. `ContractImplemented`: the allocator refines `HeapContract`;
regions in use stay disjoint although blocks overlap, because a payload lies above
its own header and `OverlapBounded` keeps the block below short of it. All this is
about the heap while its headers are intact; `OnlyOverlapDamages` says what it takes
to end that: a block that reaches into the next one. No writing of an owner into
room that first fit gave it does.

**Keyboard** (`KeyboardProofs`). `Inv == TypeOK /\ GetcInv /\ HandlerNeverSpins`,
where `GetcInv` says what `keyboard_getc` knows after its loop whatever the handler
does meanwhile: the ring is not empty, and after the read `c` is its oldest
character. Theorems: `TypeCorrect`, `NeverSpins`; `RingIsQueue`: for every ring
size, the ring under interrupts refines the queue of `KeyQueue`, as each action
appends one character, takes one off, or leaves the queue alone (`PushFacts`,
`AdvanceFacts`); `AcceptsCharacters`; and `NoWedge`, for which `OnlyHandlerReads`
shows that nobody but the handler takes a scancode out of the controller, and
`BootsOnce` that the handler is never taken away.

**Driver and stream** (`AtaProofs`). `Busy`: only the drive selected is busy, and
what the driver has read of its status still holds when it uses it. `Owing`: a
drive that offers a sector works for the call in progress or owes one. `Place`: the
bytes copied end where the next sector begins. `First`, `Copied`: only the first
sector of a call can be late. Theorems: `TypeCorrect`, `OnlySelectedIsBusy`,
`StreamDelivers` (`StreamIsDisk`), and `DiskImplemented`: the driver implements
`Safety` of `SectorDisk`, the specification that `FileSystem` reads through,
without its fairness.

**Files** (`FatFileProofs`). `Request`, `Search`, `Loop` say where in the chain
`current_cluster` is at each step; a chain without duplicates makes the place in
the chain unique. `TypeCorrect` holds whichever reads fail. The other theorems assume
`"advance" \notin Faults`: with a FAT read that fails at a cluster boundary they are
false, which is what `fat_poison` shows. Theorems: `TypeCorrect`, `CacheIsCoherent`, `CopiesTheFile` (`OutIsFile`, violated in
`fat_poison`), and `StreamImplemented`: reading through the cache refines
`FileStream`, under failing skips and data reads, each call delivering what it was
asked for or all that is left.

**File system** (`FileSystemProofs`). `Mounted`: whatever `fat16_resolve` puts in
`fs_private` is the boot sector of that very drive, although the sector it read may
have been a late one - `VolumeAssumption` is used here: a late sector that is not
sector 0 is refused, and sector 0 is the right answer. `Search`: during a search
the drive owes nothing, since the read of the boot sector took what was late, and
the cluster searched is one of a directory. `Opened`: so an open descriptor leads
to the block of a file. Theorems: `TypeCorrect`, `ReadsTheFileOpened`
(`ReadIsRight`).

**Loader** (`LoaderProofs`). `Table` says which descriptors a command holds at each
of its steps, `Building` what the process in construction has got. Theorems:
`TypeCorrect`, `OwnDescriptor`, `Balanced`, `StartsComplete`, `ExhaustionIsFinal`, for
any table size and any segments. `Balanced` rests on `Slotted`: the count of FAT
descriptors differs from that of slots in use only if the table was full before
the command.

**Address space** (`AddressSpaceProofs`). `SpaceInv` adds to the heap's `Inv` that
directories, tables, stacks and images are pointers in use (`Tables`, `Stacks`,
`Images`), that a page a program may use meets its image, its stack or the screen
(`UserOwned`), and that the blocks a file operation may still give back are in use
and none of these, each given back once (`OwnApart`). A step of a file operation
takes a pointer into use or gives one of its own back (`FileStep`, `FileFacts`), so
the rest stays (`FilePreserves`). Theorems, for any paths, programs and number of
commands: `SpaceTypeCorrect` as long as the heap is below 4 GB;
`SpaceOverlapIsBounded`, `SpaceListIsIncreasing`, `ProgramIsIntact`;
`TablesArePrivate` as long as the heap is below the page of the screen (where a
table would be the screen); `ProgramIsMapped` if no two segments of a program share
a page (`SegmentsApart`; the later one would win).

**Shell** (`ShellProofs`). `Inv == Typed /\ Edited`, where `Typed` says that the
screen is blank from the cursor on (`Tidy`) and that the buffer ends in a NUL, and
`Edited` that a line starts where it has room. Most of the work is that a text
without backspaces leaves the screen tidy (`CharPrinted`, `Printing`), and that
`command_run` prints no other: neither a word cut out of the buffer in place
(`Parsing`, `TextRead`) nor the words put together again (`JoinedIsPlain`).
Theorem: `ShowsTheLine` (`EchoShowsLine`), of the cells on the screen. `EditorImplemented` (`ImplementsEditor`)
relates the parsing in place to the words of `LineEditor`, which counts the starts
of words in a text. `Scanned` is the loop invariant: the words taken are the first
that start in the text (`Counted`, `InOrder`), one that is over ends in a NUL
(`Ended`), the last may go on (`GoesOn`, `Where`), and only spaces were replaced
(`Replaced`); from it, each word reaches to its next space (`WordOfLine`) and is the
one with its number (`NthIsUnique`). `Written` (no NUL in the line) makes the line
that `command_run` finds the one that was edited.

The loops of `print_string`, `command_run` and `echo` are recursive functions. The
induction theorems of the library are out of the provers' reach, so `UpTo` of
`ShellProofs` derives induction up to a number from the least counterexample
(`WFMin`), and `Loop` that such a function exists.

Only model-checked:

- liveness, which the provers do not reach: `ReadReturns`, `CallReturns`,
  `ReadIfTypingGoesOn`, and the fairness in `ImplementsDisk`;
- `HeadersIntact`: whether a header is ever hit depends on the very addresses that
  the kernel's start and sizes lead to, and is false for others (`kheap` has them);
- `OpenFindsTheFile`, `ListShowsDirectory`, `FailsOnlyForCause`: they compare a
  search with the recursive walk of a path down `Tree`, and the parser is a fold
  over the text.

## 5. Not modelled

Boot sectors, descriptor tables, serial port and panic (fixed data or plain
output). Functions without a caller: `task_free`, `process_free`, `process_get`,
`task_copy_string_from_user`, `task_get_stack_item`, `ata_write_sector`,
`ata_identify`, `keyboard_push`, `kmalloc_p`, `kmalloc_ap`. The heap behind the
first header that is overwritten, which the commands checked never reach
(`HeadersIntact`). What is in the heap's blocks: who reads a block whose tail a
header was put over is not followed. 32-bit
wrap-around of file offsets. Volumes with inconsistent chains or directories, or
with a second sector that reads as a boot sector. The
lengths of path parts and of process names. Colours of the screen. In
`FileSystem` the heap blocks of a call: those are `FileHeap`'s.

## 6. Plan

Order of work, most important behaviour first; all but 8 and 9 are done.

1. `KHeap`, `HeapContract`, proofs: every other part lives in its blocks.
2. `Keyboard`, `KeyQueue`, proofs: the only concurrency in the kernel.
3. `FatFile`, `FileStream`. 4. `Ata`. 5. `Loader`. 6. `FileHeap` and `AddressSpace`
   over `KHeap`; `SectorDisk`, `FileSystem`, `Paths`; `Screen`, `Shell`, `LineEditor`.
7. Proofs for all of these: safety first, then the refinements.
8. Proofs of `OpenFindsTheFile`, `ListShowsDirectory` and `FailsOnlyForCause`, with
   the parser written as a recursive function.
9. `FatFile` over `SectorDisk`: what a late answer does inside a long file.
