---------------------------- MODULE AddressSpace ----------------------------
(***************************************************************************)
(* Where a program ends up: the page directory, the page tables, the copy   *)
(* of the program and the two stacks that the `run' command makes           *)
(* (process_load, elf_load, task_new), all of them blocks of the kernel     *)
(* heap, and the pages the program may use (memory/paging/paging.c).        *)
(*                                                                          *)
(* Composed with FileHeap, and through it with KHeap: a step makes one call *)
(* of kmalloc or kfree, in the order of the code, those of fopen, fclose    *)
(* and of `ls' commands among them.  What the calls of the file system      *)
(* answer is left open (see Loader, FatFile).                               *)
(***************************************************************************)
EXTENDS FileHeap

CONSTANTS
    TABLES,             \* page tables of the identity map: 16 in the code
    Programs,
    IsElf,              \* whether a program is an ELF file
    Segments,           \* [vaddr, memsz] of each PT_LOAD header; a raw
                        \* program has one, at RAW_BASE
    MaxCommands         \* bound: run and ls commands

ENTRIES      == 1024        \* PAGING_TOTAL_ENTRIES_PER_TABLE_SIZE
RAW_BASE     == 4194304     \* 0x400000
VGA          == 184         \* the page of 0xB8000
KERNEL_STACK == 524288      \* 0x80000: the stack of main starts below it
STACK        == 16384       \* bytes of a user or kernel stack of a task
CHUNK        == 4           \* sizeof(struct paging_4gb_chunk)
PROCESS      == 96          \* sizeof(struct process)
TASK         == 68          \* sizeof(struct task)
NULL         == 0

\* Addresses have 32 bits; nothing asks for 0 bytes.
ASSUME ProgramsAssumption ==
    /\ TABLES \in 1..ENTRIES
    /\ MaxCommands \in Nat
    /\ IsElf \in [Programs -> BOOLEAN]
    /\ Segments \in [Programs -> Seq([vaddr : Nat, memsz : Nat])]
    /\ \A p \in Programs : \A i \in 1..Len(Segments[p]) :
         LET s == Segments[p][i] IN
         /\ s.memsz > 0
         /\ (s.vaddr + s.memsz - 1) \div PAGE < ENTRIES * ENTRIES
    /\ \A p \in Programs :
         ~IsElf[p] => Len(Segments[p]) = 1 /\ Segments[p][1].vaddr = RAW_BASE

VARIABLES
    pc,                 \* the next call of the command; "prompt" between commands
    program,            \* the argument of the last run command
    directory_entry,    \* the page directory being built or last built
    table,              \* its page tables: directory index -> address
    user,               \* what it lets the program use: page -> page frame
    image,              \* addresses of the segments copied so far
    mapped,             \* pages mapped of the last of them, or of the stack
    user_stack, kstack, \* of the task
    commands            \* history: commands so far

space   == <<directory_entry, table, user>>
task    == <<user_stack, kstack>>
command == <<pc, program, space, image, mapped, task, commands>>
all     == <<heap, files, command>>

SpaceInit ==
    /\ Init /\ FilesInit
    /\ pc = "boot"
    /\ program \in Programs
    /\ directory_entry = NULL /\ table = <<>> /\ user = <<>>
    /\ image = <<>> /\ mapped = 0
    /\ user_stack = NULL /\ kstack = NULL
    /\ commands = 0

-----------------------------------------------------------------------------
(* memory/paging/paging.c *)

Segment  == Segments[program][Len(image)]       \* the one copied last
\* Slip: one page too many.
Pages_OneMore(s) == (s.memsz + PAGE - 1) \div PAGE + 1
Pages(s) == (s.memsz + PAGE - 1) \div PAGE
Aligned(s) == s.vaddr % PAGE = 0                \* paging_is_aligned

\* The page directory, then the identity map table by table, then the chunk; a
\* loader then lets the program use the page of the screen.
paging_new_4gb(next, pages) ==
    /\ IF directory_entry = NULL THEN
            /\ kmalloc_a(PAGE)
            /\ directory_entry' \in Given
            /\ UNCHANGED <<pc, table, user>>
       ELSE IF Cardinality(DOMAIN table) < TABLES THEN
            /\ kmalloc_a(PAGE)
            /\ \E t \in Given : table' = Put(table, Cardinality(DOMAIN table), t)
            /\ UNCHANGED <<pc, directory_entry, user>>
       ELSE /\ kmalloc(CHUNK)
            /\ user' = [v \in pages |-> v]
            /\ pc' = next
            /\ UNCHANGED <<directory_entry, table>>
    /\ UNCHANGED <<files, program, image, mapped, task, commands>>

\* Let the program use frame f at page v; a missing table is made first.
paging_set(v, f) ==
    LET index == v \div ENTRIES IN
    /\ user' = Put(user, v, f)
    /\ IF index \in DOMAIN table
         THEN UNCHANGED <<heap, table>>
         ELSE /\ kmalloc_a(PAGE)
              /\ \E t \in Given : table' = Put(table, index, t)
    /\ UNCHANGED directory_entry

-----------------------------------------------------------------------------
(* The commands *)

Fail == pc' = "prompt"

\* main makes the kernel's own address space and comes to the shell.
boot ==
    /\ pc = "boot"
    /\ paging_new_4gb("prompt", {})

ls_handler ==
    /\ pc = "prompt"
    /\ commands < MaxCommands
    /\ commands' = commands + 1
    /\ start(TRUE)
    /\ depth' \in Depths
    /\ UNCHANGED <<heap, pc, program, space, image, mapped, task>>

\* The loader starts with nothing; what an earlier load left stays on the heap.
run_handler(p) ==
    /\ pc = "prompt"
    /\ commands < MaxCommands
    /\ commands' = commands + 1
    /\ program' = p
    /\ directory_entry' = NULL /\ table' = <<>> /\ user' = <<>> /\ image' = <<>>
    /\ start(FALSE)
    /\ depth' \in Depths
    /\ pc' = "magic"
    /\ UNCHANGED <<heap, mapped, task>>

\* The first bytes of the file choose the loader.
process_load ==
    /\ pc = "magic"
    /\ \/ ~Opened /\ Fail /\ UNCHANGED files
       \/ Opened /\ Fail /\ start_close
       \/ Opened /\ start_close
          /\ pc' = IF IsElf[program] THEN "elf" ELSE "process"
    /\ UNCHANGED <<heap, program, space, image, mapped, task, commands>>

\* The file is opened again, for its header.
elf_load ==
    /\ \/ pc = "elf" /\ start(FALSE) /\ pc' = "header" /\ UNCHANGED depth
       \/ pc = "header" /\ ~Opened /\ Fail /\ UNCHANGED files
       \/ pc = "header" /\ Opened /\ Fail /\ start_close
       \/ pc = "header" /\ Opened /\ pc' = "process" /\ UNCHANGED files
    /\ UNCHANGED <<heap, program, space, image, mapped, task, commands>>

\* An ELF process gets its page directory next; a raw program is opened again.
process_alloc ==
    /\ pc = "process"
    /\ kmalloc(PROCESS)
    /\ IF IsElf[program] THEN pc' = "paging" /\ UNCHANGED files
                         ELSE pc' = "raw" /\ start(FALSE) /\ UNCHANGED depth
    /\ UNCHANGED <<program, space, image, mapped, task, commands>>

\* The copy of a raw program.  If it cannot be read, block and file stay taken.
raw_image ==
    /\ \/ pc = "raw" /\ Fail /\ UNCHANGED <<heap, files, image>>
       \/ /\ pc = "raw" /\ Opened
          /\ kmalloc_a(Segments[program][1].memsz)
          /\ \E q \in Given : image' = Append(image, q)
          /\ pc' = "raw_read" /\ UNCHANGED files
       \/ pc = "raw_read" /\ Fail /\ UNCHANGED <<heap, files, image>>
       \/ pc = "raw_read" /\ pc' = "paging" /\ start_close
          /\ UNCHANGED <<heap, image>>
    /\ UNCHANGED <<program, space, mapped, task, commands>>

paging ==
    /\ pc = "paging"
    /\ paging_new_4gb(IF IsElf[program] THEN "segment" ELSE "map", {VGA})

\* Slip: room for a part of the segment only, as if its size were that in the
\* file.
elf_segment_FileSize ==
    /\ pc = "segment"
    /\ \/ Fail /\ start_close /\ UNCHANGED <<heap, image>>
       \/ /\ Len(image) < Len(Segments[program])
          /\ kmalloc_a((Segments[program][Len(image) + 1].memsz + 1) \div 2)
          /\ \E q \in Given : image' = Append(image, q)
          /\ pc' = "read" /\ UNCHANGED files
       \/ /\ Len(image) = Len(Segments[program])
          /\ pc' = "task" /\ start_close
          /\ UNCHANGED <<heap, image>>
    /\ UNCHANGED <<program, space, mapped, task, commands>>

\* The next program header; the memory of a segment is taken before it is read.
elf_segment ==
    /\ pc = "segment"
    /\ \/ Fail /\ start_close /\ UNCHANGED <<heap, image>>
       \/ /\ Len(image) < Len(Segments[program])
          /\ kmalloc_a(Segments[program][Len(image) + 1].memsz)
          /\ \E q \in Given : image' = Append(image, q)
          /\ pc' = "read" /\ UNCHANGED files
       \/ /\ Len(image) = Len(Segments[program])
          /\ pc' = "task" /\ start_close
          /\ UNCHANGED <<heap, image>>
    /\ UNCHANGED <<program, space, mapped, task, commands>>

\* Slip: the page directory is given back as well, and still used.
elf_read_FreesDirectory ==
    /\ pc = "read"
    /\ \/ kfree(directory_entry) /\ Fail /\ start_close /\ UNCHANGED image
       \/ pc' = "map" /\ UNCHANGED <<heap, files, image>>
    /\ UNCHANGED <<program, space, mapped, task, commands>>

\* A segment that cannot be read is given back; the rest of the process is not.
elf_read ==
    /\ pc = "read"
    /\ \/ /\ kfree(image[Len(image)])
          /\ image' = SubSeq(image, 1, Len(image) - 1)
          /\ Fail /\ start_close
       \/ pc' = "map" /\ UNCHANGED <<heap, files, image>>
    /\ UNCHANGED <<program, space, mapped, task, commands>>

\* Slip: every page of the segment is mapped to its first frame.
map_FirstFrame ==
    /\ pc = "map"
    /\ Aligned(Segment) /\ mapped < Pages(Segment)
    /\ paging_set((Segment.vaddr \div PAGE) + mapped, image[Len(image)] \div PAGE)
    /\ mapped' = mapped + 1
    /\ UNCHANGED <<files, pc, program, image, task, commands>>

\* The pages of a copied segment, one by one.
map ==
    /\ pc = "map"
    /\ Aligned(Segment) /\ mapped < Pages(Segment)
    /\ paging_set((Segment.vaddr \div PAGE) + mapped,
                  (image[Len(image)] \div PAGE) + mapped)
    /\ mapped' = mapped + 1
    /\ UNCHANGED <<files, pc, program, image, task, commands>>

\* All pages are mapped; or paging_set refused them, and nobody looked.
map_done ==
    /\ pc = "map"
    /\ ~Aligned(Segment) \/ mapped = Pages(Segment)
    /\ mapped' = 0
    /\ pc' = IF IsElf[program] THEN "segment" ELSE "task"
    /\ UNCHANGED <<heap, files, program, space, image, task, commands>>

\* task_new and task_init: the task and its two stacks.
task_new ==
    /\ \/ pc = "task" /\ kmalloc(TASK) /\ pc' = "user_stack" /\ UNCHANGED task
       \/ /\ pc = "user_stack" /\ kmalloc(STACK) /\ pc' = "kstack"
          /\ user_stack' \in Given /\ UNCHANGED kstack
       \/ /\ pc = "kstack" /\ kmalloc(STACK) /\ pc' = "map_stack"
          /\ kstack' \in Given /\ UNCHANGED user_stack
    /\ UNCHANGED <<files, program, space, image, mapped, commands>>

\* Four pages from the one the user stack starts in, each onto itself; then
\* task_switch.
task_map_stack ==
    /\ pc = "map_stack"
    /\ LET p == (user_stack \div PAGE) + mapped IN paging_set(p, p)
    /\ mapped' = mapped + 1
    /\ pc' = IF mapped' * PAGE < STACK THEN pc ELSE "user"
    /\ UNCHANGED <<files, program, image, task, commands>>

\* The heap is followed up to the first header that is overwritten, as in KHeap.
SpaceNext ==
    /\ intact
    /\ \/ FileCall /\ UNCHANGED command
       \/ /\ call = "idle"
          /\ \/ boot \/ ls_handler
             \/ \E p \in Programs : run_handler(p)
             \/ process_load \/ elf_load \/ process_alloc \/ raw_image \/ paging
             \/ elf_segment \/ elf_read \/ map \/ map_done
             \/ task_new \/ task_map_stack

SpaceSpec == SpaceInit /\ [][SpaceNext]_all

-----------------------------------------------------------------------------
(* Properties *)

Pointer == DOMAIN held

\* Types of the state of a command, with that of the files it opens: each thing it
\* may use or give back is in use.
SpaceTypeOK ==
    /\ TypeOK
    /\ pc \in {"boot", "prompt", "magic", "elf", "header", "process", "raw", "raw_read",
               "paging", "segment", "read", "map", "task", "user_stack", "kstack",
               "map_stack", "user"}
    /\ program \in Programs
    /\ directory_entry \in Pointer \cup {NULL}
    /\ \A i \in DOMAIN table : i \in 0..(ENTRIES - 1) /\ table[i] \in Pointer
    /\ \A v \in DOMAIN user : v \in Nat /\ user[v] \in Nat
    /\ image \in Seq(Pointer)
    /\ mapped \in Nat
    /\ {user_stack, kstack} \subseteq Pointer \cup {NULL}
    /\ \A name \in DOMAIN own : own[name] \in Pointer
    /\ commands \in 0..MaxCommands

esp == user_stack + STACK - 1
StackPages == {(user_stack \div PAGE) + i : i \in 0..((STACK \div PAGE) - 1)}

\* No page belongs to two page-aligned segments of a program: the program headers
\* a linker writes.  Where two do, the one that is mapped later wins.
SegmentsApart ==
    \A p \in Programs : \A i, j \in 1..Len(Segments[p]) :
      i # j /\ Aligned(Segments[p][i]) /\ Aligned(Segments[p][j]) =>
        \A k \in 0..(Pages(Segments[p][i]) - 1), l \in 0..(Pages(Segments[p][j]) - 1) :
          (Segments[p][i].vaddr \div PAGE) + k # (Segments[p][j].vaddr \div PAGE) + l

\* A program that is started finds each page-aligned segment at its address,
\* in the frames it was copied to, whatever failed loads left on the heap.
ImageMapped ==
    pc = "user" =>
      \A i \in 1..Len(Segments[program]) :
        LET s == Segments[program][i] IN
        Aligned(s) =>
          \A k \in 0..(Pages(s) - 1) :
            LET v == (s.vaddr \div PAGE) + k IN
            v \notin StackPages =>
              v \in DOMAIN user /\ user[v] * PAGE = image[i] + k * PAGE

\* The size of a copy ends less than a header below a page boundary.
Snug(size) == size % PAGE > PAGE - HEADER

\* Nothing the kernel allocates later, its own headers included, lies in the
\* program's copy, unless the copy ends just below a page boundary: then the
\* header of the next page table may overwrite its last bytes.
ImageIntact ==
    pc = "user" =>
      \A i \in 1..Len(image) :
        LET size == Segments[program][i].memsz IN
        Snug(size) \/ \A b \in DOMAIN block :
                        \/ b = image[i] - HEADER
                        \/ BlockEnd(b) <= image[i]
                        \/ image[i] + size <= b

\* What the kernel goes on writing to: not the copy of a program, nor the block of
\* a volume, which is filled once.
Written(p) == /\ held[p].align => held[p].size = PAGE
              /\ held[p].size # FAT_PRIVATE

\* No header of the list is ever overwritten: not by the header of a block placed
\* later, nor by the owner of a block, one used again included, who fills it.
HeadersIntact ==
    /\ intact
    /\ \A p \in DOMAIN held :
         Written(p) => ~Damages(p, p + held[p].size, p - HEADER)

\* No page the program may use holds a page directory or a page table, of its
\* own or of anyone else.
TablesPrivate ==
    \A p \in DOMAIN held :
      held[p] = [size |-> PAGE, align |-> TRUE] /\ (\A i \in DOMAIN image : image[i] # p)
        => \A v \in DOMAIN user : user[v] # p \div PAGE

\* The heap stays below the stack of main.  The code does not keep this: the
\* page tables of a process that could not be loaded are never given back.
StackSafe == placement_address <= KERNEL_STACK

\* The program's first push goes to a page of its stack that it may use.  The
\* code does not keep this: a stack that does not start a page ends in a fifth.
StackTopMapped == pc = "user" => (esp - 4) \div PAGE \in DOMAIN user
=============================================================================
