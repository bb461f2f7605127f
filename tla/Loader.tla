------------------------------- MODULE Loader -------------------------------
(***************************************************************************)
(* The shell's `run' command: run_handler (kernel.c), process_load          *)
(* (task/process.c), elf_load (loader/elf.c), task_new and task_switch      *)
(* (task/task.c), over the descriptor table of fs/file.c.                   *)
(*                                                                          *)
(* The kernel runs one command at a time.  A command is split at its calls  *)
(* of the file system, each of which can fail on a disk error, because the  *)
(* error paths differ in what they give back.  Memory never runs out here:  *)
(* kmalloc grows the heap without a limit.                                  *)
(***************************************************************************)
EXTENDS Naturals, Sequences, FiniteSets

CONSTANTS
    MAX_FILE_DESCRIPTORS,   \* 512 in the code
    Files,                  \* names a user may run
    IsElf,                  \* whether the file starts with the ELF magic
    Segments,               \* its PT_LOAD headers, in order; of each the model
                            \* keeps whether p_vaddr is page aligned
    MaxRuns                 \* bound: run commands

ASSUME LoaderAssumption ==
    /\ MAX_FILE_DESCRIPTORS \in Nat
    /\ IsElf \in [Files -> BOOLEAN]
    /\ Segments \in [Files -> Seq(BOOLEAN)]
    /\ MaxRuns \in Nat

Slots == 1..MAX_FILE_DESCRIPTORS    \* descriptor numbers are index + 1
NULL  == "null"
ASSUME NameAssumption == NULL \notin Files

VARIABLES
    pc,                 \* the next call of the command; "prompt" between commands
    file,               \* the command's argument
    fd,                 \* local fd of process_load or elf_load
    seg,                \* program headers handled by elf_load
    file_descriptors,   \* for each slot the file it is open on, or NULL
    fat_descriptors,    \* fat_file_descriptor objects allocated, not freed
    processes,          \* the list from process_head along next
    current_process,    \* index in that list; 0 is NULL
    runs,
    before              \* history: slots in use when the command was given

vars == <<pc, file, fd, seg, file_descriptors, fat_descriptors, processes,
          current_process, runs, before>>

Open == {i \in Slots : file_descriptors[i] # NULL}

Init ==
    /\ pc = "prompt"
    /\ file \in Files
    /\ fd = 0
    /\ seg = 0
    /\ file_descriptors = [i \in Slots |-> NULL]
    /\ fat_descriptors = 0
    /\ processes = <<>>
    /\ current_process = 0
    /\ runs = 0
    /\ before = {}

-----------------------------------------------------------------------------
(* fs/file.c *)

\* Slip: the last slot is taken without a look at it.
IsFirstFree_LastUnchecked(i) == i \in Slots /\ \A j \in 1..(i - 1) : j \in Open

\* fs_new_descriptor: the first free slot.
IsFirstFree(i) == i \in Slots \ Open /\ \A j \in 1..(i - 1) : j \in Open

\* fopen(file, "r"): no such file, a disk error (both before anything is kept);
\* no slot, and the FAT descriptor just made is forgotten; or a slot.
fopen(ok, failure) ==
    \/ /\ pc' = failure
       /\ UNCHANGED <<fd, file_descriptors, fat_descriptors>>
    \/ /\ Open = Slots
       /\ fat_descriptors' = fat_descriptors + 1
       /\ pc' = failure
       /\ UNCHANGED <<fd, file_descriptors>>
    \/ \E i \in Slots :
         /\ IsFirstFree(i)
         /\ file_descriptors' = [file_descriptors EXCEPT ![i] = file]
         /\ fat_descriptors' = fat_descriptors + 1
         /\ fd' = i
         /\ pc' = ok

fclose(i) ==
    /\ file_descriptors' = [file_descriptors EXCEPT ![i] = NULL]
    /\ fat_descriptors' = fat_descriptors - 1

-----------------------------------------------------------------------------
(* task/process.c *)

\* process_alloc: a zeroed process at the end of the list.
process_alloc(chunk) ==
    processes' = Append(processes, [file |-> file, paging_chunk |-> chunk,
                                    mapped |-> {}, ptr |-> FALSE])

Last == Len(processes)

run_handler(f) ==
    /\ pc = "prompt"
    /\ runs < MaxRuns
    /\ runs' = runs + 1
    /\ file' = f
    /\ before' = Open
    /\ pc' = "probe_open"
    /\ UNCHANGED <<fd, seg, file_descriptors, fat_descriptors, processes, current_process>>

probe_open ==
    /\ pc = "probe_open"
    /\ fopen("probe_read", "prompt")
    /\ UNCHANGED <<file, seg, processes, current_process, runs, before>>

\* The first four bytes decide; the file is closed whether they were read or not.
probe_read ==
    /\ pc = "probe_read"
    /\ fclose(fd)
    /\ \/ pc' = "prompt"
       \/ pc' = IF IsElf[file] THEN "elf_open" ELSE "raw_open"
    /\ UNCHANGED <<file, fd, seg, processes, current_process, runs, before>>

\* The process is on the list before its file is opened again.
raw_open ==
    /\ pc = "raw_open"
    /\ process_alloc(FALSE)
    /\ fopen("raw_read", "prompt")
    /\ UNCHANGED <<file, seg, current_process, runs, before>>

\* The whole file is read, or process_load returns without closing it.
raw_read ==
    /\ pc = "raw_read"
    /\ \/ /\ pc' = "prompt"
          /\ UNCHANGED <<file_descriptors, fat_descriptors, processes>>
       \/ /\ pc' = "start"
          /\ fclose(fd)
          /\ processes' = [processes EXCEPT ![Last].paging_chunk = TRUE,
                                            ![Last].mapped = {1},
                                            ![Last].ptr = TRUE]
    /\ UNCHANGED <<file, fd, seg, current_process, runs, before>>

-----------------------------------------------------------------------------
(* loader/elf.c *)

elf_open ==
    /\ pc = "elf_open"
    /\ fopen("elf_header", "prompt")
    /\ seg' = 0
    /\ UNCHANGED <<file, processes, current_process, runs, before>>

\* out: the file is closed on every path.
elf_header ==
    /\ pc = "elf_header"
    /\ \/ /\ pc' = "prompt"
          /\ fclose(fd)
          /\ UNCHANGED processes
       \/ /\ pc' = "elf_segment"
          /\ process_alloc(TRUE)
          /\ UNCHANGED <<file_descriptors, fat_descriptors>>
    /\ UNCHANGED <<file, fd, seg, current_process, runs, before>>

\* A segment is read and mapped; paging_set refuses an address that is not page
\* aligned, and elf_load does not look at what it returns.
elf_segment ==
    /\ pc = "elf_segment"
    /\ seg < Len(Segments[file])
    /\ \/ /\ pc' = "prompt"
          /\ fclose(fd)
          /\ UNCHANGED <<seg, processes>>
       \/ /\ seg' = seg + 1
          /\ processes' =
               IF Segments[file][seg + 1]
                 THEN [processes EXCEPT ![Last].mapped = @ \cup {seg + 1}]
                 ELSE processes
          /\ UNCHANGED <<pc, file_descriptors, fat_descriptors>>
    /\ UNCHANGED <<file, fd, current_process, runs, before>>

\* Slips: the last program header is left out; the file stays open.
elf_done_Early ==
    /\ pc = "elf_segment"
    /\ seg + 1 >= Len(Segments[file])
    /\ processes' = [processes EXCEPT ![Last].ptr = TRUE]
    /\ fclose(fd)
    /\ pc' = "start"
    /\ UNCHANGED <<file, fd, seg, current_process, runs, before>>
elf_done_Open ==
    /\ pc = "elf_segment"
    /\ seg = Len(Segments[file])
    /\ processes' = [processes EXCEPT ![Last].ptr = TRUE]
    /\ pc' = "start"
    /\ UNCHANGED <<file, fd, seg, file_descriptors, fat_descriptors,
                   current_process, runs, before>>

elf_done ==
    /\ pc = "elf_segment"
    /\ seg = Len(Segments[file])
    /\ processes' = [processes EXCEPT ![Last].ptr = TRUE]
    /\ fclose(fd)
    /\ pc' = "start"
    /\ UNCHANGED <<file, fd, seg, current_process, runs, before>>

-----------------------------------------------------------------------------

\* Slip: the index of the new process is one too large.
start_Next ==
    /\ pc = "start"
    /\ current_process' = Last + 1
    /\ pc' = "user"
    /\ UNCHANGED <<file, fd, seg, file_descriptors, fat_descriptors, processes,
                   runs, before>>

\* task_new and task_switch: the processor runs the program.  There is no way
\* back to the shell.
start ==
    /\ pc = "start"
    /\ current_process' = Last
    /\ pc' = "user"
    /\ UNCHANGED <<file, fd, seg, file_descriptors, fat_descriptors, processes,
                   runs, before>>

Next ==
    \/ \E f \in Files : run_handler(f)
    \/ probe_open \/ probe_read
    \/ raw_open \/ raw_read
    \/ elf_open \/ elf_header \/ elf_segment \/ elf_done
    \/ start

Spec == Init /\ [][Next]_vars

-----------------------------------------------------------------------------
(* Properties *)

Process == [file : Files, paging_chunk : BOOLEAN, mapped : SUBSET Nat, ptr : BOOLEAN]

TypeOK ==
    /\ pc \in {"prompt", "probe_open", "probe_read", "raw_open", "raw_read",
               "elf_open", "elf_header", "elf_segment", "start", "user"}
    /\ file \in Files
    /\ fd \in 0..MAX_FILE_DESCRIPTORS
    /\ seg \in Nat
    /\ file_descriptors \in [Slots -> Files \cup {NULL}]
    /\ fat_descriptors \in Nat
    /\ processes \in Seq(Process)
    /\ current_process \in 0..Len(processes)
    /\ runs \in 0..MaxRuns
    /\ before \subseteq Slots

\* The descriptor a command uses is its own: open on the command's file, and
\* not one that was open before the command.
UsesItsDescriptor ==
    pc \in {"probe_read", "raw_read", "elf_header", "elf_segment"} =>
      /\ fd \in Slots \ before
      /\ file_descriptors[fd] = file
      /\ Open = before \cup {fd}

\* What a command leaves behind in the descriptor table: nothing, except that a
\* raw program whose contents could not be read keeps one descriptor for good.
\* And a FAT descriptor without a slot: only once the table was full before a
\* command.
DescriptorsBalanced ==
    /\ pc \in {"start", "user"} => Open = before
    /\ pc = "prompt" =>
         \/ Open = before
         \/ ~IsElf[file] /\ fd \notin before /\ Open = before \cup {fd}
    /\ fat_descriptors # Cardinality(Open) => before = Slots

\* Once such failures have used up the table, no program can be started again.
ExhaustedForGood ==
    [](pc = "prompt" /\ Open = Slots => [](pc # "user"))

\* What is started is complete: it has a page directory, an entry point and all
\* its page-aligned segments.  (An unaligned one is missing, silently.)
StartedIsComplete ==
    pc = "user" =>
      LET p == processes[current_process] IN
      /\ p.file = file
      /\ p.paging_chunk /\ p.ptr
      /\ IF IsElf[file]
           THEN \A i \in 1..Len(Segments[file]) : Segments[file][i] => i \in p.mapped
           ELSE p.mapped = {1}
=============================================================================
