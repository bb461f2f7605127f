------------------------------ MODULE FileHeap ------------------------------
(***************************************************************************)
(* What fopen, fs_list and fclose ask of the kernel heap: every kmalloc and *)
(* kfree of path_parser.c, fat16_resolve, fat16_open and file.c, in order,  *)
(* one per step.  Which of them is not reached, because a path is no path,  *)
(* a drive does not answer or a file is not there, is left open (see        *)
(* FileSystem, FatFile).                                                    *)
(*                                                                          *)
(* Composed with KHeap, whose state and operators it extends.               *)
(***************************************************************************)
EXTENDS KHeap

CONSTANTS
    Depths              \* numbers of names in the paths that are typed

ASSUME DepthsAssumption == Depths \subseteq Nat

\* Sizes of what is allocated.
PATH_ROOT           == 8
PATH_BUFFER         == 256      \* "Max path part length"
PATH_PART           == 8
DISK_STREAM         == 8
FAT_PRIVATE         == 516      \* the boot sector and the stream
FAT_FILE_DESCRIPTOR == 44
FILE_DESCRIPTOR     == 16

VARIABLES
    call,               \* the next heap call; "idle" between the operations
    listing,            \* of fs_list and not of fopen
    depth,              \* names in the path
    at,                 \* the name being parsed or given back, from 1
    own                 \* what may still be given back: what it is -> pointer

heap  == vars           \* of KHeap
files == <<call, listing, depth, at, own>>

\* The names of what an operation or an open file has allocated.
Root      == <<"path_root", 0>>
Buffer(i) == <<"part", i>>
Part(i)   == <<"path_part", i>>
Stream    == <<"disk_stream", 0>>
File      == <<"fat_file_descriptor", 0>>
Desc      == <<"file_descriptor", 0>>

kmalloc(size)   == kmalloc_int(size, FALSE)
kmalloc_a(size) == kmalloc_int(size, TRUE)
\* The pointers that the step's kmalloc returned.
Given == DOMAIN held' \ DOMAIN held

make(name, size) ==
    /\ kmalloc(size)
    /\ \E p \in Given : own' = Put(own, name, p)
give_back(name) ==
    /\ name \in DOMAIN own
    /\ kfree(own[name])
    /\ own' = Drop(own, name)

FilesInit ==
    /\ call = "idle" /\ listing = FALSE
    /\ depth = 0 /\ at = 1 /\ own = <<>>

\* fopen (list = FALSE) or fs_list is called, or fclose.
start(list) ==
    /\ call' = "path_root"
    /\ listing' = list /\ at' = 1 /\ own' = <<>>
start_close ==
    /\ call' = "close"
    /\ UNCHANGED <<listing, depth, at, own>>
\* fopen returned a descriptor.
Opened == Desc \in DOMAIN own

\* The buffer of the empty name behind the last one is given back at once.
path_parser_parse ==
    /\ \/ call = "path_root" /\ call' = "idle" /\ UNCHANGED <<heap, at, own>>
       \/ call = "path_root" /\ make(Root, PATH_ROOT)
          /\ call' = "part" /\ UNCHANGED at
       \/ call = "part" /\ make(Buffer(at), PATH_BUFFER)
          /\ call' = "path_part" /\ UNCHANGED at
       \/ call = "path_part" /\ at <= depth /\ make(Part(at), PATH_PART)
          /\ call' = "part" /\ at' = at + 1
       \/ call = "path_part" /\ at > depth /\ give_back(Buffer(at))
          /\ call' = "resolve" /\ at' = 1
    /\ UNCHANGED <<listing, depth>>

\* fs_resolve, if the path is one: the boot sector read goes to a block that
\* nobody gives back, nor the stream when the volume is accepted.
fat16_resolve ==
    /\ \/ call = "resolve" /\ call' = "free" /\ UNCHANGED <<heap, own>>
       \/ call = "resolve" /\ (listing \/ depth > 0) /\ make(Stream, DISK_STREAM)
          /\ call' = "private"
       \/ call = "private" /\ give_back(Stream) /\ call' = "free"
       \/ call = "private" /\ kmalloc(FAT_PRIVATE) /\ own' = Drop(own, Stream)
          /\ call' = IF listing THEN "free" ELSE "open"
    /\ UNCHANGED <<listing, depth, at>>

\* fat16_open and fs_new_descriptor; without a free slot the file's descriptor
\* is lost.
fat16_open ==
    /\ \/ call = "open" /\ call' = "free" /\ UNCHANGED <<heap, own>>
       \/ call = "open" /\ make(File, FAT_FILE_DESCRIPTOR) /\ call' = "descriptor"
       \/ call = "descriptor" /\ call' = "free"
          /\ own' = Drop(own, File) /\ UNCHANGED heap
       \/ call = "descriptor" /\ make(Desc, FILE_DESCRIPTOR) /\ call' = "free"
    /\ UNCHANGED <<listing, depth, at>>

path_parser_free ==
    /\ \/ call = "free" /\ at <= depth /\ give_back(Buffer(at))
          /\ call' = "free_part" /\ UNCHANGED at
       \/ call = "free_part" /\ give_back(Part(at))
          /\ call' = "free" /\ at' = at + 1
       \/ call = "free" /\ at > depth /\ give_back(Root)
          /\ call' = "idle" /\ UNCHANGED at
    /\ UNCHANGED <<listing, depth>>

fclose ==
    /\ \/ call = "close" /\ give_back(File) /\ call' = "close_desc"
       \/ call = "close_desc" /\ give_back(Desc) /\ call' = "idle"
    /\ UNCHANGED <<listing, depth, at>>

FileCall ==
    path_parser_parse \/ fat16_resolve \/ fat16_open \/ path_parser_free \/ fclose
=============================================================================
