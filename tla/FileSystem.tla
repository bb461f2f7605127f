------------------------------ MODULE FileSystem ------------------------------
(***************************************************************************)
(* fopen, ls, fread and fclose (fs/file.c) over the FAT16 volumes on two    *)
(* drives (fs/fat16.c), which are read through the disk of SectorDisk: any  *)
(* read may fail, and a drive may answer late.  One step is one read of a   *)
(* sector with what the code computes from it up to the next.               *)
(*                                                                          *)
(* A volume is given twice: as sectors, and as the tree it stands for.  The *)
(* files hold at most one cluster; the chains of longer ones are FatFile's. *)
(***************************************************************************)
EXTENDS Paths, FiniteSets

CONSTANTS
    Drives,             \* disks with a filesystem: {0, 1}
    Sectors,            \* sectors of a drive
    Disk,               \* drive -> sector -> what its bytes are when read as a
                        \* boot sector, as items, as FAT entries and as data
    ItemsPerSector,     \* 512 / 32 in the code
    EntriesPerSector,   \* 512 / 2
    NameSize,           \* sizeof(out_name), 13: name, dot, extension and NUL
    Tree,               \* drive -> directory -> its items, as <<name, file or
                        \* directory>>: what the sectors stand for
    Root,               \* the top directory of each tree
    Directories,        \* drive -> the clusters in which its directories lie
    Texts,              \* bound: the path texts a command may give
    Modes,              \* bound: the mode strings
    MaxOpen,            \* slots for descriptors (512)
    MaxFaults           \* bound: reads that fail within one call

ASSUME FileSystemAssumption ==
    /\ Sectors \in Nat \ {0} /\ ItemsPerSector \in Nat \ {0}
    /\ EntriesPerSector \in Nat \ {0} /\ NameSize \in Nat \ {0}
    /\ MaxOpen \in Nat \ {0} /\ MaxFaults \in Nat
    /\ Drives \subseteq 0..1

VARIABLES
    pc,                 \* "idle", or what is read next
    call,               \* the call in progress
    parts,              \* path parts not yet looked up
    cluster, inRoot,    \* the directory searched or listed, or one of its clusters
    index,              \* the item read next
    fs_private,         \* per drive: the boot sector of the last fat16_resolve
    descriptors,        \* slot -> open file
    res,                \* what the last call returned
    output,             \* what it delivered: lines of ls, or the bytes of a file
    late,               \* per drive: the sector it owes
    faults,             \* reads of this call that failed
    owed                \* history: the drive owed a sector when the call began

place == <<parts, cluster, inRoot, index>>
disk  == <<late, faults>>
vars  == <<pc, call, place, fs_private, descriptors, res, output, disk, owed>>

D == INSTANCE SectorDisk WITH request <- <<0, 0>>, answer <- 0

RESERVED_MIN == 65520       \* 0xFFF0
READ_ERROR   == 65535       \* 0xFFFF
NotMounted == [fat_copies |-> 0]
NotABoot   == [fat_copies |-> -1]
Free       == [drive |-> -1]
NoCall     == [op |-> "none"]

Init ==
    /\ pc = "idle" /\ call = NoCall
    /\ parts = <<>> /\ cluster = 0 /\ inRoot = TRUE /\ index = 0
    /\ fs_private = [d \in Drives |-> NotMounted]
    /\ descriptors = [fd \in 1..MaxOpen |-> Free]
    /\ res = 0 /\ output = <<>>
    /\ late = [d \in Drives |-> D!NONE] /\ faults = 0 /\ owed = FALSE

-----------------------------------------------------------------------------
(* Where things are on a volume *)

\* p: the fs_private of the drive, with the boot sector.
root_directory_sector(p) == p.reserved_sectors + p.fat_copies * p.fat_sectors

cluster_to_sector(p, c) ==
    root_directory_sector(p)
      + ((p.root_dir_entries + ItemsPerSector - 1) \div ItemsPerSector)
      + (c - 2) * p.sectors_per_cluster

\* The directory in hand: its first sector, and how many items are read there.
directory_sector(d) ==
    IF inRoot THEN root_directory_sector(fs_private[d])
    ELSE cluster_to_sector(fs_private[d], cluster)
items_here(d) ==
    IF inRoot THEN fs_private[d].root_dir_entries
    ELSE fs_private[d].sectors_per_cluster * ItemsPerSector

\* A sector of the drive of the call is read; got is what the disk gives.  Reads
\* of sectors that the drive does not have fail anyway and are not counted.
Reads(d, s, got) ==
    /\ D!Gives(d, s, got)
    /\ faults' = faults + (IF got = D!FAILED /\ s \in 0..(Sectors - 1) THEN 1 ELSE 0)
    /\ faults' <= MaxFaults

Answers == {D!FAILED} \cup 0..(Sectors - 1)

-----------------------------------------------------------------------------
(* Consistent volumes *)

BootSector == [reserved_sectors : Nat, fat_copies : Nat \ {0}, fat_sectors : Nat,
               root_dir_entries : Nat, sectors_per_cluster : Nat \ {0}]

Boot0(d) == Disk[d][0].boot

DirectorySectors(d) ==
    {root_directory_sector(Boot0(d)) + i \div ItemsPerSector :
         i \in 0..(Boot0(d).root_dir_entries - 1)}
    \cup {cluster_to_sector(Boot0(d), c) + i :
             c \in Directories[d], i \in 0..(Boot0(d).sectors_per_cluster - 1)}

\* The block of a file is on the disk, unless the file is empty.
FileOnDisk(d, item) ==
    LET s == cluster_to_sector(Boot0(d), item.cluster)
    IN  /\ item.size \in Nat
        /\ item.size > 0 => s \in 0..(Sectors - 1) /\ Disk[d][s].data = item.id

\* Sector 0, and no other, passes for a boot sector; an item in use in a directory
\* leads to a directory or to the block of a file; the chain of a directory stays
\* in directories.
ASSUME VolumeAssumption ==
    \A d \in Drives :
        /\ Boot0(d) \in BootSector
        /\ \A s \in 0..(Sectors - 1) :
               /\ s > 0 => Disk[d][s].boot = NotABoot
               /\ \A i \in 0..(EntriesPerSector - 1) : Disk[d][s].fat[i] \in Nat
        /\ \A s \in DirectorySectors(d) \cap 0..(Sectors - 1), i \in 0..(ItemsPerSector - 1) :
               LET item == Disk[d][s].items[i]
               IN  item.filename[1] \notin {NUL, DELETED} =>
                     IF item.dir THEN item.cluster \in {0} \cup Directories[d]
                                 ELSE FileOnDisk(d, item)
        /\ \A c \in Directories[d] :
               LET s == Boot0(d).reserved_sectors + c \div EntriesPerSector
               IN  /\ c \in 1..(RESERVED_MIN - 1)
                   /\ s \in 0..(Sectors - 1) =>
                        LET entry == Disk[d][s].fat[c % EntriesPerSector]
                        IN  entry < RESERVED_MIN => entry \in Directories[d]

-----------------------------------------------------------------------------
(* Calls *)

\* A call that is answered at once.
Refuse(code) ==
    /\ res' = code /\ output' = <<>> /\ faults' = 0
    /\ UNCHANGED <<pc, call, place, fs_private, descriptors, late, owed>>

Start(c, ps, next) ==
    /\ pc' = next /\ call' = c /\ parts' = ps
    /\ res' = 0 /\ output' = <<>> /\ faults' = 0
    /\ owed' = (late[c.drive] # D!NONE)
    /\ UNCHANGED <<cluster, inRoot, index, fs_private, descriptors, late>>

Return(code) ==
    /\ pc' = "idle" /\ call' = NoCall /\ res' = code /\ owed' = FALSE
    /\ parts' = <<>> /\ cluster' = 0 /\ inRoot' = TRUE /\ index' = 0

fopen(text, mode) ==
    LET d  == get_drive_no(text)
        ps == path_parser_parse(text)
    IN  /\ pc = "idle"
        /\ \/ d < 0 /\ Refuse(-1)
           \/ d >= 0 /\ ps = <<>> /\ Refuse(-2)
           \/ d > 1 /\ ps # <<>> /\ Refuse(-3)
           \/ /\ d \in Drives /\ ps # <<>>
              /\ Start([op |-> "fopen", text |-> text, mode |-> mode, drive |-> d],
                       ps, "resolve")

fs_list(text) ==
    LET d == get_drive_no(text)
    IN  /\ pc = "idle"
        /\ \/ d < 0 /\ Refuse(-1)
           \/ d > 1 /\ Refuse(-2)
           \/ /\ d \in Drives
              /\ Start([op |-> "ls", text |-> text, drive |-> d],
                       path_parser_parse(text), "resolve")

\* Slips: a drive that was mounted before is not read again; any sector is kept as
\* the boot sector; the boot sector is kept once for both drives.
fat16_resolve_Cached ==
    /\ pc = "resolve"
    /\ fs_private' = [fs_private EXCEPT ![call.drive] = Disk[call.drive][0].boot]
    /\ pc' = IF parts = <<>> THEN "list" ELSE "search"
    /\ UNCHANGED <<call, place, res, owed, disk, descriptors, output>>
fat16_resolve_Unchecked ==
    /\ pc = "resolve"
    /\ \E got \in Answers :
         /\ Reads(call.drive, 0, got)
         /\ IF got = D!FAILED
              THEN Return(-4) /\ UNCHANGED fs_private
              ELSE /\ fs_private' = [fs_private EXCEPT ![call.drive] =
                                       Disk[call.drive][got].boot]
                   /\ pc' = IF parts = <<>> THEN "list" ELSE "search"
                   /\ UNCHANGED <<call, place, res, owed>>
    /\ UNCHANGED <<descriptors, output>>
fat16_resolve_Shared ==
    /\ pc = "resolve"
    /\ \E got \in Answers :
         /\ Reads(call.drive, 0, got)
         /\ IF got = D!FAILED \/ Disk[call.drive][got].boot = NotABoot
              THEN Return(-4) /\ UNCHANGED fs_private
              ELSE /\ fs_private' = [d \in Drives |-> Disk[call.drive][got].boot]
                   /\ pc' = IF parts = <<>> THEN "list" ELSE "search"
                   /\ UNCHANGED <<call, place, res, owed>>
    /\ UNCHANGED <<descriptors, output>>

\* The boot sector is read anew by every fopen and fs_list; the last one stays
\* when this one does not pass the checks.  Then the mode is looked at.
fat16_resolve ==
    /\ pc = "resolve"
    /\ \E got \in Answers :
         /\ Reads(call.drive, 0, got)
         /\ LET boot == IF got = D!FAILED THEN NotABoot ELSE Disk[call.drive][got].boot
            IN  \/ /\ boot = NotABoot
                   /\ Return(IF call.op = "fopen" THEN -4 ELSE -3)
                   /\ UNCHANGED fs_private
                \/ /\ boot # NotABoot
                   /\ fs_private' = [fs_private EXCEPT ![call.drive] = boot]
                   /\ \/ /\ call.op = "fopen" /\ call.mode \notin {"r", "w", "a"}
                         /\ Return(-5)
                      \/ /\ call.op = "fopen" /\ call.mode \in {"w", "a"}
                         /\ Return(-6)
                      \/ /\ call.op = "fopen" => call.mode = "r"
                         /\ pc' = IF parts = <<>> THEN "list" ELSE "search"
                         /\ UNCHANGED <<call, place, res, owed>>
    /\ UNCHANGED <<descriptors, output>>

\* The item at index of the sector that was read; a read that failed ends a
\* search and a list as the end of the directory does.
ItemIn(got) ==
    IF got = D!FAILED THEN [filename |-> <<NUL>>]
    ELSE Disk[call.drive][got].items[index % ItemsPerSector]

\* fat16_open and fat16_list fail.
NotThere == Return(IF call.op = "fopen" THEN -6 ELSE -1) /\ UNCHANGED descriptors

Descend(item) ==
    /\ item.dir
    /\ cluster' = item.cluster /\ inRoot' = (item.cluster = 0) /\ index' = 0
    /\ parts' = Tail(parts)
    /\ pc' = IF Len(parts) > 1 THEN "search" ELSE "list"
    /\ UNCHANGED <<call, res, owed, descriptors>>

\* fs_new_descriptor: the first free slot, or -7.
OpenItem(item) ==
    /\ ~ item.dir
    /\ LET free == {fd \in 1..MaxOpen : descriptors[fd] = Free}
       IN  \/ free = {} /\ Return(-7) /\ UNCHANGED descriptors
           \/ /\ free # {}
              /\ Return(Min(free))
              /\ descriptors' = [descriptors EXCEPT ![Min(free)] =
                                   [drive |-> call.drive, item |-> item, pos |-> 0]]

Named(item) ==
    /\ item.filename[1] \notin {NUL, DELETED}
    /\ strncasecmp_equal(full_relative_filename(item), Head(parts), NameSize)

\* fat16_get_directory_entry and, when it has found the part, the loop of
\* fat16_open or fat16_list around it.
get_directory_entry ==
    /\ pc = "search"
    /\ index < items_here(call.drive)
    /\ \E got \in Answers :
         /\ Reads(call.drive, directory_sector(call.drive) + index \div ItemsPerSector, got)
         /\ LET item == ItemIn(got)
                last == Len(parts) = 1
            IN  \/ item.filename[1] = NUL /\ NotThere
                \/ /\ item.filename[1] # NUL /\ ~ Named(item)
                   /\ index' = index + 1
                   /\ UNCHANGED <<pc, call, parts, cluster, inRoot, res, owed, descriptors>>
                \/ /\ Named(item)
                   /\ \/ (call.op = "ls" \/ ~ last) /\ Descend(item)
                      \/ (call.op = "ls" \/ ~ last) /\ ~ item.dir /\ NotThere
                      \/ call.op = "fopen" /\ last /\ OpenItem(item)
                      \/ call.op = "fopen" /\ last /\ item.dir /\ NotThere
    /\ UNCHANGED <<fs_private, output>>

\* The items of the root directory, or of a cluster, are all read.
search_end ==
    /\ pc = "search"
    /\ index = items_here(call.drive)
    /\ \/ inRoot /\ NotThere
       \/ /\ ~ inRoot
          /\ pc' = "search_chain"
          /\ UNCHANGED <<call, place, res, owed, descriptors>>
    /\ UNCHANGED <<fs_private, output, disk>>

\* Slip: the next cluster of the directory is not taken.
get_fat_entry_Stays ==
    /\ pc \in {"search_chain", "list_chain"}
    /\ index' = 0
    /\ pc' = IF pc = "search_chain" THEN "search" ELSE "list"
    /\ UNCHANGED <<call, parts, cluster, inRoot, res, owed, descriptors, fs_private,
                   output, disk>>

\* fat16_get_fat_entry: the next cluster of the directory; a read that failed
\* gives the value of a chain's end.
get_fat_entry ==
    /\ pc \in {"search_chain", "list_chain"}
    /\ \E got \in Answers :
         /\ Reads(call.drive,
                  fs_private[call.drive].reserved_sectors + cluster \div EntriesPerSector, got)
         /\ LET entry == IF got = D!FAILED THEN READ_ERROR
                         ELSE Disk[call.drive][got].fat[cluster % EntriesPerSector]
            IN  \/ /\ entry < RESERVED_MIN
                   /\ cluster' = entry /\ index' = 0
                   /\ pc' = IF pc = "search_chain" THEN "search" ELSE "list"
                   /\ UNCHANGED <<call, parts, inRoot, res, owed, descriptors>>
                \/ entry >= RESERVED_MIN /\ pc = "search_chain" /\ NotThere
                \/ /\ entry >= RESERVED_MIN /\ pc = "list_chain"
                   /\ Return(0)
                   /\ UNCHANGED descriptors
    /\ UNCHANGED <<fs_private, output>>

\* A list of the root directory ends here; one of a cluster goes on with the
\* next cluster, also behind the last item and behind a failed read.
ListEnds ==
    \/ inRoot /\ Return(0)
    \/ ~ inRoot /\ pc' = "list_chain" /\ UNCHANGED <<call, place, res, owed>>

\* Slip: a free item is printed too.
list_item_Free ==
    /\ pc = "list"
    /\ index < items_here(call.drive)
    /\ \E got \in Answers :
         /\ Reads(call.drive, directory_sector(call.drive) + index \div ItemsPerSector, got)
         /\ LET item == ItemIn(got)
            IN  IF item.filename[1] = NUL
                  THEN ListEnds /\ UNCHANGED output
                  ELSE /\ output' = Append(output, <<full_relative_filename(item), item.dir>>)
                       /\ index' = index + 1
                       /\ UNCHANGED <<pc, call, parts, cluster, inRoot, res, owed>>
    /\ UNCHANGED <<fs_private, descriptors>>

\* fat16_list prints the items in use.
list_item ==
    /\ pc = "list"
    /\ index < items_here(call.drive)
    /\ \E got \in Answers :
         /\ Reads(call.drive, directory_sector(call.drive) + index \div ItemsPerSector, got)
         /\ LET item == ItemIn(got)
            IN  \/ item.filename[1] = NUL /\ ListEnds /\ UNCHANGED output
                \/ /\ item.filename[1] # NUL
                   /\ output' = IF item.filename[1] = DELETED THEN output
                                ELSE Append(output, <<full_relative_filename(item), item.dir>>)
                   /\ index' = index + 1
                   /\ UNCHANGED <<pc, call, parts, cluster, inRoot, res, owed>>
    /\ UNCHANGED <<fs_private, descriptors>>

list_end ==
    /\ pc = "list"
    /\ index = items_here(call.drive)
    /\ ListEnds
    /\ UNCHANGED <<fs_private, descriptors, output, disk>>

\* fread of up to one cluster.  Nothing is left at the end of the file.
fread(fd) ==
    /\ pc = "idle"
    /\ LET file == descriptors[fd]
       IN  \/ file = Free /\ Refuse(-1)
           \/ file # Free /\ file.pos = file.item.size /\ Refuse(0)
           \/ /\ file # Free /\ file.pos < file.item.size
              /\ Start([op |-> "fread", fd |-> fd, drive |-> file.drive], <<>>, "data")

\* fat16_read: the place of the cluster is computed from the boot sector that the
\* drive has now.  A failed read delivers nothing and does not move the file.
read_data ==
    /\ pc = "data"
    /\ LET file == descriptors[call.fd]
       IN  \E got \in Answers :
             /\ Reads(call.drive, cluster_to_sector(fs_private[call.drive], file.item.cluster), got)
             /\ \/ /\ got = D!FAILED
                   /\ Return(0)
                   /\ UNCHANGED <<output, descriptors>>
                \/ /\ got # D!FAILED
                   /\ Return(1)
                   /\ output' = <<Disk[call.drive][got].data>>
                   /\ descriptors' = [descriptors EXCEPT ![call.fd].pos = file.item.size]
    /\ UNCHANGED fs_private

fclose(fd) ==
    /\ pc = "idle"
    /\ res' = (IF descriptors[fd] = Free THEN -1 ELSE 0)
    /\ descriptors' = [descriptors EXCEPT ![fd] = Free]
    /\ output' = <<>> /\ faults' = 0
    /\ UNCHANGED <<pc, call, place, fs_private, late, owed>>

Working == \/ fat16_resolve \/ get_directory_entry \/ search_end \/ get_fat_entry
           \/ list_item \/ list_end \/ read_data

Next ==
    \/ Working
    \/ \E text \in Texts, mode \in Modes : fopen(text, mode)
    \/ \E text \in Texts : fs_list(text)
    \/ \E fd \in 1..MaxOpen : fread(fd) \/ fclose(fd)

\* A call that began is carried on: nothing else runs.
Spec == Init /\ [][Next]_vars /\ WF_vars(Working)

-----------------------------------------------------------------------------
(* Properties *)

TypeOK ==
    /\ pc \in {"idle", "resolve", "search", "search_chain", "list", "list_chain", "data"}
    /\ (pc = "idle") = (call = NoCall)
    /\ cluster \in 0..(RESERVED_MIN - 1) /\ inRoot \in BOOLEAN
    /\ \A d \in Drives : fs_private[d] \in {NotMounted, Disk[d][0].boot}
    /\ pc \notin {"idle", "resolve"} =>
         fs_private[call.drive] # NotMounted /\ index \in 0..items_here(call.drive)
    /\ \A fd \in 1..MaxOpen : descriptors[fd] # Free =>
         descriptors[fd].drive \in Drives /\ descriptors[fd].pos <= descriptors[fd].item.size
    /\ late \in [Drives -> Int] /\ faults \in 0..MaxFaults /\ owed \in BOOLEAN
    /\ res \in -7..MaxOpen

\* What a text names, read off the tree: what stands between two slashes, the
\* last one of the drive and a closing one included.
Pieces(text) ==
    LET body    == SubSeq(text, 4, Len(text)) \o <<"/">>
        slashes == SetToSortSeq({i \in 1..Len(body) : body[i] = "/"}, <)
    IN  [k \in 1..Len(slashes) |->
           SubSeq(body, (IF k = 1 THEN 0 ELSE slashes[k - 1]) + 1, slashes[k] - 1)]
PartsOf(text) == SelectSeq(Pieces(text), LAMBDA p : p # <<>>)

\* No two slashes behind one another.  Of a text that has them the code drops
\* what follows, so it may open a file that the text does not name: the
\* properties leave such texts out.
SingleSlashes(text) == \A k \in 1..(Len(Pieces(text)) - 1) : Pieces(text)[k] # <<>>

Upper(text) == [i \in 1..Len(text) |-> toupper(text[i])]

Nothing == "nothing"

Child(d, dir, name) ==
    LET same == {it \in Range(Tree[d][dir]) : Upper(it[1]) = Upper(name)}
    IN  IF same = {} THEN Nothing ELSE (CHOOSE it \in same : TRUE)[2]

Names(text) ==
    LET d == get_drive_no(text)
    IN  FoldLeft(LAMBDA dir, name : IF dir \in DOMAIN Tree[d] THEN Child(d, dir, name)
                                    ELSE Nothing,
                 Root, PartsOf(text))

Returns(op) == call.op = op /\ call' = NoCall

\* fopen opens the file that the path names, whatever case it is written in and
\* however its directories lie on the disk, and never another one: also when
\* reads fail and when the drive answers late, because the boot sector that each
\* fopen reads first takes a late answer and refuses it.
OpenFindsTheFile ==
    [][Returns("fopen") /\ res' > 0 /\ SingleSlashes(call.text) =>
         /\ descriptors'[res'].drive = call.drive
         /\ descriptors'[res'].item.id = Names(call.text)]_vars

\* fread delivers the block of the file that was opened, although every fopen
\* replaces the drive's boot sector; only a drive that owed a sector when the
\* call began may give another one.
ReadIsRight ==
    [][Returns("fread") /\ output' # <<>> =>
         owed \/ output' = <<descriptors[call.fd].item.id>>]_vars

\* ls prints every item of the directory once, in order, unless a read failed.
\* (Then it may print less, or other lines, and still return 0.)  A late answer
\* that was owed before the call is taken by the boot sector's read.
ListShowsDirectory ==
    [][Returns("ls") /\ res' = 0 /\ faults' = 0 /\ SingleSlashes(call.text) =>
         output' = [i \in 1..Len(Tree[call.drive][Names(call.text)]) |->
                      LET it == Tree[call.drive][Names(call.text)][i]
                      IN  <<it[1], it[2] \in DOMAIN Tree[call.drive]>>]]_vars

\* fopen and ls fail only for a cause: no such file or directory, another mode
\* than reading, no free slot, a failed read or a late answer.
FailsOnlyForCause ==
    [][res' < 0 /\ faults' = 0 /\ ~ owed =>
         /\ Returns("fopen") /\ SingleSlashes(call.text) =>
              \/ Names(call.text) = Nothing
              \/ Names(call.text) \in DOMAIN Tree[call.drive]
              \/ call.mode # "r"
              \/ \A fd \in 1..MaxOpen : descriptors[fd] # Free
         /\ Returns("ls") /\ SingleSlashes(call.text) => Names(call.text) \notin DOMAIN Tree[call.drive]]_vars

\* Every call returns, on a volume whose chains end.
CallReturns == pc # "idle" ~> pc = "idle"
=============================================================================
