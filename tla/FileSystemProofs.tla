-------------------------- MODULE FileSystemProofs --------------------------
(***************************************************************************)
(* Proofs about FileSystem for consistent volumes of any size and geometry, *)
(* any paths and any number of descriptors, reads that fail and drives that *)
(* answer late.                                                             *)
(***************************************************************************)
EXTENDS FileSystem, WellFoundedInduction, TLAPS

Searching == pc \in {"search", "search_chain"}
Listing   == pc \in {"list", "list_chain"}

(* The shape of the state that TypeOK leaves open.                           *)
Types ==
    /\ pc \in {"idle", "resolve", "data"} \/ Searching \/ Listing
    /\ cluster \in 0..(RESERVED_MIN - 1) /\ inRoot \in BOOLEAN
    /\ fs_private \in [Drives -> {NotMounted} \cup {Boot0(d) : d \in Drives}]
    /\ DOMAIN descriptors = 1..MaxOpen
    /\ late \in [Drives -> {D!NONE} \cup 0..(Sectors - 1)]
    /\ faults \in 0..MaxFaults /\ owed \in BOOLEAN
    /\ res \in -7..MaxOpen

(* A drive keeps its own boot sector.                                        *)
Mounted ==
    /\ \A d \in Drives : fs_private[d] \in {NotMounted, Boot0(d)}
    /\ Searching \/ Listing \/ pc = "data" => fs_private[call.drive] = Boot0(call.drive)

(* What is known of the call at each step.                                   *)
Calls ==
    /\ pc = "idle" => call = NoCall
    /\ pc # "idle" => call.op \in {"fopen", "ls", "fread"} /\ call.drive \in Drives
    /\ pc = "data" <=> call.op = "fread"

(* An open file is on a drive that was mounted, and its block is there.      *)
Opened ==
    \A fd \in 1..MaxOpen : descriptors[fd] # Free =>
      LET file == descriptors[fd]
      IN  /\ file = [drive |-> file.drive, item |-> file.item, pos |-> file.pos]
          /\ file.drive \in Drives
          /\ fs_private[file.drive] = Boot0(file.drive)
          /\ FileOnDisk(file.drive, file.item)
          /\ file.pos \in 0..file.item.size

(* The directory searched is one of the volume, and the drive owes nothing:  *)
(* the read of the boot sector took what was late.                           *)
Search ==
    /\ pc \in {"idle", "resolve", "data"} => inRoot /\ index = 0
    /\ Searching \/ Listing => index \in 0..items_here(call.drive)
    /\ Searching => /\ late[call.drive] = D!NONE
                    /\ inRoot \/ cluster \in Directories[call.drive]

(* The file read is open and not at its end.                                 *)
Reading ==
    pc = "data" =>
      /\ call.fd \in 1..MaxOpen /\ descriptors[call.fd] # Free
      /\ descriptors[call.fd].drive = call.drive
      /\ descriptors[call.fd].pos < descriptors[call.fd].item.size
      /\ owed \/ late[call.drive] = D!NONE
      /\ output = <<>>

Inv == Types /\ Mounted /\ Calls /\ Opened /\ Search /\ Reading

-----------------------------------------------------------------------------
(* Numbers *)

(* Item i of a run of sectors is in one of them.                             *)
LEMMA InSector ==
    ASSUME NEW i \in Nat, NEW k \in Nat \ {0}
    PROVE  /\ i \div k \in Nat /\ i % k \in 0..(k - 1) /\ i \div k <= i
           /\ \A n \in Nat : i < n * k => i \div k \in 0..(n - 1)
<1> DEFINE q == i \div k
<1>1. q \in Nat /\ i % k \in 0..(k - 1) /\ q * k + (i % k) = i
  OBVIOUS
<1>2. q <= q * k
  <2>1. \A a \in Nat, b \in Nat \ {0} : a <= a * b
    OBVIOUS
  <2> HIDE DEF q
  <2> QED BY <1>1, <2>1
<1>3. q * k <= i
  <2> DEFINE m == q * k
  <2>1. m \in Nat
    BY <1>1
  <2> HIDE DEF m
  <2>2. m + (i % k) = i
    BY <1>1 DEF m
  <2>3. m <= i
    <3> DEFINE r == i % k
    <3>1. r \in Nat /\ m + r = i
      BY <1>1, <2>2
    <3> HIDE DEF r
    <3> QED BY <2>1, <3>1
  <2> QED BY <2>3 DEF m
<1>4. ASSUME NEW n \in Nat, i < n * k PROVE q < n
  <2>1. \A a, b, c \in Nat : a >= b => a * c >= b * c
    OBVIOUS
  <2>2. q * k < n * k
    <3> DEFINE m == q * k
               l == n * k
    <3>1. m \in Nat /\ l \in Nat /\ m <= i /\ i < l
      BY <1>1, <1>3, <1>4
    <3> HIDE DEF m, l
    <3>2. m < l
      BY <3>1
    <3> QED BY <3>2 DEF m, l
  <2>3. ~ (q >= n)
    <3> SUFFICES ASSUME q >= n PROVE FALSE
      OBVIOUS
    <3> HIDE DEF q
    <3> DEFINE m == q * k
               l == n * k
    <3>1. m >= l /\ m < l /\ m \in Nat /\ l \in Nat
      BY <1>1, <2>1, <2>2
    <3> HIDE DEF m, l
    <3> QED BY <3>1
  <2> HIDE DEF q
  <2> QED BY <1>1, <2>3
<1>5. q <= i
  <2> DEFINE m == q * k
  <2>1. m \in Nat /\ q <= m /\ m <= i
    BY <1>1, <1>2, <1>3
  <2> HIDE DEF q, m
  <2> QED BY <1>1, <2>1
<1> HIDE DEF q
<1>6. \A n \in Nat : i < n * k => q \in 0..(n - 1)
  BY <1>1, <1>4
<1> QED BY <1>1, <1>5, <1>6 DEF q

(* The least slot of some.                                                   *)
LEMMA MinIsElement ==
    ASSUME NEW S, S \subseteq Nat, S # {}
    PROVE  Min(S) \in S
<1>1. PICK x \in S : \A y \in S : ~ (<<y, x>> \in OpToRel(<, Nat))
  BY WFMin, NatLessThanWellFounded, Zenon
<1>2. ASSUME NEW y \in S PROVE x <= y
  <2>1. x \in Nat /\ y \in Nat /\ <<y, x>> \notin OpToRel(<, Nat)
    BY <1>1
  <2>2. <<y, x>> \in Nat \X Nat /\ <<y, x>>[1] = y /\ <<y, x>>[2] = x
    BY <2>1
  <2>3. y < x => <<y, x>> \in OpToRel(<, Nat)
    BY <2>2 DEF OpToRel
  <2>4. ~ (y < x)
    BY <2>1, <2>3, Zenon
  <2>5. x \in Nat /\ y \in Nat
    OBVIOUS
  <2> QED BY <2>4, <2>5
<1> QED BY <1>1, <1>2 DEF Min

-----------------------------------------------------------------------------
(* Volumes and reads *)

LEMMA Volume ==
    ASSUME NEW d \in Drives
    PROVE  /\ Boot0(d) \in BootSector
           /\ Boot0(d) # NotMounted /\ Boot0(d) # NotABoot
           /\ \A s \in 0..(Sectors - 1) : s > 0 => Disk[d][s].boot = NotABoot
<1>1. /\ Boot0(d) \in BootSector
      /\ \A s \in 0..(Sectors - 1) : s > 0 => Disk[d][s].boot = NotABoot
  BY VolumeAssumption
<1>2. Boot0(d).fat_copies \in Nat \ {0}
  BY <1>1 DEF BootSector
<1> QED BY <1>1, <1>2 DEF NotMounted, NotABoot

(* A read that fails may leave a sector owed; one that does not leaves none. *)
(* A drive that owes nothing gives the sector asked for.                     *)
LEMMA ReadGives ==
    ASSUME Types, NEW d \in Drives, NEW s, NEW got \in Answers, Reads(d, s, got)
    PROVE  /\ late' \in [Drives -> {D!NONE} \cup 0..(Sectors - 1)]
           /\ faults' \in 0..MaxFaults
           /\ got # D!FAILED => got \in 0..(Sectors - 1) /\ late'[d] = D!NONE
           /\ late[d] = D!NONE /\ got # D!FAILED => got = s
<1> USE DEF D!NONE, D!FAILED
<1>1. /\ Sectors \in Nat \ {0} /\ MaxFaults \in Nat
      /\ late \in [Drives -> {D!NONE} \cup 0..(Sectors - 1)] /\ faults \in 0..MaxFaults
  BY FileSystemAssumption DEF Types
<1>2. faults' \in 0..MaxFaults
  BY <1>1 DEF Reads
<1>3. got # D!FAILED => got \in 0..(Sectors - 1)
  BY DEF Answers
<1>4. \/ got = late[d] /\ late[d] # D!NONE /\ late' = [late EXCEPT ![d] = D!NONE]
      \/ got = s /\ late' = [late EXCEPT ![d] = D!NONE]
      \/ /\ got = D!FAILED
         /\ \E o \in {D!NONE} \cup ({s} \cap 0..(Sectors - 1)) : late' = [late EXCEPT ![d] = o]
  BY DEF Reads, D!Gives
<1>5. late' \in [Drives -> {D!NONE} \cup 0..(Sectors - 1)]
  BY <1>1, <1>4
<1> QED BY <1>1, <1>2, <1>3, <1>4, <1>5

(* What a boot sector's read gives passes for one only if it is one.         *)
LEMMA OnlySectorZero ==
    ASSUME NEW d \in Drives, NEW s \in 0..(Sectors - 1), Disk[d][s].boot # NotABoot
    PROVE  Disk[d][s].boot = Boot0(d)
<1>1. s = 0
  BY Volume, FileSystemAssumption
<1> QED BY <1>1 DEF Boot0

(* The item read in a search is one of a directory of the volume.            *)
LEMMA FoundItem ==
    ASSUME Inv, pc = "search", NEW got \in Answers, index < items_here(call.drive),
           Reads(call.drive,
                 directory_sector(call.drive) + index \div ItemsPerSector, got),
           ItemIn(got).filename[1] \notin {NUL, DELETED}
    PROVE  /\ ItemIn(got).dir => ItemIn(got).cluster \in {0} \cup Directories[call.drive]
           /\ ~ ItemIn(got).dir => FileOnDisk(call.drive, ItemIn(got))
<1> DEFINE d == call.drive
           s == directory_sector(d) + index \div ItemsPerSector
<1>1. /\ d \in Drives /\ fs_private[d] = Boot0(d) /\ late[d] = D!NONE
      /\ index \in 0..items_here(d) /\ inRoot \in BOOLEAN
      /\ inRoot \/ cluster \in Directories[d]
  BY DEF Inv, Types, Mounted, Calls, Search, Searching
<1>2. got # D!FAILED
  <2>1. <<NUL>>[1] = NUL
    OBVIOUS
  <2> QED BY <2>1 DEF ItemIn
<1>3. got = s /\ got \in 0..(Sectors - 1)
  BY <1>1, <1>2, ReadGives DEF Inv
<1>4. /\ Boot0(d) \in BootSector /\ ItemsPerSector \in Nat \ {0}
      /\ Boot0(d).root_dir_entries \in Nat /\ Boot0(d).sectors_per_cluster \in Nat
  BY <1>1, Volume, FileSystemAssumption DEF BootSector
<1>5. items_here(d) \in Nat /\ index \in Nat
  BY <1>1, <1>4 DEF items_here
<1>6. /\ index \div ItemsPerSector \in Nat /\ index % ItemsPerSector \in 0..(ItemsPerSector - 1)
      /\ index \div ItemsPerSector <= index
      /\ \A n \in Nat : index < n * ItemsPerSector => index \div ItemsPerSector \in 0..(n - 1)
  BY <1>4, <1>5, InSector
<1>7. s \in DirectorySectors(d)
  <2> DEFINE q == index \div ItemsPerSector
  <2>1. CASE inRoot
    <3>1. index \in 0..(Boot0(d).root_dir_entries - 1)
      BY <1>1, <1>4, <1>5, <2>1 DEF items_here
    <3>2. s = root_directory_sector(Boot0(d)) + index \div ItemsPerSector
      BY <1>1, <2>1 DEF directory_sector
    <3> HIDE DEF s
    <3> QED BY <3>1, <3>2 DEF DirectorySectors
  <2>2. CASE ~ inRoot
    <3>1. q \in 0..(Boot0(d).sectors_per_cluster - 1)
      BY <1>1, <1>4, <1>6, <2>2 DEF items_here
    <3>2. s = cluster_to_sector(Boot0(d), cluster) + q /\ cluster \in Directories[d]
      BY <1>1, <2>2 DEF directory_sector
    <3> HIDE DEF s, q
    <3> QED BY <3>1, <3>2 DEF DirectorySectors
  <2> QED BY <2>1, <2>2
<1>8. ItemIn(got) = Disk[d][s].items[index % ItemsPerSector]
  BY <1>2, <1>3 DEF ItemIn
<1>9. s \in DirectorySectors(d) \cap 0..(Sectors - 1)
  BY <1>3, <1>7
<1> DEFINE item == Disk[d][s].items[index % ItemsPerSector]
<1>10. item.filename[1] \notin {NUL, DELETED} =>
         IF item.dir THEN item.cluster \in {0} \cup Directories[d] ELSE FileOnDisk(d, item)
  <2> HIDE DEF s
  <2> QED BY <1>1, <1>6, <1>9, VolumeAssumption
<1>11. item = ItemIn(got)
  BY <1>8
<1> HIDE DEF item, s
<1> QED BY <1>10, <1>11

-----------------------------------------------------------------------------
(* What the actions have in common *)

(* The open files are not disturbed when a drive takes its boot sector anew. *)
LEMMA SameFiles ==
    ASSUME Inv, descriptors' = descriptors,
           \A d \in Drives : fs_private'[d] \in {fs_private[d], Boot0(d)}
    PROVE  Opened'
BY DEF Inv, Opened, FileOnDisk, Boot0

LEMMA Returned ==
    ASSUME Inv, NEW code \in -7..MaxOpen, Return(code),
           late' \in [Drives -> {D!NONE} \cup 0..(Sectors - 1)], faults' \in 0..MaxFaults,
           fs_private' \in [Drives -> {NotMounted} \cup {Boot0(d) : d \in Drives}],
           \A d \in Drives : fs_private'[d] \in {fs_private[d], Boot0(d)},
           DOMAIN descriptors' = 1..MaxOpen, Opened'
    PROVE  Inv'
<1>1. Types'
  <2>1. pc' = "idle" /\ cluster' = 0 /\ inRoot' = TRUE /\ owed' = FALSE /\ res' = code
    BY DEF Return
  <2>2. cluster' \in 0..(RESERVED_MIN - 1) /\ res' \in -7..MaxOpen
    BY <2>1 DEF RESERVED_MIN
  <2>4. inRoot' \in BOOLEAN /\ owed' \in BOOLEAN
    BY <2>1
  <2>3. late' \in [Drives -> {D!NONE} \cup 0..(Sectors - 1)]
    OBVIOUS
  <2> QED BY <2>1, <2>2, <2>3, <2>4 DEF Types
<1>2. Mounted'
  BY DEF Inv, Mounted, Return, Searching, Listing, Boot0
<1>3. Calls'
  BY DEF Calls, Return, NoCall
<1>4. Search' /\ Reading'
  BY DEF Search, Reading, Return, Searching, Listing
<1> QED BY <1>1, <1>2, <1>3, <1>4 DEF Inv

-----------------------------------------------------------------------------
(* The calls *)

(* The range of what a call returns.                                         *)
LEMMA Codes ==
    /\ {-7, -6, -5, -4, -3, -2, -1, 0, 1} \subseteq -7..MaxOpen
    /\ \A fd \in 1..MaxOpen : fd \in -7..MaxOpen
BY FileSystemAssumption

LEMMA Refused ==
    ASSUME Inv, NEW code \in -7..MaxOpen, Refuse(code)
    PROVE  Inv'
<1>1. /\ res' = code /\ faults' = 0 /\ output' = <<>> /\ pc' = pc /\ call' = call
      /\ cluster' = cluster /\ inRoot' = inRoot /\ index' = index
      /\ fs_private' = fs_private /\ descriptors' = descriptors /\ late' = late /\ owed' = owed
  BY DEF Refuse, place
<1>2. 0 \in 0..MaxFaults
  BY FileSystemAssumption
<1>3. Types'
  BY <1>1, <1>2 DEF Inv, Types, Searching, Listing
<1>4. Mounted' /\ Calls' /\ Search'
  BY <1>1 DEF Inv, Mounted, Calls, Search, Searching, Listing, items_here
<1>5. Opened'
  BY <1>1, SameFiles
<1>6. Reading'
  BY <1>1 DEF Inv, Reading
<1> QED BY <1>3, <1>4, <1>5, <1>6 DEF Inv

(* A call on a drive begins at the root, before any read.                    *)
LEMMA Started ==
    ASSUME Inv, pc = "idle", NEW c, NEW ps, NEW next \in {"resolve", "data"}, Start(c, ps, next),
           c.op \in {"fopen", "ls", "fread"}, c.drive \in Drives,
           next = "data" <=> c.op = "fread",
           next = "data" => /\ c.fd \in 1..MaxOpen /\ descriptors[c.fd] # Free
                            /\ descriptors[c.fd].drive = c.drive
                            /\ descriptors[c.fd].pos < descriptors[c.fd].item.size
    PROVE  Inv'
<1>1. /\ pc' = next /\ call' = c /\ res' = 0 /\ faults' = 0 /\ output' = <<>>
      /\ owed' = (late[c.drive] # D!NONE)
      /\ cluster' = cluster /\ inRoot' = inRoot /\ index' = index
      /\ fs_private' = fs_private /\ descriptors' = descriptors /\ late' = late
  BY DEF Start
<1>2. Types'
  <2>1. faults' \in 0..MaxFaults /\ res' \in -7..MaxOpen
    BY <1>1, FileSystemAssumption
  <2>2. owed' \in BOOLEAN
    BY <1>1
  <2>3. pc' \in {"idle", "resolve", "data"}
    BY <1>1
  <2> QED BY <1>1, <2>1, <2>2, <2>3 DEF Inv, Types
<1>3. Opened'
  BY <1>1, SameFiles
<1>4. Mounted'
  <2>1. next = "data" => fs_private[c.drive] = Boot0(c.drive)
    BY DEF Inv, Opened
  <2> QED BY <1>1, <2>1 DEF Inv, Mounted, Searching, Listing
<1>5. Calls'
  BY <1>1 DEF Calls
<1>6. Search'
  BY <1>1 DEF Inv, Search, Searching, Listing
<1>7. Reading'
  BY <1>1 DEF Inv, Reading
<1> QED BY <1>2, <1>3, <1>4, <1>5, <1>6, <1>7 DEF Inv

LEMMA Fopen ==
    ASSUME Inv, NEW text \in Texts, NEW mode \in Modes, fopen(text, mode)
    PROVE  Inv'
<1> DEFINE d  == get_drive_no(text)
           ps == path_parser_parse(text)
           c  == [op |-> "fopen", text |-> text, mode |-> mode, drive |-> d]
<1>1. \/ \E code \in {-1, -2, -3} : Refuse(code)
      \/ d \in Drives /\ Start(c, ps, "resolve")
  BY DEF fopen
<1>2. pc = "idle"
  BY DEF fopen
<1>3. ASSUME NEW code \in {-1, -2, -3}, Refuse(code) PROVE Inv'
  BY <1>3, Codes, Refused
<1>4. CASE d \in Drives /\ Start(c, ps, "resolve")
  <2>1. c.op = "fopen" /\ c.drive = d
    OBVIOUS
  <2> HIDE DEF c, d, ps
  <2> QED BY <1>2, <1>4, <2>1, Started
<1> QED BY <1>1, <1>3, <1>4

LEMMA FsList ==
    ASSUME Inv, NEW text \in Texts, fs_list(text)
    PROVE  Inv'
<1> DEFINE d  == get_drive_no(text)
           ps == path_parser_parse(text)
           c  == [op |-> "ls", text |-> text, drive |-> d]
<1>1. \/ \E code \in {-1, -2} : Refuse(code)
      \/ d \in Drives /\ Start(c, ps, "resolve")
  BY DEF fs_list
<1>2. pc = "idle"
  BY DEF fs_list
<1>3. ASSUME NEW code \in {-1, -2}, Refuse(code) PROVE Inv'
  BY <1>3, Codes, Refused
<1>4. CASE d \in Drives /\ Start(c, ps, "resolve")
  <2>1. c.op = "ls" /\ c.drive = d
    OBVIOUS
  <2> HIDE DEF c, d, ps
  <2> QED BY <1>2, <1>4, <2>1, Started
<1> QED BY <1>1, <1>3, <1>4

LEMMA Fread ==
    ASSUME Inv, NEW fd \in 1..MaxOpen, fread(fd)
    PROVE  Inv'
<1> DEFINE c == [op |-> "fread", fd |-> fd, drive |-> descriptors[fd].drive]
<1>1. \/ \E code \in {-1, 0} : Refuse(code)
      \/ /\ descriptors[fd] # Free /\ descriptors[fd].pos < descriptors[fd].item.size
         /\ Start(c, <<>>, "data")
  BY DEF fread
<1>2. pc = "idle"
  BY DEF fread
<1>3. ASSUME NEW code \in {-1, 0}, Refuse(code) PROVE Inv'
  BY <1>3, Codes, Refused
<1>4. CASE /\ descriptors[fd] # Free /\ descriptors[fd].pos < descriptors[fd].item.size
           /\ Start(c, <<>>, "data")
  <2>1. c.op = "fread" /\ c.fd = fd /\ c.drive = descriptors[fd].drive
    OBVIOUS
  <2>2. c.drive \in Drives
    BY <1>4, <2>1 DEF Inv, Opened
  <2> HIDE DEF c
  <2> QED BY <1>2, <1>4, <2>1, <2>2, Started
<1> QED BY <1>1, <1>3, <1>4

LEMMA Fclose ==
    ASSUME Inv, NEW fd \in 1..MaxOpen, fclose(fd)
    PROVE  Inv'
<1>1. /\ pc = "idle" /\ res' \in {-1, 0} /\ faults' = 0
      /\ descriptors' = [descriptors EXCEPT ![fd] = Free]
      /\ pc' = pc /\ call' = call /\ cluster' = cluster /\ inRoot' = inRoot /\ index' = index
      /\ fs_private' = fs_private /\ late' = late /\ owed' = owed
  BY DEF fclose, place
<1>2. Types'
  <2>1. faults' \in 0..MaxFaults /\ res' \in -7..MaxOpen
    BY <1>1, FileSystemAssumption
  <2> QED BY <1>1, <2>1 DEF Inv, Types, Searching, Listing
<1>3. Opened'
  <2>1. \A g \in 1..MaxOpen : descriptors'[g] \in {descriptors[g], Free}
    BY <1>1 DEF Inv, Types
  <2> QED BY <1>1, <2>1 DEF Inv, Opened, FileOnDisk, Boot0
<1>4. Mounted' /\ Calls' /\ Search' /\ Reading'
  BY <1>1 DEF Inv, Mounted, Calls, Search, Reading, Searching, Listing
<1> QED BY <1>2, <1>3, <1>4 DEF Inv

-----------------------------------------------------------------------------
(* The reads *)

LEMMA Resolve == ASSUME Inv, fat16_resolve PROVE Inv'
<1> DEFINE d == call.drive
<1>1. pc = "resolve" /\ d \in Drives /\ descriptors' = descriptors
      /\ call.op # "fread" /\ call.op \in {"fopen", "ls", "fread"}
      /\ inRoot /\ index = 0
  BY DEF fat16_resolve, Inv, Calls, Search
<1>2. PICK got \in Answers :
         /\ Reads(d, 0, got)
         /\ LET boot == IF got = D!FAILED THEN NotABoot ELSE Disk[d][got].boot
            IN  \/ boot = NotABoot /\ (\E code \in {-3, -4} : Return(code)) /\ UNCHANGED fs_private
               \/ /\ boot # NotABoot
                  /\ fs_private' = [fs_private EXCEPT ![d] = boot]
                  /\ \/ \E code \in {-5, -6} : Return(code)
                     \/ /\ pc' = IF parts = <<>> THEN "list" ELSE "search"
                        /\ UNCHANGED <<call, place, res, owed>>
  BY DEF fat16_resolve
<1> DEFINE boot == IF got = D!FAILED THEN NotABoot ELSE Disk[d][got].boot
<1>3. /\ late' \in [Drives -> {D!NONE} \cup 0..(Sectors - 1)] /\ faults' \in 0..MaxFaults
      /\ got # D!FAILED => got \in 0..(Sectors - 1) /\ late'[d] = D!NONE
  BY <1>1, <1>2, ReadGives DEF Inv
<1>4. DOMAIN descriptors' = 1..MaxOpen
  BY <1>1 DEF Inv, Types
<1>5. CASE boot = NotABoot /\ (\E code \in {-3, -4} : Return(code)) /\ UNCHANGED fs_private
  <2>1. \A e \in Drives : fs_private'[e] \in {fs_private[e], Boot0(e)}
    BY <1>5
  <2>2. fs_private' \in [Drives -> {NotMounted} \cup {Boot0(e) : e \in Drives}]
    BY <1>5 DEF Inv, Types
  <2>3. PICK code \in -7..MaxOpen : Return(code)
    BY <1>5, Codes
  <2> QED BY <1>1, <1>3, <1>4, <2>1, <2>2, <2>3, SameFiles, Returned
<1>6. CASE boot # NotABoot /\ fs_private' = [fs_private EXCEPT ![d] = boot]
  <2>1. got # D!FAILED /\ boot = Disk[d][got].boot
    BY <1>6
  <2>2. boot = Boot0(d)
    <3> HIDE DEF d
    <3> QED BY <1>1, <1>3, <1>6, <2>1, OnlySectorZero
  <2>3. fs_private' = [fs_private EXCEPT ![d] = Boot0(d)]
    BY <1>6, <2>2
  <2>4. /\ \A e \in Drives : fs_private'[e] \in {fs_private[e], Boot0(e)}
        /\ fs_private' \in [Drives -> {NotMounted} \cup {Boot0(e) : e \in Drives}]
        /\ fs_private'[d] = Boot0(d)
    <3> HIDE DEF d
    <3>1. fs_private \in [Drives -> {NotMounted} \cup {Boot0(e) : e \in Drives}]
      BY DEF Inv, Types
    <3>2. Boot0(d) \in {NotMounted} \cup {Boot0(e) : e \in Drives}
      BY <1>1
    <3> HIDE DEF Boot0
    <3> QED BY <1>1, <2>3, <3>1, <3>2
  <2>5. Opened'
    BY <1>1, <2>4, SameFiles
  <2>6. ASSUME NEW code \in {-5, -6}, Return(code) PROVE Inv'
    BY <1>3, <1>4, <2>4, <2>5, <2>6, Codes, Returned
  <2>7. CASE /\ pc' = IF parts = <<>> THEN "list" ELSE "search"
             /\ UNCHANGED <<call, place, res, owed>>
    <3>1. /\ pc' \in {"list", "search"} /\ call' = call /\ cluster' = cluster
          /\ inRoot' = inRoot /\ index' = index /\ res' = res /\ owed' = owed
      BY <2>7 DEF place
    <3>2. Types'
      <4>1. Searching' \/ Listing'
        BY <3>1 DEF Searching, Listing
      <4>2. fs_private' \in [Drives -> {NotMounted} \cup {Boot0(e) : e \in Drives}]'
        BY <2>4 DEF Boot0
      <4> QED BY <1>3, <1>4, <3>1, <4>1, <4>2 DEF Inv, Types
    <3>3. Mounted'
      <4>1. \A e \in Drives : fs_private'[e] \in {NotMounted, Boot0(e)}
        BY <2>4 DEF Inv, Mounted
      <4> QED BY <2>4, <3>1, <4>1 DEF Mounted, Boot0
    <3>4. Calls'
      BY <1>1, <3>1 DEF Inv, Calls
    <3>5. Search'
      <4>1. items_here(d)' = Boot0(d).root_dir_entries
        BY <1>1, <2>4, <3>1 DEF items_here
      <4>2. Boot0(d).root_dir_entries \in Nat
        BY <1>1, Volume DEF BootSector
      <4>3. index' \in 0..items_here(d)'
        BY <1>1, <3>1, <4>1, <4>2
      <4> QED BY <1>1, <1>3, <2>1, <3>1, <4>3 DEF Search, Searching, Listing
    <3>6. Reading'
      BY <3>1 DEF Reading
    <3> QED BY <2>5, <3>2, <3>3, <3>4, <3>5, <3>6 DEF Inv
  <2> QED BY <1>2, <1>6, <2>6, <2>7
<1> QED BY <1>2, <1>5, <1>6

(* A call that ends with nothing but its read to show.                       *)
LEMMA GivesUp ==
    ASSUME Inv, NEW code \in -7..MaxOpen, Return(code),
           UNCHANGED <<fs_private, descriptors>>,
           late' \in [Drives -> {D!NONE} \cup 0..(Sectors - 1)], faults' \in 0..MaxFaults
    PROVE  Inv'
<1>1. \A d \in Drives : fs_private'[d] \in {fs_private[d], Boot0(d)}
  OBVIOUS
<1>2. /\ fs_private' \in [Drives -> {NotMounted} \cup {Boot0(d) : d \in Drives}]
      /\ DOMAIN descriptors' = 1..MaxOpen
  BY DEF Inv, Types
<1> QED BY <1>1, <1>2, SameFiles, Returned

(* A step from one place of a directory to another.                          *)
LEMMA MovesOn ==
    ASSUME Inv, Searching \/ Listing,
           UNCHANGED <<fs_private, descriptors, call, res, owed>>,
           late' \in [Drives -> {D!NONE} \cup 0..(Sectors - 1)], faults' \in 0..MaxFaults,
           Searching' \/ Listing',
           cluster' \in 0..(RESERVED_MIN - 1), inRoot' \in BOOLEAN,
           index' \in 0..items_here(call.drive)',
           Searching' => /\ late'[call.drive] = D!NONE
                         /\ inRoot' \/ cluster' \in Directories[call.drive]
    PROVE  Inv'
<1>1. pc' \notin {"idle", "resolve", "data"} /\ pc \notin {"idle", "resolve", "data"}
  BY DEF Searching, Listing
<1>2. Types'
  BY DEF Inv, Types
<1>3. Mounted' /\ Calls'
  BY <1>1 DEF Inv, Mounted, Calls, Boot0
<1>4. Opened'
  BY SameFiles
<1>5. Search' /\ Reading'
  BY <1>1 DEF Search, Reading
<1> QED BY <1>2, <1>3, <1>4, <1>5 DEF Inv

(* The next item, the next cluster and the directory below are in bounds.    *)
LEMMA ItemsAreCounted ==
    ASSUME Inv, Searching \/ Listing, fs_private' = fs_private
    PROVE  /\ call.drive \in Drives
           /\ items_here(call.drive) \in Nat
           /\ call' = call => items_here(call.drive)' \in Nat
           /\ call' = call /\ inRoot' = inRoot =>
                items_here(call.drive)' = items_here(call.drive)
<1> DEFINE d == call.drive
<1>1. d \in Drives /\ fs_private[d] = Boot0(d)
  BY DEF Inv, Mounted, Calls, Searching, Listing
<1>2. /\ Boot0(d).root_dir_entries \in Nat
      /\ Boot0(d).sectors_per_cluster * ItemsPerSector \in Nat
  <2>1. Boot0(d).sectors_per_cluster \in Nat /\ Boot0(d).root_dir_entries \in Nat
    BY <1>1, Volume DEF BootSector
  <2>2. \A a, b \in Nat : a * b \in Nat
    OBVIOUS
  <2> QED BY <2>1, <2>2, FileSystemAssumption
<1> QED BY <1>1, <1>2 DEF items_here

LEMMA GetDirectoryEntry == ASSUME Inv, get_directory_entry PROVE Inv'
<1> DEFINE d == call.drive
<1>1. /\ pc = "search" /\ Searching /\ d \in Drives /\ index < items_here(d)
      /\ fs_private' = fs_private /\ items_here(d) \in Nat /\ index \in 0..items_here(d)
      /\ inRoot \/ cluster \in Directories[d]
      /\ inRoot \in BOOLEAN /\ cluster \in 0..(RESERVED_MIN - 1)
  BY ItemsAreCounted DEF get_directory_entry, Searching, Inv, Search, Types
<1>2. PICK got \in Answers :
         /\ Reads(d, directory_sector(d) + index \div ItemsPerSector, got)
         /\ LET item == ItemIn(got)
                last == Len(parts) = 1
            IN  \/ item.filename[1] = NUL /\ NotThere
                \/ /\ item.filename[1] # NUL /\ ~ Named(item)
                   /\ index' = index + 1
                   /\ UNCHANGED <<pc, call, parts, cluster, inRoot, res, owed, descriptors>>
                \/ /\ Named(item)
                   /\ \/ (call.op = "ls" \/ ~ last) /\ Descend(item)
                      \/ (call.op = "ls" \/ ~ last) /\ ~ item.dir /\ NotThere
                      \/ call.op = "fopen" /\ last /\ OpenItem(item)
                      \/ call.op = "fopen" /\ last /\ item.dir /\ NotThere
  BY DEF get_directory_entry
<1> DEFINE item == ItemIn(got)
<1>3. /\ late' \in [Drives -> {D!NONE} \cup 0..(Sectors - 1)] /\ faults' \in 0..MaxFaults
      /\ got # D!FAILED => late'[d] = D!NONE
  BY <1>1, <1>2, ReadGives DEF Inv
<1>4. item.filename[1] # NUL => got # D!FAILED
  <2>1. <<NUL>>[1] = NUL
    OBVIOUS
  <2> QED BY <2>1 DEF ItemIn
<1>5. ASSUME NotThere PROVE Inv'
  BY <1>1, <1>3, <1>5, Codes, GivesUp DEF NotThere
<1>6. CASE /\ item.filename[1] # NUL /\ index' = index + 1
           /\ UNCHANGED <<pc, call, parts, cluster, inRoot, res, owed, descriptors>>
  <2>1. index' \in 0..items_here(d)'
    <3>1. index + 1 \in 0..items_here(d)
      BY <1>1
    <3> QED BY <1>1, <1>6, <3>1, ItemsAreCounted
  <2>2. Searching' \/ Listing'
    BY <1>1, <1>6 DEF Searching
  <2>3. inRoot' \/ cluster' \in Directories[d]
    BY <1>1, <1>6
  <2> HIDE DEF d
  <2> QED BY <1>1, <1>3, <1>4, <1>6, <2>1, <2>2, <2>3, MovesOn DEF d
<1>7. ASSUME item.filename[1] \notin {NUL, DELETED}
      PROVE  /\ item.dir => item.cluster \in {0} \cup Directories[d]
             /\ ~ item.dir => FileOnDisk(d, item)
  BY <1>1, <1>2, <1>7, FoundItem
<1>8. CASE item.filename[1] \notin {NUL, DELETED} /\ Descend(item)
  <2>1. /\ item.cluster \in {0} \cup Directories[d]
        /\ cluster' = item.cluster /\ inRoot' = (item.cluster = 0) /\ index' = 0
        /\ pc' \in {"search", "list"} /\ UNCHANGED <<call, res, owed, descriptors>>
    BY <1>7, <1>8 DEF Descend
  <2>2. \A c \in Directories[d] : c \in 1..(RESERVED_MIN - 1)
    BY <1>1, VolumeAssumption
  <2>3. cluster' \in 0..(RESERVED_MIN - 1)
    <3>1. \A c \in 1..(RESERVED_MIN - 1) : c \in 0..(RESERVED_MIN - 1)
      <4>1. \A n \in Int : \A c \in 1..n : c \in 0..n
        OBVIOUS
      <4>2. RESERVED_MIN - 1 \in Int
        BY DEF RESERVED_MIN
      <4> QED BY <4>1, <4>2, Zenon
    <3>2. 0 \in 0..(RESERVED_MIN - 1)
      BY DEF RESERVED_MIN
    <3>3. cluster' = 0 \/ cluster' \in Directories[d]
      BY <2>1
    <3> QED BY <2>2, <3>1, <3>2, <3>3, Zenon
  <2>4. inRoot' \in BOOLEAN
    BY <2>1
  <2>5. inRoot' \/ cluster' \in Directories[d]
    BY <2>1
  <2>6. index' \in 0..items_here(d)'
    <3>1. items_here(d)' \in Nat
      BY <1>1, <2>1, ItemsAreCounted
    <3> QED BY <2>1, <3>1
  <2>7. Searching' \/ Listing'
    BY <2>1 DEF Searching, Listing
  <2> HIDE DEF d
  <2> QED BY <1>1, <1>3, <1>4, <1>8, <2>1, <2>3, <2>4, <2>5, <2>6, <2>7, MovesOn DEF d
<1>9. CASE item.filename[1] \notin {NUL, DELETED} /\ OpenItem(item)
  <2> DEFINE free == {fd \in 1..MaxOpen : descriptors[fd] = Free}
  <2>1. CASE free = {} /\ Return(-7) /\ UNCHANGED descriptors
    BY <1>1, <1>3, <2>1, Codes, GivesUp
  <2>2. CASE /\ free # {} /\ Return(Min(free))
             /\ descriptors' = [descriptors EXCEPT ![Min(free)] =
                                  [drive |-> d, item |-> item, pos |-> 0]]
    <3> DEFINE file == [drive |-> d, item |-> item, pos |-> 0]
               m    == Min(free)
    <3>1. m \in free
      BY <2>2, MinIsElement
    <3>2. m \in 1..MaxOpen /\ m \in -7..MaxOpen
      BY <3>1, Codes
    <3>3. /\ file = [drive |-> file.drive, item |-> file.item, pos |-> file.pos]
          /\ file.drive = d /\ file.item = item /\ file.pos = 0
      OBVIOUS
    <3>4. FileOnDisk(d, item)
      BY <1>7, <1>9 DEF OpenItem
    <3>5. fs_private[d] = Boot0(d)
      BY <1>1 DEF Inv, Mounted
    <3> HIDE DEF file, m, free, item
    <3>6. descriptors' = [descriptors EXCEPT ![m] = file] /\ Return(m)
      BY <2>2 DEF file, m
    <3>7. 0 \in 0..item.size
      BY <3>4 DEF FileOnDisk
    <3>8. DOMAIN descriptors' = 1..MaxOpen
      BY <3>6 DEF Inv, Types
    <3>9. Opened'
      <4>1. \A fd \in 1..MaxOpen : fd # m => descriptors'[fd] = descriptors[fd]
        BY <3>6 DEF Inv, Types
      <4>2. descriptors'[m] = file
        BY <3>2, <3>6 DEF Inv, Types
      <4>3. \A fd \in 1..MaxOpen : fd # m /\ descriptors'[fd] # Free =>
              /\ descriptors'[fd] = [drive |-> descriptors'[fd].drive,
                                     item |-> descriptors'[fd].item,
                                     pos |-> descriptors'[fd].pos]
              /\ descriptors'[fd].drive \in Drives
              /\ fs_private'[descriptors'[fd].drive] = Boot0(descriptors'[fd].drive)
              /\ FileOnDisk(descriptors'[fd].drive, descriptors'[fd].item)
              /\ descriptors'[fd].pos \in 0..descriptors'[fd].item.size
        BY <1>1, <4>1 DEF Inv, Opened
      <4>4. /\ descriptors'[m] = [drive |-> descriptors'[m].drive,
                                  item |-> descriptors'[m].item,
                                  pos |-> descriptors'[m].pos]
            /\ descriptors'[m].drive \in Drives
            /\ fs_private'[descriptors'[m].drive] = Boot0(descriptors'[m].drive)
            /\ FileOnDisk(descriptors'[m].drive, descriptors'[m].item)
            /\ descriptors'[m].pos \in 0..descriptors'[m].item.size
        BY <1>1, <3>3, <3>4, <3>5, <3>7, <4>2
      <4> QED BY <4>3, <4>4, Zenon DEF Opened, FileOnDisk, Boot0
    <3>10. /\ \A e \in Drives : fs_private'[e] \in {fs_private[e], Boot0(e)}
           /\ fs_private' \in [Drives -> {NotMounted} \cup {Boot0(e) : e \in Drives}]
      BY <1>1 DEF Inv, Types
    <3> QED BY <1>3, <3>2, <3>6, <3>8, <3>9, <3>10, Returned
  <2> QED BY <1>9, <2>1, <2>2 DEF OpenItem
<1> QED BY <1>2, <1>5, <1>6, <1>8, <1>9 DEF Named

LEMMA SearchEnd == ASSUME Inv, search_end PROVE Inv'
<1>1. /\ pc = "search" /\ Searching /\ fs_private' = fs_private /\ late' = late
      /\ faults' = faults /\ late \in [Drives -> {D!NONE} \cup 0..(Sectors - 1)]
      /\ faults \in 0..MaxFaults
  BY DEF search_end, Searching, disk, Inv, Types
<1>2. ASSUME NotThere PROVE Inv'
  BY <1>1, <1>2, Codes, GivesUp DEF NotThere
<1>3. CASE ~ inRoot /\ pc' = "search_chain" /\ UNCHANGED <<call, place, res, owed, descriptors>>
  <2>1. /\ cluster' = cluster /\ inRoot' = inRoot /\ index' = index /\ call' = call
        /\ UNCHANGED <<res, owed, descriptors>>
    BY <1>3 DEF place
  <2>2. index' \in 0..items_here(call.drive)'
    BY <1>1, <2>1, ItemsAreCounted DEF Inv, Search
  <2>3. Searching' \/ Listing'
    BY <1>3 DEF Searching
  <2> QED BY <1>1, <2>1, <2>2, <2>3, MovesOn DEF Inv, Types, Search
<1> QED BY <1>2, <1>3 DEF search_end

LEMMA GetFatEntry == ASSUME Inv, get_fat_entry PROVE Inv'
<1> DEFINE d == call.drive
           s == fs_private[d].reserved_sectors + cluster \div EntriesPerSector
<1>1. /\ pc \in {"search_chain", "list_chain"} /\ (Searching \/ Listing)
      /\ d \in Drives /\ fs_private' = fs_private /\ fs_private[d] = Boot0(d)
      /\ cluster \in Nat /\ inRoot \in BOOLEAN
  BY DEF get_fat_entry, Searching, Listing, Inv, Types, Calls, Mounted
<1>2. PICK got \in Answers :
         /\ Reads(d, s, got)
         /\ LET entry == IF got = D!FAILED THEN READ_ERROR
                         ELSE Disk[d][got].fat[cluster % EntriesPerSector]
            IN  \/ /\ entry < RESERVED_MIN
                   /\ cluster' = entry /\ index' = 0
                   /\ pc' = IF pc = "search_chain" THEN "search" ELSE "list"
                   /\ UNCHANGED <<call, parts, inRoot, res, owed, descriptors>>
                \/ entry >= RESERVED_MIN /\ pc = "search_chain" /\ NotThere
                \/ /\ entry >= RESERVED_MIN /\ pc = "list_chain"
                   /\ Return(0)
                   /\ UNCHANGED descriptors
  BY DEF get_fat_entry
<1> DEFINE entry == IF got = D!FAILED THEN READ_ERROR
                    ELSE Disk[d][got].fat[cluster % EntriesPerSector]
<1>3. /\ late' \in [Drives -> {D!NONE} \cup 0..(Sectors - 1)] /\ faults' \in 0..MaxFaults
      /\ got # D!FAILED => got \in 0..(Sectors - 1) /\ late'[d] = D!NONE
      /\ late[d] = D!NONE /\ got # D!FAILED => got = s
  <2> HIDE DEF s
  <2> QED BY <1>1, <1>2, ReadGives DEF Inv
<1>4. ASSUME NotThere PROVE Inv'
  BY <1>1, <1>3, <1>4, Codes, GivesUp DEF NotThere
<1>5. CASE Return(0) /\ UNCHANGED descriptors
  BY <1>1, <1>3, <1>5, Codes, GivesUp
<1>6. CASE /\ entry < RESERVED_MIN
           /\ cluster' = entry /\ index' = 0
           /\ pc' = IF pc = "search_chain" THEN "search" ELSE "list"
           /\ UNCHANGED <<call, parts, inRoot, res, owed, descriptors>>
  <2>1. got # D!FAILED
    BY <1>6 DEF READ_ERROR, RESERVED_MIN
  <2>2. entry = Disk[d][got].fat[cluster % EntriesPerSector]
    BY <2>1
  <2>3. cluster % EntriesPerSector \in 0..(EntriesPerSector - 1)
    BY <1>1, InSector, FileSystemAssumption
  <2>4. entry \in Nat
    <3> HIDE DEF entry, s
    <3> QED BY <1>1, <1>3, <2>1, <2>2, <2>3, VolumeAssumption
  <2>5. cluster' \in 0..(RESERVED_MIN - 1)
    <3>1. cluster' = entry /\ entry < RESERVED_MIN
      BY <1>6
    <3>2. RESERVED_MIN \in Nat
      BY DEF RESERVED_MIN
    <3>3. \A n, r \in Nat : n < r => n \in 0..(r - 1)
      OBVIOUS
    <3> HIDE DEF entry
    <3> QED BY <2>4, <3>1, <3>2, <3>3
  <2>6. inRoot' \in BOOLEAN /\ (Searching' \/ Listing')
    BY <1>1, <1>6 DEF Searching, Listing
  <2>7. index' \in 0..items_here(d)'
    <3>1. items_here(d)' \in Nat
      BY <1>1, <1>6, ItemsAreCounted
    <3> QED BY <1>6, <3>1
  <2>8. ASSUME Searching' PROVE late'[d] = D!NONE /\ (inRoot' \/ cluster' \in Directories[d])
    <3>1. pc = "search_chain"
      BY <1>1, <1>6, <2>8 DEF Searching
    <3>2. late[d] = D!NONE /\ (inRoot \/ cluster \in Directories[d])
      BY <3>1 DEF Inv, Search, Searching
    <3>3. got = s /\ s \in 0..(Sectors - 1)
      BY <1>3, <2>1, <3>2
    <3>4. s = Boot0(d).reserved_sectors + cluster \div EntriesPerSector
      BY <1>1
    <3>5. entry = Disk[d][s].fat[cluster % EntriesPerSector]
      BY <2>2, <3>3
    <3>6. cluster \in Directories[d] => entry \in Directories[d]
      <4> HIDE DEF entry, s, d
      <4> QED BY <1>1, <1>6, <3>3, <3>4, <3>5, VolumeAssumption
    <3> QED BY <1>3, <1>6, <2>1, <3>2, <3>6
  <2> HIDE DEF d, entry
  <2> QED BY <1>1, <1>3, <1>6, <2>5, <2>6, <2>7, <2>8, MovesOn DEF d
<1> HIDE DEF d, entry, s
<1> QED BY <1>2, <1>4, <1>5, <1>6 DEF d, entry, s

(* A list of a directory comes to its end, or to the end of a cluster.       *)
LEMMA ListComesToEnd ==
    ASSUME Inv, pc = "list", ListEnds,
           UNCHANGED <<fs_private, descriptors>>,
           late' \in [Drives -> {D!NONE} \cup 0..(Sectors - 1)], faults' \in 0..MaxFaults
    PROVE  Inv'
<1>1. CASE inRoot /\ Return(0)
  BY <1>1, Codes, GivesUp
<1>2. CASE ~ inRoot /\ pc' = "list_chain" /\ UNCHANGED <<call, place, res, owed>>
  <2>1. /\ cluster' = cluster /\ inRoot' = inRoot /\ index' = index /\ call' = call
        /\ UNCHANGED <<res, owed>>
    BY <1>2 DEF place
  <2>2. Listing /\ Listing' /\ ~ Searching'
    BY <1>2 DEF Listing, Searching
  <2>3. index' \in 0..items_here(call.drive)'
    BY <2>1, <2>2, ItemsAreCounted DEF Inv, Search
  <2> QED BY <2>1, <2>2, <2>3, MovesOn DEF Inv, Types
<1> QED BY <1>1, <1>2 DEF ListEnds

LEMMA ListItem == ASSUME Inv, list_item PROVE Inv'
<1> DEFINE d == call.drive
<1>1. /\ pc = "list" /\ Listing /\ d \in Drives /\ index < items_here(d)
      /\ fs_private' = fs_private /\ descriptors' = descriptors
      /\ items_here(d) \in Nat /\ index \in 0..items_here(d)
  BY ItemsAreCounted DEF list_item, Listing, Inv, Search
<1>2. PICK got \in Answers :
         /\ Reads(d, directory_sector(d) + index \div ItemsPerSector, got)
         /\ \/ ListEnds
            \/ /\ index' = index + 1
               /\ UNCHANGED <<pc, call, parts, cluster, inRoot, res, owed>>
  BY DEF list_item
<1>3. late' \in [Drives -> {D!NONE} \cup 0..(Sectors - 1)] /\ faults' \in 0..MaxFaults
  BY <1>1, <1>2, ReadGives DEF Inv
<1>4. CASE ListEnds
  BY <1>1, <1>3, <1>4, ListComesToEnd
<1>5. CASE index' = index + 1 /\ UNCHANGED <<pc, call, parts, cluster, inRoot, res, owed>>
  <2>1. index' \in 0..items_here(d)'
    <3>1. index + 1 \in 0..items_here(d)
      BY <1>1
    <3> QED BY <1>1, <1>5, <3>1, ItemsAreCounted
  <2>2. Listing' /\ ~ Searching'
    BY <1>1, <1>5 DEF Searching, Listing
  <2> HIDE DEF d
  <2> QED BY <1>1, <1>3, <1>5, <2>1, <2>2, MovesOn DEF Inv, Types, d
<1> QED BY <1>2, <1>4, <1>5

LEMMA ListEnd == ASSUME Inv, list_end PROVE Inv'
<1>1. /\ pc = "list" /\ ListEnds /\ UNCHANGED <<fs_private, descriptors>>
      /\ late' = late /\ faults' = faults
  BY DEF list_end, disk
<1> QED BY <1>1, ListComesToEnd DEF Inv, Types

(* The file read: a step that ends the call, and moves the file if it reads. *)
LEMMA ReadData ==
    ASSUME Inv, read_data
    PROVE  /\ Inv'
           /\ output' # output /\ ~ owed => output' = <<descriptors[call.fd].item.id>>
<1> DEFINE d == call.drive
           f == call.fd
           file == descriptors[f]
           s == cluster_to_sector(fs_private[d], file.item.cluster)
<1>1. /\ pc = "data" /\ d \in Drives /\ f \in 1..MaxOpen /\ fs_private' = fs_private
      /\ file # Free /\ file.drive = d /\ file.pos < file.item.size
      /\ owed \/ late[d] = D!NONE
      /\ file = [drive |-> file.drive, item |-> file.item, pos |-> file.pos]
      /\ fs_private[d] = Boot0(d) /\ FileOnDisk(d, file.item) /\ file.pos \in 0..file.item.size
      /\ DOMAIN descriptors = 1..MaxOpen
  BY DEF read_data, Inv, Types, Calls, Reading, Opened
<1>2. PICK got \in Answers :
         /\ Reads(d, s, got)
         /\ \/ got = D!FAILED /\ Return(0) /\ UNCHANGED <<output, descriptors>>
            \/ /\ got # D!FAILED
               /\ Return(1)
               /\ output' = <<Disk[d][got].data>>
               /\ descriptors' = [descriptors EXCEPT ![f].pos = file.item.size]
  BY DEF read_data
<1>3. /\ late' \in [Drives -> {D!NONE} \cup 0..(Sectors - 1)] /\ faults' \in 0..MaxFaults
      /\ late[d] = D!NONE /\ got # D!FAILED => got = s
  <2> HIDE DEF s
  <2> QED BY <1>1, <1>2, ReadGives DEF Inv
<1>4. CASE got = D!FAILED /\ Return(0) /\ UNCHANGED <<output, descriptors>>
  BY <1>1, <1>3, <1>4, Codes, GivesUp
<1>5. CASE /\ got # D!FAILED /\ Return(1)
           /\ output' = <<Disk[d][got].data>>
           /\ descriptors' = [descriptors EXCEPT ![f].pos = file.item.size]
  <2>1. ~ owed => output' = <<file.item.id>>
    <3>1. s = cluster_to_sector(Boot0(d), file.item.cluster) /\ file.item.size > 0
      <4>1. file.item.size \in Nat /\ file.pos \in Nat
        BY <1>1 DEF FileOnDisk
      <4> QED BY <1>1, <4>1
    <3>2. Disk[d][s].data = file.item.id
      BY <1>1, <3>1 DEF FileOnDisk
    <3> HIDE DEF s, file, d
    <3> QED BY <1>1, <1>3, <1>5, <3>2
  <2>2. /\ \A fd \in 1..MaxOpen : fd # f => descriptors'[fd] = descriptors[fd]
        /\ DOMAIN descriptors' = 1..MaxOpen
        /\ descriptors'[f] = [file EXCEPT !.pos = file.item.size]
    BY <1>1, <1>5
  <2>3. descriptors'[f] = [drive |-> file.drive, item |-> file.item, pos |-> file.item.size]
    BY <1>1, <2>2
  <2>4. file.item.size \in 0..file.item.size
    BY <1>1 DEF FileOnDisk
  <2>5. \A fd \in 1..MaxOpen : fd # f /\ descriptors'[fd] # Free =>
          /\ descriptors'[fd] = [drive |-> descriptors'[fd].drive,
                                 item |-> descriptors'[fd].item,
                                 pos |-> descriptors'[fd].pos]
          /\ descriptors'[fd].drive \in Drives
          /\ fs_private'[descriptors'[fd].drive] = Boot0(descriptors'[fd].drive)
          /\ FileOnDisk(descriptors'[fd].drive, descriptors'[fd].item)
          /\ descriptors'[fd].pos \in 0..descriptors'[fd].item.size
    <3> HIDE DEF f, file
    <3> QED BY <1>1, <2>2 DEF Inv, Opened
  <2>6. /\ descriptors'[f] = [drive |-> descriptors'[f].drive,
                              item |-> descriptors'[f].item,
                              pos |-> descriptors'[f].pos]
        /\ descriptors'[f].drive \in Drives
        /\ fs_private'[descriptors'[f].drive] = Boot0(descriptors'[f].drive)
        /\ FileOnDisk(descriptors'[f].drive, descriptors'[f].item)
        /\ descriptors'[f].pos \in 0..descriptors'[f].item.size
    <3>1. /\ descriptors'[f].drive = d /\ descriptors'[f].item = file.item
          /\ descriptors'[f].pos = file.item.size
      BY <1>1, <2>3
    <3> HIDE DEF d, f, file
    <3> QED BY <1>1, <2>3, <2>4, <3>1
  <2>7. Opened'
    <3> HIDE DEF f
    <3> QED BY <2>5, <2>6, Zenon DEF Opened, FileOnDisk, Boot0
  <2>8. /\ \A e \in Drives : fs_private'[e] \in {fs_private[e], Boot0(e)}
        /\ fs_private' \in [Drives -> {NotMounted} \cup {Boot0(e) : e \in Drives}]
    BY <1>1 DEF Inv, Types
  <2>9. Inv'
    <3> HIDE DEF d, f, file, s
    <3> QED BY <1>3, <1>5, <2>2, <2>7, <2>8, Codes, Returned
  <2> QED BY <2>1, <2>9
<1> QED BY <1>2, <1>4, <1>5

-----------------------------------------------------------------------------
(* The theorems *)

LEMMA Initially == Init => Inv
<1> SUFFICES ASSUME Init PROVE Inv
  OBVIOUS
<1>1. Types
  <2>1. 0 \in 0..(RESERVED_MIN - 1) /\ 0 \in 0..MaxFaults /\ 0 \in -7..MaxOpen
    BY FileSystemAssumption DEF RESERVED_MIN
  <2>2. TRUE \in BOOLEAN /\ FALSE \in BOOLEAN
    OBVIOUS
  <2> QED BY <2>1, <2>2 DEF Init, Types
<1>2. Mounted /\ Calls /\ Search /\ Reading
  BY DEF Init, Mounted, Calls, Search, Reading, Searching, Listing, NoCall
<1>3. Opened
  BY DEF Init, Opened
<1> QED BY <1>1, <1>2, <1>3 DEF Inv

LEMMA EveryStep == Inv /\ [Next]_vars => Inv'
<1> SUFFICES ASSUME Inv, [Next]_vars PROVE Inv'
  OBVIOUS
<1>1. CASE UNCHANGED vars
  <2>1. /\ UNCHANGED <<pc, call, cluster, inRoot, index, fs_private, descriptors, res>>
        /\ UNCHANGED <<late, faults, owed, output>>
    BY <1>1 DEF vars, place, disk
  <2>2. Types' /\ Mounted' /\ Calls' /\ Search' /\ Reading'
    BY <2>1 DEF Inv, Types, Mounted, Calls, Search, Reading, Searching, Listing, items_here
  <2>3. Opened'
    BY <2>1, SameFiles
  <2> QED BY <2>2, <2>3 DEF Inv
<1>2. ASSUME NEW text \in Texts, NEW mode \in Modes, fopen(text, mode) PROVE Inv'
  BY <1>2, Fopen
<1>3. ASSUME NEW text \in Texts, fs_list(text) PROVE Inv'
  BY <1>3, FsList
<1>4. ASSUME NEW fd \in 1..MaxOpen, fread(fd) \/ fclose(fd) PROVE Inv'
  BY <1>4, Fread, Fclose
<1>5. CASE Working
  BY <1>5, Resolve, GetDirectoryEntry, SearchEnd, GetFatEntry, ListItem, ListEnd, ReadData
     DEF Working
<1> QED BY <1>1, <1>2, <1>3, <1>4, <1>5 DEF Next

LEMMA InvHolds == Spec => []Inv
BY Initially, EveryStep, PTL DEF Spec

LEMMA InvGivesTypes == Inv => TypeOK
<1> SUFFICES ASSUME Inv PROVE TypeOK
  OBVIOUS
<1>1. pc \in {"idle", "resolve", "search", "search_chain", "list", "list_chain", "data"}
  BY DEF Inv, Types, Searching, Listing
<1>2. (pc = "idle") = (call = NoCall)
  <2>1. NoCall.op = "none"
    BY DEF NoCall
  <2>2. pc # "idle" => call.op # "none"
    BY DEF Inv, Calls
  <2>3. pc = "idle" <=> call = NoCall
    BY <2>1, <2>2 DEF Inv, Calls
  <2> QED BY <2>3
<1>3. ASSUME pc \notin {"idle", "resolve"}
      PROVE  fs_private[call.drive] # NotMounted /\ index \in 0..items_here(call.drive)
  <2>1. Searching \/ Listing \/ pc = "data"
    BY <1>1, <1>3 DEF Searching, Listing
  <2>2. call.drive \in Drives /\ fs_private[call.drive] = Boot0(call.drive)
    BY <1>3, <2>1 DEF Inv, Mounted, Calls
  <2>3. fs_private[call.drive] # NotMounted
    BY <2>2, Volume
  <2>4. CASE Searching \/ Listing
    BY <2>3, <2>4 DEF Inv, Search
  <2>5. CASE pc = "data"
    <3>1. inRoot /\ index = 0
      BY <2>5 DEF Inv, Search
    <3>2. items_here(call.drive) \in Nat
      BY <2>2, <3>1, Volume DEF items_here, BootSector
    <3> QED BY <2>3, <3>1, <3>2
  <2> QED BY <2>1, <2>4, <2>5
<1>4. ASSUME NEW fd \in 1..MaxOpen, descriptors[fd] # Free
      PROVE  descriptors[fd].drive \in Drives /\ descriptors[fd].pos <= descriptors[fd].item.size
  <2>1. /\ descriptors[fd].drive \in Drives
        /\ FileOnDisk(descriptors[fd].drive, descriptors[fd].item)
        /\ descriptors[fd].pos \in 0..descriptors[fd].item.size
    BY <1>4 DEF Inv, Opened
  <2>2. descriptors[fd].item.size \in Nat
    BY <2>1 DEF FileOnDisk
  <2> QED BY <2>1, <2>2
<1>5. late \in [Drives -> Int]
  BY DEF Inv, Types, D!NONE
<1> QED BY <1>1, <1>2, <1>3, <1>4, <1>5 DEF TypeOK, Inv, Types, Mounted, Boot0

(* No read, failed, late or of another sector than the one asked for, leads  *)
(* a search, a list or a descriptor out of its bounds, and a drive keeps the *)
(* boot sector of its own volume (fat16_resolve, fat16.c:356).               *)
THEOREM TypeCorrect == Spec => []TypeOK
BY InvHolds, InvGivesTypes, PTL

LEMMA ReadStep ==
    Inv /\ [Next]_vars =>
      [Returns("fread") /\ output' # <<>> =>
         owed \/ output' = <<descriptors[call.fd].item.id>>]_vars
<1> SUFFICES ASSUME Inv, Next, Returns("fread"), output' # <<>>, ~ owed
             PROVE  output' = <<descriptors[call.fd].item.id>>
  OBVIOUS
<1>1. call.op = "fread" /\ pc = "data" /\ call' = NoCall /\ output = <<>>
  BY DEF Returns, Inv, Calls, Reading
<1>2. read_data
  <2>1. ~ (\E text \in Texts, mode \in Modes : fopen(text, mode))
    BY <1>1 DEF fopen
  <2>2. ~ (\E text \in Texts : fs_list(text))
    BY <1>1 DEF fs_list
  <2>3. ~ (\E fd \in 1..MaxOpen : fread(fd) \/ fclose(fd))
    BY <1>1 DEF fread, fclose
  <2>4. ~ (fat16_resolve \/ get_directory_entry \/ search_end \/ get_fat_entry
             \/ list_item \/ list_end)
    BY <1>1 DEF fat16_resolve, get_directory_entry, search_end, get_fat_entry,
                list_item, list_end
  <2> QED BY <2>1, <2>2, <2>3, <2>4 DEF Next, Working
<1> QED BY <1>1, <1>2, ReadData

(* fread delivers the block of the file that was opened: the boot sector by  *)
(* which it finds the block is the one of every later fopen, and a sector    *)
(* that comes late is only delivered if it was owed when the call began      *)
(* (fat16_read, fat16.c:205, through the driver's ata_read_sector).          *)
THEOREM ReadsTheFileOpened == Spec => ReadIsRight
BY InvHolds, ReadStep, PTL DEF Spec, ReadIsRight

=============================================================================
