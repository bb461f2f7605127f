------------------------- MODULE AddressSpaceProofs -------------------------
(***************************************************************************)
(* Proofs about AddressSpace for every set of programs, every kernel size   *)
(* and any number of run commands, on the invariant of the heap proved in   *)
(* KHeapProofs.                                                             *)
(***************************************************************************)
EXTENDS AddressSpace, KHeapProofs, FiniteSetTheorems

-----------------------------------------------------------------------------
(* What a call of kmalloc or kfree does to the pointers in use.              *)

(* Each pointer in use has its bytes for itself, below the frontier.         *)
HeldApart ==
    /\ \A p \in DOMAIN held :
         /\ p \in Nat /\ held[p].size \in Nat
         /\ p >= HEADER
         /\ p + held[p].size <= placement_address
         /\ held[p].align => PageAligned(p)
    /\ \A p, q \in DOMAIN held : p < q => p + held[p].size <= q

LEMMA HeldIsApart == Inv => HeldApart
<1> SUFFICES ASSUME Inv PROVE HeldApart
  OBVIOUS
<1>1. ASSUME NEW p \in DOMAIN held
      PROVE  /\ p \in Nat /\ held[p].size \in Nat
             /\ p >= HEADER
             /\ p + held[p].size <= placement_address
             /\ held[p].align => PageAligned(p)
  <2>1. /\ p \in Nat
        /\ p - HEADER \in DOMAIN block
        /\ held[p].size \in Nat
        /\ p + held[p].size <= BlockEnd(p - HEADER)
        /\ BlockEnd(p - HEADER) <= placement_address
    BY HeldInBlock
  <2>2. p - HEADER \in Nat
    BY <2>1 DEF Inv, TypeOK
  <2>3. BlockEnd(p - HEADER) \in Nat /\ placement_address \in Nat
    BY <2>1, <2>2 DEF Inv, TypeOK, Header, BlockEnd, HEADER
  <2>4. p + held[p].size <= placement_address
    BY <2>1, <2>3
  <2>5. held[p].align => PageAligned(p)
    BY DEF Inv, Owned
  <2> QED BY <2>1, <2>2, <2>4, <2>5 DEF HEADER
<1>2. ASSUME NEW p \in DOMAIN held, NEW q \in DOMAIN held, p < q
      PROVE  p + held[p].size <= q
  <2>1. /\ p \in Nat /\ q \in Nat
        /\ p - HEADER \in DOMAIN block /\ q - HEADER \in DOMAIN block
        /\ held[p].size \in Nat
        /\ p + held[p].size <= BlockEnd(p - HEADER)
    BY HeldInBlock
  <2>2. p - HEADER < q - HEADER
    BY <1>2, <2>1 DEF HEADER
  <2>3. BlockEnd(p - HEADER) < (q - HEADER) + HEADER
    BY <2>1, <2>2 DEF Inv, OverlapBounded
  <2>4. BlockEnd(p - HEADER) \in Int
    BY <2>1 DEF Inv, TypeOK, Header, BlockEnd, HEADER
  <2> QED BY <2>1, <2>3, <2>4 DEF HEADER
<1> QED BY <1>1, <1>2 DEF HeldApart

LEMMA HeldIsApartNext == Inv' => HeldApart'
BY HeldIsApart, PTL

(* A pointer that kmalloc returns was not in use; the others stay as they    *)
(* were.                                                                     *)
LEMMA KmallocFacts ==
    ASSUME Inv, NEW size \in Nat, NEW align \in BOOLEAN, kmalloc_int(size, align)
    PROVE  /\ Inv'
           /\ placement_address' \in Nat
           /\ placement_address <= placement_address'
           /\ \E p \in Nat :
                /\ Given = {p}
                /\ p \notin DOMAIN held
                /\ DOMAIN held' = DOMAIN held \cup {p}
                /\ held'[p] = [size |-> size, align |-> align]
                /\ \A q \in DOMAIN held : held'[q] = held[q]
                /\ p >= HEADER
                /\ p + size <= placement_address'
                /\ align => PageAligned(p)
<1>1. ASSUME NEW b \in Nat, b + HEADER \notin DOMAIN held, Inv',
             held' = Put(held, b + HEADER, [size |-> size, align |-> align])
      PROVE  \E p \in Nat :
                /\ Given = {p}
                /\ p \notin DOMAIN held
                /\ DOMAIN held' = DOMAIN held \cup {p}
                /\ held'[p] = [size |-> size, align |-> align]
                /\ \A q \in DOMAIN held : held'[q] = held[q]
                /\ p >= HEADER
                /\ p + size <= placement_address'
                /\ align => PageAligned(p)
  <2> DEFINE p == b + HEADER
  <2>1. p \in Nat /\ p >= HEADER
    BY DEF HEADER
  <2> HIDE DEF p
  <2>2. held' = Put(held, p, [size |-> size, align |-> align]) /\ p \notin DOMAIN held
    BY <1>1 DEF p
  <2>3. /\ DOMAIN held' = DOMAIN held \cup {p}
        /\ held'[p] = [size |-> size, align |-> align]
        /\ \A q \in DOMAIN held : held'[q] = held[q]
    BY <2>2 DEF Put
  <2>4. Given = {p}
    BY <2>2, <2>3 DEF Given
  <2>5. held'[p].size = size /\ held'[p].align = align
    BY <2>3
  <2>6. HeldApart'
    BY <1>1, HeldIsApartNext
  <2>7. p + size <= placement_address' /\ (align => PageAligned(p))
    BY <2>3, <2>5, <2>6 DEF HeldApart, PageAligned
  <2> QED BY <2>1, <2>2, <2>3, <2>4, <2>7
<1>2. CASE Grow(size, align) \/ Refuse(size, align)
  <2>1. PICK keep \in 0..Len(chain) : request_space(keep, size, align)
    BY <1>2, GrowthIsRequestSpace
  <2>2. Inv'
    BY <2>1, RequestSpacePreserves
  <2>3. /\ Placed(align) \in Nat
        /\ Placed(align) > placement_address - HEADER
        /\ \A b \in DOMAIN block : b < Placed(align)
    BY PlacedFacts
  <2>4. /\ placement_address' = Placed(align) + HEADER + size
        /\ held' = Put(held, Placed(align) + HEADER, [size |-> size, align |-> align])
    BY <2>1 DEF request_space, Placed, Frontier
  <2>5. placement_address \in Nat
    BY DEF Inv, TypeOK
  <2>6. placement_address' \in Nat /\ placement_address <= placement_address'
    BY <2>3, <2>4, <2>5 DEF HEADER
  <2>7. Placed(align) + HEADER \notin DOMAIN held
    <3>1. SUFFICES ASSUME Placed(align) + HEADER \in DOMAIN held PROVE FALSE
      OBVIOUS
    <3>2. (Placed(align) + HEADER) - HEADER \in DOMAIN block
      BY <3>1 DEF Inv, Owned
    <3>3. (Placed(align) + HEADER) - HEADER = Placed(align)
      BY <2>3 DEF HEADER
    <3> QED BY <2>3, <3>2, <3>3
  <2> QED BY <1>1, <2>2, <2>3, <2>4, <2>6, <2>7
<1>3. CASE Reuse(size, align)
  <2>1. Inv'
    BY <1>3, ReusePreserves
  <2>2. PICK i \in 1..Len(chain) :
          /\ IsFirstFit(i, size)
          /\ held' = Put(held, chain[i] + HEADER, [size |-> size, align |-> align])
    BY <1>3 DEF Reuse
  <2>3. placement_address' \in Nat /\ placement_address <= placement_address'
    BY <1>3 DEF Reuse, Inv, TypeOK
  <2>4. chain[i] \in DOMAIN block /\ chain[i] \in Nat
    BY DEF Inv, TypeOK
  <2>5. block[chain[i]].free
    BY <2>2 DEF IsFirstFit, Fits
  <2>6. chain[i] + HEADER \notin DOMAIN held
    <3>1. SUFFICES ASSUME chain[i] + HEADER \in DOMAIN held PROVE FALSE
      OBVIOUS
    <3>2. ~block[(chain[i] + HEADER) - HEADER].free
      BY <3>1 DEF Inv, Owned
    <3>3. (chain[i] + HEADER) - HEADER = chain[i]
      BY <2>4 DEF HEADER
    <3> QED BY <2>5, <3>2, <3>3
  <2> QED BY <1>1, <2>1, <2>2, <2>3, <2>4, <2>6
<1> QED BY <1>2, <1>3 DEF kmalloc_int

(* kfree takes one pointer out of use and leaves the others.                 *)
LEMMA KfreeFacts ==
    ASSUME Inv, NEW ptr \in DOMAIN held, kfree(ptr)
    PROVE  /\ Inv'
           /\ UNCHANGED placement_address
           /\ DOMAIN held' = DOMAIN held \ {ptr}
           /\ \A q \in DOMAIN held' : held'[q] = held[q]
<1>1. Inv'
  BY FreePreserves
<1> QED BY <1>1 DEF kfree, Drop

-----------------------------------------------------------------------------
(* The inductive invariant.                                                  *)

Types ==
    /\ pc \in {"boot", "prompt", "magic", "elf", "header", "process", "raw", "raw_read",
               "paging", "segment", "read", "map", "task", "user_stack", "kstack",
               "map_stack", "user"}
    /\ program \in Programs
    /\ image \in Seq(Nat)
    /\ mapped \in Nat
    /\ pc \notin {"map", "map_stack", "user"} => mapped = 0
    /\ pc = "map_stack" => mapped * PAGE < STACK
    /\ \A v \in DOMAIN user : v \in Nat /\ user[v] \in Nat
    /\ commands \in 0..MaxCommands

\* The directory and its tables are in use.  A table beyond the last entry of a
\* directory would need a stack above 4 GB.
Tables ==
    /\ directory_entry \in DOMAIN held \cup {NULL}
    /\ IsFiniteSet(DOMAIN table)
    /\ \A i \in DOMAIN table :
         /\ i \in Nat
         /\ i < ENTRIES \/ i * (ENTRIES * PAGE) < placement_address
         /\ table[i] \in DOMAIN held

\* No stack exists before the task is made; then it stays in use.
Stacks ==
    /\ IF pc \in {"kstack", "map_stack", "user"}
         THEN /\ user_stack \in DOMAIN held
              /\ held[user_stack] = [size |-> STACK, align |-> FALSE]
         ELSE user_stack = NULL
    /\ IF pc \in {"map_stack", "user"}
         THEN kstack \in DOMAIN held
         ELSE kstack = NULL

\* How far the copy of the program is.
Progress ==
    /\ pc \in {"magic", "elf", "header", "process"} => Len(image) = 0
    /\ pc = "raw" => ~IsElf[program] /\ Len(image) = 0
    /\ pc = "raw_read" => ~IsElf[program] /\ Len(image) = 1
    /\ pc = "paging" => Len(image) = IF IsElf[program] THEN 0 ELSE 1
    /\ pc \in {"segment", "read"} => IsElf[program]
    /\ pc \in {"read", "map"} => Len(image) >= 1
    /\ pc \in {"task", "user_stack", "kstack", "map_stack", "user"} =>
         Len(image) = Len(Segments[program])

\* Each segment copied so far is in a block of its own, of the size of the segment
\* in memory and at the start of a page; no table and no directory is there.
Images ==
    /\ Len(image) <= Len(Segments[program])
    /\ \A i \in 1..Len(image) :
         /\ image[i] \in DOMAIN held
         /\ held[image[i]] = [size |-> Segments[program][i].memsz, align |-> TRUE]
         /\ image[i] # directory_entry
         /\ \A t \in DOMAIN table : table[t] # image[i]
         /\ \A j \in 1..Len(image) : i # j => image[i] # image[j]

\* What the address space and the task are made of.
Taken == {directory_entry, user_stack, kstack}
           \cup {table[i] : i \in DOMAIN table} \cup {image[i] : i \in 1..Len(image)}

\* What a file operation may still give back is in use, is nothing of these, and
\* is given back once.
OwnApart ==
    /\ \A n \in DOMAIN own : own[n] \in DOMAIN held /\ own[n] \notin Taken
    /\ \A m, n \in DOMAIN own : m # n => own[m] # own[n]

\* Page frame f has bytes of what pointer q stands for.
Meets(q, f) == f * PAGE < q + held[q].size /\ q < f * PAGE + PAGE

\* What a program may use is the screen, the copy of one of its segments - not of
\* the one whose read may still fail - or its stack.
UserOwned ==
    \A v \in DOMAIN user :
      \/ user[v] = VGA
      \/ \E i \in 1..Len(image) : /\ pc = "read" => i < Len(image)
                                  /\ image[i] \in DOMAIN held
                                  /\ Meets(image[i], user[v])
      \/ pc \in {"map_stack", "user"} /\ Meets(user_stack, user[v])

SpaceInv ==
    Inv /\ Types /\ Tables /\ Stacks /\ Progress /\ Images /\ OwnApart /\ UserOwned

-----------------------------------------------------------------------------
(* Steps that take nothing out of use.                                       *)

Kept ==
    /\ Inv'
    /\ placement_address' \in Nat
    /\ placement_address <= placement_address'
    /\ \A q \in DOMAIN held : q \in DOMAIN held' /\ held'[q] = held[q]

\* The directory and the tables are old ones, or were not in use before.
FreshTables ==
    /\ directory_entry' = directory_entry \/ directory_entry' \notin DOMAIN held
    /\ \A i \in DOMAIN table' :
         \/ i \in DOMAIN table /\ table'[i] = table[i]
         \/ table'[i] \notin DOMAIN held

LEMMA KmallocKeeps ==
    ASSUME Inv, NEW size \in Nat, NEW align \in BOOLEAN, kmalloc_int(size, align)
    PROVE  /\ Kept
           /\ \E p \in Nat :
                /\ Given = {p}
                /\ p \notin DOMAIN held
                /\ p \in DOMAIN held'
                /\ held'[p] = [size |-> size, align |-> align]
                /\ p >= HEADER
                /\ p + size <= placement_address'
                /\ align => PageAligned(p)
BY KmallocFacts DEF Kept

LEMMA IdleKeeps == ASSUME Inv, UNCHANGED heap PROVE Kept
<1>1. UNCHANGED vars
  BY DEF heap
<1>2. Inv'
  BY <1>1, NextPreserves
<1> QED BY <1>1, <1>2 DEF Kept, vars, Inv, TypeOK

LEMMA TablesKept ==
    ASSUME Tables, Inv, Kept, UNCHANGED <<directory_entry, table>>
    PROVE  Tables' /\ FreshTables
<1>1. placement_address \in Nat
  BY DEF Inv, TypeOK
<1>2. ASSUME NEW i \in DOMAIN table
      PROVE  i < ENTRIES \/ i * (ENTRIES * PAGE) < placement_address'
  <2> DEFINE z == i * (ENTRIES * PAGE)
  <2>1. z \in Nat /\ (i < ENTRIES \/ z < placement_address)
    BY DEF Tables, ENTRIES, PAGE
  <2> HIDE DEF z
  <2>2. i < ENTRIES \/ z < placement_address'
    BY <1>1, <2>1 DEF Kept
  <2> QED BY <2>2 DEF z
<1>3. Tables'
  BY <1>2 DEF Tables, Kept
<1> QED BY <1>3 DEF FreshTables

LEMMA StacksKept ==
    ASSUME Stacks, Kept, UNCHANGED task,
           pc' \in {"kstack", "map_stack", "user"} <=> pc \in {"kstack", "map_stack", "user"},
           pc' \in {"map_stack", "user"} <=> pc \in {"map_stack", "user"}
    PROVE  Stacks'
BY DEF Stacks, Kept, task

LEMMA ImagesKept ==
    ASSUME Images, Kept, FreshTables, UNCHANGED <<program, image>>
    PROVE  Images'
<1>1. ASSUME NEW i \in 1..Len(image)
      PROVE  /\ image[i] \in DOMAIN held'
             /\ held'[image[i]] = [size |-> Segments[program][i].memsz, align |-> TRUE]
             /\ image[i] # directory_entry'
             /\ \A t \in DOMAIN table' : table'[t] # image[i]
  BY DEF Images, Kept, FreshTables
<1> QED BY <1>1 DEF Images

(* What a file operation may give back stays apart from what a command takes, *)
(* since that was not in use before.                                          *)
FreshTaken == \A q \in Taken' : q \in Taken \/ q \notin DOMAIN held

LEMMA TakenKept == ASSUME FreshTables, UNCHANGED <<image, task>> PROVE FreshTaken
<1> SUFFICES ASSUME NEW q \in Taken' PROVE q \in Taken \/ q \notin DOMAIN held
  BY DEF FreshTaken
<1>1. UNCHANGED <<image, user_stack, kstack>>
  BY DEF task
<1>2. CASE q = directory_entry'
  BY <1>2 DEF FreshTables, Taken
<1>3. CASE q = user_stack' \/ q = kstack'
  BY <1>1, <1>3 DEF Taken
<1>4. CASE q \in {table'[i] : i \in DOMAIN table'}
  BY <1>4 DEF FreshTables, Taken
<1>5. CASE q \in {image'[i] : i \in 1..Len(image')}
  BY <1>1, <1>5 DEF Taken
<1> QED BY <1>2, <1>3, <1>4, <1>5 DEF Taken

LEMMA OwnKept ==
    ASSUME OwnApart, Kept, FreshTaken, own' = own \/ own' = <<>>
    PROVE  OwnApart'
<1>1. CASE own' = own
  BY <1>1 DEF OwnApart, FreshTaken, Kept
<1>2. CASE own' = <<>>
  <2>1. DOMAIN own' = {}
    BY <1>2
  <2> QED BY <2>1 DEF OwnApart
<1> QED BY <1>1, <1>2

LEMMA OwnedKept ==
    ASSUME UserOwned, Stacks, Kept, UNCHANGED <<image, user>>,
           pc' # "read", pc \notin {"map_stack", "user"}
    PROVE  UserOwned'
<1> SUFFICES ASSUME NEW v \in DOMAIN user, user[v] # VGA
             PROVE  \E i \in 1..Len(image) : /\ image[i] \in DOMAIN held'
                                             /\ Meets(image[i], user[v])'
  BY DEF UserOwned
<1>1. PICK i \in 1..Len(image) : image[i] \in DOMAIN held /\ Meets(image[i], user[v])
  BY DEF UserOwned
<1>2. image[i] \in DOMAIN held' /\ held'[image[i]] = held[image[i]]
  BY <1>1 DEF Kept
<1>3. Meets(image[i], user[v])'
  BY <1>1, <1>2 DEF Meets
<1> QED BY <1>2, <1>3

(* A page for a new table, put at index n of the directory.                  *)
LEMMA TableMade ==
    ASSUME Tables, Inv, NEW n \in Nat, kmalloc_a(PAGE), NEW t \in Given,
           table' = Put(table, n, t), UNCHANGED directory_entry,
           n < ENTRIES \/ n * (ENTRIES * PAGE) < placement_address
    PROVE  Kept /\ Tables' /\ FreshTables
<1>1. /\ Kept
      /\ \E p \in Nat : Given = {p} /\ p \notin DOMAIN held /\ p \in DOMAIN held'
  <2>1. PAGE \in Nat /\ TRUE \in BOOLEAN
    BY DEF PAGE
  <2>2. kmalloc_int(PAGE, TRUE)
    BY DEF kmalloc_a
  <2> QED BY <2>1, <2>2, KmallocKeeps
<1>2. t \notin DOMAIN held /\ t \in DOMAIN held'
  BY <1>1
<1>3. /\ DOMAIN table' = DOMAIN table \cup {n}
      /\ table'[n] = t
      /\ \A i \in DOMAIN table : i # n => table'[i] = table[i]
  BY DEF Put
<1>4. IsFiniteSet(DOMAIN table')
  BY <1>3, FS_AddElement DEF Tables
<1>5. placement_address \in Nat
  BY DEF Inv, TypeOK
<1>6. ASSUME NEW i \in Nat, i < ENTRIES \/ i * (ENTRIES * PAGE) < placement_address
      PROVE  i < ENTRIES \/ i * (ENTRIES * PAGE) < placement_address'
  <2> DEFINE z == i * (ENTRIES * PAGE)
  <2>1. z \in Nat /\ (i < ENTRIES \/ z < placement_address)
    BY <1>6 DEF ENTRIES, PAGE
  <2> HIDE DEF z
  <2>2. i < ENTRIES \/ z < placement_address'
    BY <1>1, <1>5, <2>1 DEF Kept
  <2> QED BY <2>2 DEF z
<1>7. ASSUME NEW i \in DOMAIN table'
      PROVE  /\ i \in Nat
             /\ i < ENTRIES \/ i * (ENTRIES * PAGE) < placement_address'
             /\ table'[i] \in DOMAIN held'
  <2>1. i \in Nat /\ (i < ENTRIES \/ i * (ENTRIES * PAGE) < placement_address)
    BY <1>3 DEF Tables
  <2>2. table'[i] \in DOMAIN held'
    BY <1>1, <1>2, <1>3 DEF Tables, Kept
  <2> QED BY <1>6, <2>1, <2>2
<1>8. directory_entry' \in DOMAIN held' \cup {NULL}
  BY <1>1 DEF Tables, Kept
<1>9. Tables'
  BY <1>4, <1>7, <1>8 DEF Tables
<1>10. FreshTables
  BY <1>2, <1>3 DEF FreshTables
<1> QED BY <1>1, <1>9, <1>10

(* paging_set makes a table where there is none.                             *)
LEMMA PagingSetFacts ==
    ASSUME Tables, Inv, NEW v \in Nat, NEW f, paging_set(v, f),
           \/ v \div ENTRIES < ENTRIES
           \/ (v \div ENTRIES) * (ENTRIES * PAGE) < placement_address
    PROVE  /\ Kept /\ Tables' /\ FreshTables
           /\ user' = Put(user, v, f)
<1>1. user' = Put(user, v, f) /\ UNCHANGED directory_entry
  BY DEF paging_set
<1>2. v \div ENTRIES \in Nat
  BY DEF ENTRIES
<1>3. CASE v \div ENTRIES \in DOMAIN table
  <2>1. UNCHANGED <<heap, table>>
    BY <1>3 DEF paging_set
  <2> QED BY <1>1, <2>1, IdleKeeps, TablesKept
<1>4. CASE v \div ENTRIES \notin DOMAIN table
  <2> DEFINE n == v \div ENTRIES
  <2>1. kmalloc_a(PAGE) /\ \E t \in Given : table' = Put(table, n, t)
    BY <1>4 DEF paging_set
  <2> HIDE DEF n
  <2>2. PICK t \in Given : table' = Put(table, n, t)
    BY <2>1
  <2>3. n \in Nat /\ (n < ENTRIES \/ n * (ENTRIES * PAGE) < placement_address)
    BY <1>2 DEF n
  <2>4. Kept /\ Tables' /\ FreshTables
    BY <1>1, <2>1, <2>2, <2>3, TableMade
  <2> QED BY <1>1, <2>4
<1> QED BY <1>3, <1>4

(* paging_new_4gb makes the directory, then a table at a time, then the      *)
(* chunk.                                                                    *)
LEMMA PagingNewFacts ==
    ASSUME Tables, Inv, NEW next, NEW pages, paging_new_4gb(next, pages)
    PROVE  /\ Kept /\ Tables' /\ FreshTables
           /\ UNCHANGED <<own, program, image, mapped, task, commands>>
           /\ \/ pc' = next /\ user' = [v \in pages |-> v]
              \/ UNCHANGED <<pc, user>>
<1>1. UNCHANGED <<own, program, image, mapped, task, commands>>
  BY DEF paging_new_4gb, files
<1>2. CASE directory_entry = NULL
  <2>1. /\ kmalloc_int(PAGE, TRUE)
        /\ directory_entry' \in Given
        /\ UNCHANGED <<pc, table, user>>
    BY <1>2 DEF paging_new_4gb, kmalloc_a
  <2>2. /\ Kept
        /\ \E p \in Nat : Given = {p} /\ p \notin DOMAIN held /\ p \in DOMAIN held'
    <3>1. PAGE \in Nat /\ TRUE \in BOOLEAN
      BY DEF PAGE
    <3> QED BY <2>1, <3>1, KmallocKeeps
  <2>3. directory_entry' \in DOMAIN held' /\ directory_entry' \notin DOMAIN held
    BY <2>1, <2>2
  <2>4. placement_address \in Nat
    BY DEF Inv, TypeOK
  <2>5. ASSUME NEW i \in DOMAIN table
        PROVE  i < ENTRIES \/ i * (ENTRIES * PAGE) < placement_address'
    <3> DEFINE z == i * (ENTRIES * PAGE)
    <3>1. z \in Nat /\ (i < ENTRIES \/ z < placement_address)
      BY DEF Tables, ENTRIES, PAGE
    <3> HIDE DEF z
    <3>2. i < ENTRIES \/ z < placement_address'
      BY <2>2, <2>4, <3>1 DEF Kept
    <3> QED BY <3>2 DEF z
  <2>6. Tables'
    BY <2>1, <2>2, <2>3, <2>5 DEF Tables, Kept
  <2>7. FreshTables
    BY <2>1, <2>3 DEF FreshTables
  <2> QED BY <1>1, <2>1, <2>2, <2>6, <2>7
<1>3. CASE directory_entry # NULL /\ Cardinality(DOMAIN table) < TABLES
  <2> DEFINE n == Cardinality(DOMAIN table)
  <2>1. /\ kmalloc_a(PAGE)
        /\ \E t \in Given : table' = Put(table, n, t)
        /\ UNCHANGED <<pc, directory_entry, user>>
    BY <1>3 DEF paging_new_4gb
  <2>2. n \in Nat
    BY FS_CardinalityType DEF Tables
  <2>3. n < ENTRIES
    BY <1>3, <2>2, ProgramsAssumption DEF ENTRIES
  <2> HIDE DEF n
  <2>4. PICK t \in Given : table' = Put(table, n, t)
    BY <2>1
  <2>5. Kept /\ Tables' /\ FreshTables
    BY <2>1, <2>2, <2>3, <2>4, TableMade
  <2> QED BY <1>1, <2>1, <2>5
<1>4. CASE directory_entry # NULL /\ ~(Cardinality(DOMAIN table) < TABLES)
  <2>1. /\ kmalloc_int(CHUNK, FALSE)
        /\ user' = [v \in pages |-> v]
        /\ pc' = next
        /\ UNCHANGED <<directory_entry, table>>
    BY <1>4 DEF paging_new_4gb, kmalloc
  <2>2. Kept
    <3>1. CHUNK \in Nat /\ FALSE \in BOOLEAN
      BY DEF CHUNK
    <3> QED BY <2>1, <3>1, KmallocKeeps
  <2>3. Tables' /\ FreshTables
    BY <2>1, <2>2, TablesKept
  <2> QED BY <1>1, <2>1, <2>2, <2>3
<1> QED BY <1>2, <1>3, <1>4

-----------------------------------------------------------------------------
(* The steps of a command.                                                   *)

LEMMA BootPreserves == ASSUME SpaceInv, boot PROVE SpaceInv'
<1>1. /\ pc = "boot"
      /\ Kept /\ Tables' /\ FreshTables
      /\ UNCHANGED <<own, program, image, mapped, task, commands>>
      /\ \/ pc' = "prompt" /\ user' = [v \in {} |-> v]
         \/ UNCHANGED <<pc, user>>
  <2>1. paging_new_4gb("prompt", {}) /\ pc = "boot"
    BY DEF boot
  <2>2. Tables /\ Inv
    BY DEF SpaceInv
  <2> QED BY <2>1, <2>2, PagingNewFacts
<1>2. Types'
  BY <1>1 DEF SpaceInv, Types
<1>3. Stacks'
  BY <1>1, StacksKept DEF SpaceInv
<1>4. Progress'
  BY <1>1 DEF Progress
<1>5. Images' /\ OwnApart'
  BY <1>1, ImagesKept, TakenKept, OwnKept DEF SpaceInv
<1>6. UserOwned'
  <2>1. CASE user' = [v \in {} |-> v]
    BY <2>1 DEF UserOwned
  <2>2. CASE UNCHANGED <<pc, user>>
    BY <1>1, <2>2, OwnedKept DEF SpaceInv
  <2> QED BY <1>1, <2>1, <2>2
<1> QED BY <1>1, <1>2, <1>3, <1>4, <1>5, <1>6 DEF SpaceInv, Kept

LEMMA RunPreserves ==
    ASSUME SpaceInv, NEW p \in Programs, run_handler(p) PROVE SpaceInv'
<1>1. /\ pc = "prompt" /\ pc' = "magic" /\ program' = p
      /\ commands < MaxCommands /\ commands' = commands + 1
      /\ directory_entry' = NULL /\ table' = <<>> /\ user' = <<>> /\ image' = <<>>
      /\ own' = <<>>
      /\ UNCHANGED <<heap, mapped, task>>
  BY DEF run_handler, start
<1>2. Kept
  BY <1>1, IdleKeeps DEF SpaceInv
<1>3. image' \in Seq(Nat) /\ Len(image') = 0
  BY <1>1, EmptySeq
<1>4. DOMAIN table' = {} /\ DOMAIN user' = {} /\ DOMAIN own' = {}
  BY <1>1
<1>5. Tables'
  BY <1>1, <1>4, FS_EmptySet DEF Tables
<1>6. Types'
  BY <1>1, <1>3, <1>4, ProgramsAssumption DEF SpaceInv, Types
<1>7. Stacks'
  BY <1>1, <1>2, StacksKept DEF SpaceInv
<1>8. Progress'
  BY <1>1, <1>3 DEF Progress
<1>9. Len(Segments[p]) \in Nat
  BY ProgramsAssumption, LenProperties
<1>10. Images'
  BY <1>1, <1>3, <1>9 DEF Images
<1>11. OwnApart' /\ UserOwned'
  BY <1>4 DEF OwnApart, UserOwned
<1> QED BY <1>2, <1>5, <1>6, <1>7, <1>8, <1>10, <1>11 DEF SpaceInv, Kept

(* A step that makes no heap call and leaves what has been built as it is.   *)
LEMMA QuietPreserves ==
    ASSUME SpaceInv, UNCHANGED <<heap, program, space, image, task>>,
           own' = own \/ own' = <<>>,
           Types', Progress', pc' # "read",
           pc \notin {"kstack", "map_stack", "user"},
           pc' \notin {"kstack", "map_stack", "user"}
    PROVE  SpaceInv'
<1>1. UNCHANGED <<directory_entry, table, user>>
  BY DEF space
<1>2. Kept /\ Tables' /\ FreshTables
  BY <1>1, IdleKeeps, TablesKept DEF SpaceInv
<1>3. Stacks'
  BY <1>2, StacksKept DEF SpaceInv
<1>4. Images' /\ OwnApart'
  BY <1>2, ImagesKept, TakenKept, OwnKept DEF SpaceInv
<1>5. UserOwned'
  BY <1>1, <1>2, OwnedKept DEF SpaceInv
<1> QED BY <1>2, <1>3, <1>4, <1>5 DEF SpaceInv, Kept

LEMMA ListPreserves == ASSUME SpaceInv, ls_handler PROVE SpaceInv'
<1>1. /\ pc = "prompt" /\ own' = <<>>
      /\ commands < MaxCommands /\ commands' = commands + 1
      /\ UNCHANGED <<heap, pc, program, space, image, mapped, task>>
  BY DEF ls_handler, start
<1>2. Types' /\ Progress'
  BY <1>1, ProgramsAssumption DEF SpaceInv, Types, Progress, space
<1> QED BY <1>1, <1>2, QuietPreserves

LEMMA LoadPreserves == ASSUME SpaceInv, process_load \/ elf_load PROVE SpaceInv'
<1>1. /\ pc \in {"magic", "elf", "header"}
      /\ pc' \in {"prompt", "elf", "header", "process"}
      /\ own' = own \/ own' = <<>>
      /\ UNCHANGED <<heap, program, space, image, mapped, task, commands>>
  BY DEF process_load, elf_load, Fail, start, start_close, files
<1>2. Types' /\ Progress'
  BY <1>1 DEF SpaceInv, Types, Progress, space
<1> QED BY <1>1, <1>2, QuietPreserves

LEMMA ProcessPreserves == ASSUME SpaceInv, process_alloc PROVE SpaceInv'
<1>1. /\ pc = "process"
      /\ pc' = IF IsElf[program] THEN "paging" ELSE "raw"
      /\ pc' \in {"paging", "raw"}
      /\ own' = own \/ own' = <<>>
      /\ UNCHANGED <<program, directory_entry, table, user, image, mapped, task, commands>>
  BY DEF process_alloc, start, files, space
<1>2. Kept
  <2>1. PROCESS \in Nat /\ FALSE \in BOOLEAN
    BY DEF PROCESS
  <2>2. kmalloc_int(PROCESS, FALSE)
    BY DEF process_alloc, kmalloc
  <2> QED BY <2>1, <2>2, KmallocKeeps DEF SpaceInv
<1>3. Tables' /\ FreshTables
  BY <1>1, <1>2, TablesKept DEF SpaceInv
<1>4. Types'
  BY <1>1 DEF SpaceInv, Types
<1>5. Stacks'
  BY <1>1, <1>2, StacksKept DEF SpaceInv
<1>6. Progress'
  BY <1>1 DEF SpaceInv, Progress
<1>7. Images' /\ OwnApart'
  BY <1>1, <1>2, <1>3, ImagesKept, TakenKept, OwnKept DEF SpaceInv
<1>8. UserOwned'
  BY <1>1, <1>2, OwnedKept DEF SpaceInv
<1> QED BY <1>2, <1>3, <1>4, <1>5, <1>6, <1>7, <1>8 DEF SpaceInv, Kept

(* The copy of the next segment is given a block of its own.                 *)
LEMMA ImageMade ==
    ASSUME SpaceInv, Len(image) < Len(Segments[program]),
           kmalloc_a(Segments[program][Len(image) + 1].memsz),
           NEW q \in Given, image' = Append(image, q),
           UNCHANGED <<program, space, task>>, own' = own \/ own' = <<>>
    PROVE  /\ Kept /\ Tables' /\ Images' /\ OwnApart'
           /\ image' \in Seq(Nat)
           /\ Len(image') = Len(image) + 1
           /\ \A i \in 1..Len(image) : image'[i] = image[i]
<1> DEFINE n == Len(image) + 1
           size == Segments[program][n].memsz
<1>1. /\ Len(image) \in Nat /\ image \in Seq(Nat) /\ n \in 1..Len(Segments[program])
      /\ Len(Segments[program]) \in Nat
  BY ProgramsAssumption, LenProperties DEF SpaceInv, Types
<1>2. size \in Nat /\ TRUE \in BOOLEAN
  <2>1. Segments[program] \in Seq([vaddr : Nat, memsz : Nat])
    BY ProgramsAssumption DEF SpaceInv, Types
  <2>2. Segments[program][n] \in [vaddr : Nat, memsz : Nat]
    BY <1>1, <2>1, ElementOfSeq
  <2> QED BY <2>2
<1>3. kmalloc_int(size, TRUE)
  BY DEF kmalloc_a
<1> HIDE DEF size
<1>4. /\ Kept
      /\ \E p \in Nat :
           /\ Given = {p}
           /\ p \notin DOMAIN held
           /\ p \in DOMAIN held'
           /\ held'[p] = [size |-> size, align |-> TRUE]
           /\ p >= HEADER
  BY <1>2, <1>3, KmallocKeeps DEF SpaceInv
<1>5. /\ q \in Nat /\ q \notin DOMAIN held /\ q \in DOMAIN held' /\ q # NULL
      /\ held'[q] = [size |-> size, align |-> TRUE]
  BY <1>4 DEF NULL, HEADER
<1>6. UNCHANGED <<directory_entry, table>>
  BY DEF space
<1>7. Tables'
  BY <1>4, <1>6, TablesKept DEF SpaceInv
<1>8. /\ image' \in Seq(Nat)
      /\ Len(image') = n
      /\ \A i \in 1..Len(image) : image'[i] = image[i]
      /\ image'[n] = q
  BY <1>1, <1>5, AppendProperties
<1>9. ASSUME NEW i \in 1..n
      PROVE  /\ image'[i] \in DOMAIN held'
             /\ held'[image'[i]] = [size |-> Segments[program][i].memsz, align |-> TRUE]
             /\ image'[i] # directory_entry
             /\ \A t \in DOMAIN table : table[t] # image'[i]
             /\ \A j \in 1..n : i # j => image'[i] # image'[j]
  <2>1. ASSUME NEW j \in 1..Len(image)
        PROVE  /\ image'[j] \in DOMAIN held
               /\ image'[j] # q
               /\ held'[image'[j]] = [size |-> Segments[program][j].memsz, align |-> TRUE]
               /\ image'[j] # directory_entry
               /\ \A t \in DOMAIN table : table[t] # image'[j]
               /\ \A k \in 1..Len(image) : j # k => image'[j] # image'[k]
    <3>1. /\ image[j] \in DOMAIN held
          /\ held[image[j]] = [size |-> Segments[program][j].memsz, align |-> TRUE]
          /\ image[j] # directory_entry
          /\ \A t \in DOMAIN table : table[t] # image[j]
          /\ \A k \in 1..Len(image) : j # k => image[j] # image[k]
      BY DEF SpaceInv, Images
    <3>2. image'[j] = image[j] /\ \A k \in 1..Len(image) : image'[k] = image[k]
      BY <1>8
    <3> QED BY <1>4, <1>5, <3>1, <3>2 DEF Kept
  <2>2. /\ q # directory_entry
        /\ \A t \in DOMAIN table : table[t] # q
    BY <1>5 DEF SpaceInv, Tables
  <2>3. \A j \in 1..n : j = n \/ j \in 1..Len(image)
    BY <1>1
  <2>4. CASE i = n
    BY <1>5, <1>8, <2>1, <2>2, <2>3, <2>4 DEF size
  <2>5. CASE i \in 1..Len(image)
    BY <1>4, <1>8, <2>1, <2>3, <2>5 DEF Kept
  <2> QED BY <2>3, <2>4, <2>5
<1>10. Images'
  <2>1. n <= Len(Segments[program]) /\ UNCHANGED program
    BY <1>1
  <2>2. Len(image') = n
    BY <1>8
  <2> HIDE DEF n
  <2> QED BY <1>6, <1>9, <2>1, <2>2 DEF Images
<1>11. FreshTaken
  <2> SUFFICES ASSUME NEW x \in Taken' PROVE x \in Taken \/ x \notin DOMAIN held
    BY DEF FreshTaken
  <2>1. UNCHANGED <<directory_entry, table, user_stack, kstack>>
    BY <1>6 DEF task
  <2>2. ASSUME NEW i \in 1..n, x = image'[i] PROVE x \in Taken \/ x \notin DOMAIN held
    <3>1. i = n \/ i \in 1..Len(image)
      BY <1>1
    <3>2. CASE i = n
      BY <1>5, <1>8, <2>2, <3>2
    <3>3. CASE i \in 1..Len(image)
      BY <1>8, <2>2, <3>3 DEF Taken
    <3> QED BY <3>1, <3>2, <3>3
  <2>3. CASE x \in {image'[i] : i \in 1..Len(image')}
    BY <1>8, <2>2, <2>3
  <2>4. CASE x \in {directory_entry, user_stack, kstack} \cup {table[i] : i \in DOMAIN table}
    BY <2>4 DEF Taken
  <2> QED BY <2>1, <2>3, <2>4 DEF Taken
<1>12. OwnApart'
  BY <1>4, <1>11, OwnKept DEF SpaceInv
<1> QED BY <1>4, <1>7, <1>8, <1>10, <1>12

LEMMA RawImagePreserves == ASSUME SpaceInv, raw_image PROVE SpaceInv'
<1>1. /\ pc \in {"raw", "raw_read"} /\ ~IsElf[program]
      /\ UNCHANGED <<program, space, mapped, task, commands>>
      /\ UNCHANGED <<directory_entry, table, user>>
      /\ own' = own \/ own' = <<>>
  BY DEF raw_image, space, files, start_close, SpaceInv, Progress
<1>2. CASE /\ UNCHANGED <<heap, image>>
           /\ \/ pc' = "prompt"
              \/ pc = "raw_read" /\ pc' = "paging"
  <2>1. Types' /\ Progress'
    BY <1>1, <1>2 DEF SpaceInv, Types, Progress
  <2> QED BY <1>1, <1>2, <2>1, QuietPreserves
<1>3. ASSUME pc = "raw", pc' = "raw_read", kmalloc_a(Segments[program][1].memsz),
             NEW q \in Given, image' = Append(image, q)
      PROVE  SpaceInv'
  <2>1. Len(image) = 0 /\ Len(Segments[program]) = 1
    BY <1>1, <1>3, ProgramsAssumption DEF SpaceInv, Progress, Types
  <2>2. /\ Len(image) < Len(Segments[program])
        /\ kmalloc_a(Segments[program][Len(image) + 1].memsz)
    BY <1>3, <2>1
  <2>3. /\ Kept /\ Tables' /\ Images' /\ OwnApart'
        /\ image' \in Seq(Nat)
        /\ Len(image') = 1
    BY <1>1, <1>3, <2>1, <2>2, ImageMade
  <2>4. Types'
    BY <1>1, <1>3, <2>3 DEF SpaceInv, Types
  <2>5. Stacks'
    BY <1>1, <1>3, <2>3, StacksKept DEF SpaceInv
  <2>6. Progress'
    BY <1>1, <1>3, <2>3 DEF Progress
  <2>7. \A v \in DOMAIN user : user[v] = VGA
    BY <1>3, <2>1 DEF SpaceInv, UserOwned
  <2>8. UserOwned'
    BY <1>1, <2>7 DEF UserOwned
  <2> QED BY <2>3, <2>4, <2>5, <2>6, <2>8 DEF SpaceInv, Kept
<1> QED BY <1>2, <1>3 DEF raw_image, Fail

LEMMA PagingPreserves == ASSUME SpaceInv, paging PROVE SpaceInv'
<1> DEFINE next == IF IsElf[program] THEN "segment" ELSE "map"
<1>1. /\ pc = "paging"
      /\ Kept /\ Tables' /\ FreshTables
      /\ UNCHANGED <<own, program, image, mapped, task, commands>>
      /\ \/ pc' = next /\ user' = [v \in {VGA} |-> v]
         \/ UNCHANGED <<pc, user>>
  <2>1. paging_new_4gb(next, {VGA}) /\ pc = "paging"
    BY DEF paging
  <2>2. Tables /\ Inv
    BY DEF SpaceInv
  <2> QED BY <2>1, <2>2, PagingNewFacts
<1>2. Len(image) = IF IsElf[program] THEN 0 ELSE 1
  BY <1>1 DEF SpaceInv, Progress
<1>3. Types'
  BY <1>1 DEF SpaceInv, Types, VGA
<1>4. Stacks'
  BY <1>1, StacksKept DEF SpaceInv
<1>5. Progress'
  BY <1>1, <1>2 DEF Progress
<1>6. Images' /\ OwnApart'
  BY <1>1, ImagesKept, TakenKept, OwnKept DEF SpaceInv
<1>7. UserOwned'
  <2>1. CASE user' = [v \in {VGA} |-> v]
    BY <2>1 DEF UserOwned
  <2>2. CASE UNCHANGED <<pc, user>>
    BY <1>1, <2>2, OwnedKept DEF SpaceInv
  <2> QED BY <1>1, <2>1, <2>2
<1> QED BY <1>1, <1>3, <1>4, <1>5, <1>6, <1>7 DEF SpaceInv, Kept

LEMMA SegmentPreserves == ASSUME SpaceInv, elf_segment PROVE SpaceInv'
<1>1. /\ pc = "segment" /\ IsElf[program]
      /\ UNCHANGED <<program, space, mapped, task, commands>>
      /\ UNCHANGED <<directory_entry, table, user>>
      /\ own' = own
  BY DEF elf_segment, space, files, start_close, SpaceInv, Progress
<1>2. CASE UNCHANGED <<heap, image>> /\ pc' \in {"prompt", "task"}
           /\ (pc' = "task" => Len(image) = Len(Segments[program]))
  <2>1. Types' /\ Progress'
    BY <1>1, <1>2 DEF SpaceInv, Types, Progress
  <2> QED BY <1>1, <1>2, <2>1, QuietPreserves
<1>3. ASSUME Len(image) < Len(Segments[program]),
             kmalloc_a(Segments[program][Len(image) + 1].memsz),
             NEW q \in Given, image' = Append(image, q),
             pc' = "read"
      PROVE  SpaceInv'
  <2>1. /\ Kept /\ Tables' /\ Images' /\ OwnApart'
        /\ image' \in Seq(Nat)
        /\ Len(image') = Len(image) + 1
        /\ \A i \in 1..Len(image) : image'[i] = image[i]
    BY <1>1, <1>3, ImageMade
  <2>2. Len(image) \in Nat
    BY LenProperties DEF SpaceInv, Types
  <2>3. Types'
    BY <1>1, <1>3, <2>1 DEF SpaceInv, Types
  <2>4. Stacks'
    BY <1>1, <1>3, <2>1, StacksKept DEF SpaceInv
  <2>5. Progress'
    BY <1>1, <1>3, <2>1, <2>2 DEF Progress
  <2>6. UserOwned'
    <3> SUFFICES ASSUME NEW v \in DOMAIN user, user[v] # VGA
                 PROVE  \E i \in 1..Len(image') : /\ i < Len(image')
                                                  /\ image'[i] \in DOMAIN held'
                                                  /\ Meets(image[i], user[v])'
      BY <1>1, <1>3 DEF UserOwned
    <3>1. PICK i \in 1..Len(image) : image[i] \in DOMAIN held /\ Meets(image[i], user[v])
      BY <1>1 DEF SpaceInv, UserOwned
    <3>2. i \in 1..Len(image') /\ i < Len(image') /\ image'[i] = image[i]
      BY <2>1, <2>2
    <3>3. image[i] \in DOMAIN held' /\ held'[image[i]] = held[image[i]]
      BY <2>1, <3>1 DEF Kept
    <3>4. Meets(image[i], user[v])'
      BY <1>1, <3>1, <3>2, <3>3 DEF Meets
    <3> QED BY <3>2, <3>3, <3>4
  <2> QED BY <2>1, <2>3, <2>4, <2>5, <2>6 DEF SpaceInv, Kept
<1> QED BY <1>2, <1>3 DEF elf_segment, Fail

LEMMA ReadPreserves == ASSUME SpaceInv, elf_read PROVE SpaceInv'
<1>1. /\ pc = "read" /\ IsElf[program] /\ Len(image) >= 1
      /\ UNCHANGED <<program, space, mapped, task, commands>>
      /\ UNCHANGED <<directory_entry, table, user, user_stack, kstack>>
      /\ own' = own
  BY DEF elf_read, space, task, files, start_close, SpaceInv, Progress
<1>2. Len(image) \in Nat /\ image \in Seq(Nat)
  BY LenProperties DEF SpaceInv, Types
<1>3. ASSUME NEW i \in 1..Len(image)
      PROVE  /\ image[i] \in DOMAIN held
             /\ image[i] # directory_entry
             /\ \A t \in DOMAIN table : table[t] # image[i]
             /\ \A j \in 1..Len(image) : i # j => image[i] # image[j]
  BY <1>1 DEF SpaceInv, Images
<1>4. \A v \in DOMAIN user :
        \/ user[v] = VGA
        \/ \E i \in 1..Len(image) : /\ i < Len(image)
                                    /\ image[i] \in DOMAIN held
                                    /\ Meets(image[i], user[v])
  BY <1>1 DEF SpaceInv, UserOwned
<1>5. CASE /\ kfree(image[Len(image)]) /\ pc' = "prompt"
           /\ image' = SubSeq(image, 1, Len(image) - 1)
  <2> DEFINE ptr == image[Len(image)]
  <2>1. Len(image) \in 1..Len(image)
    BY <1>1, <1>2
  <2>2. /\ ptr \in DOMAIN held
        /\ ptr # directory_entry
        /\ \A t \in DOMAIN table : table[t] # ptr
        /\ \A j \in 1..Len(image) : j < Len(image) => image[j] # ptr
        /\ ptr \in Taken
    BY <1>2, <1>3, <2>1 DEF Taken
  <2>3. kfree(ptr)
    BY <1>5
  <2>4. /\ image' \in Seq(Nat)
        /\ Len(image') = Len(image) - 1
        /\ \A i \in 1..Len(image') : image'[i] = image[i] /\ i < Len(image)
                                     /\ i \in 1..Len(image)
    <3>1. /\ image \in Seq(Nat) /\ Len(image) \in Nat /\ Len(image) >= 1
          /\ image' = SubSeq(image, 1, Len(image) - 1)
      BY <1>1, <1>2, <1>5
    <3>2. ASSUME NEW s \in Seq(Nat), Len(s) \in Nat, Len(s) >= 1
          PROVE  /\ SubSeq(s, 1, Len(s) - 1) \in Seq(Nat)
                 /\ Len(SubSeq(s, 1, Len(s) - 1)) = Len(s) - 1
                 /\ \A i \in 1..(Len(s) - 1) : SubSeq(s, 1, Len(s) - 1)[i] = s[i]
      <4> DEFINE n == Len(s) - 1
      <4>1. n \in Nat /\ \A i \in 1..n : i \in 1..Len(s)
        BY <3>2
      <4>2. \A i \in 1..n : s[i] \in Nat
        BY <3>2, <4>1, ElementOfSeq
      <4> HIDE DEF n
      <4>3. /\ SubSeq(s, 1, n) \in Seq(Nat)
            /\ Len(SubSeq(s, 1, n)) = IF 1 <= n THEN n - 1 + 1 ELSE 0
            /\ \A i \in 1..(n - 1 + 1) : SubSeq(s, 1, n)[i] = s[1 + i - 1]
        BY <4>1, <4>2, SubSeqProperties
      <4>4. Len(SubSeq(s, 1, n)) = n /\ \A i \in 1..n : SubSeq(s, 1, n)[i] = s[i]
        BY <4>1, <4>3
      <4> QED BY <4>3, <4>4 DEF n
    <3>3. /\ image' \in Seq(Nat) /\ Len(image') = Len(image) - 1
          /\ \A i \in 1..(Len(image) - 1) : image'[i] = image[i]
      BY <3>1, <3>2
    <3> QED BY <3>1, <3>3
  <2> HIDE DEF ptr
  <2>5. /\ Inv'
        /\ UNCHANGED placement_address
        /\ DOMAIN held' = DOMAIN held \ {ptr}
        /\ \A q \in DOMAIN held' : held'[q] = held[q]
    BY <2>2, <2>3, KfreeFacts DEF SpaceInv
  <2>6. Types'
    BY <1>1, <1>5, <2>4 DEF SpaceInv, Types
  <2>7. Tables'
    BY <1>1, <2>2, <2>5 DEF SpaceInv, Tables
  <2>8. Stacks'
    BY <1>1, <1>5 DEF SpaceInv, Stacks
  <2>9. Progress'
    BY <1>5 DEF Progress
  <2>10. Images'
    <3>1. Len(image') <= Len(Segments[program]) /\ UNCHANGED program
      BY <1>1, <1>2, <2>4, ProgramsAssumption, LenProperties DEF SpaceInv, Images, Types
    <3>2. ASSUME NEW i \in 1..Len(image')
          PROVE  /\ image'[i] \in DOMAIN held'
                 /\ held'[image'[i]] = [size |-> Segments[program][i].memsz, align |-> TRUE]
                 /\ image'[i] # directory_entry
                 /\ \A t \in DOMAIN table : table[t] # image'[i]
                 /\ \A j \in 1..Len(image') : i # j => image'[i] # image'[j]
      <4>1. i \in 1..Len(image) /\ i < Len(image) /\ image'[i] = image[i]
        BY <2>4
      <4>2. held[image[i]] = [size |-> Segments[program][i].memsz, align |-> TRUE]
        BY <4>1 DEF SpaceInv, Images
      <4>3. image[i] \in DOMAIN held' /\ held'[image[i]] = held[image[i]]
        BY <1>3, <2>2, <2>5, <4>1
      <4>4. \A j \in 1..Len(image') : j \in 1..Len(image) /\ image'[j] = image[j]
        BY <2>4
      <4> QED BY <1>3, <4>1, <4>2, <4>3, <4>4
    <3> QED BY <1>1, <3>1, <3>2 DEF Images
  <2>11. OwnApart'
    <3>1. Taken' \subseteq Taken
      BY <1>1, <2>4 DEF Taken
    <3> QED BY <1>1, <2>2, <2>5, <3>1 DEF SpaceInv, OwnApart
  <2>12. UserOwned'
    <3> SUFFICES ASSUME NEW v \in DOMAIN user, user[v] # VGA
                 PROVE  \E i \in 1..Len(image') : /\ image'[i] \in DOMAIN held'
                                                  /\ Meets(image[i], user[v])'
      BY <1>1, <1>5 DEF UserOwned
    <3>1. PICK i \in 1..Len(image) : /\ i < Len(image)
                                     /\ image[i] \in DOMAIN held
                                     /\ Meets(image[i], user[v])
      BY <1>4
    <3>2. i \in 1..Len(image') /\ image'[i] = image[i]
      BY <1>2, <2>4, <3>1
    <3>3. image[i] \in DOMAIN held' /\ held'[image[i]] = held[image[i]]
      BY <2>2, <2>5, <3>1
    <3>4. Meets(image[i], user[v])'
      BY <1>1, <3>1, <3>2, <3>3 DEF Meets
    <3> QED BY <3>2, <3>3, <3>4
  <2> QED BY <2>5, <2>6, <2>7, <2>8, <2>9, <2>10, <2>11, <2>12 DEF SpaceInv
<1>6. CASE pc' = "map" /\ UNCHANGED <<heap, image>>
  <2>1. Types' /\ Progress'
    BY <1>1, <1>6 DEF SpaceInv, Types, Progress
  <2> QED BY <1>1, <1>6, <2>1, QuietPreserves
<1> QED BY <1>5, <1>6 DEF elf_read, Fail

LEMMA MapDonePreserves == ASSUME SpaceInv, map_done PROVE SpaceInv'
<1>1. /\ pc = "map" /\ mapped' = 0
      /\ pc' = IF IsElf[program] THEN "segment" ELSE "task"
      /\ UNCHANGED <<heap, program, space, image, task, commands>>
      /\ UNCHANGED <<directory_entry, table, user, own>>
  BY DEF map_done, space, files
<1>2. Len(image) >= 1 /\ Len(image) <= Len(Segments[program]) /\ Len(image) \in Nat
  BY <1>1, LenProperties DEF SpaceInv, Types, Progress, Images
<1>3. Types'
  BY <1>1 DEF SpaceInv, Types
<1>4. Progress'
  BY <1>1, <1>2, ProgramsAssumption DEF SpaceInv, Types, Progress
<1>5. pc' \in {"segment", "task"}
  BY <1>1
<1> QED BY <1>1, <1>3, <1>4, <1>5, QuietPreserves

(* Page k of a segment starts below the end of the segment.                  *)
LEMMA PageOfSegment ==
    ASSUME NEW s, s.vaddr \in Nat, s.memsz \in Nat, s.memsz > 0,
           NEW k \in Nat, k < Pages(s), Aligned(s)
    PROVE  /\ k * PAGE < s.memsz
           /\ (s.vaddr \div PAGE) + k <= (s.vaddr + s.memsz - 1) \div PAGE
<1> DEFINE a == s.vaddr
           m == s.memsz
<1>1. a \in Nat /\ m \in Nat /\ m > 0 /\ a % 4096 = 0 /\ k < (m + 4095) \div 4096
  BY DEF Pages, Aligned, PAGE
<1> HIDE DEF a, m
<1>2. k * 4096 < m
  BY <1>1
<1>3. (a \div 4096) + k <= (a + m - 1) \div 4096
  BY <1>1, <1>2
<1> QED BY <1>2, <1>3 DEF PAGE, a, m

(* The segment copied last, as ProgramsAssumption describes it.              *)
LEMMA SegmentFacts ==
    ASSUME SpaceInv, NEW i \in 1..Len(Segments[program])
    PROVE  LET s == Segments[program][i] IN
           /\ s.vaddr \in Nat /\ s.memsz \in Nat /\ s.memsz > 0
           /\ (s.vaddr + s.memsz - 1) \div PAGE < ENTRIES * ENTRIES
<1> DEFINE s == Segments[program][i]
<1>1. program \in Programs
  BY DEF SpaceInv, Types
<1>2. Segments[program] \in Seq([vaddr : Nat, memsz : Nat])
  BY <1>1, ProgramsAssumption
<1>3. s \in [vaddr : Nat, memsz : Nat]
  BY <1>2, ElementOfSeq
<1>4. s.memsz > 0 /\ (s.vaddr + s.memsz - 1) \div PAGE < ENTRIES * ENTRIES
  BY <1>1, ProgramsAssumption
<1> QED BY <1>3, <1>4

LEMMA MapPreserves == ASSUME SpaceInv, map PROVE SpaceInv'
<1> DEFINE n == Len(image)
           v == (Segment.vaddr \div PAGE) + mapped
           f == (image[n] \div PAGE) + mapped
<1>1. /\ pc = "map" /\ mapped < Pages(Segment) /\ Aligned(Segment)
      /\ paging_set(v, f) /\ mapped' = mapped + 1
      /\ UNCHANGED <<own, pc, program, image, task, commands>>
  BY DEF map, files
<1>2. n \in Nat /\ n >= 1 /\ n <= Len(Segments[program]) /\ Len(Segments[program]) \in Nat
      /\ mapped \in Nat
  BY <1>1, ProgramsAssumption, LenProperties DEF SpaceInv, Types, Progress, Images
<1>3. /\ Segment.vaddr \in Nat /\ Segment.memsz \in Nat /\ Segment.memsz > 0
      /\ (Segment.vaddr + Segment.memsz - 1) \div PAGE < ENTRIES * ENTRIES
  <2>1. n \in 1..Len(Segments[program])
    BY <1>2
  <2> QED BY <2>1, SegmentFacts DEF Segment
<1>4. /\ mapped * PAGE < Segment.memsz
      /\ v <= (Segment.vaddr + Segment.memsz - 1) \div PAGE
  BY <1>1, <1>2, <1>3, PageOfSegment
<1>5. /\ image[n] \in DOMAIN held
      /\ held[image[n]] = [size |-> Segment.memsz, align |-> TRUE]
  <2>1. n \in 1..n
    BY <1>2
  <2> QED BY <1>1, <2>1 DEF SpaceInv, Images, Segment
<1>6. image[n] \in Nat /\ PageAligned(image[n])
  <2>1. held[image[n]].align
    BY <1>5
  <2> QED BY <1>5, <2>1, HeldIsApart DEF HeldApart, SpaceInv
<1>7. v \in Nat /\ f \in Nat
  BY <1>2, <1>3, <1>6 DEF PAGE
<1>8. v \div ENTRIES < ENTRIES
  <2>1. v < 1048576
    BY <1>3, <1>4, <1>7 DEF PAGE, ENTRIES
  <2> HIDE DEF v
  <2> QED BY <1>7, <2>1 DEF ENTRIES
<1>9. Meets(image[n], f)
  <2> DEFINE a == image[n]
             m == Segment.memsz
  <2>1. /\ a \in Nat /\ m \in Nat /\ a % 4096 = 0 /\ mapped \in Nat
        /\ mapped * 4096 < m /\ f = (a \div 4096) + mapped
    BY <1>2, <1>3, <1>4, <1>6 DEF PAGE, PageAligned
  <2>2. held[a].size = m
    BY <1>5
  <2> HIDE DEF a, m, f
  <2>3. f * 4096 = a + mapped * 4096
    BY <2>1
  <2>4. f * 4096 < a + m /\ a < f * 4096 + 4096
    BY <2>1, <2>3
  <2> QED BY <2>2, <2>4 DEF Meets, PAGE, a
<1> HIDE DEF v, f
<1>10. Kept /\ Tables' /\ FreshTables /\ user' = Put(user, v, f)
  BY <1>1, <1>7, <1>8, PagingSetFacts DEF SpaceInv
<1>11. /\ DOMAIN user' = DOMAIN user \cup {v}
       /\ \A w \in DOMAIN user' : user'[w] = IF w = v THEN f ELSE user[w]
  BY <1>10 DEF Put
<1>12. Types'
  BY <1>1, <1>2, <1>7, <1>11 DEF SpaceInv, Types
<1>13. Stacks'
  BY <1>1, <1>10, StacksKept DEF SpaceInv
<1>14. Progress'
  BY <1>1 DEF SpaceInv, Progress
<1>15. Images' /\ OwnApart'
  BY <1>1, <1>10, ImagesKept, TakenKept, OwnKept DEF SpaceInv
<1>16. UserOwned'
  <2> SUFFICES ASSUME NEW w \in DOMAIN user', user'[w] # VGA
               PROVE  \E i \in 1..n : /\ image[i] \in DOMAIN held'
                                      /\ Meets(image[i], user[w])'
    BY <1>1 DEF UserOwned
  <2>1. \E i \in 1..n : image[i] \in DOMAIN held /\ Meets(image[i], user'[w])
    <3>1. CASE w = v
      <4>1. n \in 1..n
        BY <1>2
      <4> QED BY <1>5, <1>9, <1>11, <3>1, <4>1
    <3>2. CASE w # v
      <4>1. w \in DOMAIN user /\ user'[w] = user[w]
        BY <1>11, <3>2
      <4> QED BY <1>1, <4>1 DEF SpaceInv, UserOwned
    <3> QED BY <3>1, <3>2
  <2>2. PICK i \in 1..n : image[i] \in DOMAIN held /\ Meets(image[i], user'[w])
    BY <2>1
  <2>3. image[i] \in DOMAIN held' /\ held'[image[i]] = held[image[i]]
    BY <1>10, <2>2 DEF Kept
  <2>4. Meets(image[i], user[w])'
    BY <1>1, <2>2, <2>3 DEF Meets
  <2> QED BY <2>3, <2>4
<1> QED BY <1>10, <1>12, <1>13, <1>14, <1>15, <1>16 DEF SpaceInv, Kept

LEMMA TaskNewPreserves == ASSUME SpaceInv, task_new PROVE SpaceInv'
<1>1. /\ UNCHANGED <<program, space, image, mapped, commands>>
      /\ UNCHANGED <<own, directory_entry, table, user>>
      /\ \/ pc = "task" /\ pc' = "user_stack"
         \/ pc = "user_stack" /\ pc' = "kstack"
         \/ pc = "kstack" /\ pc' = "map_stack"
  BY DEF task_new, space, files
<1>2. /\ Kept
      /\ \/ pc = "task" /\ pc' = "user_stack" /\ UNCHANGED task
         \/ /\ pc = "user_stack" /\ pc' = "kstack"
            /\ user_stack' \in DOMAIN held' /\ user_stack' \notin DOMAIN held
            /\ UNCHANGED kstack
            /\ held'[user_stack'] = [size |-> STACK, align |-> FALSE]
         \/ /\ pc = "kstack" /\ pc' = "map_stack"
            /\ kstack' \in DOMAIN held' /\ kstack' \notin DOMAIN held
            /\ UNCHANGED user_stack
  <2>1. FALSE \in BOOLEAN /\ TASK \in Nat /\ STACK \in Nat
    BY DEF TASK, STACK
  <2>2. CASE pc = "task" /\ kmalloc(TASK) /\ pc' = "user_stack" /\ UNCHANGED task
    <3>1. kmalloc_int(TASK, FALSE)
      BY <2>2 DEF kmalloc
    <3> QED BY <2>1, <2>2, <3>1, KmallocKeeps DEF SpaceInv
  <2>3. ASSUME kmalloc(STACK)
        PROVE  /\ Kept
               /\ \A q \in Given : /\ q \in DOMAIN held' /\ q \notin DOMAIN held
                                   /\ held'[q] = [size |-> STACK, align |-> FALSE]
    <3>1. kmalloc_int(STACK, FALSE)
      BY <2>3 DEF kmalloc
    <3>2. /\ Kept
          /\ \E p \in Nat : /\ Given = {p}
                            /\ p \in DOMAIN held' /\ p \notin DOMAIN held
                            /\ held'[p] = [size |-> STACK, align |-> FALSE]
      BY <2>1, <3>1, KmallocKeeps DEF SpaceInv
    <3> QED BY <3>2
  <2> QED BY <2>2, <2>3 DEF task_new
<1>3. Tables' /\ FreshTables
  BY <1>1, <1>2, TablesKept DEF SpaceInv
<1>4. Types'
  BY <1>1 DEF SpaceInv, Types, STACK, PAGE
<1>5. Stacks'
  <2>1. pc \in {"task", "user_stack", "kstack"} /\ Stacks
    BY <1>1 DEF SpaceInv
  <2>2. CASE pc = "task"
    BY <1>1, <1>2, <2>1, <2>2, StacksKept
  <2>3. CASE pc = "user_stack"
    BY <1>1, <1>2, <2>1, <2>3 DEF Stacks
  <2>4. CASE pc = "kstack"
    <3>1. user_stack \in DOMAIN held /\ held[user_stack] = [size |-> STACK, align |-> FALSE]
      BY <2>1, <2>4 DEF Stacks
    <3>2. user_stack \in DOMAIN held' /\ held'[user_stack] = [size |-> STACK, align |-> FALSE]
      BY <1>2, <3>1 DEF Kept
    <3>3. user_stack' = user_stack /\ kstack' \in DOMAIN held' /\ pc' = "map_stack"
      BY <1>2, <2>4
    <3> QED BY <3>2, <3>3 DEF Stacks
  <2> QED BY <2>1, <2>2, <2>3, <2>4
<1>6. Progress'
  BY <1>1 DEF SpaceInv, Progress
<1>7. Images'
  BY <1>1, <1>2, <1>3, ImagesKept DEF SpaceInv
<1>8. UserOwned'
  BY <1>1, <1>2, OwnedKept DEF SpaceInv
<1>9. FreshTaken
  <2>1. /\ user_stack' = user_stack \/ user_stack' \notin DOMAIN held
        /\ kstack' = kstack \/ kstack' \notin DOMAIN held
    BY <1>2 DEF task
  <2> QED BY <1>1, <2>1 DEF FreshTaken, Taken
<1>10. OwnApart'
  BY <1>1, <1>2, <1>9, OwnKept DEF SpaceInv
<1> QED BY <1>2, <1>3, <1>4, <1>5, <1>6, <1>7, <1>8, <1>10 DEF SpaceInv, Kept

LEMMA MapStackPreserves == ASSUME SpaceInv, task_map_stack PROVE SpaceInv'
<1> DEFINE p == (user_stack \div PAGE) + mapped
<1>1. /\ pc = "map_stack" /\ paging_set(p, p) /\ mapped' = mapped + 1
      /\ pc' = IF mapped' * PAGE < STACK THEN pc ELSE "user"
      /\ pc' \in {"map_stack", "user"}
      /\ UNCHANGED <<own, program, image, task, commands>>
  BY DEF task_map_stack, files
<1>2. /\ user_stack \in DOMAIN held
      /\ held[user_stack] = [size |-> STACK, align |-> FALSE]
  BY <1>1 DEF SpaceInv, Stacks
<1>3. /\ user_stack \in Nat /\ user_stack + STACK <= placement_address
      /\ placement_address \in Nat
  <2>1. held[user_stack].size = STACK
    BY <1>2
  <2> QED BY <1>2, <2>1, HeldIsApart DEF HeldApart, SpaceInv, Inv, TypeOK
<1>4. mapped \in Nat /\ mapped * PAGE < STACK
  BY <1>1 DEF SpaceInv, Types
<1>5. p \in Nat /\ p * 4096 < user_stack + STACK /\ user_stack < p * 4096 + 4096
  BY <1>3, <1>4 DEF PAGE, STACK
<1> HIDE DEF p
<1>6. Meets(user_stack, p)
  BY <1>2, <1>5 DEF Meets, PAGE
<1>7. (p \div ENTRIES) * (ENTRIES * PAGE) < placement_address
  <2>1. (p \div 1024) * (1024 * 4096) <= p * 4096
    BY <1>5
  <2>2. STACK \in Nat /\ (p \div 1024) * (1024 * 4096) \in Nat
    BY <1>5 DEF STACK
  <2>3. (p \div 1024) * (1024 * 4096) < placement_address
    BY <1>3, <1>5, <2>1, <2>2
  <2> QED BY <2>3 DEF ENTRIES, PAGE
<1>8. Kept /\ Tables' /\ FreshTables /\ user' = Put(user, p, p)
  BY <1>1, <1>5, <1>7, PagingSetFacts DEF SpaceInv
<1>9. /\ DOMAIN user' = DOMAIN user \cup {p}
      /\ \A w \in DOMAIN user' : user'[w] = IF w = p THEN p ELSE user[w]
  BY <1>8 DEF Put
<1>10. Types'
  <2>1. mapped' \in Nat /\ (pc' = "map_stack" => mapped' * PAGE < STACK)
    BY <1>1, <1>4
  <2>2. \A w \in DOMAIN user' : w \in Nat /\ user'[w] \in Nat
    BY <1>5, <1>9 DEF SpaceInv, Types
  <2> QED BY <1>1, <2>1, <2>2 DEF SpaceInv, Types
<1>11. Stacks'
  <2>1. kstack \in DOMAIN held
    BY <1>1 DEF SpaceInv, Stacks
  <2>2. UNCHANGED <<user_stack, kstack>>
    BY <1>1 DEF task
  <2>3. /\ user_stack \in DOMAIN held'
        /\ held'[user_stack] = [size |-> STACK, align |-> FALSE]
        /\ kstack \in DOMAIN held'
    BY <1>2, <1>8, <2>1 DEF Kept
  <2> QED BY <1>1, <2>2, <2>3 DEF Stacks
<1>12. Progress'
  BY <1>1 DEF SpaceInv, Progress
<1>13. Images' /\ OwnApart'
  BY <1>1, <1>8, ImagesKept, TakenKept, OwnKept DEF SpaceInv
<1>14. UserOwned'
  <2> SUFFICES ASSUME NEW w \in DOMAIN user', user'[w] # VGA
               PROVE  \/ \E i \in 1..Len(image) : /\ image[i] \in DOMAIN held'
                                                  /\ Meets(image[i], user[w])'
                      \/ Meets(user_stack, user[w])'
    BY <1>1 DEF UserOwned
  <2>1. \/ \E i \in 1..Len(image) : image[i] \in DOMAIN held /\ Meets(image[i], user'[w])
        \/ Meets(user_stack, user'[w])
    <3>1. CASE w = p
      BY <1>6, <1>9, <3>1
    <3>2. CASE w # p
      <4>1. w \in DOMAIN user /\ user'[w] = user[w]
        BY <1>9, <3>2
      <4> QED BY <4>1 DEF SpaceInv, UserOwned
    <3> QED BY <3>1, <3>2
  <2>2. CASE Meets(user_stack, user'[w])
    <3>1. held'[user_stack] = held[user_stack] /\ UNCHANGED user_stack
      BY <1>1, <1>2, <1>8 DEF Kept, task
    <3> QED BY <2>2, <3>1 DEF Meets
  <2>3. ASSUME NEW i \in 1..Len(image), image[i] \in DOMAIN held,
               Meets(image[i], user'[w])
        PROVE  image[i] \in DOMAIN held' /\ Meets(image[i], user[w])'
    <3>1. image[i] \in DOMAIN held' /\ held'[image[i]] = held[image[i]]
      BY <1>8, <2>3 DEF Kept
    <3> QED BY <1>1, <2>3, <3>1 DEF Meets
  <2> QED BY <2>1, <2>2, <2>3
<1> QED BY <1>8, <1>10, <1>11, <1>12, <1>13, <1>14 DEF SpaceInv, Kept

(* A file operation takes a pointer into use, or gives one back that belongs *)
(* to nothing else.                                                          *)
FileStep ==
    /\ Inv'
    /\ placement_address' \in Nat
    /\ placement_address <= placement_address'
    /\ \A q \in DOMAIN held :
         (\A n \in DOMAIN own : own[n] # q) => q \in DOMAIN held' /\ held'[q] = held[q]
    /\ OwnApart'

LEMMA CommandKeepsTaken == ASSUME UNCHANGED command PROVE Taken' = Taken
<1>1. UNCHANGED <<directory_entry, table, image, user_stack, kstack>>
  BY DEF command, space, task
<1> QED BY <1>1 DEF Taken

LEMMA FewerOwned ==
    ASSUME SpaceInv, Kept, UNCHANGED command,
           \A n \in DOMAIN own' : n \in DOMAIN own /\ own'[n] = own[n]
    PROVE  FileStep
<1>1. Taken' = Taken
  BY CommandKeepsTaken
<1>2. OwnApart'
  BY <1>1 DEF SpaceInv, OwnApart, Kept
<1> QED BY <1>2 DEF FileStep, Kept

LEMMA MakeFacts ==
    ASSUME SpaceInv, UNCHANGED command, NEW name, NEW size \in Nat, make(name, size)
    PROVE  FileStep
<1>1. kmalloc_int(size, FALSE)
  BY DEF make, kmalloc
<1>2. PICK p \in Given : own' = Put(own, name, p)
  BY DEF make
<1>3. Kept /\ p \in DOMAIN held' /\ p \notin DOMAIN held /\ p # NULL
  <2>1. FALSE \in BOOLEAN
    OBVIOUS
  <2>2. /\ Kept
        /\ \E q \in Nat : /\ Given = {q} /\ q \notin DOMAIN held
                          /\ q \in DOMAIN held' /\ q >= HEADER
    BY <1>1, <2>1, KmallocKeeps DEF SpaceInv
  <2> QED BY <2>2 DEF HEADER, NULL
<1>4. Taken' = Taken
  BY CommandKeepsTaken
<1>5. p \notin Taken
  <2>1. \A q \in Taken : q \in DOMAIN held \cup {NULL}
    <3>1. directory_entry \in DOMAIN held \cup {NULL}
      BY DEF SpaceInv, Tables
    <3>2. \A i \in DOMAIN table : table[i] \in DOMAIN held
      BY DEF SpaceInv, Tables
    <3>3. \A i \in 1..Len(image) : image[i] \in DOMAIN held
      BY DEF SpaceInv, Images
    <3>4. {user_stack, kstack} \subseteq DOMAIN held \cup {NULL}
      BY DEF SpaceInv, Stacks
    <3> QED BY <3>1, <3>2, <3>3, <3>4 DEF Taken
  <2> QED BY <1>3, <2>1
<1>6. /\ DOMAIN own' = DOMAIN own \cup {name}
      /\ \A n \in DOMAIN own' : own'[n] = IF n = name THEN p ELSE own[n]
  BY <1>2 DEF Put
<1>7. ASSUME NEW n \in DOMAIN own' PROVE own'[n] \in DOMAIN held' /\ own'[n] \notin Taken
  BY <1>3, <1>5, <1>6 DEF SpaceInv, OwnApart, Kept
<1>8. ASSUME NEW m \in DOMAIN own', NEW n \in DOMAIN own', m # n PROVE own'[m] # own'[n]
  BY <1>3, <1>6, <1>8 DEF SpaceInv, OwnApart
<1>9. OwnApart'
  BY <1>4, <1>7, <1>8 DEF OwnApart
<1> QED BY <1>3, <1>9 DEF FileStep, Kept

LEMMA GiveFacts ==
    ASSUME SpaceInv, UNCHANGED command, NEW name, give_back(name)
    PROVE  FileStep
<1> DEFINE ptr == own[name]
<1>1. /\ name \in DOMAIN own /\ kfree(ptr) /\ own' = Drop(own, name)
      /\ ptr \in DOMAIN held
  BY DEF give_back, SpaceInv, OwnApart
<1>2. \A n \in DOMAIN own : n # name => own[n] # ptr
  BY <1>1 DEF SpaceInv, OwnApart
<1> HIDE DEF ptr
<1>3. /\ Inv'
      /\ UNCHANGED placement_address
      /\ DOMAIN held' = DOMAIN held \ {ptr}
      /\ \A q \in DOMAIN held' : held'[q] = held[q]
  BY <1>1, KfreeFacts DEF SpaceInv
<1>4. Taken' = Taken
  BY CommandKeepsTaken
<1>5. /\ DOMAIN own' = DOMAIN own \ {name}
      /\ \A n \in DOMAIN own' : own'[n] = own[n]
  BY <1>1 DEF Drop
<1>6. OwnApart'
  BY <1>2, <1>3, <1>4, <1>5 DEF SpaceInv, OwnApart
<1>7. placement_address \in Nat
  BY DEF SpaceInv, Inv, TypeOK
<1>8. \A q \in DOMAIN held : (\A n \in DOMAIN own : own[n] # q) => q # ptr
  BY <1>1 DEF ptr
<1>9. placement_address' \in Nat /\ placement_address <= placement_address'
  BY <1>3, <1>7
<1> QED BY <1>3, <1>6, <1>8, <1>9 DEF FileStep

LEMMA FileFacts == ASSUME SpaceInv, FileCall, UNCHANGED command PROVE FileStep
<1>1. ASSUME UNCHANGED <<heap, own>> PROVE FileStep
  <2>1. Kept
    BY <1>1, IdleKeeps DEF SpaceInv
  <2> QED BY <1>1, <2>1, FewerOwned
<1>2. ASSUME NEW name, Kept, own' = Drop(own, name) PROVE FileStep
  <2>1. \A n \in DOMAIN own' : n \in DOMAIN own /\ own'[n] = own[n]
    BY <1>2 DEF Drop
  <2> QED BY <1>2, <2>1, FewerOwned
<1>3. /\ PATH_ROOT \in Nat /\ PATH_BUFFER \in Nat /\ PATH_PART \in Nat
      /\ DISK_STREAM \in Nat /\ FAT_FILE_DESCRIPTOR \in Nat /\ FILE_DESCRIPTOR \in Nat
  BY DEF PATH_ROOT, PATH_BUFFER, PATH_PART, DISK_STREAM, FAT_FILE_DESCRIPTOR,
         FILE_DESCRIPTOR
<1>4. CASE path_parser_parse
  <2>1. CASE UNCHANGED <<heap, at, own>>
    BY <1>1, <2>1
  <2>2. CASE make(Root, PATH_ROOT) \/ make(Buffer(at), PATH_BUFFER) \/ make(Part(at), PATH_PART)
    BY <1>3, <2>2, MakeFacts
  <2>3. CASE give_back(Buffer(at))
    BY <2>3, GiveFacts
  <2> QED BY <1>4, <2>1, <2>2, <2>3 DEF path_parser_parse
<1>5. CASE fat16_resolve
  <2>1. CASE UNCHANGED <<heap, own>>
    BY <1>1, <2>1
  <2>2. CASE make(Stream, DISK_STREAM)
    BY <1>3, <2>2, MakeFacts
  <2>3. CASE give_back(Stream)
    BY <2>3, GiveFacts
  <2>4. CASE kmalloc(FAT_PRIVATE) /\ own' = Drop(own, Stream)
    <3>1. FAT_PRIVATE \in Nat /\ FALSE \in BOOLEAN
      BY DEF FAT_PRIVATE
    <3>2. Kept
      <4>1. kmalloc_int(FAT_PRIVATE, FALSE)
        BY <2>4 DEF kmalloc
      <4> QED BY <3>1, <4>1, KmallocKeeps DEF SpaceInv
    <3> QED BY <1>2, <2>4, <3>2
  <2> QED BY <1>5, <2>1, <2>2, <2>3, <2>4 DEF fat16_resolve
<1>6. CASE fat16_open
  <2>1. CASE UNCHANGED <<heap, own>>
    BY <1>1, <2>1
  <2>2. CASE make(File, FAT_FILE_DESCRIPTOR) \/ make(Desc, FILE_DESCRIPTOR)
    BY <1>3, <2>2, MakeFacts
  <2>3. CASE own' = Drop(own, File) /\ UNCHANGED heap
    <3>1. Kept
      BY <2>3, IdleKeeps DEF SpaceInv
    <3> QED BY <1>2, <2>3, <3>1
  <2> QED BY <1>6, <2>1, <2>2, <2>3 DEF fat16_open
<1>7. CASE path_parser_free \/ fclose
  <2>1. \E name : give_back(name)
    BY <1>7 DEF path_parser_free, fclose
  <2> QED BY <2>1, GiveFacts
<1> QED BY <1>4, <1>5, <1>6, <1>7 DEF FileCall

LEMMA FilePreserves == ASSUME SpaceInv, FileCall, UNCHANGED command PROVE SpaceInv'
<1>1. UNCHANGED <<pc, program, directory_entry, table, user, image, mapped, user_stack,
                  kstack, commands>>
  BY DEF command, space, task
<1>2. FileStep
  BY FileFacts
<1>3. \A q \in Taken : q \in DOMAIN held => q \in DOMAIN held' /\ held'[q] = held[q]
  BY <1>2 DEF SpaceInv, OwnApart, FileStep
<1>4. Types' /\ Progress'
  BY <1>1 DEF SpaceInv, Types, Progress
<1>5. placement_address \in Nat
  BY DEF SpaceInv, Inv, TypeOK
<1>6. Tables'
  <2>1. ASSUME NEW i \in DOMAIN table
        PROVE  /\ i < ENTRIES \/ i * (ENTRIES * PAGE) < placement_address'
               /\ table[i] \in DOMAIN held'
    <3> DEFINE z == i * (ENTRIES * PAGE)
    <3>1. z \in Nat /\ (i < ENTRIES \/ z < placement_address) /\ table[i] \in DOMAIN held
      BY DEF SpaceInv, Tables, ENTRIES, PAGE
    <3> HIDE DEF z
    <3>2. i < ENTRIES \/ z < placement_address'
      BY <1>2, <1>5, <3>1 DEF FileStep
    <3>3. table[i] \in DOMAIN held'
      BY <1>3, <3>1 DEF Taken
    <3> QED BY <3>2, <3>3 DEF z
  <2>2. directory_entry \in DOMAIN held' \cup {NULL}
    BY <1>3 DEF SpaceInv, Tables, Taken
  <2> QED BY <1>1, <2>1, <2>2 DEF SpaceInv, Tables
<1>7. Stacks'
  BY <1>1, <1>3 DEF SpaceInv, Stacks, Taken
<1>8. ASSUME NEW i \in 1..Len(image), image[i] \in DOMAIN held
      PROVE  image[i] \in DOMAIN held' /\ held'[image[i]] = held[image[i]]
  BY <1>3, <1>8 DEF Taken
<1>9. Images'
  BY <1>1, <1>8 DEF SpaceInv, Images
<1>10. UserOwned'
  <2> SUFFICES ASSUME NEW v \in DOMAIN user, user[v] # VGA
               PROVE  \/ \E i \in 1..Len(image) : /\ pc = "read" => i < Len(image)
                                                  /\ image[i] \in DOMAIN held'
                                                  /\ Meets(image[i], user[v])'
                      \/ pc \in {"map_stack", "user"} /\ Meets(user_stack, user[v])'
    BY <1>1 DEF UserOwned
  <2>1. CASE pc \in {"map_stack", "user"} /\ Meets(user_stack, user[v])
    <3>1. held'[user_stack] = held[user_stack]
      BY <1>3, <2>1 DEF SpaceInv, Stacks, Taken
    <3> QED BY <1>1, <2>1, <3>1 DEF Meets
  <2>2. ASSUME NEW i \in 1..Len(image), pc = "read" => i < Len(image),
               image[i] \in DOMAIN held, Meets(image[i], user[v])
        PROVE  image[i] \in DOMAIN held' /\ Meets(image[i], user[v])'
    BY <1>1, <1>8, <2>2 DEF Meets
  <2> QED BY <2>1, <2>2 DEF SpaceInv, UserOwned
<1> QED BY <1>2, <1>4, <1>6, <1>7, <1>9, <1>10 DEF SpaceInv, FileStep

LEMMA StutterPreserves == ASSUME SpaceInv, UNCHANGED all PROVE SpaceInv'
<1>1. UNCHANGED <<heap, own, pc, program, space, image, mapped, task, commands>>
  BY DEF all, command, files
<1>2. UNCHANGED <<directory_entry, table, user, user_stack, kstack, placement_address, held>>
  BY <1>1 DEF heap, vars, space, task
<1>3. Kept
  BY <1>1, IdleKeeps DEF SpaceInv
<1>4. Types' /\ Progress'
  BY <1>1, <1>2 DEF SpaceInv, Types, Progress
<1>5. Tables' /\ Stacks'
  BY <1>1, <1>2 DEF SpaceInv, Tables, Stacks
<1>6. Images' /\ UserOwned'
  BY <1>1, <1>2 DEF SpaceInv, Images, UserOwned, Meets
<1>7. OwnApart'
  BY <1>1, <1>2 DEF SpaceInv, OwnApart, Taken
<1> QED BY <1>3, <1>4, <1>5, <1>6, <1>7 DEF SpaceInv, Kept

LEMMA SpaceNextPreserves == SpaceInv /\ [SpaceNext]_all => SpaceInv'
<1> SUFFICES ASSUME SpaceInv, [SpaceNext]_all PROVE SpaceInv'
  OBVIOUS
<1> QED BY BootPreserves, RunPreserves, ListPreserves, LoadPreserves, ProcessPreserves,
           RawImagePreserves, PagingPreserves, SegmentPreserves, ReadPreserves,
           MapPreserves, MapDonePreserves, TaskNewPreserves, MapStackPreserves,
           FilePreserves, StutterPreserves DEF SpaceNext

LEMMA SpaceInitEstablishes == SpaceInit => SpaceInv
<1> SUFFICES ASSUME SpaceInit PROVE SpaceInv
  OBVIOUS
<1>1. Inv
  BY InitEstablishes DEF SpaceInit
<1>2. image \in Seq(Nat) /\ Len(image) = 0 /\ pc = "boot"
  BY EmptySeq DEF SpaceInit
<1>3. DOMAIN table = {} /\ DOMAIN user = {} /\ DOMAIN own = {}
  BY DEF SpaceInit, FilesInit
<1>4. Types
  BY <1>2, <1>3, ProgramsAssumption DEF SpaceInit, Types
<1>5. Tables
  BY <1>3, FS_EmptySet DEF SpaceInit, Tables
<1>6. Stacks /\ Progress /\ OwnApart /\ UserOwned
  BY <1>2, <1>3 DEF SpaceInit, Stacks, Progress, OwnApart, UserOwned
<1>7. Len(Segments[program]) \in Nat
  BY ProgramsAssumption, LenProperties DEF SpaceInit
<1>8. Images
  BY <1>2, <1>7 DEF Images
<1> QED BY <1>1, <1>4, <1>5, <1>6, <1>8 DEF SpaceInv

(* The invariant holds in every reachable state.                             *)
LEMMA SpaceInvariance == SpaceSpec => []SpaceInv
BY SpaceInitEstablishes, SpaceNextPreserves, PTL DEF SpaceSpec

-----------------------------------------------------------------------------
(* What follows from the invariant.                                          *)

(* The heap under the requests of the run commands, whatever their sizes and *)
(* whichever loads fail: a block reaches into the one above it by less than  *)
(* a header, and only where that one was placed for a page.                  *)
THEOREM SpaceOverlapIsBounded == SpaceSpec => []OverlapBounded
BY SpaceInvariance, PTL DEF SpaceInv, Inv

(* The list find_free_block walks stays in address order.                    *)
THEOREM SpaceListIsIncreasing == SpaceSpec => []ChainIncreasing
BY SpaceInvariance, PTL DEF SpaceInv, Inv, ChainIncreasing

LEMMA CopyIsIntact == SpaceInv => ImageIntact
<1> SUFFICES ASSUME SpaceInv, pc = "user", NEW i \in 1..Len(image),
                    ~Snug(Segments[program][i].memsz), NEW b \in DOMAIN block,
                    b # image[i] - HEADER
             PROVE  \/ BlockEnd(b) <= image[i]
                    \/ image[i] + Segments[program][i].memsz <= b
  BY DEF ImageIntact
<1> DEFINE q == image[i]
           size == Segments[program][i].memsz
           a == q - HEADER
<1>1. Len(image) <= Len(Segments[program]) /\ Len(image) \in Nat /\ Len(Segments[program]) \in Nat
  BY ProgramsAssumption, LenProperties DEF SpaceInv, Types, Images
<1>2. size \in Nat /\ size % PAGE <= PAGE - HEADER
  <2>1. i \in 1..Len(Segments[program])
    BY <1>1
  <2>2. size \in Nat
    BY <2>1, SegmentFacts
  <2> QED BY <2>2 DEF Snug, PAGE, HEADER
<1>3. q \in DOMAIN held /\ held[q] = [size |-> size, align |-> TRUE]
  BY DEF SpaceInv, Images
<1>4. /\ a \in DOMAIN block /\ q \in Nat
      /\ held[q].size <= block[a].size
      /\ held[q].align => PageAligned(q)
  BY <1>3 DEF SpaceInv, Inv, Owned, TypeOK
<1>5. size <= block[a].size /\ PageAligned(q)
  <2>1. held[q].size = size /\ held[q].align = TRUE
    BY <1>3
  <2> QED BY <1>4, <2>1
<1>6. a \in Nat /\ b \in Nat /\ block[a].size \in Nat /\ block[b].size \in Nat
  BY <1>4 DEF SpaceInv, Inv, TypeOK, Header
<1> HIDE DEF size
<1>7. CASE b < a
  <2>1. BlockEnd(b) < a + HEADER
    BY <1>4, <1>7 DEF SpaceInv, Inv, OverlapBounded
  <2> QED BY <1>4, <1>6, <2>1 DEF BlockEnd, HEADER
<1>8. CASE a < b
  <2>1. /\ BlockEnd(a) < b + HEADER
        /\ ~PageAligned(b + HEADER) => BlockEnd(a) <= b
    BY <1>4, <1>8 DEF SpaceInv, Inv, OverlapBounded
  <2>2. BlockEnd(a) = q + block[a].size
    BY <1>4, <1>6 DEF BlockEnd, HEADER
  <2>3. CASE ~PageAligned(b + HEADER)
    <3>1. q + size <= b
      BY <1>2, <1>4, <1>5, <1>6, <2>1, <2>2, <2>3
    <3> QED BY <3>1 DEF size
  <2>4. CASE PageAligned(b + HEADER)
    <3> DEFINE k == q \div 4096
               m == size \div 4096
               r == size % 4096
               n == (b + 16) \div 4096
    <3>1. q + size < b + 16
      BY <1>2, <1>4, <1>5, <1>6, <2>1, <2>2 DEF HEADER
    <3>2. q % 4096 = 0 /\ (b + 16) % 4096 = 0 /\ r <= 4080
      BY <1>2, <1>5, <2>4 DEF PageAligned, PAGE, HEADER
    <3>7. ASSUME NEW x \in Nat
          PROVE  /\ x \div 4096 \in Nat /\ x % 4096 \in Nat
                 /\ x = 4096 * (x \div 4096) + (x % 4096)
      OBVIOUS
    <3>8. q \in Nat /\ size \in Nat /\ b + 16 \in Nat
      BY <1>2, <1>4, <1>6
    <3> DEFINE e == b + 16
    <3>10. e \in Nat
      BY <3>8
    <3>4. k \in Nat /\ m \in Nat /\ r \in Nat /\ n \in Nat
      <4> HIDE DEF q, e
      <4>1. k \in Nat
        BY <3>7, <3>8
      <4>2. m \in Nat /\ r \in Nat
        BY <3>7, <3>8
      <4>3. e \div 4096 \in Nat
        BY <3>7, <3>10
      <4> QED BY <4>1, <4>2, <4>3 DEF e
    <3>9. /\ q = 4096 * k + (q % 4096) /\ size = 4096 * m + r
          /\ b + 16 = 4096 * n + ((b + 16) % 4096)
      <4> HIDE DEF q, e
      <4>1. q = 4096 * k + (q % 4096)
        BY <3>7, <3>8
      <4>2. size = 4096 * m + r
        BY <3>7, <3>8
      <4>3. e = 4096 * (e \div 4096) + (e % 4096)
        BY <3>7, <3>10
      <4> QED BY <4>1, <4>2, <4>3 DEF e
    <3>3. q = 4096 * k /\ size = 4096 * m + r /\ b + 16 = 4096 * n
      <4> HIDE DEF k, m, r, n
      <4> QED BY <3>2, <3>4, <3>9
    <3> HIDE DEF k, m, r, n
    <3>5. k + m < n
      BY <3>1, <3>3, <3>4
    <3>6. q + size <= b
      BY <1>6, <3>2, <3>3, <3>4, <3>5
    <3> QED BY <3>6 DEF size
  <2> QED BY <2>3, <2>4
<1> HIDE DEF q, a
<1>9. b # a
  BY DEF a, q
<1> QED BY <1>6, <1>7, <1>8, <1>9 DEF q, size

(* No block that the kernel allocates while it starts a program, nor its     *)
(* header, overwrites the copy of the program, unless the copy ends less     *)
(* than a header below the end of a page.                                    *)
THEOREM ProgramIsIntact == SpaceSpec => []ImageIntact
BY SpaceInvariance, CopyIsIntact, PTL

LEMMA TablesAreApart == SpaceInv /\ placement_address <= VGA * PAGE => TablesPrivate
<1> SUFFICES ASSUME SpaceInv, placement_address <= VGA * PAGE,
                    NEW p \in DOMAIN held, held[p] = [size |-> PAGE, align |-> TRUE],
                    \A i \in DOMAIN image : image[i] # p,
                    NEW v \in DOMAIN user, user[v] = p \div PAGE
             PROVE  FALSE
  BY DEF TablesPrivate
<1>1. HeldApart
  BY HeldIsApart DEF SpaceInv
<1>2. held[p].size = PAGE /\ held[p].align = TRUE
  BY DEF PAGE
<1>3. /\ p \in Nat /\ p % 4096 = 0 /\ p + 4096 <= placement_address
      /\ placement_address \in Nat
  BY <1>1, <1>2 DEF HeldApart, PageAligned, PAGE, SpaceInv, Inv, TypeOK
<1>4. user[v] * 4096 = p /\ user[v] \in Nat
  BY <1>3 DEF PAGE
<1>5. user[v] # VGA
  BY <1>3, <1>4 DEF VGA, PAGE
<1>6. ASSUME NEW q \in DOMAIN held, q # p, Meets(q, user[v]) PROVE FALSE
  <2>1. /\ q \in Nat /\ held[q].size \in Nat
        /\ p < q => p + 4096 <= q
        /\ q < p => q + held[q].size <= p
    BY <1>1, <1>2 DEF HeldApart, PAGE
  <2>2. p < q + held[q].size /\ q < p + 4096
    BY <1>4, <1>6 DEF Meets, PAGE
  <2> QED BY <1>3, <1>6, <2>1, <2>2
<1>7. ASSUME NEW i \in 1..Len(image), image[i] \in DOMAIN held, Meets(image[i], user[v])
      PROVE  FALSE
  <2>1. i \in DOMAIN image
    BY DEF SpaceInv, Types
  <2> QED BY <1>6, <1>7, <2>1
<1>8. ASSUME pc \in {"map_stack", "user"}, Meets(user_stack, user[v]) PROVE FALSE
  <2>1. user_stack \in DOMAIN held /\ held[user_stack] = [size |-> STACK, align |-> FALSE]
    BY <1>8 DEF SpaceInv, Stacks
  <2>2. held[user_stack].size = STACK
    BY <2>1
  <2>3. user_stack # p
    BY <1>2, <2>2 DEF STACK, PAGE
  <2> QED BY <1>6, <1>8, <2>1, <2>3
<1> QED BY <1>5, <1>7, <1>8 DEF SpaceInv, UserOwned

(* As long as the heap has not grown into the memory of the screen, no page  *)
(* that a program may use holds a page directory or a page table: not one of *)
(* its own, nor one that an earlier command left on the heap.                *)
THEOREM TablesArePrivate ==
    SpaceSpec => [](placement_address <= VGA * PAGE => TablesPrivate)
BY SpaceInvariance, TablesAreApart, PTL

-----------------------------------------------------------------------------
(* What a started program finds at the addresses of its segments.            *)

FirstPage(i) == Segments[program][i].vaddr \div PAGE

\* The first n pages of segment i are those of its copy, but for the pages the
\* stack is mapped over.
HasFrames(i, n) ==
    \A k \in 0..(n - 1) :
      \/ pc \in {"map_stack", "user"} /\ FirstPage(i) + k \in StackPages
      \/ /\ FirstPage(i) + k \in DOMAIN user
         /\ user[FirstPage(i) + k] = (image[i] \div PAGE) + k

\* The segments before the last one have all their pages, and the last one those
\* mapped so far.
Mapped ==
    /\ pc \in {"segment", "read", "map", "task", "user_stack", "kstack", "map_stack", "user"} =>
         \A i \in 1..Len(image) :
           ((pc \in {"read", "map"} => i < Len(image)) /\ Aligned(Segments[program][i]))
             => HasFrames(i, Pages(Segments[program][i]))
    /\ pc = "map" /\ Aligned(Segment) =>
         HasFrames(Len(image), mapped) /\ mapped <= Pages(Segment)

MappedInv == SpaceInv /\ Mapped

(* Where a step leaves the copy and what the program may use.                *)
LEMMA FramesKept ==
    ASSUME NEW i, NEW n, HasFrames(i, n),
           UNCHANGED <<program, user, user_stack>>, image'[i] = image[i],
           pc \in {"map_stack", "user"} => pc' \in {"map_stack", "user"}
    PROVE  HasFrames(i, n)'
BY DEF HasFrames, FirstPage, StackPages

LEMMA MapKeepsFrames ==
    ASSUME SegmentsApart, MappedInv, map PROVE Mapped'
<1> DEFINE n == Len(image)
           v == FirstPage(n) + mapped
           f == (image[n] \div PAGE) + mapped
<1>1. /\ pc = "map" /\ mapped < Pages(Segment) /\ Aligned(Segment)
      /\ user' = Put(user, v, f) /\ mapped' = mapped + 1
      /\ UNCHANGED <<pc, program, image, task, commands>>
  BY DEF map, paging_set, FirstPage, Segment
<1>2. n \in Nat /\ n >= 1 /\ n <= Len(Segments[program]) /\ mapped \in Nat
      /\ Len(Segments[program]) \in Nat /\ program \in Programs
  BY <1>1, ProgramsAssumption, LenProperties
     DEF MappedInv, SpaceInv, Types, Progress, Images
<1>3. ASSUME NEW i \in 1..Len(Segments[program])
      PROVE  FirstPage(i) \in Nat /\ Pages(Segments[program][i]) \in Nat
  <2>1. Segments[program][i].vaddr \in Nat /\ Segments[program][i].memsz \in Nat
    BY SegmentFacts DEF MappedInv
  <2> QED BY <2>1 DEF FirstPage, Pages, PAGE
<1>4. v \in DOMAIN user' /\ user'[v] = f
  BY <1>1 DEF Put
<1>5. \A w \in DOMAIN user : w # v => w \in DOMAIN user' /\ user'[w] = user[w]
  BY <1>1 DEF Put
<1>6. Segment = Segments[program][n]
  BY DEF Segment
<1>7. Pages(Segment) \in Nat
  BY <1>2, <1>3, <1>6
<1>8. \A i \in 1..n : i < n /\ Aligned(Segments[program][i]) =>
        HasFrames(i, Pages(Segments[program][i]))
  BY <1>1 DEF MappedInv, Mapped
<1>9. HasFrames(n, mapped)
  BY <1>1 DEF MappedInv, Mapped
<1>10. ASSUME NEW i \in 1..n, i < n, Aligned(Segments[program][i])
       PROVE  HasFrames(i, Pages(Segments[program][i]))'
  <2> SUFFICES ASSUME NEW k \in 0..(Pages(Segments[program][i]) - 1)
               PROVE  /\ FirstPage(i) + k \in DOMAIN user'
                      /\ user'[FirstPage(i) + k] = (image[i] \div PAGE) + k
    BY <1>1 DEF HasFrames, FirstPage
  <2>1. /\ FirstPage(i) + k \in DOMAIN user
        /\ user[FirstPage(i) + k] = (image[i] \div PAGE) + k
    BY <1>1, <1>8, <1>10 DEF HasFrames
  <2>2. FirstPage(i) + k # FirstPage(n) + mapped
    <3>1. /\ i \in 1..Len(Segments[program]) /\ n \in 1..Len(Segments[program])
          /\ mapped \in 0..(Pages(Segments[program][n]) - 1)
      BY <1>1, <1>2, <1>6, <1>7
    <3>2. Aligned(Segments[program][n])
      BY <1>1, <1>6
    <3>3. i # n
      BY <1>2, <1>10
    <3> QED BY <1>2, <1>10, <3>1, <3>2, <3>3 DEF SegmentsApart, FirstPage
  <2> QED BY <1>5, <2>1, <2>2
<1>11. HasFrames(n, mapped)'
  <2> SUFFICES ASSUME NEW k \in 0..mapped
               PROVE  /\ FirstPage(n) + k \in DOMAIN user'
                      /\ user'[FirstPage(n) + k] = (image[n] \div PAGE) + k
    <3>1. mapped' - 1 = mapped
      BY <1>1, <1>2
    <3> QED BY <1>1, <3>1 DEF HasFrames, FirstPage
  <2>1. CASE k = mapped
    BY <1>4, <2>1
  <2>2. CASE k < mapped
    <3>1. k \in 0..(mapped - 1)
      BY <1>2, <2>2
    <3>2. /\ FirstPage(n) + k \in DOMAIN user
          /\ user[FirstPage(n) + k] = (image[n] \div PAGE) + k
      BY <1>1, <1>9, <3>1 DEF HasFrames
    <3>3. FirstPage(n) \in Nat
      BY <1>2, <1>3
    <3>4. FirstPage(n) + k # FirstPage(n) + mapped
      BY <1>2, <2>2, <3>3
    <3> QED BY <1>5, <3>2, <3>4
  <2> QED BY <1>2, <2>1, <2>2
<1>12. mapped' <= Pages(Segment)' /\ mapped' = mapped + 1
  BY <1>1, <1>2, <1>7 DEF Segment
<1> HIDE DEF v, f
<1>13. /\ pc' = "map" /\ Len(image') = n
       /\ \A i \in 1..n : Segments[program'][i] = Segments[program][i]
  BY <1>1
<1> QED BY <1>1, <1>10, <1>11, <1>12, <1>13 DEF Mapped

LEMMA StackKeepsFrames == ASSUME MappedInv, task_map_stack PROVE Mapped'
<1> DEFINE p == (user_stack \div PAGE) + mapped
<1>1. /\ pc = "map_stack" /\ pc' \in {"map_stack", "user"}
      /\ user' = Put(user, p, p)
      /\ UNCHANGED <<program, image, user_stack, kstack>>
  BY DEF task_map_stack, paging_set, task
<1>2. p \in StackPages
  <2>1. mapped \in Nat /\ mapped * 4096 < 16384
    BY <1>1 DEF MappedInv, SpaceInv, Types, PAGE, STACK
  <2>2. mapped \in 0..3
    BY <2>1
  <2>3. (STACK \div PAGE) - 1 = 3
    BY DEF STACK, PAGE
  <2> QED BY <2>2, <2>3 DEF StackPages
<1>3. \A w \in DOMAIN user : w # p => w \in DOMAIN user' /\ user'[w] = user[w]
  BY <1>1 DEF Put
<1> HIDE DEF p
<1>4. ASSUME NEW i \in 1..Len(image), Aligned(Segments[program][i])
      PROVE  HasFrames(i, Pages(Segments[program][i]))'
  <2>1. HasFrames(i, Pages(Segments[program][i]))
    BY <1>1, <1>4 DEF MappedInv, Mapped
  <2> SUFFICES ASSUME NEW k \in 0..(Pages(Segments[program][i]) - 1),
                      FirstPage(i) + k \notin StackPages
               PROVE  /\ FirstPage(i) + k \in DOMAIN user'
                      /\ user'[FirstPage(i) + k] = (image[i] \div PAGE) + k
    BY <1>1 DEF HasFrames, FirstPage, StackPages
  <2>2. /\ FirstPage(i) + k \in DOMAIN user
        /\ user[FirstPage(i) + k] = (image[i] \div PAGE) + k
    BY <2>1 DEF HasFrames
  <2> QED BY <1>2, <1>3, <2>2
<1> QED BY <1>1, <1>4 DEF Mapped

LEMMA SegmentKeepsFrames == ASSUME MappedInv, elf_segment PROVE Mapped'
<1>1. /\ pc = "segment" /\ pc' \in {"prompt", "read", "task"}
      /\ UNCHANGED <<program, user, user_stack, kstack>>
      /\ \/ UNCHANGED image /\ pc' # "read"
         \/ pc' = "read" /\ \E q \in Given : image' = Append(image, q)
  BY DEF elf_segment, Fail, space, task
<1>2. Len(image) \in Nat /\ image \in Seq(Nat)
  BY LenProperties DEF MappedInv, SpaceInv, Types
<1>3. ASSUME NEW i \in 1..Len(image), Aligned(Segments[program][i]), image'[i] = image[i]
      PROVE  HasFrames(i, Pages(Segments[program][i]))'
  <2> DEFINE n == Pages(Segments[program][i])
  <2>1. HasFrames(i, n)
    BY <1>1, <1>3 DEF MappedInv, Mapped
  <2>2. n' = n
    BY <1>1
  <2> QED BY <1>1, <1>3, <2>1, <2>2 DEF HasFrames, FirstPage
<1>4. CASE UNCHANGED image /\ pc' # "read"
  BY <1>1, <1>3, <1>4 DEF Mapped
<1>5. ASSUME pc' = "read", NEW q \in Given, image' = Append(image, q) PROVE Mapped'
  <2>1. /\ Len(image') = Len(image) + 1
        /\ \A i \in 1..Len(image) : image'[i] = image[i]
    BY <1>2, <1>5
  <2>2. ASSUME NEW i \in 1..Len(image'), i < Len(image'), Aligned(Segments[program][i])
        PROVE  HasFrames(i, Pages(Segments[program][i]))'
    <3>1. i \in 1..Len(image)
      BY <1>2, <2>1, <2>2
    <3> QED BY <1>3, <2>1, <2>2, <3>1
  <2> QED BY <1>1, <1>5, <2>2 DEF Mapped
<1> QED BY <1>1, <1>4, <1>5

LEMMA FramesStay ==
    ASSUME NEW i, HasFrames(i, Pages(Segments[program][i])),
           UNCHANGED <<program, user, image>>, pc \notin {"map_stack", "user"}
    PROVE  HasFrames(i, Pages(Segments[program][i]))'
BY DEF HasFrames, FirstPage

LEMMA OthersKeepFrames ==
    ASSUME MappedInv, SpaceInv',
           \/ boot \/ ls_handler \/ \E p \in Programs : run_handler(p)
           \/ process_load \/ elf_load \/ process_alloc \/ raw_image \/ paging
           \/ elf_read \/ map_done \/ task_new
    PROVE  Mapped'
<1>1. ASSUME pc' \in {"boot", "prompt", "magic", "elf", "header", "process", "raw",
                      "raw_read", "paging"}
      PROVE  Mapped'
  BY <1>1 DEF Mapped
<1>2. CASE \/ boot \/ ls_handler \/ (\E p \in Programs : run_handler(p))
           \/ process_load \/ elf_load \/ process_alloc \/ raw_image
  <2>1. pc' \in {"boot", "prompt", "magic", "elf", "header", "process", "raw", "raw_read",
                 "paging"}
    BY <1>2 DEF boot, ls_handler, run_handler, process_load, elf_load, process_alloc,
                raw_image, Fail, paging_new_4gb
  <2> QED BY <1>1, <2>1
<1>3. Len(image) \in Nat
  BY LenProperties DEF MappedInv, SpaceInv, Types
\* A segment is about to be mapped.
<1>4. ASSUME pc' = "map", mapped' = 0,
             UNCHANGED <<program, image>>,
             \A i \in 1..Len(image) : i < Len(image) /\ Aligned(Segments[program][i])
               => HasFrames(i, Pages(Segments[program][i]))'
      PROVE  Mapped'
  <2>1. Len(image) >= 1 /\ Len(image) <= Len(Segments[program])
    BY <1>4 DEF SpaceInv, Progress, Images
  <2>2. Len(image) \in 1..Len(Segments[program])
    BY <1>3, <2>1, ProgramsAssumption, LenProperties DEF MappedInv, SpaceInv, Types
  <2>3. Segment.memsz \in Nat
    BY <2>2, SegmentFacts DEF MappedInv, Segment
  <2>4. 0 <= Pages(Segment)
    BY <2>3 DEF Pages, PAGE
  <2>5. mapped' <= Pages(Segment)'
    BY <1>4, <2>4 DEF Segment
  <2>6. HasFrames(Len(image), mapped)'
    BY <1>4 DEF HasFrames
  <2> QED BY <1>4, <2>5, <2>6 DEF Mapped
<1>5. CASE paging
  <2>1. /\ pc = "paging" /\ UNCHANGED <<program, image, mapped>>
        /\ pc' \in {"paging", "segment", "map"}
        /\ pc' = "segment" => IsElf[program]
        /\ pc' = "map" => ~IsElf[program]
    BY <1>5 DEF paging, paging_new_4gb
  <2>2. mapped = 0 /\ Len(image) = IF IsElf[program] THEN 0 ELSE 1
    BY <2>1 DEF MappedInv, SpaceInv, Types, Progress
  <2>3. CASE pc' = "paging"
    BY <1>1, <2>3
  <2>4. CASE pc' = "segment"
    BY <2>1, <2>2, <2>4 DEF Mapped
  <2>5. CASE pc' = "map"
    BY <1>4, <2>1, <2>2, <2>5
  <2> QED BY <2>1, <2>3, <2>4, <2>5
<1>6. CASE elf_read
  <2>1. /\ pc = "read" /\ UNCHANGED <<program, user, mapped>>
        /\ \/ pc' = "prompt"
           \/ pc' = "map" /\ UNCHANGED image
    BY <1>6 DEF elf_read, Fail, space
  <2>2. mapped = 0
    BY <2>1 DEF MappedInv, SpaceInv, Types
  <2>3. \A i \in 1..Len(image) : i < Len(image) /\ Aligned(Segments[program][i])
          => HasFrames(i, Pages(Segments[program][i]))
    BY <2>1 DEF MappedInv, Mapped
  <2>4. ASSUME UNCHANGED image
        PROVE  \A i \in 1..Len(image) : i < Len(image) /\ Aligned(Segments[program][i])
                 => HasFrames(i, Pages(Segments[program][i]))'
    BY <2>1, <2>3, <2>4, FramesStay
  <2> QED BY <1>1, <1>4, <2>1, <2>2, <2>4
<1>7. CASE map_done
  <2>1. /\ pc = "map" /\ pc' \in {"segment", "task"}
        /\ ~Aligned(Segment) \/ mapped = Pages(Segment)
        /\ UNCHANGED <<program, user, image>>
    BY <1>7 DEF map_done, space
  <2>2. /\ \A i \in 1..Len(image) : i < Len(image) /\ Aligned(Segments[program][i])
             => HasFrames(i, Pages(Segments[program][i]))
        /\ Aligned(Segment) => HasFrames(Len(image), mapped)
    BY <2>1 DEF MappedInv, Mapped
  <2>3. ASSUME NEW i \in 1..Len(image), Aligned(Segments[program][i])
        PROVE  HasFrames(i, Pages(Segments[program][i]))'
    <3>1. CASE i = Len(image)
      BY <2>1, <2>2, <2>3, <3>1, FramesStay DEF Segment
    <3>2. CASE i < Len(image)
      BY <2>1, <2>2, <2>3, <3>2, FramesStay
    <3> QED BY <1>3, <3>1, <3>2
  <2> QED BY <2>1, <2>3 DEF Mapped
<1>8. CASE task_new
  <2>1. /\ pc \in {"task", "user_stack", "kstack"}
        /\ pc' \in {"user_stack", "kstack", "map_stack"}
        /\ UNCHANGED <<program, user, image>>
    BY <1>8 DEF task_new, space
  <2>2. \A i \in 1..Len(image) : Aligned(Segments[program][i])
          => HasFrames(i, Pages(Segments[program][i]))'
    BY <2>1, FramesStay DEF MappedInv, Mapped
  <2> QED BY <2>1, <2>2 DEF Mapped
<1> QED BY <1>2, <1>5, <1>6, <1>7, <1>8

LEMMA MappedNext ==
    ASSUME SegmentsApart PROVE MappedInv /\ [SpaceNext]_all => MappedInv'
<1> SUFFICES ASSUME MappedInv, [SpaceNext]_all PROVE MappedInv'
  OBVIOUS
<1>1. SpaceInv'
  BY SpaceNextPreserves DEF MappedInv
<1>2. CASE UNCHANGED command \/ UNCHANGED all
  <2>1. UNCHANGED <<pc, program, user, image, mapped, user_stack>>
    BY <1>2 DEF all, command, space, task
  <2>2. Mapped'
    BY <2>1 DEF MappedInv, Mapped, HasFrames, FirstPage, StackPages, Segment
  <2> QED BY <1>1, <2>2 DEF MappedInv
<1>3. CASE SpaceNext
  BY <1>1, <1>2, <1>3, MapKeepsFrames, StackKeepsFrames, SegmentKeepsFrames,
     OthersKeepFrames
     DEF SpaceNext, MappedInv
<1> QED BY <1>2, <1>3

(* A started program finds each of its page-aligned segments at its address, *)
(* in the frames it was copied to - whatever loads failed before - but for   *)
(* pages that its stack covers.  Segments must not share a page: the later   *)
(* one would win.                                                            *)
THEOREM ProgramIsMapped == ASSUME SegmentsApart PROVE SpaceSpec => []ImageMapped
<1>1. SpaceInit => MappedInv
  BY SpaceInitEstablishes DEF SpaceInit, MappedInv, Mapped
<1>2. MappedInv /\ [SpaceNext]_all => MappedInv'
  BY MappedNext
<1>3. MappedInv => ImageMapped
  <2> SUFFICES ASSUME MappedInv, pc = "user", NEW i \in 1..Len(Segments[program]),
                      Aligned(Segments[program][i]),
                      NEW k \in 0..(Pages(Segments[program][i]) - 1),
                      FirstPage(i) + k \notin StackPages
               PROVE  /\ FirstPage(i) + k \in DOMAIN user
                      /\ user[FirstPage(i) + k] * PAGE = image[i] + k * PAGE
    BY DEF ImageMapped, FirstPage
  <2>1. i \in 1..Len(image)
    BY DEF MappedInv, SpaceInv, Progress
  <2>2. /\ FirstPage(i) + k \in DOMAIN user
        /\ user[FirstPage(i) + k] = (image[i] \div PAGE) + k
    BY <2>1 DEF MappedInv, Mapped, HasFrames
  <2>3. image[i] \in DOMAIN held /\ held[image[i]].align = TRUE
    <3>1. /\ image[i] \in DOMAIN held
          /\ held[image[i]] = [size |-> Segments[program][i].memsz, align |-> TRUE]
      BY <2>1 DEF MappedInv, SpaceInv, Images
    <3> QED BY <3>1
  <2>4. image[i] \in Nat /\ image[i] % 4096 = 0
    BY <2>3, HeldIsApart DEF HeldApart, MappedInv, SpaceInv, PageAligned, PAGE
  <2>5. k \in Nat
    OBVIOUS
  <2>6. ((image[i] \div 4096) + k) * 4096 = image[i] + k * 4096
    BY <2>4, <2>5
  <2> QED BY <2>2, <2>6 DEF PAGE
<1> QED BY <1>1, <1>2, <1>3, PTL DEF SpaceSpec

-----------------------------------------------------------------------------
(* The types of the address space: what a command may use or give back is in *)
(* use, whichever loads failed before.  A directory has an entry for each    *)
(* table, provided the heap is within the 4 GB that addresses reach.         *)
THEOREM SpaceTypeCorrect ==
    SpaceSpec => [](placement_address <= ENTRIES * ENTRIES * PAGE => SpaceTypeOK)
<1>1. SpaceInv /\ placement_address <= ENTRIES * ENTRIES * PAGE => SpaceTypeOK
  <2> SUFFICES ASSUME SpaceInv, placement_address <= ENTRIES * ENTRIES * PAGE
               PROVE  SpaceTypeOK
    OBVIOUS
  <2>1. TypeOK /\ placement_address \in Nat
    BY DEF SpaceInv, Inv, TypeOK
  <2>2. ASSUME NEW i \in DOMAIN table
        PROVE  i \in 0..(ENTRIES - 1) /\ table[i] \in Pointer
    <3>1. /\ i \in Nat /\ table[i] \in DOMAIN held
          /\ i < 1024 \/ i * 4194304 < placement_address
      BY DEF SpaceInv, Tables, ENTRIES, PAGE
    <3>2. placement_address <= 1024 * 4194304
      BY <2>1 DEF ENTRIES, PAGE
    <3>3. i < 1024
      BY <2>1, <3>1, <3>2
    <3> QED BY <3>1, <3>3 DEF ENTRIES, Pointer
  <2>3. {user_stack, kstack} \subseteq Pointer \cup {NULL}
    BY DEF SpaceInv, Stacks, Pointer
  <2>4. directory_entry \in Pointer \cup {NULL}
    BY DEF SpaceInv, Tables, Pointer
  <2>5. image \in Seq(Pointer)
    <3>1. image \in Seq(Nat) /\ \A i \in 1..Len(image) : image[i] \in Pointer
      BY DEF SpaceInv, Types, Images, Pointer
    <3>2. image \in [1..Len(image) -> Pointer] /\ Len(image) \in Nat
      BY <3>1, LenProperties
    <3> QED BY <3>2, SeqDef
  <2>6. \A name \in DOMAIN own : own[name] \in Pointer
    BY DEF SpaceInv, OwnApart, Pointer
  <2> QED BY <2>1, <2>2, <2>3, <2>4, <2>5, <2>6 DEF SpaceTypeOK, SpaceInv, Types
<1> QED BY <1>1, SpaceInvariance, PTL
=============================================================================
