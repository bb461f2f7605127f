---------------------------- MODULE LoaderProofs ----------------------------
(***************************************************************************)
(* Proofs about Loader for every size of the descriptor table and every set *)
(* of program files.                                                        *)
(***************************************************************************)
EXTENDS Loader, SequenceTheorems, FiniteSetTheorems, TLAPS

Holding == {"probe_read", "raw_read", "elf_header", "elf_segment"}
Between == {"probe_open", "raw_open", "elf_open", "start", "user"}

(* The descriptor table at each step of a command: the descriptors of before *)
(* it, and the one in use.                                                   *)
Table ==
    /\ pc \in Holding => /\ fd \in Slots \ before
                         /\ file_descriptors[fd] = file
                         /\ Open = before \cup {fd}
                         /\ fat_descriptors > 0
    /\ pc \in Between => Open = before
    /\ pc = "prompt" => \/ Open = before
                        \/ ~IsElf[file] /\ fd \notin before /\ Open = before \cup {fd}

Complete(p) ==
    /\ p.paging_chunk /\ p.ptr
    /\ IF IsElf[file]
         THEN \A i \in 1..Len(Segments[file]) : Segments[file][i] => i \in p.mapped
         ELSE p.mapped = {1}

(* The process under construction is the last of the list; what it has got   *)
(* so far.                                                                   *)
Building ==
    /\ pc \in {"raw_open", "raw_read"} => ~IsElf[file]
    /\ pc \in {"elf_open", "elf_header", "elf_segment"} => IsElf[file]
    /\ pc \in {"raw_read", "elf_segment", "start", "user"} =>
         Last > 0 /\ processes[Last].file = file
    /\ pc = "elf_header" => seg = 0
    /\ pc = "elf_segment" =>
         /\ seg <= Len(Segments[file])
         /\ processes[Last].paging_chunk
         /\ \A i \in 1..seg : Segments[file][i] => i \in processes[Last].mapped
    /\ pc \in {"start", "user"} => Complete(processes[Last])
    /\ pc = "user" => current_process = Last

Inv == TypeOK /\ Table /\ Building

-----------------------------------------------------------------------------
(* The descriptor table *)

(* The slots in use are finitely many.                                       *)
LEMMA OpenFinite ==
    ASSUME TypeOK
    PROVE  /\ Open \subseteq Slots
           /\ IsFiniteSet(Open)
           /\ Cardinality(Open) \in Nat
<1>1. IsFiniteSet(Slots)
  BY FS_Interval, LoaderAssumption DEF Slots
<1>2. Open \subseteq Slots
  BY DEF Open
<1> QED BY <1>1, <1>2, FS_Subset, FS_CardinalityType

LEMMA OpenFiniteNext == ASSUME TypeOK' PROVE Cardinality(Open') \in Nat
<1>1. IsFiniteSet(Slots)
  BY FS_Interval, LoaderAssumption DEF Slots
<1>2. Open' \subseteq Slots
  BY DEF Open
<1> QED BY <1>1, <1>2, FS_Subset, FS_CardinalityType

(* fopen fails and leaves the table alone, or opens a free slot on the file. *)
LEMMA OpenFacts ==
    ASSUME TypeOK, NEW ok, NEW failure, fopen(ok, failure)
    PROVE  /\ fd' \in 0..MAX_FILE_DESCRIPTORS
           /\ file_descriptors' \in [Slots -> Files \cup {NULL}]
           /\ fat_descriptors' \in Nat
           /\ \/ pc' = failure /\ Open' = Open /\ fd' = fd
              \/ /\ pc' = ok
                 /\ Open # Slots
                 /\ fd' \in Slots \ Open
                 /\ file_descriptors'[fd'] = file
                 /\ Open' = Open \cup {fd'}
                 /\ fat_descriptors' > 0
           /\ fat_descriptors' - Cardinality(Open') # fat_descriptors - Cardinality(Open)
                => Open = Slots
<1>1. CASE /\ pc' = failure
           /\ UNCHANGED <<fd, file_descriptors, fat_descriptors>>
  BY <1>1 DEF TypeOK, Open
<1>2. CASE /\ Open = Slots
           /\ fat_descriptors' = fat_descriptors + 1
           /\ pc' = failure
           /\ UNCHANGED <<fd, file_descriptors>>
  BY <1>2 DEF TypeOK, Open
<1>3. ASSUME NEW i \in Slots,
             IsFirstFree(i),
             file_descriptors' = [file_descriptors EXCEPT ![i] = file],
             fat_descriptors' = fat_descriptors + 1,
             fd' = i,
             pc' = ok
      PROVE  /\ fd' \in 0..MAX_FILE_DESCRIPTORS
             /\ file_descriptors' \in [Slots -> Files \cup {NULL}]
             /\ fat_descriptors' \in Nat
             /\ fat_descriptors' > 0
             /\ fd' \in Slots \ Open
             /\ file_descriptors'[fd'] = file
             /\ Open' = Open \cup {fd'}
             /\ fat_descriptors' - Cardinality(Open') = fat_descriptors - Cardinality(Open)
  <2>1. i \in Slots \ Open
    BY <1>3 DEF IsFirstFree
  <2>2. /\ file_descriptors' \in [Slots -> Files \cup {NULL}]
        /\ file_descriptors'[i] = file
        /\ \A j \in Slots \ {i} : file_descriptors'[j] = file_descriptors[j]
    BY <1>3 DEF TypeOK
  <2>3. Open' = Open \cup {i}
    BY <2>1, <2>2, NameAssumption DEF Open, TypeOK
  <2>4. Cardinality(Open') = Cardinality(Open) + 1
    BY <2>1, <2>3, OpenFinite, FS_AddElement
  <2>5. /\ fat_descriptors' \in Nat /\ fat_descriptors' > 0
        /\ fat_descriptors' - Cardinality(Open') = fat_descriptors - Cardinality(Open)
    BY <1>3, <2>4, OpenFinite DEF TypeOK
  <2>6. i \in 0..MAX_FILE_DESCRIPTORS
    BY LoaderAssumption DEF Slots
  <2> QED BY <1>3, <2>1, <2>2, <2>3, <2>5, <2>6
<1> QED BY <1>1, <1>2, <1>3 DEF fopen

(* fclose of the command's descriptor gives the table back as it was.        *)
LEMMA CloseFacts ==
    ASSUME TypeOK, Table, pc \in Holding, fclose(fd)
    PROVE  /\ file_descriptors' \in [Slots -> Files \cup {NULL}]
           /\ fat_descriptors' \in Nat
           /\ Open' = before
           /\ fat_descriptors' - Cardinality(Open') = fat_descriptors - Cardinality(Open)
<1>1. /\ fd \in Slots \ before
      /\ Open = before \cup {fd}
      /\ fat_descriptors \in Nat /\ fat_descriptors > 0
      /\ fat_descriptors' = fat_descriptors - 1
  BY DEF TypeOK, Table, fclose
<1>2. /\ file_descriptors' \in [Slots -> Files \cup {NULL}]
      /\ file_descriptors'[fd] = NULL
      /\ \A j \in Slots \ {fd} : file_descriptors'[j] = file_descriptors[j]
  BY <1>1 DEF TypeOK, fclose
<1>3. Open' = Open \ {fd}
  BY <1>1, <1>2 DEF Open
<1>4. Cardinality(Open') = Cardinality(Open) - 1
  BY <1>1, <1>3, OpenFinite, FS_RemoveElement
<1>5. /\ fat_descriptors' \in Nat
      /\ fat_descriptors' - Cardinality(Open') = fat_descriptors - Cardinality(Open)
  BY <1>1, <1>4, OpenFinite
<1> QED BY <1>1, <1>2, <1>3, <1>5

-----------------------------------------------------------------------------
(* The process list *)

(* process_alloc puts a process without segments at the end.                 *)
LEMMA AllocFacts ==
    ASSUME TypeOK, NEW chunk \in BOOLEAN, process_alloc(chunk)
    PROVE  /\ processes' \in Seq(Process)
           /\ Last' = Last + 1
           /\ current_process \in 0..Last'
           /\ processes'[Last'] = [file |-> file, paging_chunk |-> chunk,
                                   mapped |-> {}, ptr |-> FALSE]
<1> DEFINE p == [file |-> file, paging_chunk |-> chunk, mapped |-> {}, ptr |-> FALSE]
<1>1. p \in Process /\ processes \in Seq(Process) /\ current_process \in 0..Len(processes)
  BY DEF TypeOK, Process
<1>2. processes' = Append(processes, p)
  BY DEF process_alloc
<1> HIDE DEF p
<1>3. /\ processes' \in Seq(Process)
      /\ Len(processes') = Len(processes) + 1
      /\ processes'[Len(processes) + 1] = p
  BY <1>1, <1>2, AppendProperties
<1>4. current_process \in 0..(Len(processes) + 1)
  BY <1>1, LenProperties
<1> QED BY <1>3, <1>4 DEF p, Last

(* A change of the last process leaves a list of processes as long.          *)
LEMMA UpdateFacts ==
    ASSUME TypeOK, Last > 0, NEW p \in Process,
           processes' = [processes EXCEPT ![Last] = p]
    PROVE  /\ processes' \in Seq(Process)
           /\ Last' = Last
           /\ processes'[Last'] = p
<1>1. processes \in Seq(Process) /\ Last \in 1..Len(processes)
  BY LenProperties DEF TypeOK, Last
<1> QED BY <1>1, ExceptSeq DEF Last

-----------------------------------------------------------------------------
(* Steps *)

(* The shell takes a command: what is open now was open before it.           *)
LEMMA RunFacts ==
    ASSUME Inv, NEW f \in Files, run_handler(f)
    PROVE  Inv'
<1> USE DEF run_handler
<1>1. TypeOK'
  BY OpenFinite, LoaderAssumption DEF Inv, TypeOK
<1>2. Table'
  BY DEF Inv, Table, Open, Holding, Between
<1>3. Building'
  BY DEF Inv, Building
<1> QED BY <1>1, <1>2, <1>3 DEF Inv

(* The three calls of fopen.                                                 *)
LEMMA FopenFacts ==
    ASSUME Inv, probe_open \/ raw_open \/ elf_open
    PROVE  /\ Inv'
           /\ fat_descriptors' - Cardinality(Open') # fat_descriptors - Cardinality(Open)
                => before = Slots
<1>1. /\ pc \in {"probe_open", "raw_open", "elf_open"}
      /\ Open = before
      /\ UNCHANGED <<file, current_process, runs, before>>
  BY DEF probe_open, raw_open, elf_open, Inv, Table, Between
<1>2. PICK ok \in {"probe_read", "raw_read", "elf_header"} :
        /\ fopen(ok, "prompt")
        /\ pc = "probe_open" => ok = "probe_read"
        /\ pc = "raw_open" => ok = "raw_read"
        /\ pc = "elf_open" => ok = "elf_header"
  BY DEF probe_open, raw_open, elf_open
<1>3. /\ fd' \in 0..MAX_FILE_DESCRIPTORS
      /\ file_descriptors' \in [Slots -> Files \cup {NULL}]
      /\ fat_descriptors' \in Nat
      /\ \/ pc' = "prompt" /\ Open' = Open /\ fd' = fd
         \/ /\ pc' = ok
            /\ fd' \in Slots \ Open
            /\ file_descriptors'[fd'] = file
            /\ Open' = Open \cup {fd'}
            /\ fat_descriptors' > 0
      /\ fat_descriptors' - Cardinality(Open') # fat_descriptors - Cardinality(Open)
           => Open = Slots
  BY <1>2, OpenFacts DEF Inv
<1>4. /\ processes' \in Seq(Process) /\ seg' \in Nat
      /\ current_process' \in 0..Len(processes')
      /\ pc = "raw_open" => Last' > 0 /\ processes'[Last'].file = file
      /\ pc = "elf_open" => seg' = 0
  <2>1. CASE probe_open \/ elf_open
    BY <2>1 DEF probe_open, elf_open, Inv, TypeOK
  <2>2. CASE raw_open
    <3>1. process_alloc(FALSE) /\ UNCHANGED <<seg, current_process>>
      BY <2>2 DEF raw_open
    <3>2. Last \in Nat
      BY LenProperties DEF Inv, TypeOK, Last
    <3>3. /\ processes' \in Seq(Process)
          /\ Last' = Last + 1
          /\ current_process \in 0..Last'
          /\ processes'[Last'] = [file |-> file, paging_chunk |-> FALSE,
                                  mapped |-> {}, ptr |-> FALSE]
      BY <3>1, AllocFacts DEF Inv
    <3>4. seg' \in Nat /\ current_process' \in 0..Len(processes')
      BY <3>1, <3>3 DEF Inv, TypeOK, Last
    <3>5. Last' > 0 /\ processes'[Last'].file = file
      BY <3>2, <3>3
    <3> QED BY <2>2, <3>3, <3>4, <3>5 DEF raw_open
  <2> QED BY <2>1, <2>2
<1>5. TypeOK'
  BY <1>1, <1>3, <1>4 DEF Inv, TypeOK
<1>6. Table'
  BY <1>1, <1>3 DEF Table, Holding, Between
<1>7. Building'
  BY <1>1, <1>2, <1>3, <1>4 DEF Inv, Building
<1> QED BY <1>1, <1>3, <1>5, <1>6, <1>7 DEF Inv

(* process_load has the first bytes of the file, and closes it.              *)
LEMMA ProbeFacts ==
    ASSUME Inv, probe_read
    PROVE  /\ Inv'
           /\ fat_descriptors' - Cardinality(Open') = fat_descriptors - Cardinality(Open)
<1>1. /\ pc = "probe_read" /\ fclose(fd)
      /\ pc' \in {"prompt", IF IsElf[file] THEN "elf_open" ELSE "raw_open"}
      /\ UNCHANGED <<file, fd, seg, processes, current_process, runs, before>>
  BY DEF probe_read
<1>2. /\ file_descriptors' \in [Slots -> Files \cup {NULL}]
      /\ fat_descriptors' \in Nat
      /\ Open' = before
      /\ fat_descriptors' - Cardinality(Open') = fat_descriptors - Cardinality(Open)
  BY <1>1, CloseFacts DEF Inv, Holding
<1>3. TypeOK'
  BY <1>1, <1>2 DEF Inv, TypeOK
<1>4. Table' /\ Building'
  BY <1>1, <1>2 DEF Inv, Table, Building, Holding, Between
<1> QED BY <1>2, <1>3, <1>4 DEF Inv

(* The contents of a raw program: read, mapped and closed, or abandoned with *)
(* the file open.                                                            *)
LEMMA RawReadFacts ==
    ASSUME Inv, raw_read
    PROVE  /\ Inv'
           /\ fat_descriptors' - Cardinality(Open') = fat_descriptors - Cardinality(Open)
<1>1. /\ pc = "raw_read"
      /\ UNCHANGED <<file, fd, seg, current_process, runs, before>>
  BY DEF raw_read
<1>2. CASE pc' = "prompt" /\ UNCHANGED <<file_descriptors, fat_descriptors, processes>>
  <2>1. TypeOK'
    BY <1>1, <1>2 DEF Inv, TypeOK
  <2>2. Open' = Open
    BY <1>2 DEF Open
  <2>3. Table' /\ Building'
    BY <1>1, <1>2, <2>2 DEF Inv, Table, Building, Holding, Between
  <2> QED BY <1>2, <2>1, <2>2, <2>3 DEF Inv
<1>3. CASE pc' # "prompt"
  <2> DEFINE p == [processes[Last] EXCEPT !.paging_chunk = TRUE,
                                          !.mapped = {1}, !.ptr = TRUE]
  <2>1. /\ pc' = "start" /\ fclose(fd)
        /\ processes' = [processes EXCEPT ![Last].paging_chunk = TRUE,
                                          ![Last].mapped = {1},
                                          ![Last].ptr = TRUE]
    BY <1>3 DEF raw_read
  <2>2. /\ Last > 0 /\ processes[Last].file = file /\ ~IsElf[file]
        /\ processes \in Seq(Process)
        /\ processes[Last] \in Process
    <3>1. Last > 0 /\ processes[Last].file = file /\ ~IsElf[file]
      BY <1>1 DEF Inv, Building
    <3>2. processes \in Seq(Process) /\ Last \in 1..Len(processes)
      BY <3>1, LenProperties DEF Inv, TypeOK, Last
    <3> QED BY <3>1, <3>2, ElementOfSeq
  <2>3. processes' = [processes EXCEPT ![Last] = p]
    <3>1. processes \in [1..Len(processes) -> Process] /\ Last \in 1..Len(processes)
      BY <2>2, LenProperties DEF Last
    <3> QED BY <2>1, <2>2, <3>1 DEF Process
  <2>4. /\ p \in Process
        /\ p.file = file /\ p.paging_chunk /\ p.ptr /\ p.mapped = {1}
    <3>1. p.file = file /\ p.mapped = {1}
      BY <2>2 DEF Process
    <3>2. p.paging_chunk /\ p.ptr
      BY <2>2 DEF Process
    <3> DEFINE p1 == [processes[Last] EXCEPT !.paging_chunk = TRUE]
               p2 == [p1 EXCEPT !.mapped = {1}]
    <3>3. p1 \in Process
      BY <2>2 DEF Process
    <3>4. p2 \in Process
      <4> HIDE DEF p1
      <4> QED BY <3>3 DEF Process
    <3>5. [p2 EXCEPT !.ptr = TRUE] \in Process
      <4> HIDE DEF p2
      <4> QED BY <3>4 DEF Process
    <3>6. p = [p2 EXCEPT !.ptr = TRUE]
      BY <2>2 DEF Process
    <3> QED BY <3>1, <3>2, <3>5, <3>6
  <2> HIDE DEF p
  <2>5. processes' \in Seq(Process) /\ Last' = Last /\ processes'[Last'] = p
    BY <2>2, <2>3, <2>4, UpdateFacts DEF Inv
  <2>6. /\ file_descriptors' \in [Slots -> Files \cup {NULL}]
        /\ fat_descriptors' \in Nat
        /\ Open' = before
        /\ fat_descriptors' - Cardinality(Open') = fat_descriptors - Cardinality(Open)
    BY <1>1, <2>1, CloseFacts DEF Inv, Holding
  <2>7. TypeOK'
    BY <1>1, <2>1, <2>5, <2>6 DEF Inv, TypeOK, Last
  <2>8. Table' /\ Building'
    BY <1>1, <2>1, <2>2, <2>4, <2>5, <2>6
       DEF Table, Building, Complete, Holding, Between
  <2> QED BY <2>6, <2>7, <2>8 DEF Inv
<1> QED BY <1>2, <1>3 DEF raw_read

(* elf_load has the headers, makes the process and comes to its segments.    *)
LEMMA HeaderFacts ==
    ASSUME Inv, elf_header
    PROVE  /\ Inv'
           /\ fat_descriptors' - Cardinality(Open') = fat_descriptors - Cardinality(Open)
<1>1. /\ pc = "elf_header"
      /\ UNCHANGED <<file, fd, seg, current_process, runs, before>>
  BY DEF elf_header
<1>2. CASE pc' = "prompt" /\ fclose(fd) /\ UNCHANGED processes
  <2>1. /\ file_descriptors' \in [Slots -> Files \cup {NULL}]
        /\ fat_descriptors' \in Nat
        /\ Open' = before
        /\ fat_descriptors' - Cardinality(Open') = fat_descriptors - Cardinality(Open)
    BY <1>1, <1>2, CloseFacts DEF Inv, Holding
  <2>2. TypeOK'
    BY <1>1, <1>2, <2>1 DEF Inv, TypeOK
  <2>3. Table' /\ Building'
    BY <1>1, <1>2, <2>1 DEF Table, Building, Holding, Between
  <2> QED BY <2>1, <2>2, <2>3 DEF Inv
<1>3. CASE /\ pc' = "elf_segment" /\ process_alloc(TRUE)
           /\ UNCHANGED <<file_descriptors, fat_descriptors>>
  <2>1. Open' = Open
    BY <1>3 DEF Open
  <2>2. /\ processes' \in Seq(Process)
        /\ Last' = Last + 1
        /\ current_process \in 0..Last'
        /\ processes'[Last'] = [file |-> file, paging_chunk |-> TRUE,
                                mapped |-> {}, ptr |-> FALSE]
    BY <1>3, AllocFacts DEF Inv
  <2>3. TypeOK'
    BY <1>1, <1>3, <2>2 DEF Inv, TypeOK, Last
  <2>4. Table'
    BY <1>1, <1>3, <2>1 DEF Inv, Table, Holding, Between
  <2>5. Last' > 0 /\ processes'[Last'].file = file /\ processes'[Last'].paging_chunk
    <3>1. Last \in Nat
      BY LenProperties DEF Inv, TypeOK, Last
    <3> QED BY <2>2, <3>1
  <2>6. seg = 0 /\ IsElf[file] /\ Len(Segments[file]) \in Nat
    <3>1. seg = 0 /\ IsElf[file]
      BY <1>1 DEF Inv, Building
    <3>2. Segments[file] \in Seq(BOOLEAN)
      BY LoaderAssumption DEF Inv, TypeOK
    <3> QED BY <3>1, <3>2, LenProperties
  <2>7. Building'
    BY <1>1, <1>3, <2>5, <2>6 DEF Building
  <2> QED BY <1>3, <2>1, <2>3, <2>4, <2>7 DEF Inv
<1> QED BY <1>2, <1>3 DEF elf_header

(* A segment is mapped, or refused by paging_set, or its read failed.        *)
LEMMA SegmentFacts ==
    ASSUME Inv, elf_segment
    PROVE  /\ Inv'
           /\ fat_descriptors' - Cardinality(Open') = fat_descriptors - Cardinality(Open)
<1>1. /\ pc = "elf_segment" /\ seg < Len(Segments[file])
      /\ UNCHANGED <<file, fd, current_process, runs, before>>
  BY DEF elf_segment
<1>2. CASE pc' = "prompt" /\ fclose(fd) /\ UNCHANGED <<seg, processes>>
  <2>1. /\ file_descriptors' \in [Slots -> Files \cup {NULL}]
        /\ fat_descriptors' \in Nat
        /\ Open' = before
        /\ fat_descriptors' - Cardinality(Open') = fat_descriptors - Cardinality(Open)
    BY <1>1, <1>2, CloseFacts DEF Inv, Holding
  <2>2. TypeOK'
    BY <1>1, <1>2, <2>1 DEF Inv, TypeOK
  <2>3. Table' /\ Building'
    BY <1>1, <1>2, <2>1 DEF Table, Building, Holding, Between
  <2> QED BY <2>1, <2>2, <2>3 DEF Inv
<1>3. CASE pc' # "prompt"
  <2> DEFINE p == processes[Last]
             q == [p EXCEPT !.mapped = @ \cup {seg + 1}]
  <2>1. /\ pc' = pc /\ seg' = seg + 1
        /\ UNCHANGED <<file_descriptors, fat_descriptors>>
        /\ processes' = IF Segments[file][seg + 1]
                          THEN [processes EXCEPT ![Last].mapped = @ \cup {seg + 1}]
                          ELSE processes
    BY <1>3 DEF elf_segment
  <2>2. Last > 0 /\ processes \in Seq(Process) /\ p \in Process
    <3>1. Last > 0 /\ processes \in Seq(Process)
      BY <1>1 DEF Inv, TypeOK, Building
    <3>2. Last \in 1..Len(processes)
      BY <3>1, LenProperties DEF Last
    <3> QED BY <3>1, <3>2, ElementOfSeq
  <2>3. /\ seg \in Nat /\ Segments[file] \in Seq(BOOLEAN)
        /\ p.file = file /\ p.paging_chunk
        /\ \A i \in 1..seg : Segments[file][i] => i \in p.mapped
    BY <1>1, LoaderAssumption DEF Inv, TypeOK, Building
  <2>4. /\ processes' \in Seq(Process) /\ Last' = Last
        /\ processes'[Last'].file = file /\ processes'[Last'].paging_chunk
        /\ \A i \in 1..seg : Segments[file][i] => i \in processes'[Last'].mapped
        /\ Segments[file][seg + 1] => seg + 1 \in processes'[Last'].mapped
    <3>1. CASE ~Segments[file][seg + 1]
      BY <2>1, <2>2, <2>3, <3>1 DEF Last
    <3>2. CASE Segments[file][seg + 1]
      <4>1. processes' = [processes EXCEPT ![Last] = q]
        <5>1. processes \in [1..Len(processes) -> Process] /\ Last \in 1..Len(processes)
          BY <2>2, LenProperties DEF Last
        <5> QED BY <2>1, <2>2, <3>2, <5>1 DEF Process
      <4>2. /\ q.file = file /\ q.paging_chunk
            /\ q.mapped = p.mapped \cup {seg + 1}
        BY <2>2, <2>3 DEF Process
      <4>3. q \in Process
        <5>1. q.ptr = p.ptr /\ q.ptr \in BOOLEAN /\ q.mapped \subseteq Nat
          BY <2>2, <2>3 DEF Process
        <5> QED BY <2>2, <2>3, <4>2, <5>1 DEF Process
      <4> HIDE DEF q
      <4>4. processes' \in Seq(Process) /\ Last' = Last /\ processes'[Last'] = q
        BY <2>2, <4>1, <4>3, UpdateFacts DEF Inv
      <4> QED BY <2>3, <4>2, <4>4
    <3> QED BY <3>1, <3>2
  <2>5. \A i \in 1..(seg + 1) : Segments[file][i] => i \in processes'[Last'].mapped
    <3>1. \A i \in 1..(seg + 1) : i \in 1..seg \/ i = seg + 1
      BY <2>3
    <3> QED BY <2>4, <3>1
  <2>6. seg + 1 \in Nat /\ seg + 1 <= Len(Segments[file])
    BY <1>1, <2>3, LenProperties
  <2>7. Open' = Open
    BY <2>1 DEF Open
  <2>8. TypeOK'
    BY <1>1, <2>1, <2>4, <2>6 DEF Inv, TypeOK, Last
  <2>9. Table'
    BY <1>1, <2>1, <2>7 DEF Inv, Table, Holding, Between
  <2>10. Building'
    <3>1. IsElf[file]
      BY <1>1 DEF Inv, Building
    <3> QED BY <1>1, <2>1, <2>2, <2>4, <2>5, <2>6, <3>1 DEF Building
  <2> QED BY <2>1, <2>7, <2>8, <2>9, <2>10 DEF Inv
<1> QED BY <1>2, <1>3 DEF elf_segment

(* The entry point is set, and the file closed.                              *)
LEMMA DoneFacts ==
    ASSUME Inv, elf_done
    PROVE  /\ Inv'
           /\ fat_descriptors' - Cardinality(Open') = fat_descriptors - Cardinality(Open)
<1> DEFINE p == processes[Last]
           q == [p EXCEPT !.ptr = TRUE]
<1>1. /\ pc = "elf_segment" /\ seg = Len(Segments[file])
      /\ pc' = "start" /\ fclose(fd)
      /\ processes' = [processes EXCEPT ![Last].ptr = TRUE]
      /\ UNCHANGED <<file, fd, seg, current_process, runs, before>>
  BY DEF elf_done
<1>2. Last > 0 /\ processes \in Seq(Process) /\ p \in Process
  <2>1. Last > 0 /\ processes \in Seq(Process)
    BY <1>1 DEF Inv, TypeOK, Building
  <2>2. Last \in 1..Len(processes)
    BY <2>1, LenProperties DEF Last
  <2> QED BY <2>1, <2>2, ElementOfSeq
<1>3. /\ IsElf[file] /\ p.file = file /\ p.paging_chunk
      /\ \A i \in 1..seg : Segments[file][i] => i \in p.mapped
  BY <1>1 DEF Inv, Building
<1>4. processes' = [processes EXCEPT ![Last] = q]
  <2>1. processes \in [1..Len(processes) -> Process] /\ Last \in 1..Len(processes)
    BY <1>2, LenProperties DEF Last
  <2> QED BY <1>1, <1>2, <2>1 DEF Process
<1>5. q.file = p.file /\ q.mapped = p.mapped
  BY <1>2 DEF Process
<1>6. q.paging_chunk /\ q.ptr
  BY <1>2, <1>3 DEF Process
<1>7. q \in Process
  BY <1>2 DEF Process
<1> HIDE DEF q
<1>8. processes' \in Seq(Process) /\ Last' = Last /\ processes'[Last'] = q
  BY <1>2, <1>4, <1>7, UpdateFacts DEF Inv
<1>9. /\ file_descriptors' \in [Slots -> Files \cup {NULL}]
      /\ fat_descriptors' \in Nat
      /\ Open' = before
      /\ fat_descriptors' - Cardinality(Open') = fat_descriptors - Cardinality(Open)
  BY <1>1, CloseFacts DEF Inv, Holding
<1>10. TypeOK'
  BY <1>1, <1>8, <1>9 DEF Inv, TypeOK, Last
<1>11. Table'
  BY <1>1, <1>9 DEF Table, Holding, Between
<1>12. Building'
  BY <1>1, <1>2, <1>3, <1>5, <1>6, <1>8 DEF Building, Complete
<1> QED BY <1>9, <1>10, <1>11, <1>12 DEF Inv

(* The process becomes the current one, and the shell is gone.               *)
LEMMA StartFacts ==
    ASSUME Inv, start
    PROVE  Inv'
<1> USE DEF start
<1>1. Last \in Nat /\ Last > 0
  BY LenProperties DEF Inv, TypeOK, Building, Last
<1>2. TypeOK'
  BY <1>1 DEF Inv, TypeOK, Last
<1>3. Table'
  BY DEF Inv, Table, Open, Holding, Between
<1>4. Building'
  BY DEF Inv, Building, Complete, Last
<1> QED BY <1>2, <1>3, <1>4 DEF Inv

(* At boot no file is open and there is no process.                          *)
LEMMA InitEstablishes == Init => Inv
<1> SUFFICES ASSUME Init PROVE Inv
  OBVIOUS
<1>1. processes \in Seq(Process) /\ Len(processes) = 0
  BY EmptySeq DEF Init
<1>2. TypeOK
  BY <1>1, LoaderAssumption DEF Init, TypeOK
<1>3. Open = {}
  BY DEF Init, Open
<1>4. Table /\ Building
  BY <1>3 DEF Init, Table, Building, Holding, Between
<1> QED BY <1>2, <1>4 DEF Inv

(* Every step of a command preserves the invariant, and takes or gives a     *)
(* slot and a FAT descriptor together, except where the table is full.       *)
LEMMA NextFacts ==
    ASSUME Inv, [Next]_vars
    PROVE  /\ Inv'
           /\ fat_descriptors' - Cardinality(Open') # fat_descriptors - Cardinality(Open)
                => before = Slots
<1>1. CASE UNCHANGED vars
  <2>1. Open' = Open
    BY <1>1 DEF vars, Open
  <2>2. Inv'
    BY <1>1, <2>1 DEF vars, Inv, TypeOK, Table, Building, Complete, Last
  <2> QED BY <1>1, <2>1, <2>2 DEF vars
<1>2. CASE (\E f \in Files : run_handler(f)) \/ start
  <2>1. Inv'
    BY <1>2, RunFacts, StartFacts
  <2> QED BY <1>2, <2>1 DEF run_handler, start, Open
<1>3. CASE probe_open \/ raw_open \/ elf_open
  BY <1>3, FopenFacts
<1>4. CASE probe_read \/ raw_read
  BY <1>4, ProbeFacts, RawReadFacts
<1>5. CASE elf_header \/ elf_segment \/ elf_done
  BY <1>5, HeaderFacts, SegmentFacts, DoneFacts
<1> QED BY <1>1, <1>2, <1>3, <1>4, <1>5 DEF Next

LEMMA NextPreserves == Inv /\ [Next]_vars => Inv'
BY NextFacts

(* The invariant holds in every reachable state.                             *)
LEMMA Invariance == Spec => []Inv
BY InitEstablishes, NextPreserves, PTL DEF Spec

\* Each FAT descriptor has a slot, or the table was full before the command.
Slotted == fat_descriptors = Cardinality(Open) \/ before = Slots

(* fs_new_descriptor's failure is the only way to lose a FAT descriptor, and *)
(* a table that was full before a command is full before the next one.       *)
LEMMA SlottedStays == ASSUME Inv, Slotted, [Next]_vars PROVE Slotted'
<1>1. /\ Inv'
      /\ fat_descriptors' - Cardinality(Open') # fat_descriptors - Cardinality(Open)
           => before = Slots
  BY NextFacts
<1>2. before' = before \/ before' = Open
  BY DEF Next, vars, run_handler, probe_open, probe_read, raw_open, raw_read, elf_open,
         elf_header, elf_segment, elf_done, start
<1>3. CASE before = Slots
  <2>1. before \subseteq Open
    BY DEF Inv, TypeOK, Table, Holding, Between
  <2>2. Open \subseteq Slots
    BY DEF Open
  <2> QED BY <1>2, <1>3, <2>1, <2>2 DEF Slotted
<1>4. CASE before # Slots
  <2>1. /\ fat_descriptors \in Nat /\ Cardinality(Open) \in Nat
        /\ fat_descriptors' \in Nat /\ Cardinality(Open') \in Nat
    BY <1>1, OpenFinite, OpenFiniteNext DEF Inv, TypeOK
  <2>2. fat_descriptors = Cardinality(Open)
    BY <1>4 DEF Slotted
  <2>3. fat_descriptors' - Cardinality(Open') = fat_descriptors - Cardinality(Open)
    BY <1>1, <1>4
  <2>4. fat_descriptors' = Cardinality(Open')
    BY <2>1, <2>2, <2>3
  <2> QED BY <2>4 DEF Slotted
<1> QED BY <1>3, <1>4

-----------------------------------------------------------------------------
(* Theorems *)

(* Type correctness: the count of FAT descriptors never falls below zero,    *)
(* and the current process is one of the list.                               *)
THEOREM TypeCorrect == Spec => []TypeOK
BY Invariance, PTL DEF Inv

(* fread and fclose are called with a descriptor the command opened itself.  *)
THEOREM OwnDescriptor == Spec => []UsesItsDescriptor
<1>1. Inv => UsesItsDescriptor
  BY DEF Inv, Table, Holding, UsesItsDescriptor
<1> QED BY <1>1, Invariance, PTL

(* A command closes what it opened on every path but one.                    *)
THEOREM Balanced == Spec => []DescriptorsBalanced
<1>1. Inv /\ Slotted => DescriptorsBalanced
  BY DEF Inv, Table, Between, Slotted, DescriptorsBalanced
<1>2. Init => Slotted
  <2> SUFFICES ASSUME Init PROVE Slotted
    OBVIOUS
  <2>1. Open = {}
    BY DEF Init, Open
  <2> QED BY <2>1, FS_EmptySet DEF Init, Slotted
<1>3. Inv /\ Slotted /\ [Next]_vars => Slotted'
  BY SlottedStays
<1> QED BY <1>1, <1>2, <1>3, Invariance, PTL DEF Spec

(* Whatever reads fail on the way, no half loaded program is started.        *)
THEOREM StartsComplete == Spec => []StartedIsComplete
<1>1. Inv => StartedIsComplete
  BY DEF Inv, Building, Complete, StartedIsComplete
<1> QED BY <1>1, Invariance, PTL

\* A full table between two commands, or in the first step of one.
Exhausted == Open = Slots /\ pc \in {"prompt", "probe_open"}

(* A full table stays full: a command fails at its first fopen.              *)
LEMMA ExhaustedStays == Inv /\ Exhausted /\ [Next]_vars => Exhausted'
<1> SUFFICES ASSUME Inv, Exhausted, [Next]_vars PROVE Exhausted'
  OBVIOUS
<1>1. CASE UNCHANGED vars
  BY <1>1 DEF vars, Exhausted, Open
<1>2. CASE \E f \in Files : run_handler(f)
  BY <1>2 DEF run_handler, Exhausted, Open
<1>3. CASE probe_open
  BY <1>3, OpenFacts DEF probe_open, Exhausted, Inv
<1> QED BY <1>1, <1>2, <1>3
        DEF Next, Exhausted, probe_read, raw_open, raw_read, elf_open, elf_header,
            elf_segment, elf_done, start

(* The shell that has lost all descriptors never starts a program again.     *)
THEOREM ExhaustionIsFinal == Spec => ExhaustedForGood
<1>1. pc = "prompt" /\ Open = Slots => Exhausted
  BY DEF Exhausted
<1>2. Exhausted => pc # "user"
  BY DEF Exhausted
<1> QED BY <1>1, <1>2, ExhaustedStays, Invariance, PTL DEF Spec, ExhaustedForGood
=============================================================================
