------------------------------ MODULE FatFile ------------------------------
(***************************************************************************)
(* Reading an open file of a FAT16 volume: fat16_read, fat16_seek and the   *)
(* cluster cache of struct fat_file_descriptor (fs/fat16.c), over disk      *)
(* reads that may fail.                                                     *)
(*                                                                          *)
(* The kernel runs one file operation at a time.  fat16_read is split at    *)
(* its disk accesses, because each of them can fail on its own.  A byte of  *)
(* the disk is named by its place, <<cluster, offset in the cluster>>, so   *)
(* that a byte from the wrong place is told from the right one.             *)
(***************************************************************************)
EXTENDS Integers, Sequences

CONSTANTS
    ClusterSize,    \* sectors_per_cluster * bytes_per_sector
    Chain,          \* the clusters of the file, in order
    FileSize,       \* item.filesize
    fat,            \* the FAT: the entry of each cluster number; at 0xFFFF
                    \* what the disk holds that far behind the table
    Faults,         \* disk reads that may fail: "skip", "advance", "data"
    MaxRead,        \* bound: bytes asked for at once
    MaxSeek         \* bound: distance of a seek

FAT16_CLUSTER_RESERVED_MIN == 65520     \* 0xFFF0
FAT16_CLUSTER_LAST_MIN     == 65528     \* 0xFFF8
FAT_ERROR                  == 65535     \* 0xFFFF: the value for a failed read

ASSUME SizeAssumption ==
    /\ ClusterSize \in Nat \ {0}
    /\ FileSize \in Nat
    /\ MaxRead \in Nat
    /\ MaxSeek \in Nat
ASSUME FaultsAssumption == Faults \subseteq {"skip", "advance", "data"}

\* A failed read at a cluster boundary leaves 0xFFFF in the cache, and a later
\* read asks for the entry of that: the disk holds one for every number then.
ASSUME TableAssumption ==
    "advance" \in Faults =>
      /\ FAT_ERROR \in DOMAIN fat
      /\ \A k \in DOMAIN fat : fat[k] \in DOMAIN fat

\* The volume is consistent: the chain of the file is linked in the FAT, is
\* long enough for its size and ends.
ASSUME ChainAssumption ==
    /\ Chain \in Seq(2..(FAT16_CLUSTER_RESERVED_MIN - 1))
    /\ Len(Chain) > 0
    /\ \A i \in 1..Len(Chain) : Chain[i] \in DOMAIN fat
    /\ FileSize <= ClusterSize * Len(Chain)
    /\ \A i \in 1..(Len(Chain) - 1) : fat[Chain[i]] = Chain[i + 1]
    /\ fat[Chain[Len(Chain)]] >= FAT16_CLUSTER_LAST_MIN

VARIABLES
    pc,                             \* "idle" between calls
    pos, last_cluster, last_cluster_pos,    \* the descriptor
    current_cluster,                \* locals of fat16_read
    clusters_to_skip,
    size,                           \* bytes asked for; 0 between calls
    total_to_read,
    out,                            \* the bytes read so far
    delivered, failed               \* what the caller got last

desc  == <<pos, last_cluster, last_cluster_pos>>
local == <<current_cluster, clusters_to_skip, size, total_to_read, out>>
vars  == <<pc, desc, local, delivered, failed>>

total_read == Len(out)

Least(a, b) == IF a <= b THEN a ELSE b

\* fat16_open's descriptor.
Init ==
    /\ pc = "idle"
    /\ pos = 0
    /\ last_cluster = Chain[1]
    /\ last_cluster_pos = 0
    /\ current_cluster = 0
    /\ clusters_to_skip = 0
    /\ size = 0
    /\ total_to_read = 0
    /\ out = <<>>
    /\ delivered = <<>>
    /\ failed = FALSE

-----------------------------------------------------------------------------

\* fat16_get_fat_entry: what it may return, and whether the disk failed.  Only
\* values the FAT can hold for the clusters it is asked about occur.
fat16_get_fat_entry(cluster, kind) ==
    {[entry |-> fat[cluster], fault |-> FALSE]} \cup
    (IF kind \in Faults THEN {[entry |-> FAT_ERROR, fault |-> TRUE]} ELSE {})

\* fat16_read returns: the cursor moves over what was read.
Return(bytes, fault) ==
    /\ pc' = "idle"
    /\ delivered' = bytes
    /\ failed' = fault
    /\ pos' = pos + Len(bytes)
    /\ out' = <<>>
    /\ size' = 0
    /\ UNCHANGED <<current_cluster, clusters_to_skip, total_to_read>>

\* The size is clipped to the end of the file, and the cache chosen when it is
\* not behind the cursor.
read_start(n) ==
    LET total == Least(n, FileSize - pos)
        cached == pos >= last_cluster_pos
    IN  /\ pc = "idle"
        /\ IF total = 0
             THEN Return(<<>>, FALSE)
             ELSE /\ pc' = "skip"
                  /\ size' = n
                  /\ total_to_read' = total
                  /\ current_cluster' = IF cached THEN last_cluster ELSE Chain[1]
                  /\ clusters_to_skip' =
                       (pos - (IF cached THEN last_cluster_pos ELSE 0)) \div ClusterSize
                  /\ UNCHANGED <<pos, out, delivered, failed>>
        /\ UNCHANGED <<last_cluster, last_cluster_pos>>

\* fat16_get_cluster_for_offset: one link; the end of the chain ends the read.
read_skip ==
    /\ pc = "skip"
    /\ clusters_to_skip > 0
    /\ \E r \in fat16_get_fat_entry(current_cluster, "skip") :
         IF r.entry >= FAT16_CLUSTER_LAST_MIN
           THEN Return(<<>>, r.fault)
           ELSE /\ current_cluster' = r.entry
                /\ clusters_to_skip' = clusters_to_skip - 1
                /\ UNCHANGED <<pc, pos, size, total_to_read, out, delivered, failed>>
    /\ UNCHANGED <<last_cluster, last_cluster_pos>>

\* Slip: the cache keeps the cursor and not where its cluster starts.
read_found_Unrounded ==
    /\ pc = "skip"
    /\ clusters_to_skip = 0
    /\ IF current_cluster >= FAT16_CLUSTER_RESERVED_MIN
         THEN /\ Return(<<>>, FALSE)
              /\ UNCHANGED <<last_cluster, last_cluster_pos>>
         ELSE /\ pc' = "loop"
              /\ last_cluster' = current_cluster
              /\ last_cluster_pos' = pos
              /\ UNCHANGED <<pos, local, delivered, failed>>

\* The cluster of the cursor is found, and cached.
read_found ==
    /\ pc = "skip"
    /\ clusters_to_skip = 0
    /\ IF current_cluster >= FAT16_CLUSTER_RESERVED_MIN
         THEN /\ Return(<<>>, FALSE)
              /\ UNCHANGED <<last_cluster, last_cluster_pos>>
         ELSE /\ pc' = "loop"
              /\ last_cluster' = current_cluster
              /\ last_cluster_pos' = (pos \div ClusterSize) * ClusterSize
              /\ UNCHANGED <<pos, local, delivered, failed>>

\* Top of the loop: at a cluster boundary follow the chain, and cache whatever
\* came back.
read_advance ==
    /\ pc = "loop"
    /\ total_read < total_to_read
    /\ IF total_read > 0 /\ (pos + total_read) % ClusterSize = 0
         THEN \E r \in fat16_get_fat_entry(current_cluster, "advance") :
                /\ current_cluster' = r.entry
                /\ last_cluster' = r.entry
                /\ last_cluster_pos' = pos + total_read
                /\ IF r.entry >= FAT16_CLUSTER_RESERVED_MIN
                     THEN /\ pc' = "idle"
                          /\ pos' = pos + total_read
                          /\ delivered' = out
                          /\ failed' = r.fault
                          /\ out' = <<>>
                          /\ size' = 0
                     ELSE /\ pc' = "copy"
                          /\ UNCHANGED <<pos, delivered, failed, out, size>>
         ELSE /\ pc' = "copy"
              /\ UNCHANGED <<desc, current_cluster, delivered, failed, out, size>>
    /\ UNCHANGED <<clusters_to_skip, total_to_read>>

\* Slip: a failed disk read is tried again.
read_copy_Retry ==
    LET offset == (pos + total_read) % ClusterSize
        n == Least(ClusterSize - offset, total_to_read - total_read)
    IN  /\ pc = "copy"
        /\ pc' = "loop"
        /\ \/ out' = out \o [i \in 1..n |-> <<current_cluster, offset + i - 1>>]
           \/ "data" \in Faults /\ UNCHANGED out
        /\ UNCHANGED <<desc, current_cluster, clusters_to_skip, size, total_to_read,
                       delivered, failed>>

\* Bottom of the loop: the rest of this cluster, or of the request.
read_copy ==
    LET offset == (pos + total_read) % ClusterSize
        n == Least(ClusterSize - offset, total_to_read - total_read)
    IN  /\ pc = "copy"
        /\ \/ /\ pc' = "loop"
              /\ out' = out \o [i \in 1..n |-> <<current_cluster, offset + i - 1>>]
              /\ UNCHANGED <<pos, current_cluster, clusters_to_skip, size,
                             total_to_read, delivered, failed>>
           \/ /\ "data" \in Faults
              /\ Return(out, TRUE)
        /\ UNCHANGED <<last_cluster, last_cluster_pos>>

\* Slip: the loop runs once: a read stops at the end of its first cluster.
read_end_OneCluster ==
    /\ pc = "loop"
    /\ total_read > 0
    /\ Return(out, FALSE)
    /\ UNCHANGED <<last_cluster, last_cluster_pos>>

read_end ==
    /\ pc = "loop"
    /\ total_read = total_to_read
    /\ Return(out, FALSE)
    /\ UNCHANGED <<last_cluster, last_cluster_pos>>

\* Slip: any target is accepted.
fat16_seek_Unchecked(base, offset) ==
    /\ pc = "idle"
    /\ pos' = base + offset
    /\ UNCHANGED <<pc, last_cluster, last_cluster_pos, local, delivered, failed>>

\* fat16_seek: a target outside the file is refused (a negative one wraps to a
\* large unsigned number), the cache stays.
fat16_seek(base, offset) ==
    /\ pc = "idle"
    /\ base + offset \in 0..FileSize
    /\ pos' = base + offset
    /\ UNCHANGED <<pc, last_cluster, last_cluster_pos, local, delivered, failed>>

Seek == \E offset \in (-MaxSeek)..MaxSeek, base \in {0, pos, FileSize} :
          fat16_seek(base, offset)

Working == read_skip \/ read_found \/ read_advance \/ read_copy \/ read_end

Next == Working \/ Seek \/ \E n \in 1..MaxRead : read_start(n)

Spec == Init /\ [][Next]_vars

\* A call that was begun is carried on: nothing else runs meanwhile.
FairSpec == Spec /\ WF_vars(Working)

-----------------------------------------------------------------------------
(* Properties *)

\* The file as its reader should see it.
ClusterOf(p) == Chain[p \div ClusterSize + 1]
Byte(p)      == <<ClusterOf(p), p % ClusterSize>>
File         == [i \in 1..FileSize |-> Byte(i - 1)]

Cluster == DOMAIN fat \cup {fat[k] : k \in DOMAIN fat} \cup {FAT_ERROR}

TypeOK ==
    /\ pc \in {"idle", "skip", "loop", "copy"}
    /\ pos \in 0..FileSize
    /\ last_cluster \in Cluster
    /\ last_cluster_pos \in 0..FileSize
    /\ current_cluster \in Cluster \cup {0}
    /\ clusters_to_skip \in Nat
    /\ size \in 0..MaxRead
    /\ total_to_read \in 0..MaxRead
    /\ out \in Seq(Cluster \X (0..(ClusterSize - 1)))
    /\ delivered \in Seq(Cluster \X (0..(ClusterSize - 1)))
    /\ failed \in BOOLEAN

\* The cache names a cluster of the file and where in the file it starts, after
\* any sequence of reads, seeks and tolerated disk failures.
CacheCoherent ==
    /\ last_cluster_pos % ClusterSize = 0
    /\ last_cluster_pos \div ClusterSize < Len(Chain)
    /\ last_cluster = ClusterOf(last_cluster_pos)

\* Every byte copied out is the file's byte at that position.
OutIsFile ==
    \A i \in 1..Len(out) : pos + i <= FileSize /\ out[i] = Byte(pos + i - 1)

\* A reader of the file sees a plain stream: the right bytes, and as many as
\* that call asked for unless the file ended or the disk failed in that call,
\* whatever the cache holds and however many clusters the read takes.
Stream == INSTANCE FileStream WITH asked <- size
ImplementsStream == Stream!Spec

\* Every read returns, whether or not the disk fails.
ReadReturns == pc # "idle" ~> pc = "idle"
=============================================================================
