--------------------------- MODULE FatFileProofs ---------------------------
(***************************************************************************)
(* Proofs about FatFile for every consistent volume, cluster size and file. *)
(*                                                                          *)
(* All but type correctness hold as long as the read of the FAT at a        *)
(* cluster boundary does not fail: read_advance caches what a failed one    *)
(* gives (see OutIsFile in the run that lets it).                           *)
(***************************************************************************)
EXTENDS FatFile, SequenceTheorems, TLAPS

(* A call in progress stays in the file and has something to read.           *)
Request ==
    /\ pc = "idle" => size = 0
    /\ pc # "idle" => /\ size > 0
                      /\ total_to_read = Least(size, FileSize - pos)
                      /\ total_to_read > 0 /\ pos + total_to_read <= FileSize
    /\ pc \in {"idle", "skip"} => out = <<>>

(* The search for the cluster of the cursor goes along the chain.            *)
Search ==
    pc = "skip" =>
      /\ clusters_to_skip <= pos \div ClusterSize
      /\ current_cluster = Chain[pos \div ClusterSize - clusters_to_skip + 1]

(* The cluster in hand holds the byte to come, or at the top of the loop the *)
(* one copied last.                                                          *)
Loop ==
    /\ pc \in {"loop", "copy"} => Len(out) <= total_to_read
    /\ pc = "loop" => current_cluster =
                        ClusterOf(IF out = <<>> THEN pos ELSE pos + Len(out) - 1)
    /\ pc = "copy" => /\ Len(out) < total_to_read
                      /\ current_cluster = ClusterOf(pos + Len(out))

Inv == TypeOK /\ CacheCoherent /\ Request /\ Search /\ Loop /\ OutIsFile

-----------------------------------------------------------------------------
(* Positions and clusters *)

(* A position is a cluster of the file and a place in it.                    *)
LEMMA SplitPosition ==
    ASSUME NEW p \in Nat
    PROVE  /\ p \div ClusterSize \in Nat
           /\ p % ClusterSize \in 0..(ClusterSize - 1)
           /\ (p \div ClusterSize) * ClusterSize + (p % ClusterSize) = p
BY SizeAssumption

(* ... and only one.                                                         *)
LEMMA JoinPosition ==
    ASSUME NEW s \in Nat, NEW o \in 0..(ClusterSize - 1)
    PROVE  /\ s * ClusterSize + o \in Nat
           /\ (s * ClusterSize + o) \div ClusterSize = s
           /\ (s * ClusterSize + o) % ClusterSize = o
BY SizeAssumption

(* Later bytes of the same cluster.                                          *)
LEMMA SameCluster ==
    ASSUME NEW p \in Nat, NEW i \in Nat, (p % ClusterSize) + i < ClusterSize
    PROVE  /\ (p + i) \div ClusterSize = p \div ClusterSize
           /\ (p + i) % ClusterSize = (p % ClusterSize) + i
<1> DEFINE s == p \div ClusterSize
           o == p % ClusterSize
           b == s * ClusterSize
<1>1. s \in Nat /\ o \in 0..(ClusterSize - 1) /\ b + o = p
  BY SplitPosition
<1>2. o + i \in 0..(ClusterSize - 1)
  BY <1>1, SizeAssumption
<1>3. b \in Nat
  BY <1>1, SizeAssumption
<1>4. p + i = b + (o + i)
  <2> HIDE DEF b, o, s
  <2> QED BY <1>1, <1>3, SizeAssumption
<1>5. (b + (o + i)) \div ClusterSize = s /\ (b + (o + i)) % ClusterSize = o + i
  <2> HIDE DEF o, s
  <2> QED BY <1>1, <1>2, JoinPosition
<1> QED BY <1>4, <1>5

(* The byte before a cluster boundary is in the cluster before.              *)
LEMMA BeforeBoundary ==
    ASSUME NEW p \in Nat, p > 0
    PROVE  IF p % ClusterSize = 0
             THEN p \div ClusterSize > 0 /\ (p - 1) \div ClusterSize = p \div ClusterSize - 1
             ELSE (p - 1) \div ClusterSize = p \div ClusterSize
<1> DEFINE s == p \div ClusterSize
           o == p % ClusterSize
           b == s * ClusterSize
<1>1. /\ s \in Nat /\ o \in 0..(ClusterSize - 1) /\ b + o = p
      /\ ClusterSize \in Nat \ {0}
  BY SplitPosition, SizeAssumption
<1>2. CASE o = 0
  <2>1. s > 0
    <3>1. s = 0 => b = 0
      BY <1>1
    <3> HIDE DEF s, o, b
    <3> QED BY <1>1, <1>2, <3>1
  <2>2. s - 1 \in Nat /\ ClusterSize - 1 \in 0..(ClusterSize - 1)
    <3> HIDE DEF s
    <3> QED BY <1>1, <2>1
  <2>3. (s - 1) * ClusterSize + (ClusterSize - 1) = p - 1
    <3>1. \A a, k \in Nat : a > 0 => (a - 1) * k = a * k - k
      OBVIOUS
    <3>2. (s - 1) * ClusterSize = b - ClusterSize
      <4> HIDE DEF s
      <4> QED BY <1>1, <2>1, <3>1 DEF b
    <3>3. b \in Nat /\ b = p
      BY <1>1, <1>2
    <3> HIDE DEF b
    <3> QED BY <1>1, <3>2, <3>3
  <2>4. (p - 1) \div ClusterSize = s - 1
    <3> HIDE DEF s
    <3> QED BY <2>2, <2>3, JoinPosition
  <2> QED BY <1>2, <2>1, <2>4
<1>3. CASE o # 0
  <2>1. o - 1 \in 0..(ClusterSize - 1)
    BY <1>1, <1>3
  <2>2. b + (o - 1) = p - 1
    <3>1. b \in Nat
      BY <1>1
    <3> HIDE DEF b, o
    <3> QED BY <1>1, <3>1
  <2>3. (b + (o - 1)) \div ClusterSize = s
    <3> HIDE DEF s, o
    <3> QED BY <1>1, <2>1, JoinPosition
  <2> QED BY <1>3, <2>2, <2>3
<1> QED BY <1>2, <1>3

(* A position of the file lies in a cluster of its chain.                    *)
LEMMA InChain ==
    ASSUME NEW p \in Nat, p < FileSize
    PROVE  /\ p \div ClusterSize \in 0..(Len(Chain) - 1)
           /\ ClusterOf(p) \in Cluster
           /\ ClusterOf(p) < FAT16_CLUSTER_RESERVED_MIN
<1> DEFINE s == p \div ClusterSize
           o == p % ClusterSize
<1>1. s \in Nat /\ o \in Nat /\ s * ClusterSize + o = p
  BY SplitPosition, SizeAssumption
<1>2. /\ Len(Chain) \in Nat /\ ClusterSize \in Nat \ {0} /\ FileSize \in Nat
      /\ FileSize <= ClusterSize * Len(Chain)
  BY ChainAssumption, SizeAssumption, LenProperties
<1>3. s < Len(Chain)
  <2>1. \A a, b, k, y \in Nat : k > 0 /\ a * k + y < k * b => a < b
    OBVIOUS
  <2>2. s * ClusterSize + o < ClusterSize * Len(Chain)
    <3> DEFINE z == ClusterSize * Len(Chain)
    <3>1. z \in Nat /\ FileSize <= z
      BY <1>2
    <3> HIDE DEF z
    <3>2. s * ClusterSize + o < z
      BY <1>1, <1>2, <3>1
    <3> QED BY <3>2 DEF z
  <2> HIDE DEF s, o
  <2> QED BY <1>1, <1>2, <2>1, <2>2
<1>4. s + 1 \in 1..Len(Chain) /\ s \in 0..(Len(Chain) - 1)
  <2> HIDE DEF s
  <2> QED BY <1>1, <1>2, <1>3
<1>5. /\ Chain[s + 1] \in 2..(FAT16_CLUSTER_RESERVED_MIN - 1)
      /\ Chain[s + 1] \in DOMAIN fat
  <2> HIDE DEF s
  <2> QED BY <1>4, ChainAssumption, ElementOfSeq
<1>6. ClusterOf(p) = Chain[s + 1]
  BY DEF ClusterOf
<1>7. ClusterOf(p) \in Cluster /\ ClusterOf(p) < FAT16_CLUSTER_RESERVED_MIN
  <2> HIDE DEF s
  <2>1. Chain[s + 1] \in Cluster
    BY <1>5 DEF Cluster
  <2>2. Chain[s + 1] < FAT16_CLUSTER_RESERVED_MIN
    <3>1. \A c \in 2..(FAT16_CLUSTER_RESERVED_MIN - 1) : c < FAT16_CLUSTER_RESERVED_MIN
      BY DEF FAT16_CLUSTER_RESERVED_MIN
    <3> QED BY <1>5, <3>1
  <2> QED BY <1>6, <2>1, <2>2
<1> QED BY <1>4, <1>7

(* The FAT links each cluster of the chain to the next.                      *)
LEMMA NextInChain ==
    ASSUME NEW s \in Nat, s + 1 < Len(Chain)
    PROVE  fat[Chain[s + 1]] = Chain[s + 2]
<1>1. Len(Chain) \in Nat
  BY ChainAssumption, LenProperties
<1>2. s + 1 \in 1..(Len(Chain) - 1) /\ s + 1 + 1 = s + 2
  BY <1>1
<1> QED BY <1>2, ChainAssumption

-----------------------------------------------------------------------------
(* Steps *)

\* Where the loop of fat16_read is.
Here == pos + Len(out)

(* What is known in the loop.                                                *)
LEMMA HereFacts ==
    ASSUME Inv, pc \in {"loop", "copy"}
    PROVE  /\ pos \in Nat /\ Len(out) \in Nat /\ Here \in Nat
           /\ Len(out) < total_to_read => Here < FileSize
           /\ Here <= FileSize
           /\ total_to_read \in 1..MaxRead /\ Len(out) <= total_to_read
           /\ pos + total_to_read <= FileSize
BY SizeAssumption, LenProperties DEF Inv, TypeOK, Request, Loop, Here

(* fat16_read chooses where to begin its search: at the cached cluster, when *)
(* that is not behind the cursor, or at the first one.                       *)
LEMMA StartFacts ==
    ASSUME Inv, NEW n \in 1..MaxRead, read_start(n)
    PROVE  Inv'
<1> DEFINE total == Least(n, FileSize - pos)
<1>1. /\ pos \in 0..FileSize /\ n \in Nat /\ n > 0 /\ n <= MaxRead
      /\ FileSize \in Nat /\ MaxRead \in Nat
      /\ pc = "idle" /\ out = <<>>
      /\ UNCHANGED <<last_cluster, last_cluster_pos>>
  BY SizeAssumption DEF Inv, TypeOK, Request, read_start
<1>2. /\ total \in 0..MaxRead /\ total <= FileSize - pos
      /\ total = 0 <=> pos = FileSize
  BY <1>1 DEF Least
<1>3. CASE total = 0
  <2>1. /\ pc' = "idle" /\ delivered' = <<>> /\ failed' = FALSE /\ out' = <<>>
        /\ pos' = pos + Len(<<>>) /\ size' = 0
        /\ UNCHANGED <<current_cluster, clusters_to_skip, total_to_read>>
    BY <1>3 DEF read_start, Return
  <2>2. pos' = pos
    BY <1>1, <2>1, EmptySeq
  <2>3. TypeOK'
    <3>1. 0 \in 0..MaxRead
      BY <1>1
    <3> QED BY <1>1, <2>1, <2>2, <3>1, EmptySeq DEF Inv, TypeOK
  <2>4. CacheCoherent'
    BY <1>1 DEF Inv, CacheCoherent, ClusterOf
  <2>5. Request' /\ Search' /\ Loop' /\ OutIsFile'
    BY <2>1, EmptySeq DEF Request, Search, Loop, OutIsFile
  <2> QED BY <2>3, <2>4, <2>5 DEF Inv
<1>4. CASE total # 0
  <2> DEFINE cached == pos >= last_cluster_pos
             from == IF cached THEN last_cluster_pos ELSE 0
             j == from \div ClusterSize
             k == (pos - from) \div ClusterSize
  <2>1. /\ pc' = "skip" /\ total_to_read' = total /\ size' = n
        /\ current_cluster' = IF cached THEN last_cluster ELSE Chain[1]
        /\ clusters_to_skip' = k
        /\ UNCHANGED <<pos, out, delivered, failed>>
    BY <1>4 DEF read_start
  <2>2. /\ from \in 0..pos
        /\ pos < FileSize
        /\ from % ClusterSize = 0
        /\ current_cluster' = ClusterOf(from)
    <3>1. CASE cached
      BY <1>1, <1>2, <1>4, <2>1, <3>1 DEF Inv, TypeOK, CacheCoherent
    <3>2. CASE ~cached
      <4>1. 0 \div ClusterSize = 0 /\ 0 % ClusterSize = 0
        BY SizeAssumption
      <4> QED BY <1>1, <1>2, <1>4, <2>1, <3>2, <4>1 DEF ClusterOf
    <3> QED BY <3>1, <3>2
  <2>3. /\ j \in Nat /\ j * ClusterSize = from
        /\ k \in Nat
        /\ pos \div ClusterSize = j + k
    <3> HIDE DEF from
    <3>1. j \in Nat /\ j * ClusterSize + 0 = from
      BY <1>1, <2>2, SplitPosition
    <3> DEFINE d == pos - from
               o == d % ClusterSize
    <3>2. d \in Nat
      BY <1>1, <2>2
    <3>3. k \in Nat /\ o \in 0..(ClusterSize - 1) /\ k * ClusterSize + o = d
      <4>1. k = d \div ClusterSize
        OBVIOUS
      <4> HIDE DEF d, k
      <4> QED BY <3>2, <4>1, SplitPosition
    <3>4. \A a, b, c \in Nat : (a + b) * c = a * c + b * c
      OBVIOUS
    <3>5. (j + k) * ClusterSize + o = pos
      <4> DEFINE x == j * ClusterSize
                 y == k * ClusterSize
      <4>1. x \in Nat /\ y \in Nat /\ x = from /\ y + o = pos - from
        BY <3>1, <3>3, SizeAssumption
      <4>2. (j + k) * ClusterSize = x + y
        <5> HIDE DEF j, k
        <5> QED BY <3>1, <3>3, <3>4, SizeAssumption
      <4> HIDE DEF x, y, j, k, o
      <4> QED BY <1>1, <2>2, <3>3, <4>1, <4>2, SizeAssumption
    <3>6. ((j + k) * ClusterSize + o) \div ClusterSize = j + k
      <4> HIDE DEF j, k, o
      <4> QED BY <3>1, <3>3, JoinPosition
    <3>7. j * ClusterSize = from
      <4> DEFINE x == j * ClusterSize
      <4>1. x \in Nat /\ x + 0 = from
        BY <3>1, SizeAssumption
      <4> HIDE DEF x
      <4>2. x = from
        BY <4>1
      <4> QED BY <4>2 DEF x
    <3> QED BY <3>1, <3>3, <3>5, <3>6, <3>7
  <2> HIDE DEF k, j, from, total
  <2>4. current_cluster' = Chain[j + 1] /\ current_cluster' \in Cluster
    <3>1. from \in Nat /\ from < FileSize
      BY <1>1, <2>2
    <3> QED BY <2>2, <3>1, InChain DEF ClusterOf, j
  <2>5. j = pos \div ClusterSize - clusters_to_skip'
    BY <2>1, <2>3
  <2>6. TypeOK'
    BY <1>1, <1>2, <2>1, <2>3, <2>4 DEF Inv, TypeOK
  <2>7. CacheCoherent'
    BY <1>1 DEF Inv, CacheCoherent, ClusterOf
  <2>8. Search'
    <3>1. clusters_to_skip' <= pos \div ClusterSize
      BY <2>1, <2>3
    <3> QED BY <2>1, <2>4, <2>5, <3>1 DEF Search
  <2>9. Request' /\ Loop' /\ OutIsFile'
    <3>1. total > 0 /\ pos + total <= FileSize /\ total = Least(n, FileSize - pos)
      BY <1>1, <1>2, <1>4 DEF total
    <3> QED BY <1>1, <2>1, <3>1, EmptySeq DEF Request, Loop, OutIsFile
  <2> QED BY <2>6, <2>7, <2>8, <2>9 DEF Inv
<1> QED BY <1>3, <1>4

\* What a step of fat16_read shows its caller: nothing, or at the end all it
\* copied, which is what was asked for unless the disk failed.
Outcome ==
    IF pc' = "idle"
      THEN /\ delivered' = out
           /\ pos' = pos + Len(out)
           /\ failed' \in BOOLEAN
           /\ failed' = FALSE => Len(out) = total_to_read
           /\ size' = 0
      ELSE UNCHANGED <<pos, size, delivered, failed>>

(* A return leaves the cache alone, and the cursor in the file.              *)
LEMMA ReturnFacts ==
    ASSUME Inv, pc # "idle", NEW fault \in BOOLEAN, Return(out, fault),
           UNCHANGED <<last_cluster, last_cluster_pos>>,
           fault = FALSE => Len(out) = total_to_read
    PROVE  Inv' /\ Outcome
<1>1. /\ pc' = "idle" /\ out' = <<>> /\ delivered' = out /\ failed' = fault
      /\ pos' = pos + Len(out) /\ size' = 0
      /\ UNCHANGED <<current_cluster, clusters_to_skip, total_to_read>>
  BY DEF Return
<1>2. pos + Len(out) \in 0..FileSize
  <2>1. CASE pc = "skip"
    BY <2>1, SizeAssumption, EmptySeq DEF Inv, TypeOK, Request
  <2>2. CASE pc \in {"loop", "copy"}
    BY <2>2, HereFacts, SizeAssumption DEF Here
  <2> QED BY <2>1, <2>2 DEF Inv, TypeOK
<1>3. TypeOK'
  <2>1. 0 \in 0..MaxRead
    BY SizeAssumption
  <2> QED BY <1>1, <1>2, <2>1, EmptySeq DEF Inv, TypeOK
<1>4. CacheCoherent'
  BY DEF Inv, CacheCoherent, ClusterOf
<1>5. Request' /\ Search' /\ Loop' /\ OutIsFile'
  BY <1>1, EmptySeq DEF Request, Search, Loop, OutIsFile
<1> QED BY <1>1, <1>3, <1>4, <1>5 DEF Inv, Outcome

(* One link of the chain, or a failed read of the FAT.                       *)
LEMMA SkipFacts ==
    ASSUME Inv, read_skip
    PROVE  Inv' /\ Outcome
<1> DEFINE s == pos \div ClusterSize - clusters_to_skip
<1>1. /\ pc = "skip" /\ clusters_to_skip \in Nat /\ clusters_to_skip > 0
      /\ UNCHANGED <<last_cluster, last_cluster_pos>>
  BY DEF read_skip, Inv, TypeOK
<1>2. /\ pos \in Nat /\ pos < FileSize /\ out = <<>>
  BY <1>1, SizeAssumption DEF Inv, TypeOK, Request
<1>3. /\ pos \div ClusterSize \in Nat
      /\ pos \div ClusterSize \in 0..(Len(Chain) - 1)
      /\ Len(Chain) \in Nat
  BY <1>2, InChain, SplitPosition, ChainAssumption, LenProperties
<1>4. /\ clusters_to_skip <= pos \div ClusterSize
      /\ current_cluster = Chain[s + 1]
  BY <1>1 DEF Inv, Search
<1>5. s \in Nat /\ s + 1 < Len(Chain)
  BY <1>1, <1>3, <1>4
<1>6. fat[current_cluster] = Chain[s + 2] /\ s + 2 \in 1..Len(Chain)
  <2> HIDE DEF s
  <2> QED BY <1>3, <1>4, <1>5, NextInChain
<1>7. /\ Chain[s + 2] \in 2..(FAT16_CLUSTER_RESERVED_MIN - 1)
      /\ Chain[s + 2] \in DOMAIN fat
  <2> HIDE DEF s
  <2> QED BY <1>6, ChainAssumption, ElementOfSeq
<1>8. /\ fat[current_cluster] \in Cluster
      /\ ~ (fat[current_cluster] >= FAT16_CLUSTER_LAST_MIN)
  <2>1. \A c \in 2..(FAT16_CLUSTER_RESERVED_MIN - 1) : ~ (c >= FAT16_CLUSTER_LAST_MIN)
    BY DEF FAT16_CLUSTER_RESERVED_MIN, FAT16_CLUSTER_LAST_MIN
  <2> HIDE DEF s
  <2>2. Chain[s + 2] \in Cluster
    BY <1>7 DEF Cluster
  <2> QED BY <1>6, <1>7, <2>1, <2>2
<1>9. PICK r \in fat16_get_fat_entry(current_cluster, "skip") :
        IF r.entry >= FAT16_CLUSTER_LAST_MIN
          THEN Return(<<>>, r.fault)
          ELSE /\ current_cluster' = r.entry
               /\ clusters_to_skip' = clusters_to_skip - 1
               /\ UNCHANGED <<pc, pos, size, total_to_read, out, delivered, failed>>
  BY DEF read_skip
<1>10. CASE r = [entry |-> FAT_ERROR, fault |-> TRUE]
  <2>1. r.entry >= FAT16_CLUSTER_LAST_MIN /\ r.fault = TRUE
    BY <1>10 DEF FAT_ERROR, FAT16_CLUSTER_LAST_MIN
  <2>2. Return(out, TRUE)
    BY <1>2, <1>9, <2>1
  <2> QED BY <1>1, <2>2, ReturnFacts
<1>11. CASE r = [entry |-> fat[current_cluster], fault |-> FALSE]
  <2>1. /\ current_cluster' = fat[current_cluster]
        /\ clusters_to_skip' = clusters_to_skip - 1
        /\ UNCHANGED <<pc, pos, size, total_to_read, out, delivered, failed>>
    BY <1>8, <1>9, <1>11
  <2>2. TypeOK'
    BY <1>1, <1>8, <2>1 DEF Inv, TypeOK
  <2>3. Search'
    <3>1. /\ pos' \div ClusterSize - clusters_to_skip' + 1 = s + 2
          /\ clusters_to_skip' <= pos' \div ClusterSize
      BY <1>1, <1>3, <1>4, <2>1
    <3> QED BY <1>6, <2>1, <3>1 DEF Search
  <2>4. CacheCoherent' /\ Request' /\ Loop' /\ OutIsFile'
    BY <1>1, <2>1
       DEF Inv, CacheCoherent, ClusterOf, Request, Loop, OutIsFile, Byte
  <2>5. pc' = "skip"
    BY <1>1, <2>1
  <2> QED BY <2>1, <2>2, <2>3, <2>4, <2>5 DEF Inv, Outcome
<1> QED BY <1>9, <1>10, <1>11 DEF fat16_get_fat_entry

(* The cluster of the cursor is found: the cache gets it.                    *)
LEMMA FoundFacts ==
    ASSUME Inv, read_found
    PROVE  Inv' /\ Outcome
<1> DEFINE s == pos \div ClusterSize
<1>1. /\ pc = "skip" /\ clusters_to_skip = 0
      /\ pos \in Nat /\ pos < FileSize /\ out = <<>>
  BY SizeAssumption DEF read_found, Inv, TypeOK, Request
<1>2. /\ s \in Nat /\ s \in 0..(Len(Chain) - 1) /\ Len(Chain) \in Nat
      /\ ClusterOf(pos) \in Cluster /\ ClusterOf(pos) < FAT16_CLUSTER_RESERVED_MIN
  BY <1>1, InChain, SplitPosition, ChainAssumption, LenProperties
<1>3. current_cluster = ClusterOf(pos)
  <2>1. current_cluster = Chain[s - 0 + 1] /\ s - 0 + 1 = s + 1
    BY <1>1, <1>2 DEF Inv, Search
  <2> QED BY <2>1 DEF ClusterOf
<1>4. ~ (current_cluster >= FAT16_CLUSTER_RESERVED_MIN)
  <2>1. ClusterOf(pos) \in Int
    <3>1. s + 1 \in 1..Len(Chain)
      BY <1>2
    <3> HIDE DEF s
    <3>2. Chain[s + 1] \in 2..(FAT16_CLUSTER_RESERVED_MIN - 1)
      BY <3>1, ChainAssumption, ElementOfSeq
    <3> QED BY <3>2 DEF ClusterOf, s
  <2> HIDE DEF s
  <2> QED BY <1>2, <1>3, <2>1 DEF FAT16_CLUSTER_RESERVED_MIN
<1>5. /\ pc' = "loop"
      /\ last_cluster' = current_cluster
      /\ last_cluster_pos' = s * ClusterSize
      /\ UNCHANGED <<pos, current_cluster, clusters_to_skip, size, total_to_read,
                     out, delivered, failed>>
  BY <1>4 DEF read_found, local
<1>6. /\ last_cluster_pos' \in 0..FileSize
      /\ last_cluster_pos' % ClusterSize = 0
      /\ last_cluster_pos' \div ClusterSize = s
  <2> DEFINE z == s * ClusterSize
             o == pos % ClusterSize
  <2>1. z \in Nat /\ o \in Nat /\ z + o = pos /\ FileSize \in Nat
    <3>1. z + o = pos /\ o \in Nat
      BY <1>1, SplitPosition, SizeAssumption
    <3>2. z \in Nat /\ FileSize \in Nat
      <4> HIDE DEF s
      <4> QED BY <1>2, SizeAssumption
    <3> QED BY <3>1, <3>2
  <2>2. z \in 0..FileSize
    <3> HIDE DEF z, o
    <3> QED BY <1>1, <2>1
  <2>3. (z + 0) \div ClusterSize = s /\ (z + 0) % ClusterSize = 0 /\ z + 0 = z
    <3>1. 0 \in 0..(ClusterSize - 1)
      BY SizeAssumption
    <3>2. z + 0 = z
      <4> HIDE DEF z
      <4> QED BY <2>1
    <3> HIDE DEF s
    <3> QED BY <1>2, <3>1, <3>2, JoinPosition
  <2> HIDE DEF s
  <2> QED BY <1>5, <2>2, <2>3
<1>7. TypeOK'
  <2> HIDE DEF s
  <2> QED BY <1>2, <1>3, <1>5, <1>6 DEF Inv, TypeOK
<1>8. CacheCoherent'
  <2>1. s < Len(Chain)
    BY <1>2
  <2>2. ClusterOf(last_cluster_pos') = ClusterOf(pos)
    BY <1>6 DEF ClusterOf
  <2>3. last_cluster' = ClusterOf(last_cluster_pos')
    BY <1>3, <1>5, <2>2
  <2> HIDE DEF s
  <2> QED BY <1>6, <2>1, <2>3 DEF CacheCoherent, ClusterOf
<1>9. Request' /\ Search' /\ Loop' /\ OutIsFile'
  <2> HIDE DEF s
  <2>1. Len(out) = 0
    BY <1>1, EmptySeq
  <2>2. Request' /\ Search' /\ OutIsFile'
    BY <1>1, <1>5, <2>1 DEF Inv, Request, Search, OutIsFile
  <2>3. Len(out') <= total_to_read'
    BY <1>1, <1>5, <2>1, SizeAssumption DEF Inv, TypeOK, Request
  <2>4. Loop'
    BY <1>1, <1>3, <1>5, <2>3 DEF Loop, ClusterOf
  <2> QED BY <2>2, <2>4
<1> QED BY <1>5, <1>7, <1>8, <1>9 DEF Inv, Outcome

(* At the top of the loop: the cluster in hand, or at a boundary the next of *)
(* the chain, which the cache gets too.                                      *)
LEMMA AdvanceFacts ==
    ASSUME Inv, read_advance, "advance" \notin Faults
    PROVE  Inv' /\ Outcome
<1> DEFINE s == Here \div ClusterSize
<1>1. /\ pc = "loop" /\ Len(out) < total_to_read
      /\ UNCHANGED <<clusters_to_skip, total_to_read>>
  BY DEF read_advance, total_read
<1>2. /\ pos \in Nat /\ Len(out) \in Nat /\ Here \in Nat /\ Here < FileSize
      /\ Here = pos + Len(out)
  BY <1>1, HereFacts DEF Here
<1>3. /\ s \in 0..(Len(Chain) - 1) /\ Len(Chain) \in Nat
      /\ ClusterOf(Here) \in Cluster /\ ClusterOf(Here) < FAT16_CLUSTER_RESERVED_MIN
      /\ ClusterOf(Here) = Chain[s + 1]
  BY <1>2, InChain, ChainAssumption, LenProperties DEF ClusterOf
<1>4. CASE Len(out) > 0 /\ Here % ClusterSize = 0
  <2>1. current_cluster = ClusterOf(Here - 1)
    <3>1. out # <<>>
      BY <1>4, EmptySeq
    <3>2. (IF out = <<>> THEN pos ELSE pos + Len(out) - 1) = Here - 1
      BY <1>2, <3>1
    <3> QED BY <1>1, <3>2 DEF Inv, Loop, ClusterOf
  <2>2. s > 0 /\ (Here - 1) \div ClusterSize = s - 1
    <3>1. Here > 0
      BY <1>2, <1>4
    <3> QED BY <1>2, <1>4, <3>1, BeforeBoundary
  <2>3. /\ current_cluster = Chain[(s - 1) + 1]
        /\ s - 1 \in Nat /\ (s - 1) + 1 < Len(Chain) /\ (s - 1) + 2 = s + 1
    <3>1. current_cluster = Chain[(s - 1) + 1]
      BY <2>1, <2>2 DEF ClusterOf
    <3> HIDE DEF s
    <3> QED BY <1>3, <2>2, <3>1
  <2>4. fat[current_cluster] = ClusterOf(Here)
    <3> HIDE DEF s
    <3>1. fat[Chain[(s - 1) + 1]] = Chain[(s - 1) + 2]
      BY <2>3, NextInChain
    <3> QED BY <1>3, <2>3, <3>1
  <2>5. PICK r \in fat16_get_fat_entry(current_cluster, "advance") :
          /\ current_cluster' = r.entry
          /\ last_cluster' = r.entry
          /\ last_cluster_pos' = Here
          /\ IF r.entry >= FAT16_CLUSTER_RESERVED_MIN
               THEN /\ pc' = "idle"
                    /\ pos' = Here
                    /\ delivered' = out
                    /\ failed' = r.fault
                    /\ out' = <<>>
                    /\ size' = 0
               ELSE /\ pc' = "copy"
                    /\ UNCHANGED <<pos, delivered, failed, out, size>>
    BY <1>4 DEF read_advance, total_read, Here
  <2>6. r.entry = ClusterOf(Here)
    BY <2>4, <2>5 DEF fat16_get_fat_entry
  <2>7. ~ (ClusterOf(Here) >= FAT16_CLUSTER_RESERVED_MIN)
    <3>1. s + 1 \in 1..Len(Chain)
      <4> HIDE DEF s
      <4> QED BY <1>3
    <3> HIDE DEF s
    <3>2. Chain[s + 1] \in 2..(FAT16_CLUSTER_RESERVED_MIN - 1)
      BY <3>1, ChainAssumption, ElementOfSeq
    <3>3. \A c \in 2..(FAT16_CLUSTER_RESERVED_MIN - 1) : ~ (c >= FAT16_CLUSTER_RESERVED_MIN)
      BY DEF FAT16_CLUSTER_RESERVED_MIN
    <3> QED BY <1>3, <3>2, <3>3
  <2>8. /\ current_cluster' = ClusterOf(Here)
        /\ last_cluster' = ClusterOf(Here)
        /\ last_cluster_pos' = Here
        /\ pc' = "copy"
        /\ UNCHANGED <<pos, delivered, failed, out, size>>
    BY <2>5, <2>6, <2>7
  <2>9. TypeOK'
    <3>1. Here \in 0..FileSize
      BY <1>2, SizeAssumption
    <3> QED BY <1>1, <1>3, <2>8, <3>1 DEF Inv, TypeOK
  <2>10. CacheCoherent'
    <3>1. s < Len(Chain)
      <4> HIDE DEF s
      <4> QED BY <1>3
    <3> QED BY <1>4, <2>8, <3>1 DEF CacheCoherent, ClusterOf
  <2>11. Request' /\ Search' /\ OutIsFile'
    BY <1>1, <2>8 DEF Inv, Request, Search, OutIsFile, Byte, ClusterOf
  <2>12. Loop'
    BY <1>1, <1>2, <2>8 DEF Inv, Loop, ClusterOf
  <2> QED BY <2>8, <2>9, <2>10, <2>11, <2>12 DEF Inv, Outcome
<1>5. CASE ~ (Len(out) > 0 /\ Here % ClusterSize = 0)
  <2>1. pc' = "copy" /\ UNCHANGED <<desc, current_cluster, delivered, failed, out, size>>
    BY <1>5 DEF read_advance, total_read, Here
  <2>2. current_cluster = ClusterOf(Here)
    <3>1. CASE Len(out) = 0
      <4>1. out = <<>> /\ Here = pos
        BY <1>2, <3>1, EmptySeq DEF Inv, TypeOK
      <4> QED BY <1>1, <4>1 DEF Inv, Loop
    <3>2. CASE Len(out) > 0
      <4>1. out # <<>> /\ Here > 0
        BY <1>2, <3>2, EmptySeq
      <4>2. current_cluster = ClusterOf(Here - 1)
        <5>1. (IF out = <<>> THEN pos ELSE pos + Len(out) - 1) = Here - 1
          BY <1>2, <4>1
        <5> QED BY <1>1, <5>1 DEF Inv, Loop, ClusterOf
      <4>3. (Here - 1) \div ClusterSize = Here \div ClusterSize
        BY <1>2, <1>5, <3>2, <4>1, BeforeBoundary
      <4> QED BY <4>2, <4>3 DEF ClusterOf
    <3> QED BY <1>2, <3>1, <3>2
  <2>3. TypeOK' /\ CacheCoherent'
    BY <1>1, <2>1 DEF Inv, TypeOK, CacheCoherent, ClusterOf, desc
  <2>4. Request' /\ Search' /\ OutIsFile'
    BY <1>1, <2>1 DEF Inv, Request, Search, OutIsFile, Byte, ClusterOf, desc
  <2>5. Loop'
    BY <1>1, <1>2, <2>1, <2>2 DEF Inv, Loop, ClusterOf, desc
  <2> QED BY <2>1, <2>3, <2>4, <2>5 DEF Inv, Outcome, desc
<1> QED BY <1>4, <1>5

\* What the loop copies in one round.
Offset == Here % ClusterSize
Chunk  == Least(ClusterSize - Offset, total_to_read - Len(out))
Part   == [i \in 1..Chunk |-> <<current_cluster, Offset + i - 1>>]

(* The bytes copied in a round are those of the file at that position.       *)
LEMMA PartFacts ==
    ASSUME Inv, pc = "copy"
    PROVE  /\ Chunk \in 1..(total_to_read - Len(out))
           /\ Part \in Seq(Cluster \X (0..(ClusterSize - 1)))
           /\ Len(Part) = Chunk
           /\ \A i \in 1..Chunk : Part[i] = Byte(Here + i - 1)
           /\ ClusterOf(Here + Chunk - 1) = current_cluster
<1>1. /\ Here \in Nat /\ Here < FileSize
      /\ Len(out) \in Nat /\ total_to_read \in Nat /\ Len(out) < total_to_read
      /\ current_cluster = ClusterOf(Here)
  BY HereFacts, SizeAssumption DEF Inv, Loop, Here
<1>2. /\ Offset \in 0..(ClusterSize - 1) /\ ClusterSize \in Nat \ {0}
      /\ current_cluster \in Cluster
  BY <1>1, SplitPosition, InChain, SizeAssumption DEF Offset
<1>3. /\ Chunk \in 1..(total_to_read - Len(out))
      /\ Chunk <= ClusterSize - Offset
  BY <1>1, <1>2 DEF Chunk, Least
<1>4. \A i \in 1..Chunk : /\ i - 1 \in Nat /\ Offset + (i - 1) < ClusterSize
                          /\ Offset + i - 1 \in 0..(ClusterSize - 1)
                          /\ Offset + i - 1 = Offset + (i - 1)
                          /\ Here + i - 1 = Here + (i - 1)
  BY <1>1, <1>2, <1>3
<1>5. /\ Part \in Seq(Cluster \X (0..(ClusterSize - 1)))
      /\ Len(Part) = Chunk
      /\ \A i \in 1..Chunk : Part[i] = <<current_cluster, Offset + i - 1>>
  <2>1. Part \in [1..Chunk -> Cluster \X (0..(ClusterSize - 1))]
    BY <1>2, <1>4 DEF Part
  <2>2. Chunk \in Nat
    BY <1>1, <1>3
  <2>3. Part \in Seq(Cluster \X (0..(ClusterSize - 1)))
    BY <2>1, <2>2, SeqDef
  <2> QED BY <2>1, <2>2, <2>3, LenProperties DEF Part
<1>6. ASSUME NEW i \in 1..Chunk
      PROVE  /\ (Here + i - 1) \div ClusterSize = Here \div ClusterSize
             /\ (Here + i - 1) % ClusterSize = Offset + i - 1
  <2>1. /\ (Here + (i - 1)) \div ClusterSize = Here \div ClusterSize
        /\ (Here + (i - 1)) % ClusterSize = Offset + (i - 1)
    BY <1>1, <1>4, SameCluster DEF Offset
  <2> QED BY <1>4, <2>1
<1>7. \A i \in 1..Chunk : /\ ClusterOf(Here + i - 1) = current_cluster
                          /\ Byte(Here + i - 1) = <<current_cluster, Offset + i - 1>>
  BY <1>1, <1>6 DEF ClusterOf, Byte
<1>8. Chunk \in 1..Chunk
  BY <1>1, <1>3
<1> QED BY <1>3, <1>5, <1>7, <1>8

(* The rest of a cluster, or of the request, is copied; or its read fails.   *)
LEMMA CopyFacts ==
    ASSUME Inv, read_copy
    PROVE  Inv' /\ Outcome
<1> DEFINE B == Cluster \X (0..(ClusterSize - 1))
<1>1. /\ pc = "copy"
      /\ UNCHANGED <<last_cluster, last_cluster_pos>>
      /\ \/ /\ pc' = "loop"
            /\ out' = out \o Part
            /\ UNCHANGED <<pos, current_cluster, clusters_to_skip, size, total_to_read,
                           delivered, failed>>
         \/ Return(out, TRUE)
  BY DEF read_copy, Part, Chunk, Offset, Here, total_read
<1>2. CASE Return(out, TRUE)
  BY <1>1, <1>2, ReturnFacts
<1>3. CASE /\ pc' = "loop"
           /\ out' = out \o Part
           /\ UNCHANGED <<pos, current_cluster, clusters_to_skip, size, total_to_read,
                          delivered, failed>>
  <2>1. /\ Chunk \in 1..(total_to_read - Len(out))
        /\ Part \in Seq(B)
        /\ Len(Part) = Chunk
        /\ \A i \in 1..Chunk : Part[i] = Byte(Here + i - 1)
        /\ ClusterOf(Here + Chunk - 1) = current_cluster
    BY <1>1, PartFacts
  <2>2. /\ pos \in Nat /\ Len(out) \in Nat /\ total_to_read \in Nat
        /\ Len(out) < total_to_read /\ pos + total_to_read <= FileSize
        /\ FileSize \in Nat /\ Here = pos + Len(out)
    BY <1>1, HereFacts, SizeAssumption DEF Inv, Loop, Here
  <2>3. out \in Seq(B)
    BY DEF Inv, TypeOK
  <2> HIDE DEF B
  <2>4. /\ out' \in Seq(B)
        /\ Len(out') = Len(out) + Chunk
        /\ \A i \in 1..(Len(out) + Chunk) :
             out'[i] = IF i <= Len(out) THEN out[i] ELSE Part[i - Len(out)]
    BY <1>3, <2>1, <2>3, ConcatProperties
  <2>5. Chunk \in Nat /\ Chunk > 0 /\ Len(out) + Chunk <= total_to_read
    BY <2>1, <2>2
  <2>6. ASSUME NEW i \in 1..(Len(out) + Chunk)
        PROVE  pos + i <= FileSize /\ out'[i] = Byte(pos + i - 1)
    <3>1. pos + i <= FileSize
      BY <2>2, <2>5
    <3>2. CASE i <= Len(out)
      <4>1. i \in 1..Len(out) /\ out'[i] = out[i]
        BY <2>2, <2>4, <3>2
      <4> QED BY <3>1, <4>1 DEF Inv, OutIsFile
    <3>3. CASE ~ (i <= Len(out))
      <4> DEFINE j == i - Len(out)
      <4>1. j \in 1..Chunk /\ Here + j - 1 = pos + i - 1
        BY <2>2, <2>5, <3>3
      <4>2. out'[i] = Part[j]
        BY <2>4, <3>3
      <4>3. Part[j] = Byte(Here + j - 1)
        <5> HIDE DEF j
        <5> QED BY <2>1, <4>1
      <4>4. Byte(Here + j - 1) = Byte(pos + i - 1)
        BY <4>1
      <4> QED BY <3>1, <4>2, <4>3, <4>4
    <3> QED BY <3>2, <3>3
  <2>7. TypeOK'
    BY <1>1, <1>3, <2>4 DEF Inv, TypeOK, B
  <2>8. CacheCoherent' /\ Search'
    BY <1>1, <1>3 DEF Inv, CacheCoherent, ClusterOf, Search
  <2>9. Request'
    BY <1>1, <1>3 DEF Inv, Request
  <2>10. Loop'
    <3>1. out' # <<>> /\ Len(out') <= total_to_read
      BY <2>2, <2>4, <2>5, EmptySeq
    <3>2. pos + Len(out') - 1 = Here + Chunk - 1
      BY <2>2, <2>4, <2>5
    <3>3. current_cluster = ClusterOf(pos + Len(out') - 1)
      BY <2>1, <3>2
    <3> QED BY <1>3, <3>1, <3>3 DEF Loop, ClusterOf
  <2>11. OutIsFile'
    <3>1. \A i \in 1..Len(out') : pos + i <= FileSize /\ out'[i] = Byte(pos + i - 1)
      BY <2>4, <2>6
    <3> QED BY <1>3, <3>1 DEF OutIsFile, Byte, ClusterOf
  <2> QED BY <1>3, <2>7, <2>8, <2>9, <2>10, <2>11 DEF Inv, Outcome
<1> QED BY <1>1, <1>2, <1>3

(* All was copied.                                                           *)
LEMMA EndFacts ==
    ASSUME Inv, read_end
    PROVE  Inv' /\ Outcome
BY ReturnFacts DEF read_end, total_read

(* A seek is refused or stays in the file; the cache need not know.          *)
LEMMA SeekFacts ==
    ASSUME Inv, Seek
    PROVE  /\ Inv'
           /\ pos' \in 0..FileSize
           /\ UNCHANGED <<size, delivered, failed>>
<1>1. PICK offset \in (-MaxSeek)..MaxSeek, base \in {0, pos, FileSize} :
        fat16_seek(base, offset)
  BY DEF Seek
<1>2. /\ pc = "idle" /\ pos' \in 0..FileSize
      /\ UNCHANGED <<pc, last_cluster, last_cluster_pos, local, delivered, failed>>
  BY <1>1 DEF fat16_seek
<1>3. TypeOK' /\ CacheCoherent'
  BY <1>2 DEF Inv, TypeOK, CacheCoherent, ClusterOf, local
<1>4. Request' /\ Search' /\ Loop'
  BY <1>2 DEF Inv, Request, Search, Loop, local
<1>5. OutIsFile'
  <2>1. out' = <<>>
    BY <1>2 DEF Inv, Request, local
  <2> QED BY <2>1, EmptySeq DEF OutIsFile
<1>6. UNCHANGED <<size, delivered, failed>>
  BY <1>2 DEF local
<1> QED BY <1>2, <1>3, <1>4, <1>5, <1>6 DEF Inv

(* fat16_open's descriptor caches the first cluster, at position 0.          *)
LEMMA InitEstablishes == Init => Inv
<1> SUFFICES ASSUME Init PROVE Inv
  OBVIOUS
<1>1. /\ 0 \div ClusterSize = 0 /\ 0 % ClusterSize = 0
      /\ 0 \in 0..FileSize /\ 0 \in 0..MaxRead
  BY SizeAssumption
<1>2. /\ 1 \in 1..Len(Chain) /\ 0 < Len(Chain)
      /\ Chain[1] \in DOMAIN fat
  <2>1. 1 \in 1..Len(Chain) /\ 0 < Len(Chain)
    BY ChainAssumption, LenProperties
  <2> QED BY <2>1, ChainAssumption
<1>3. TypeOK
  BY <1>1, <1>2, EmptySeq DEF Init, TypeOK, Cluster
<1>4. CacheCoherent
  BY <1>1, <1>2 DEF Init, CacheCoherent, ClusterOf
<1>5. Request /\ Search /\ Loop /\ OutIsFile
  BY EmptySeq DEF Init, Request, Search, Loop, OutIsFile
<1> QED BY <1>3, <1>4, <1>5 DEF Inv

(* A step inside fat16_read.                                                 *)
LEMMA WorkingFacts ==
    ASSUME Inv, Working, "advance" \notin Faults
    PROVE  Inv' /\ Outcome
BY SkipFacts, FoundFacts, AdvanceFacts, CopyFacts, EndFacts DEF Working

(* Every step preserves the invariant while the FAT can be read at cluster   *)
(* boundaries.                                                               *)
LEMMA NextPreserves == "advance" \notin Faults /\ Inv /\ [Next]_vars => Inv'
<1> SUFFICES ASSUME "advance" \notin Faults, Inv, [Next]_vars PROVE Inv'
  OBVIOUS
<1>1. CASE UNCHANGED vars
  BY <1>1 DEF vars, desc, local, Inv, TypeOK, CacheCoherent, Request, Search, Loop,
              OutIsFile, Byte, ClusterOf
<1> QED BY <1>1, WorkingFacts, SeekFacts, StartFacts DEF Next

(* The invariant holds in every reachable state.                             *)
LEMMA Invariance == ASSUME "advance" \notin Faults PROVE Spec => []Inv
BY InitEstablishes, NextPreserves, PTL DEF Spec

(* After any sequence of reads and seeks, and of disk failures outside the   *)
(* one place, the cluster cache agrees with the chain of the file.           *)
THEOREM CacheIsCoherent == ASSUME "advance" \notin Faults PROVE Spec => []CacheCoherent
BY Invariance, PTL DEF Inv

(* No byte of another place of the disk is ever copied.                      *)
THEOREM CopiesTheFile == ASSUME "advance" \notin Faults PROVE Spec => []OutIsFile
BY Invariance, PTL DEF Inv

-----------------------------------------------------------------------------
(* Types, also when the cache is poisoned *)

(* What bounds the cursor does not depend on what the cache holds.           *)
Bounds ==
    /\ pc # "idle" => /\ total_to_read > 0 /\ pos + total_to_read <= FileSize
                      /\ current_cluster \in Cluster
    /\ pc \in {"idle", "skip"} => out = <<>>
    /\ pc \in {"loop", "copy"} => Len(out) <= total_to_read
    /\ pc = "copy" => Len(out) < total_to_read

(* The entry of a cluster is a number the next entry may be asked for.       *)
LEMMA EntryIsCluster ==
    ASSUME "advance" \in Faults, NEW c \in Cluster, NEW kind,
           NEW r \in fat16_get_fat_entry(c, kind)
    PROVE  r.entry \in Cluster /\ r.fault \in BOOLEAN
<1>1. c \in DOMAIN fat
  BY TableAssumption DEF Cluster
<1>2. fat[c] \in Cluster /\ FAT_ERROR \in Cluster
  BY <1>1 DEF Cluster
<1>3. \/ r = [entry |-> fat[c], fault |-> FALSE]
      \/ r = [entry |-> FAT_ERROR, fault |-> TRUE]
  BY DEF fat16_get_fat_entry
<1>4. CASE r = [entry |-> fat[c], fault |-> FALSE]
  <2>1. r.entry = fat[c] /\ r.fault = FALSE
    BY <1>4
  <2> QED BY <1>2, <2>1
<1>5. CASE r = [entry |-> FAT_ERROR, fault |-> TRUE]
  <2>1. r.entry = FAT_ERROR /\ r.fault = TRUE
    BY <1>5
  <2> QED BY <1>2, <2>1
<1> QED BY <1>3, <1>4, <1>5

(* A return leaves the cursor in the file.                                   *)
LEMMA ReturnBounds ==
    ASSUME TypeOK, Bounds, pc # "idle", NEW fault \in BOOLEAN, Return(out, fault),
           UNCHANGED <<last_cluster, last_cluster_pos>>
    PROVE  (TypeOK /\ Bounds)'
<1>1. /\ pc' = "idle" /\ out' = <<>> /\ delivered' = out /\ failed' = fault
      /\ pos' = pos + Len(out) /\ size' = 0
      /\ UNCHANGED <<current_cluster, clusters_to_skip, total_to_read>>
  BY DEF Return
<1>2. pos + Len(out) \in 0..FileSize
  <2>1. Len(out) \in Nat /\ Len(out) <= total_to_read
    BY SizeAssumption, EmptySeq, LenProperties DEF TypeOK, Bounds
  <2> QED BY <2>1, SizeAssumption DEF TypeOK, Bounds
<1>3. 0 \in 0..MaxRead
  BY SizeAssumption
<1> QED BY <1>1, <1>2, <1>3, EmptySeq DEF TypeOK, Bounds

(* No step breaks the types when any of the reads may fail.                  *)
LEMMA BoundsPreserved ==
    ASSUME "advance" \in Faults, TypeOK, Bounds, [Next]_vars
    PROVE  (TypeOK /\ Bounds)'
<1>1. CASE UNCHANGED vars
  BY <1>1 DEF vars, desc, local, TypeOK, Bounds
<1>2. ASSUME NEW n \in 1..MaxRead, read_start(n) PROVE (TypeOK /\ Bounds)'
  <2>1. /\ pos \in 0..FileSize /\ n \in Nat /\ n > 0 /\ n <= MaxRead
        /\ FileSize \in Nat /\ MaxRead \in Nat
        /\ pc = "idle" /\ out = <<>>
        /\ UNCHANGED <<last_cluster, last_cluster_pos>>
    BY <1>2, SizeAssumption DEF TypeOK, Bounds, read_start
  <2> DEFINE total == Least(n, FileSize - pos)
  <2>2. /\ total \in 0..MaxRead /\ total <= FileSize - pos
    BY <2>1 DEF Least
  <2>3. CASE total = 0
    <3>1. /\ pc' = "idle" /\ delivered' = <<>> /\ failed' = FALSE /\ out' = <<>>
          /\ pos' = pos + Len(<<>>) /\ size' = 0
          /\ UNCHANGED <<current_cluster, clusters_to_skip, total_to_read>>
      BY <1>2, <2>3 DEF read_start, Return
    <3>2. pos' = pos /\ 0 \in 0..MaxRead
      BY <2>1, <3>1, EmptySeq
    <3> QED BY <2>1, <3>1, <3>2, EmptySeq DEF TypeOK, Bounds
  <2>4. CASE total # 0
    <3> DEFINE from == IF pos >= last_cluster_pos THEN last_cluster_pos ELSE 0
    <3>1. /\ pc' = "skip" /\ total_to_read' = total /\ size' = n
          /\ current_cluster' = IF pos >= last_cluster_pos THEN last_cluster
                                                           ELSE Chain[1]
          /\ clusters_to_skip' = (pos - from) \div ClusterSize
          /\ UNCHANGED <<pos, out, delivered, failed>>
      BY <1>2, <2>4 DEF read_start
    <3>2. pos - from \in Nat
      BY <2>1 DEF TypeOK
    <3>3. clusters_to_skip' \in Nat
      <4> HIDE DEF from
      <4> QED BY <3>1, <3>2, SplitPosition
    <3>4. current_cluster' \in Cluster
      <4>1. 1 \in 1..Len(Chain) /\ Chain[1] \in DOMAIN fat
        <5>1. 1 \in 1..Len(Chain)
          BY ChainAssumption, LenProperties
        <5> QED BY <5>1, ChainAssumption
      <4> QED BY <3>1, <4>1 DEF TypeOK, Cluster
    <3> HIDE DEF from, total
    <3> QED BY <2>1, <2>2, <2>4, <3>1, <3>3, <3>4, EmptySeq DEF TypeOK, Bounds
  <2> QED BY <2>3, <2>4
<1>3. CASE Seek
  <2>1. /\ pc = "idle" /\ pos' \in 0..FileSize
        /\ UNCHANGED <<pc, last_cluster, last_cluster_pos, local, delivered, failed>>
    BY <1>3 DEF Seek, fat16_seek
  <2> QED BY <2>1 DEF TypeOK, Bounds, local
<1>4. CASE read_skip
  <2>1. PICK r \in fat16_get_fat_entry(current_cluster, "skip") :
          IF r.entry >= FAT16_CLUSTER_LAST_MIN
            THEN Return(<<>>, r.fault)
            ELSE /\ current_cluster' = r.entry
                 /\ clusters_to_skip' = clusters_to_skip - 1
                 /\ UNCHANGED <<pc, pos, size, total_to_read, out, delivered, failed>>
    BY <1>4 DEF read_skip
  <2>2. /\ pc = "skip" /\ clusters_to_skip > 0 /\ out = <<>>
        /\ current_cluster \in Cluster
        /\ UNCHANGED <<last_cluster, last_cluster_pos>>
    BY <1>4 DEF read_skip, Bounds
  <2>3. r.entry \in Cluster /\ r.fault \in BOOLEAN
    BY <2>2, EntryIsCluster
  <2>4. CASE r.entry >= FAT16_CLUSTER_LAST_MIN
    BY <2>1, <2>2, <2>3, <2>4, ReturnBounds
  <2>5. CASE ~(r.entry >= FAT16_CLUSTER_LAST_MIN)
    <3>1. /\ current_cluster' = r.entry /\ clusters_to_skip' = clusters_to_skip - 1
          /\ UNCHANGED <<pc, pos, size, total_to_read, out, delivered, failed,
                         last_cluster, last_cluster_pos>>
      BY <2>1, <2>2, <2>5
    <3>2. clusters_to_skip' \in Nat /\ current_cluster' \in Cluster
      BY <2>2, <2>3, <3>1 DEF TypeOK
    <3> QED BY <2>2, <3>1, <3>2 DEF TypeOK, Bounds
  <2> QED BY <2>4, <2>5
<1>5. CASE read_found
  <2>1. /\ pc = "skip" /\ out = <<>>
    BY <1>5 DEF read_found, Bounds
  <2>2. CASE Return(<<>>, FALSE) /\ UNCHANGED <<last_cluster, last_cluster_pos>>
    BY <2>1, <2>2, ReturnBounds
  <2>3. CASE /\ pc' = "loop"
             /\ last_cluster' = current_cluster
             /\ last_cluster_pos' = (pos \div ClusterSize) * ClusterSize
             /\ UNCHANGED <<pos, local, delivered, failed>>
    <3> DEFINE z == (pos \div ClusterSize) * ClusterSize
               o == pos % ClusterSize
    <3>1. pos \in Nat /\ pos <= FileSize /\ FileSize \in Nat
      BY SizeAssumption DEF TypeOK
    <3>2. z \in Nat /\ o \in Nat /\ z + o = pos
      <4>1. /\ pos \div ClusterSize \in Nat /\ o \in 0..(ClusterSize - 1)
            /\ z + o = pos
        BY <3>1, SplitPosition
      <4>2. \A a, b \in Nat : a * b \in Nat
        OBVIOUS
      <4>3. z \in Nat
        BY <4>1, <4>2, SizeAssumption
      <4> QED BY <4>1, <4>3
    <3>3. last_cluster_pos' \in 0..FileSize
      <4>1. last_cluster_pos' = z
        BY <2>3
      <4> HIDE DEF z, o
      <4> QED BY <3>1, <3>2, <4>1
    <3>4. Len(out) = 0 /\ total_to_read \in Nat
      BY <2>1, EmptySeq, SizeAssumption DEF TypeOK
    <3> HIDE DEF z, o
    <3> QED BY <2>1, <2>3, <3>3, <3>4 DEF TypeOK, Bounds, local
  <2> QED BY <1>5, <2>2, <2>3 DEF read_found
<1>6. CASE read_advance
  <2>1. /\ pc = "loop" /\ Len(out) < total_to_read /\ Len(out) \in Nat
        /\ pos \in 0..FileSize /\ FileSize \in Nat /\ total_to_read \in Nat
        /\ pos + total_to_read <= FileSize /\ current_cluster \in Cluster
        /\ UNCHANGED <<clusters_to_skip, total_to_read>>
    BY <1>6, SizeAssumption, LenProperties
       DEF read_advance, total_read, TypeOK, Bounds
  <2>2. /\ pos + Len(out) \in 0..FileSize /\ 0 \in 0..MaxRead
    BY <2>1, SizeAssumption
  <2>3. CASE Len(out) > 0 /\ (pos + Len(out)) % ClusterSize = 0
    <3>1. PICK r \in fat16_get_fat_entry(current_cluster, "advance") :
            /\ current_cluster' = r.entry
            /\ last_cluster' = r.entry
            /\ last_cluster_pos' = pos + Len(out)
            /\ IF r.entry >= FAT16_CLUSTER_RESERVED_MIN
                 THEN /\ pc' = "idle"
                      /\ pos' = pos + Len(out)
                      /\ delivered' = out
                      /\ failed' = r.fault
                      /\ out' = <<>>
                      /\ size' = 0
                 ELSE /\ pc' = "copy"
                      /\ UNCHANGED <<pos, delivered, failed, out, size>>
      BY <1>6, <2>3 DEF read_advance, total_read
    <3>2. r.entry \in Cluster /\ r.fault \in BOOLEAN
      BY <2>1, EntryIsCluster
    <3> QED BY <2>1, <2>2, <3>1, <3>2, EmptySeq DEF TypeOK, Bounds
  <2>4. CASE ~(Len(out) > 0 /\ (pos + Len(out)) % ClusterSize = 0)
    <3>1. pc' = "copy" /\ UNCHANGED <<desc, current_cluster, delivered, failed, out, size>>
      BY <1>6, <2>4 DEF read_advance, total_read
    <3> QED BY <2>1, <3>1 DEF TypeOK, Bounds, desc
  <2> QED BY <2>3, <2>4
<1>7. CASE read_copy
  <2> DEFINE here == pos + Len(out)
             o == here % ClusterSize
             n == Least(ClusterSize - o, total_to_read - Len(out))
             part == [i \in 1..n |-> <<current_cluster, o + i - 1>>]
             B == Cluster \X (0..(ClusterSize - 1))
  <2>1. /\ pc = "copy" /\ UNCHANGED <<last_cluster, last_cluster_pos>>
        /\ \/ /\ pc' = "loop" /\ out' = out \o part
              /\ UNCHANGED <<pos, current_cluster, clusters_to_skip, size,
                             total_to_read, delivered, failed>>
           \/ Return(out, TRUE)
    BY <1>7 DEF read_copy, total_read
  <2>2. CASE Return(out, TRUE)
    BY <2>1, <2>2, ReturnBounds
  <2>3. CASE /\ pc' = "loop" /\ out' = out \o part
             /\ UNCHANGED <<pos, current_cluster, clusters_to_skip, size,
                            total_to_read, delivered, failed>>
    <3>1. /\ here \in Nat /\ Len(out) \in Nat /\ total_to_read \in Nat
          /\ Len(out) < total_to_read /\ out \in Seq(B)
          /\ ClusterSize \in Nat \ {0} /\ current_cluster \in Cluster
      BY <2>1, SizeAssumption, LenProperties DEF TypeOK, Bounds
    <3>2. o \in 0..(ClusterSize - 1)
      <4> HIDE DEF here
      <4> QED BY <3>1, SplitPosition
    <3>3. n \in Nat /\ n <= total_to_read - Len(out) /\ n <= ClusterSize - o
      <4> HIDE DEF o
      <4> QED BY <3>1, <3>2 DEF Least
    <3>4. part \in [1..n -> B]
      <4> HIDE DEF o, n
      <4>1. \A i \in 1..n : o + i - 1 \in 0..(ClusterSize - 1)
        BY <3>1, <3>2, <3>3
      <4> QED BY <3>1, <4>1
    <3>5. part \in Seq(B) /\ Len(part) = n
      <4> HIDE DEF part, n, B
      <4>1. part \in Seq(B)
        BY <3>3, <3>4, SeqDef
      <4> QED BY <3>3, <3>4, <4>1, LenProperties
    <3>6. out' \in Seq(B) /\ Len(out') = Len(out) + n
      <4> HIDE DEF part, n, B
      <4> QED BY <2>3, <3>1, <3>5, ConcatProperties
    <3>7. Len(out') <= total_to_read
      <4> HIDE DEF n
      <4> QED BY <3>1, <3>3, <3>6
    <3> HIDE DEF n, part, o, here
    <3> QED BY <2>1, <2>3, <3>6, <3>7 DEF TypeOK, Bounds
  <2> QED BY <2>1, <2>2, <2>3
<1>8. CASE read_end
  BY <1>8, ReturnBounds DEF read_end
<1> QED BY <1>1, <1>2, <1>3, <1>4, <1>5, <1>6, <1>7, <1>8 DEF Next, Working

(* Type correctness, whichever disk reads fail: the cursor never leaves the  *)
(* file, and a read copies bytes of clusters only.                           *)
THEOREM TypeCorrect == Spec => []TypeOK
<1>1. CASE "advance" \in Faults
  <2>1. Init => TypeOK /\ Bounds
    BY InitEstablishes, EmptySeq DEF Inv, Bounds, Init
  <2>2. TypeOK /\ Bounds /\ [Next]_vars => (TypeOK /\ Bounds)'
    BY <1>1, BoundsPreserved
  <2> QED BY <2>1, <2>2, PTL DEF Spec
<1>2. CASE "advance" \notin Faults
  <2>1. Spec => []Inv
    BY <1>2, Invariance
  <2> QED BY <2>1, PTL DEF Inv
<1> QED BY <1>1, <1>2

-----------------------------------------------------------------------------
(* What the reader of a file sees *)

(* The file as a sequence.                                                   *)
LEMMA FileIsSeq ==
    /\ File \in Seq(Cluster \X (0..(ClusterSize - 1)))
    /\ Len(File) = FileSize
    /\ \A i \in 1..FileSize : File[i] = Byte(i - 1)
<1>1. \A i \in 1..FileSize : i - 1 \in Nat /\ i - 1 < FileSize
  BY SizeAssumption
<1>2. \A i \in 1..FileSize : Byte(i - 1) \in Cluster \X (0..(ClusterSize - 1))
  BY <1>1, InChain, SplitPosition DEF Byte
<1>3. File \in [1..FileSize -> Cluster \X (0..(ClusterSize - 1))]
  BY <1>2 DEF File
<1>4. File \in Seq(Cluster \X (0..(ClusterSize - 1)))
  BY <1>3, SeqDef, SizeAssumption
<1> QED BY <1>3, <1>4, LenProperties, SizeAssumption DEF File

(* What is copied is a piece of it.                                          *)
LEMMA OutIsSubSeq ==
    ASSUME Inv
    PROVE  out = SubSeq(File, pos + 1, pos + Len(out))
<1> DEFINE B == Cluster \X (0..(ClusterSize - 1))
           sub == SubSeq(File, pos + 1, pos + Len(out))
<1>1. /\ pos \in Nat /\ out \in Seq(B) /\ Len(out) \in Nat
      /\ \A i \in 1..Len(out) : pos + i <= FileSize /\ out[i] = Byte(pos + i - 1)
  BY SizeAssumption, LenProperties DEF Inv, TypeOK, OutIsFile
<1>2. File \in Seq(B) /\ Len(File) = FileSize
  BY FileIsSeq
<1>3. \A i \in 1..FileSize : File[i] = Byte(i - 1)
  BY FileIsSeq
<1> HIDE DEF B
<1>4. ASSUME NEW k \in (pos + 1)..(pos + Len(out))
      PROVE  File[k] \in B
  <2>1. k - pos \in 1..Len(out) /\ pos + (k - pos) = k
    BY <1>1
  <2>2. k \in 1..Len(File)
    BY <1>1, <1>2, <2>1, SizeAssumption
  <2> QED BY <1>2, <2>2, ElementOfSeq
<1>5. /\ sub \in Seq(B)
      /\ Len(sub) = Len(out)
      /\ \A i \in 1..Len(out) : sub[i] = File[pos + 1 + i - 1]
  <2> DEFINE m == pos + 1
             n == pos + Len(out)
  <2>1. /\ m \in Int /\ n \in Int
        /\ (IF m <= n THEN n - m + 1 ELSE 0) = Len(out)
        /\ n - m + 1 = Len(out)
    BY <1>1
  <2>2. \A k \in m..n : File[k] \in B
    BY <1>4
  <2> HIDE DEF m, n
  <2>3. /\ SubSeq(File, m, n) \in Seq(B)
        /\ Len(SubSeq(File, m, n)) = IF m <= n THEN n - m + 1 ELSE 0
        /\ \A i \in 1..(n - m + 1) : SubSeq(File, m, n)[i] = File[m + i - 1]
    BY <2>1, <2>2, SubSeqProperties
  <2>4. /\ SubSeq(File, m, n) \in Seq(B)
        /\ Len(SubSeq(File, m, n)) = Len(out)
        /\ \A i \in 1..Len(out) : SubSeq(File, m, n)[i] = File[m + i - 1]
    BY <2>1, <2>3
  <2> QED BY <2>4 DEF m, n
<1>6. ASSUME NEW i \in 1..Len(out)
      PROVE  sub[i] = out[i]
  <2>1. /\ pos + 1 + i - 1 = pos + i
        /\ pos + i \in 1..FileSize
        /\ pos + i - 1 = (pos + i) - 1
    BY <1>1, SizeAssumption
  <2>2. sub[i] = File[pos + i]
    BY <1>5, <2>1
  <2>3. File[pos + i] = Byte((pos + i) - 1)
    BY <1>3, <2>1
  <2> QED BY <1>1, <2>1, <2>2, <2>3
<1> HIDE DEF sub
<1>7. out = sub
  BY <1>1, <1>5, <1>6, SeqEqual
<1> QED BY <1>7 DEF sub

(* A return of fat16_read delivers what the call asked for, or what is left. *)
LEMMA ReadStep ==
    ASSUME Inv, pc # "idle", pc' = "idle", Outcome
    PROVE  Stream!Deliver
<1>1. /\ size > 0 /\ total_to_read = Least(size, FileSize - pos)
      /\ Len(out) \in Nat /\ Len(out) <= total_to_read /\ total_to_read \in Nat
  <2>1. CASE pc = "skip"
    BY <2>1, EmptySeq, SizeAssumption DEF Inv, TypeOK, Request
  <2>2. CASE pc \in {"loop", "copy"}
    BY <2>2, HereFacts, SizeAssumption DEF Inv, Request
  <2> QED BY <2>1, <2>2 DEF Inv, TypeOK
<1>2. Stream!Least(size, Len(File) - pos) = total_to_read
  BY <1>1, FileIsSeq DEF Stream!Least, Least
<1>3. Len(out) \in 0..Stream!Least(size, Len(File) - pos)
  BY <1>1, <1>2
<1>4. /\ failed' \in BOOLEAN /\ size' = 0
      /\ ~failed' => Len(out) = Stream!Least(size, Len(File) - pos)
      /\ delivered' = SubSeq(File, pos + 1, pos + Len(out))
      /\ pos' = pos + Len(out)
  BY <1>2, OutIsSubSeq DEF Outcome
<1> QED BY <1>1, <1>3, <1>4 DEF Stream!Deliver

(* A call asks for bytes; at the end of the file it returns at once.         *)
LEMMA StartStep ==
    ASSUME Inv, NEW n \in 1..MaxRead, read_start(n)
    PROVE  Stream!Ask \/ Stream!ReadNothing
<1>1. /\ size = 0 /\ n \in 1..MaxRead /\ n \in Nat /\ n > 0
      /\ pos \in 0..FileSize /\ FileSize \in Nat
  BY SizeAssumption DEF read_start, Inv, TypeOK, Request
<1>2. CASE Least(n, FileSize - pos) = 0
  <2>1. /\ delivered' = <<>> /\ failed' = FALSE /\ pos' = pos + Len(<<>>)
        /\ size' = 0
    BY <1>2 DEF read_start, Return
  <2>2. pos = FileSize /\ pos' = pos
    BY <1>1, <1>2, <2>1, EmptySeq DEF Least
  <2> QED BY <1>1, <2>1, <2>2, FileIsSeq DEF Stream!ReadNothing
<1>3. CASE Least(n, FileSize - pos) # 0
  <2>1. size' = n /\ UNCHANGED <<pos, delivered, failed>>
    BY <1>3 DEF read_start
  <2> QED BY <1>1, <2>1 DEF Stream!Ask
<1> QED BY <1>2, <1>3

(* For every volume, cluster size and file: a reader sees a plain stream of  *)
(* the right bytes, whatever the cache holds: each call delivers as many as  *)
(* it asked for, or all that are left, unless the disk failed in it.         *)
THEOREM StreamImplemented ==
    ASSUME "advance" \notin Faults PROVE Spec => ImplementsStream
<1>1. Init => Stream!Init
  BY DEF Init, Stream!Init
<1>2. Inv /\ [Next]_vars => [Stream!Next]_<<pos, size, delivered, failed>>
  <2> SUFFICES ASSUME Inv, [Next]_vars
               PROVE  Stream!Next \/ UNCHANGED <<pos, size, delivered, failed>>
    OBVIOUS
  <2>1. CASE UNCHANGED vars
    BY <2>1 DEF vars, desc, local
  <2>2. CASE Working
    <3>1. Outcome /\ pc # "idle"
      BY <2>2, WorkingFacts
         DEF Working, read_skip, read_found, read_advance, read_copy, read_end
    <3>2. CASE pc' = "idle"
      BY <3>1, <3>2, ReadStep DEF Stream!Next
    <3>3. CASE pc' # "idle"
      BY <3>1, <3>3 DEF Outcome
    <3> QED BY <3>2, <3>3
  <2>3. CASE Seek
    <3>1. size = 0
      BY <2>3 DEF Inv, Request, Seek, fat16_seek
    <3> QED BY <2>3, <3>1, SeekFacts, FileIsSeq DEF Stream!Next, Stream!Seek
  <2>4. CASE \E n \in 1..MaxRead : read_start(n)
    BY <2>4, StartStep DEF Stream!Next
  <2> QED BY <2>1, <2>2, <2>3, <2>4 DEF Next
<1> QED BY <1>1, <1>2, Invariance, PTL
        DEF Spec, ImplementsStream, Stream!Spec, Stream!vars
=============================================================================
