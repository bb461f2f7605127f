---------------------------- MODULE KHeapProofs ----------------------------
(***************************************************************************)
(* Proofs about KHeap for every `End', every set of request sizes and every *)
(* number of blocks.                                                        *)
(***************************************************************************)
EXTENDS KHeap, SequenceTheorems, TLAPS

(* Where `if (align == 1)' puts a header, for every frontier p: the payload  *)
(* starts a page, and the frontier moves back by HEADER-1 bytes at most.     *)
LEMMA AlignUpFacts ==
    ASSUME NEW p \in Nat
    PROVE  /\ AlignUp(p) \in Nat
           /\ AlignUp(p) > p - HEADER
           /\ PageAligned(AlignUp(p) + HEADER)
<1>1. CASE PageAligned(p + HEADER)
  BY <1>1 DEF AlignUp, PageAligned, HEADER, PAGE
<1>2. CASE ~PageAligned(p + HEADER)
  <2> DEFINE r == p % 4096
             k == p \div 4096
  <2>1. r \in 0..4095 /\ k \in Nat /\ p = 4096 * k + r
    OBVIOUS
  <2>2. AlignUp(p) = 4096 * k + 4080
    BY <1>2, <2>1 DEF AlignUp, PageAligned, HEADER, PAGE
  <2>3. PageAligned(AlignUp(p) + HEADER)
    BY <2>1, <2>2 DEF PageAligned, HEADER, PAGE
  <2> QED BY <2>1, <2>2, <2>3 DEF HEADER
<1> QED BY <1>1, <1>2

\* The inductive invariant.  Owned and Increasing need to know that a new header
\* lies above every old one, which is what OverlapBounded gives.
Inv == TypeOK /\ OverlapBounded /\ Owned /\ Increasing

(* The list after request_space: its first `keep' blocks and the new one.    *)
LEMMA RelinkFacts ==
    ASSUME NEW S, NEW c \in Seq(S), NEW keep \in 0..Len(c), NEW q
    PROVE  LET d == Append(SubSeq(c, 1, keep), q) IN
           /\ d \in Seq(S \cup {q})
           /\ Len(d) = keep + 1
           /\ \A i \in 1..keep : d[i] = c[i]
           /\ d[keep + 1] = q
<1> DEFINE s == SubSeq(c, 1, keep)
<1>1. \A i \in 1..keep : c[i] \in S
  BY LenProperties
<1>2. /\ s \in Seq(S)
      /\ Len(s) = keep
      /\ \A i \in 1..keep : s[i] = c[i]
  <2>1. /\ SubSeq(c, 1, keep) \in Seq(S)
        /\ Len(SubSeq(c, 1, keep)) = IF 1 <= keep THEN keep - 1 + 1 ELSE 0
        /\ \A i \in 1..(keep - 1 + 1) : SubSeq(c, 1, keep)[i] = c[1 + i - 1]
    BY <1>1, SubSeqProperties
  <2> QED BY <2>1
<1>3. s \in Seq(S \cup {q})
  BY <1>2, SeqMonotonic
<1> HIDE DEF s
<1>4. /\ Append(s, q) \in Seq(S \cup {q})
      /\ Len(Append(s, q)) = keep + 1
      /\ \A i \in 1..keep : Append(s, q)[i] = s[i]
      /\ Append(s, q)[keep + 1] = q
  BY <1>2, <1>3, AppendProperties
<1> QED BY <1>2, <1>4 DEF s

(* Where request_space puts the new header: at the frontier or, for a        *)
(* page-aligned request, up to HEADER-1 bytes below it; above every header.  *)
Placed(align) == IF align THEN AlignUp(placement_address) ELSE placement_address

(* A new header lies above every other one and less than a header below the  *)
(* frontier; on the frontier unless a page was asked for.                    *)
LEMMA PlacedFacts ==
    ASSUME Inv, NEW align \in BOOLEAN
    PROVE  /\ Placed(align) \in Nat
           /\ Placed(align) > placement_address - HEADER
           /\ ~PageAligned(Placed(align) + HEADER) => Placed(align) = placement_address
           /\ align => PageAligned(Placed(align) + HEADER)
           /\ \A b \in DOMAIN block : b < Placed(align)
<1>1. placement_address \in Nat
  BY DEF Inv, TypeOK
<1>2. /\ Placed(align) \in Nat
      /\ Placed(align) > placement_address - HEADER
      /\ ~PageAligned(Placed(align) + HEADER) => Placed(align) = placement_address
      /\ align => PageAligned(Placed(align) + HEADER)
  BY <1>1, AlignUpFacts DEF Placed, HEADER
<1>3. ASSUME NEW b \in DOMAIN block PROVE b < Placed(align)
  <2>1. b \in Nat /\ block[b].size \in Nat
    BY DEF Inv, TypeOK, Header
  <2>2. b + HEADER + block[b].size <= placement_address
    BY DEF Inv, OverlapBounded, BlockEnd
  <2> QED BY <1>1, <1>2, <2>1, <2>2 DEF HEADER
<1> QED BY <1>2, <1>3

(* A new block at the frontier preserves the invariant, wherever the list is *)
(* cut.                                                                      *)
LEMMA RequestSpacePreserves ==
    ASSUME Inv, NEW size \in Nat, NEW align \in BOOLEAN,
           NEW keep \in 0..Len(chain), request_space(keep, size, align)
    PROVE  Inv'
<1> DEFINE q == Placed(align)
           r == [size |-> size, free |-> FALSE]
<1>1. /\ q \in Nat
      /\ q > placement_address - HEADER
      /\ ~PageAligned(q + HEADER) => q = placement_address
      /\ align => PageAligned(q + HEADER)
      /\ \A b \in DOMAIN block : b < q
  BY PlacedFacts
<1>2. /\ placement_address' = q + HEADER + size
      /\ chain' = Append(SubSeq(chain, 1, keep), q)
      /\ held' = Put(held, q + HEADER, [size |-> size, align |-> align])
      /\ DOMAIN block' = DOMAIN block \cup {q}
      /\ block'[q] = r
  BY DEF request_space, Link, Frontier, Placed, Put
<1>3. /\ \A b \in DOMAIN block : block'[b] = block[b]
      /\ block' \in [DOMAIN block' -> Header]
  <2>1. \A b \in DOMAIN block : block'[b] = block[b]
    BY <1>1 DEF request_space, Placed, Put
  <2>2. r \in Header
    BY DEF Header
  <2>3. block' = [b \in DOMAIN block' |-> block'[b]]
    BY DEF request_space, Put
  <2>4. \A b \in DOMAIN block : block[b] \in Header
    BY DEF Inv, TypeOK
  <2> QED BY <1>2, <2>1, <2>2, <2>3, <2>4
<1>4. /\ chain' \in Seq(DOMAIN block \cup {q})
      /\ Len(chain') = keep + 1
      /\ \A i \in 1..keep : chain'[i] = chain[i]
      /\ chain'[keep + 1] = q
  <2>1. chain \in Seq(DOMAIN block)
    BY DEF Inv, TypeOK
  <2> QED BY <1>2, <2>1, RelinkFacts
<1> HIDE DEF q
<1>5. TypeOK'
  <2>1. placement_address' \in Nat
    BY <1>1, <1>2 DEF HEADER
  <2>2. DOMAIN block' \subseteq Nat
    BY <1>1, <1>2 DEF Inv, TypeOK
  <2>3. /\ held' \in [DOMAIN held' -> Request]
        /\ DOMAIN held' \subseteq Nat
    BY <1>1, <1>2 DEF Inv, TypeOK, Put, Request, HEADER
  <2>4. intact' \in BOOLEAN
    BY DEF Inv, TypeOK, request_space
  <2> QED BY <1>2, <1>3, <1>4, <2>1, <2>2, <2>3, <2>4 DEF TypeOK
<1>6. OverlapBounded'
  <2>1. \A a \in DOMAIN block :
          /\ a \in Nat
          /\ block[a].size \in Nat
          /\ block'[a].size = block[a].size
          /\ a + HEADER + block[a].size <= placement_address
    BY <1>3 DEF Inv, TypeOK, OverlapBounded, BlockEnd, Header
  <2>2. placement_address \in Nat /\ block'[q].size = size
    BY <1>2 DEF Inv, TypeOK
  <2>3. ASSUME NEW a \in DOMAIN block'
        PROVE  a + HEADER + block'[a].size <= placement_address'
    BY <1>1, <1>2, <2>1, <2>2 DEF HEADER
  <2>4. ASSUME NEW a \in DOMAIN block', NEW b \in DOMAIN block', a < b
        PROVE  /\ a + HEADER + block'[a].size < b + HEADER
               /\ ~PageAligned(b + HEADER) => a + HEADER + block'[a].size <= b
    <3>1. CASE a \in DOMAIN block /\ b \in DOMAIN block
      BY <2>1, <2>4, <3>1 DEF Inv, OverlapBounded, BlockEnd
    <3>2. CASE a \in DOMAIN block /\ b = q
      BY <1>1, <2>1, <2>2, <3>2 DEF HEADER
    <3>3. a # q
      BY <1>1, <1>2, <2>1, <2>4
    <3> QED BY <1>2, <3>1, <3>2, <3>3
  <2> QED BY <2>3, <2>4 DEF OverlapBounded, BlockEnd
<1>7. Owned'
  <2>1. ASSUME NEW p \in DOMAIN held', p # q + HEADER
        PROVE  /\ p - HEADER \in DOMAIN block'
               /\ ~block'[p - HEADER].free
               /\ held'[p].size <= block'[p - HEADER].size
               /\ held'[p].align => PageAligned(p)
    <3>1. p \in DOMAIN held /\ held'[p] = held[p]
      BY <1>2, <2>1 DEF Put
    <3> QED BY <1>2, <1>3, <3>1 DEF Inv, Owned
  <2>2. held'[q + HEADER] = [size |-> size, align |-> align]
    BY <1>2 DEF Put
  <2>3. (q + HEADER) - HEADER = q
    BY <1>1 DEF HEADER
  <2> QED BY <1>1, <1>2, <2>1, <2>2, <2>3 DEF Owned
<1>8. Increasing'
  <2>1. \A i \in 1..Len(chain) : chain[i] \in DOMAIN block
    BY LenProperties DEF Inv, TypeOK
  <2>2. \A i \in 1..keep : chain[i] < q
    BY <1>1, <2>1, LenProperties DEF Inv, TypeOK
  <2>3. Len(chain) \in Nat
    BY LenProperties DEF Inv, TypeOK
  <2>4. \A i, j \in 1..keep : i < j => chain[i] < chain[j]
    BY <2>3 DEF Inv, Increasing
  <2>5. ASSUME NEW i \in 1..Len(chain'), NEW j \in 1..Len(chain'), i < j
        PROVE  chain'[i] < chain'[j]
    <3>1. CASE j = keep + 1
      BY <1>4, <2>2, <2>5, <3>1
    <3>2. CASE j # keep + 1
      BY <1>4, <2>4, <2>5, <3>2
    <3> QED BY <3>1, <3>2
  <2> QED BY <2>5 DEF Increasing
<1> QED BY <1>5, <1>6, <1>7, <1>8 DEF Inv

(* Taking a free block of the list again preserves the invariant.            *)
LEMMA ReusePreserves ==
    ASSUME Inv, NEW size \in Nat, NEW align \in BOOLEAN, Reuse(size, align)
    PROVE  Inv'
<1>1. PICK i \in 1..Len(chain) :
        /\ IsFirstFit(i, size)
        /\ align => PageAligned(chain[i] + HEADER)
        /\ block' = [block EXCEPT ![chain[i]].free = FALSE]
        /\ held' = Put(held, chain[i] + HEADER, [size |-> size, align |-> align])
  BY DEF Reuse
<1> DEFINE b == chain[i]
<1>2. /\ b \in DOMAIN block
      /\ b \in Nat
      /\ block[b] \in Header
      /\ block[b].free
      /\ size <= block[b].size
  BY <1>1, LenProperties DEF Inv, TypeOK, IsFirstFit, Fits
<1>3. UNCHANGED <<placement_address, chain, intact>>
  BY DEF Reuse
<1> HIDE DEF b
<1>4. /\ align => PageAligned(b + HEADER)
      /\ DOMAIN block' = DOMAIN block
      /\ \A a \in DOMAIN block : a # b => block'[a] = block[a]
      /\ block'[b] = [size |-> block[b].size, free |-> FALSE]
      /\ held' = Put(held, b + HEADER, [size |-> size, align |-> align])
  BY <1>1, <1>2 DEF b, Header
<1>5. /\ block' \in [DOMAIN block' -> Header]
      /\ \A a \in DOMAIN block : block'[a].size = block[a].size
  <2>1. block'[b] \in Header
    BY <1>2, <1>4 DEF Header
  <2>2. block' = [a \in DOMAIN block' |-> block'[a]]
    BY <1>1, <1>2 DEF Inv, TypeOK
  <2>3. ASSUME NEW a \in DOMAIN block
        PROVE  block'[a] \in Header /\ block'[a].size = block[a].size
    <3>1. CASE a = b
      <4>1. block'[b].size = block[b].size
        BY <1>4
      <4> QED BY <2>1, <3>1, <4>1
    <3>2. CASE a # b
      BY <1>4, <3>2 DEF Inv, TypeOK
    <3> QED BY <3>1, <3>2
  <2> QED BY <1>4, <2>2, <2>3
<1>6. TypeOK'
  <2>1. /\ held' \in [DOMAIN held' -> Request]
        /\ DOMAIN held' \subseteq Nat
    BY <1>2, <1>4 DEF Inv, TypeOK, Put, Request, HEADER
  <2> QED BY <1>3, <1>4, <1>5, <2>1 DEF Inv, TypeOK
<1>7. OverlapBounded'
  BY <1>3, <1>4, <1>5 DEF Inv, OverlapBounded, BlockEnd
<1>8. Owned'
  <2>1. ASSUME NEW p \in DOMAIN held', p # b + HEADER
        PROVE  /\ p - HEADER \in DOMAIN block'
               /\ ~block'[p - HEADER].free
               /\ held'[p].size <= block'[p - HEADER].size
               /\ held'[p].align => PageAligned(p)
    <3>1. p \in DOMAIN held /\ p \in Nat /\ held'[p] = held[p]
      BY <1>4, <2>1 DEF Put, Inv, TypeOK
    <3>2. p - HEADER # b
      BY <1>2, <2>1, <3>1 DEF HEADER
    <3> QED BY <1>4, <3>1, <3>2 DEF Inv, Owned
  <2>2. /\ held'[b + HEADER] = [size |-> size, align |-> align]
        /\ (b + HEADER) - HEADER = b
    BY <1>2, <1>4 DEF Put, HEADER
  <2> QED BY <1>2, <1>4, <2>1, <2>2 DEF Owned
<1>9. Increasing'
  BY <1>3 DEF Inv, Increasing
<1> QED BY <1>6, <1>7, <1>8, <1>9 DEF Inv

(* Giving a block back preserves the invariant.                              *)
LEMMA FreePreserves ==
    ASSUME Inv, NEW ptr \in DOMAIN held, kfree(ptr)
    PROVE  Inv'
<1> DEFINE b == ptr - HEADER
<1>1. b \in DOMAIN block /\ ptr \in Nat
  BY DEF Inv, TypeOK, Owned
<1>2. /\ UNCHANGED <<placement_address, chain, intact>>
      /\ held' = Drop(held, ptr)
      /\ DOMAIN block' = DOMAIN block
      /\ \A a \in DOMAIN block : a # b => block'[a] = block[a]
      /\ block' \in [DOMAIN block' -> Header]
      /\ \A a \in DOMAIN block : block'[a].size = block[a].size
  BY <1>1 DEF kfree, Inv, TypeOK, Header
<1> HIDE DEF b
<1>3. TypeOK'
  BY <1>2 DEF Inv, TypeOK, Drop
<1>4. OverlapBounded'
  BY <1>2 DEF Inv, OverlapBounded, BlockEnd
<1>5. Owned'
  <2>1. ASSUME NEW p \in DOMAIN held'
        PROVE  p \in DOMAIN held /\ held'[p] = held[p] /\ p - HEADER # b
    <3>1. p \in DOMAIN held /\ p # ptr /\ held'[p] = held[p] /\ p \in Nat
      BY <1>2 DEF Drop, Inv, TypeOK
    <3> QED BY <1>1, <3>1 DEF b, HEADER
  <2> QED BY <1>2, <2>1 DEF Inv, Owned
<1>6. Increasing'
  BY <1>2 DEF Inv, Increasing
<1> QED BY <1>3, <1>4, <1>5, <1>6 DEF Inv

(* Whatever the kernel asks for is a number of bytes.                        *)
LEMMA SizesAreNaturals == Sizes \subseteq Nat
BY SizesAssumption

(* A kmalloc that grows the heap is a request_space with the list cut        *)
(* somewhere: behind its last block, or before the block that was refused.   *)
LEMMA GrowthIsRequestSpace ==
    ASSUME Inv, NEW size, NEW align, Grow(size, align) \/ Refuse(size, align)
    PROVE  \E keep \in 0..Len(chain) : request_space(keep, size, align)
<1>1. Len(chain) \in Nat
  BY LenProperties DEF Inv, TypeOK
<1>2. CASE Grow(size, align)
  BY <1>1, <1>2 DEF Grow
<1>3. CASE Refuse(size, align)
  <2>1. PICK i \in 1..Len(chain) :
          request_space(IF i = 1 THEN 1 ELSE i - 1, size, align)
    BY <1>3 DEF Refuse
  <2>2. (IF i = 1 THEN 1 ELSE i - 1) \in 0..Len(chain)
    BY <1>1
  <2> QED BY <2>1, <2>2
<1> QED BY <1>2, <1>3

(* Every call of kmalloc and kfree preserves the invariant.                  *)
LEMMA NextPreserves == Inv /\ [Next]_vars => Inv'
<1> SUFFICES ASSUME Inv, [Next]_vars PROVE Inv'
  OBVIOUS
<1>1. ASSUME NEW size \in Sizes, NEW align \in BOOLEAN, kmalloc_int(size, align)
      PROVE  Inv'
  <2>1. size \in Nat
    BY SizesAreNaturals
  <2>2. CASE Grow(size, align) \/ Refuse(size, align)
    BY <2>1, <2>2, GrowthIsRequestSpace, RequestSpacePreserves
  <2>3. CASE Reuse(size, align)
    BY <2>1, <2>3, ReusePreserves
  <2> QED BY <1>1, <2>2, <2>3 DEF kmalloc_int
<1>2. ASSUME NEW ptr \in DOMAIN held, kfree(ptr) PROVE Inv'
  BY <1>2, FreePreserves
<1>3. ASSUME NEW ptr \in DOMAIN held, use(ptr) PROVE Inv'
  BY <1>3 DEF use, Inv, TypeOK, OverlapBounded, Owned, Increasing, BlockEnd
<1>4. CASE UNCHANGED vars
  BY <1>4 DEF vars, Inv, TypeOK, OverlapBounded, Owned, Increasing, BlockEnd
<1> QED BY <1>1, <1>2, <1>3, <1>4 DEF Next

(* The heap of kheap_init satisfies the invariant.                           *)
LEMMA InitEstablishes == Init => Inv
<1> SUFFICES ASSUME Init PROVE Inv
  OBVIOUS
<1>1. chain \in Seq(DOMAIN block) /\ Len(chain) = 0
  BY EmptySeq DEF Init
<1>2. TypeOK
  BY <1>1, EndAssumption DEF Init, TypeOK
<1> QED BY <1>1, <1>2 DEF Init, Inv, OverlapBounded, Owned, Increasing

(* The invariant holds in every reachable state.                             *)
LEMMA Invariance == Spec => []Inv
BY InitEstablishes, NextPreserves, PTL DEF Spec

(* Type correctness of the allocator, for all sizes of requests: in          *)
(* particular the list never holds an address at which no header was written.*)
THEOREM TypeCorrect == Spec => []TypeOK
BY Invariance, PTL DEF Inv

(* Whatever is requested and freed, in whatever order and size, a block      *)
(* reaches at most 15 bytes into the next one, and only when that one was    *)
(* page aligned.                                                             *)
THEOREM OverlapIsBounded == Spec => []OverlapBounded
BY Invariance, PTL DEF Inv

(* Until a header is overwritten, a pointer that was handed out and not      *)
(* freed is backed by a taken block that is large enough and aligned as      *)
(* asked.                                                                    *)
THEOREM HeldIsOwned == Spec => []HeldOwned
<1>1. Inv => HeldOwned
  BY DEF Inv, HeldOwned
<1> QED BY <1>1, Invariance, PTL

(* Until a header is overwritten the free list stays in address order, so    *)
(* find_free_block terminates.                                               *)
THEOREM ListIsIncreasing == Spec => []ChainIncreasing
<1>1. Inv => ChainIncreasing
  BY DEF Inv, ChainIncreasing
<1> QED BY <1>1, Invariance, PTL

-----------------------------------------------------------------------------
(* What can overwrite a header *)

(* Each pointer in use lies in a block of its own.                           *)
LEMMA HeldInBlock ==
    ASSUME Inv, NEW p \in DOMAIN held
    PROVE  /\ p \in Nat
           /\ p - HEADER \in DOMAIN block
           /\ held[p].size \in Nat
           /\ p + held[p].size <= BlockEnd(p - HEADER)
           /\ BlockEnd(p - HEADER) <= placement_address
<1>1. /\ p \in Nat
      /\ p - HEADER \in DOMAIN block
      /\ held[p].size \in Nat
      /\ held[p].size <= block[p - HEADER].size
      /\ block[p - HEADER].size \in Nat
  BY DEF Inv, TypeOK, Owned, Request, Header
<1>2. BlockEnd(p - HEADER) <= placement_address
  BY <1>1 DEF Inv, OverlapBounded
<1> QED BY <1>1, <1>2 DEF BlockEnd, HEADER

(* No header is overwritten in a step that leaves the blocks disjoint.        *)
LEMMA DamageNeedsOverlap ==
    ASSUME Inv, Inv', IntactUnlessOverlap, [Next]_vars
    PROVE  IntactUnlessOverlap'
<1>1. CASE intact' = intact /\ block' = block
  BY <1>1 DEF IntactUnlessOverlap, BlocksDisjoint, BlockEnd
<1>2. CASE intact' = intact /\ intact
  BY <1>2 DEF IntactUnlessOverlap
<1>3. ASSUME NEW size \in Sizes, NEW align \in BOOLEAN, intact,
             Grow(size, align) \/ Refuse(size, align)
      PROVE  IntactUnlessOverlap'
  <2> DEFINE q == Placed(align)
  <2>1. PICK keep \in 0..Len(chain) : request_space(keep, size, align)
    BY <1>3, GrowthIsRequestSpace
  <2>2. q \in Nat /\ \A b \in DOMAIN block : b < q
    BY PlacedFacts
  <2>3. /\ DOMAIN block' = DOMAIN block \cup {q}
        /\ intact' = ~Damages(q, q + HEADER, q)
    BY <1>3, <2>1 DEF request_space, Placed, Put
  <2>4. \A b \in DOMAIN block : b # q => block'[b] = block[b]
    BY <2>1 DEF request_space, Placed, Put
  <2> HIDE DEF q
  <2>5. ASSUME ~intact' PROVE ~BlocksDisjoint'
    <3>1. PICK a \in DOMAIN block \ {q} : q < a + HEADER
      BY <2>3, <2>5 DEF Damages
    <3>2. a \in Nat /\ block'[a].size \in Nat /\ a < q
      BY <2>2, <2>4 DEF Inv, TypeOK, Header
    <3>3. a + HEADER + block'[a].size > q
      BY <2>2, <3>1, <3>2 DEF HEADER
    <3>4. a \in DOMAIN block' /\ q \in DOMAIN block'
      BY <2>3
    <3> QED BY <2>2, <3>2, <3>3, <3>4 DEF BlocksDisjoint, BlockEnd, HEADER
  <2> QED BY <2>5 DEF IntactUnlessOverlap, Inv, TypeOK
<1>4. ASSUME NEW ptr \in DOMAIN held, use(ptr) PROVE IntactUnlessOverlap'
  <2> DEFINE b == ptr - HEADER
  <2>1. /\ ptr \in Nat /\ b \in DOMAIN block /\ b \in Nat
        /\ held[ptr].size \in Nat
        /\ ptr + held[ptr].size <= BlockEnd(b)
        /\ BlockEnd(b) \in Int
        /\ ptr = b + HEADER
    BY HeldInBlock DEF Inv, TypeOK, BlockEnd, HEADER, Header
  <2>2. intact' = ~Damages(ptr, ptr + held[ptr].size, b) /\ block' = block
    BY <1>4 DEF use
  <2> HIDE DEF b
  <2>3. ASSUME ~intact' PROVE ~BlocksDisjoint'
    <3>1. PICK a \in DOMAIN block \ {b} : ptr < a + HEADER /\ a < ptr + held[ptr].size
      BY <2>2, <2>3 DEF Damages
    <3>2. a \in Nat
      BY DEF Inv, TypeOK
    <3>3. b < a /\ ~ (BlockEnd(b) <= a)
      BY <2>1, <3>1, <3>2 DEF HEADER
    <3>4. ~ BlocksDisjoint
      BY <2>1, <3>3 DEF BlocksDisjoint
    <3> QED BY <2>2, <3>4 DEF BlocksDisjoint, BlockEnd
  <2> QED BY <2>3 DEF IntactUnlessOverlap, Inv, TypeOK
<1>5. ASSUME NEW size \in Sizes, NEW align \in BOOLEAN, intact, Reuse(size, align)
      PROVE  IntactUnlessOverlap'
  BY <1>2, <1>5 DEF Reuse
<1>6. ASSUME NEW ptr \in DOMAIN held, intact, kfree(ptr) PROVE IntactUnlessOverlap'
  BY <1>2, <1>6 DEF kfree
<1> QED BY <1>1, <1>3, <1>4, <1>5, <1>6 DEF Next, kmalloc_int, vars

(* Headers are safe from everything but the overlap that the page alignment  *)
(* makes: as long as the blocks are disjoint, no sequence of kmalloc, kfree  *)
(* and writes of the owners, in any sizes, has touched one.                  *)
THEOREM OnlyOverlapDamages == Spec => []IntactUnlessOverlap
<1>1. Init => IntactUnlessOverlap
  BY DEF Init, IntactUnlessOverlap
<1>2. Inv /\ Inv' /\ IntactUnlessOverlap /\ [Next]_vars => IntactUnlessOverlap'
  BY DamageNeedsOverlap
<1> QED BY <1>1, <1>2, Invariance, PTL DEF Spec

-----------------------------------------------------------------------------
(* The callers' view *)

(* A step of the allocator is a step of the contract.                        *)
LEMMA ContractStep ==
    ASSUME Inv, Next, held' # held
    PROVE  Contract!Next
<1>1. ASSUME NEW size \in Sizes, size > 0, NEW align \in BOOLEAN, NEW b \in Nat,
             b + HEADER \notin DOMAIN held,
             held' = Put(held, b + HEADER, [size |-> size, align |-> align]),
             align => PageAligned(b + HEADER),
             \A p \in DOMAIN held :
               \/ b + HEADER + size <= p
               \/ p + held[p].size <= b + HEADER
      PROVE  Contract!Alloc
  <2> DEFINE v == b + HEADER
  <2>1. /\ DOMAIN held' = DOMAIN held \cup {v}
        /\ held'[v] = [size |-> size, align |-> align]
        /\ v \in DOMAIN held' \ DOMAIN held
    BY <1>1 DEF Put
  <2>2. held' = [q \in DOMAIN held \cup {v} |-> IF q = v THEN held'[v] ELSE held[q]]
    BY <1>1, <2>1 DEF Put
  <2> HIDE DEF v
  <2>3. held'[v].size \in Sizes \ {0}
    BY <1>1, <2>1
  <2>4. held'[v].align => v % 4096 = 0
    BY <1>1, <2>1 DEF v, PageAligned, PAGE
  <2>5. \A q \in DOMAIN held : Contract!Disjoint(v, held'[v].size, q, held[q].size)
    BY <1>1, <2>1 DEF v, Contract!Disjoint
  <2> QED BY <2>1, <2>2, <2>3, <2>4, <2>5 DEF Contract!Alloc
<1>2. ASSUME NEW size \in Sizes, NEW align \in BOOLEAN,
             Grow(size, align) \/ Refuse(size, align)
      PROVE  Contract!Alloc
  <2> DEFINE q == Placed(align)
  <2>1. PICK keep \in 0..Len(chain) : request_space(keep, size, align)
    BY <1>2, GrowthIsRequestSpace
  <2>2. /\ q \in Nat
        /\ q > placement_address - HEADER
        /\ align => PageAligned(q + HEADER)
        /\ \A b \in DOMAIN block : b < q
    BY <2>1, PlacedFacts
  <2>3. held' = Put(held, q + HEADER, [size |-> size, align |-> align])
    BY <2>1 DEF request_space, Link, Frontier, Placed
  <2>4. size > 0 /\ placement_address \in Nat
    BY <1>2 DEF Grow, Refuse, Inv, TypeOK
  <2> HIDE DEF q
  <2>5. ASSUME NEW p \in DOMAIN held
        PROVE  p + held[p].size <= q + HEADER /\ p # q + HEADER
    <3>1. /\ p \in Nat
          /\ p - HEADER \in DOMAIN block
          /\ held[p].size \in Nat
          /\ p + held[p].size <= BlockEnd(p - HEADER)
          /\ BlockEnd(p - HEADER) <= placement_address
          /\ block[p - HEADER].size \in Nat
      BY HeldInBlock DEF Inv, TypeOK, Header
    <3> QED BY <2>2, <2>4, <3>1 DEF BlockEnd, HEADER
  <2> QED BY <1>1, <2>2, <2>3, <2>4, <2>5
<1>3. ASSUME NEW size \in Sizes, NEW align \in BOOLEAN, Reuse(size, align)
      PROVE  Contract!Alloc
  <2>1. PICK i \in 1..Len(chain) :
          /\ IsFirstFit(i, size)
          /\ align => PageAligned(chain[i] + HEADER)
          /\ held' = Put(held, chain[i] + HEADER, [size |-> size, align |-> align])
    BY <1>3 DEF Reuse
  <2> DEFINE b == chain[i]
  <2>2. /\ b \in DOMAIN block
        /\ b \in Nat
        /\ block[b].free
        /\ size <= block[b].size
        /\ block[b].size \in Nat
    BY <2>1, LenProperties DEF Inv, TypeOK, IsFirstFit, Fits, Header
  <2>3. size > 0 /\ size \in Nat
    BY <1>3, SizesAreNaturals DEF Reuse
  <2> HIDE DEF b
  <2>4. ASSUME NEW p \in DOMAIN held
        PROVE  /\ \/ b + HEADER + size <= p
                  \/ p + held[p].size <= b + HEADER
               /\ p # b + HEADER
    <3> DEFINE c == p - HEADER
    <3>1. /\ p \in Nat
          /\ c \in DOMAIN block
          /\ c \in Nat
          /\ block[c].size \in Nat
          /\ ~block[c].free
          /\ held[p].size \in Nat
          /\ held[p].size <= block[c].size
      BY HeldInBlock DEF Inv, TypeOK, Owned, Header
    <3>2. b # c
      BY <2>2, <3>1
    <3>3. \/ b + HEADER + block[b].size < c + HEADER
          \/ c + HEADER + block[c].size < b + HEADER
      BY <2>2, <3>1, <3>2 DEF Inv, OverlapBounded, BlockEnd
    <3> QED BY <2>2, <2>3, <3>1, <3>2, <3>3 DEF HEADER
  <2>5. /\ align => PageAligned(b + HEADER)
        /\ held' = Put(held, b + HEADER, [size |-> size, align |-> align])
    BY <2>1 DEF b
  <2> QED BY <1>1, <2>2, <2>3, <2>4, <2>5
<1>4. ASSUME NEW ptr \in DOMAIN held, kfree(ptr) PROVE Contract!Free
  BY <1>4 DEF kfree, Drop, Contract!Free
<1>5. ASSUME NEW ptr \in DOMAIN held, use(ptr) PROVE FALSE
  BY <1>5 DEF use
<1> QED BY <1>2, <1>3, <1>4, <1>5 DEF Next, kmalloc_int, Contract!Next

(* The heap is an allocator for all sizes of requests: until a header is     *)
(* overwritten, first fit, the page alignment with its overlapping headers   *)
(* and the cut free list are invisible to the callers of kmalloc and kfree,  *)
(* who see fresh disjoint regions.                                           *)
THEOREM ContractImplemented == Spec => Implements
<1>1. Init => Contract!Init
  BY DEF Init, Contract!Init
<1>2. Inv /\ [Next]_vars => [Contract!Next]_held
  BY ContractStep DEF vars
<1> QED BY <1>1, <1>2, Invariance, PTL DEF Spec, Implements, Contract!Spec

-----------------------------------------------------------------------------
(* What the list loses *)

(* A request_space keeps the head of the list and links a header that was    *)
(* not there.                                                                *)
LEMMA CarvedIsNew ==
    ASSUME Inv, NEW size \in Nat, NEW align \in BOOLEAN, NEW keep \in 0..Len(chain),
           request_space(keep, size, align)
    PROVE  LET q == Placed(align) IN
           /\ q \in Nat /\ q \notin DOMAIN block
           /\ q + HEADER \notin DOMAIN held
           /\ DOMAIN held' = DOMAIN held \cup {q + HEADER}
           /\ held'[q + HEADER] = [size |-> size, align |-> align]
           /\ Len(chain') = keep + 1
           /\ \A i \in 1..keep : chain'[i] = chain[i]
           /\ chain'[keep + 1] = q
<1> DEFINE q == Placed(align)
<1>1. q \in Nat /\ \A b \in DOMAIN block : b < q
  BY PlacedFacts
<1>2. q \notin DOMAIN block
  BY <1>1
<1>3. q + HEADER \notin DOMAIN held
  <2>1. \A p \in DOMAIN held : p - HEADER \in DOMAIN block /\ p \in Nat
    BY DEF Inv, Owned, TypeOK
  <2> HIDE DEF q
  <2>2. (q + HEADER) - HEADER = q
    BY <1>1 DEF HEADER
  <2> QED BY <1>2, <2>1, <2>2
<1>4. /\ chain' = Append(SubSeq(chain, 1, keep), q)
      /\ held' = Put(held, q + HEADER, [size |-> size, align |-> align])
  BY DEF request_space, Link, Placed
<1>5. chain \in Seq(DOMAIN block)
  BY DEF Inv, TypeOK
<1> HIDE DEF q
<1>6. /\ Len(chain') = keep + 1
      /\ \A i \in 1..keep : chain'[i] = chain[i]
      /\ chain'[keep + 1] = q
  BY <1>4, <1>5, RelinkFacts
<1>7. /\ DOMAIN held' = DOMAIN held \cup {q + HEADER}
      /\ held'[q + HEADER] = [size |-> size, align |-> align]
  BY <1>4 DEF Put
<1> QED BY <1>1, <1>2, <1>3, <1>6, <1>7 DEF q

(* Blocks fall off the list only where a page-aligned request refuses a free *)
(* block that is big enough (kmalloc_int passes that block's predecessor to  *)
(* request_space as the last).                                               *)
THEOREM ListIsCutByRefusal == Spec => CutOnlyByRefusal
<1>1. Inv /\ [Next]_vars =>
        [\A i \in 1..Len(chain) :
           (\A j \in 1..Len(chain') : chain'[j] # chain[i])
             => \E p \in DOMAIN held' \ DOMAIN held :
                  /\ held'[p].align
                  /\ p - HEADER \notin DOMAIN block
                  /\ \E k \in 1..Len(chain) : /\ Fits(chain[k], held'[p].size)
                                              /\ ~PageAligned(chain[k] + HEADER)]_vars
  <2> SUFFICES ASSUME Inv, Next, NEW i \in 1..Len(chain),
                      \A j \in 1..Len(chain') : chain'[j] # chain[i]
               PROVE  \E p \in DOMAIN held' \ DOMAIN held :
                        /\ held'[p].align
                        /\ p - HEADER \notin DOMAIN block
                        /\ \E k \in 1..Len(chain) : /\ Fits(chain[k], held'[p].size)
                                                    /\ ~PageAligned(chain[k] + HEADER)
    OBVIOUS
  <2>1. Len(chain) \in Nat
    BY LenProperties DEF Inv, TypeOK
  <2>2. chain' # chain
    OBVIOUS
  <2>3. PICK size \in Sizes, align \in BOOLEAN : Grow(size, align) \/ Refuse(size, align)
    BY <2>2 DEF Next, kmalloc_int, Reuse, kfree, use
  <2>4. size \in Nat
    BY SizesAreNaturals
  <2>5. ~ Grow(size, align)
    <3> SUFFICES ASSUME Grow(size, align) PROVE FALSE
      OBVIOUS
    <3>1. request_space(Len(chain), size, align) /\ Len(chain) \in 0..Len(chain)
      BY <2>1 DEF Grow
    <3>2. Len(chain') = Len(chain) + 1 /\ chain'[i] = chain[i]
      BY <2>4, <3>1, CarvedIsNew
    <3> QED BY <2>1, <3>2
  <2>6. PICK k \in 1..Len(chain) :
          /\ align /\ IsFirstFit(k, size) /\ ~PageAligned(chain[k] + HEADER)
          /\ request_space(IF k = 1 THEN 1 ELSE k - 1, size, align)
    BY <2>3, <2>5 DEF Refuse
  <2>7. (IF k = 1 THEN 1 ELSE k - 1) \in 0..Len(chain)
    BY <2>1
  <2> DEFINE q == Placed(align)
             p == q + HEADER
  <2>8. /\ q \in Nat /\ q \notin DOMAIN block
        /\ p \in DOMAIN held' \ DOMAIN held
        /\ held'[p] = [size |-> size, align |-> align]
    BY <2>4, <2>6, <2>7, CarvedIsNew
  <2> HIDE DEF q
  <2>9. p - HEADER = q
    BY <2>8 DEF HEADER
  <2>10. held'[p].align = align /\ held'[p].size = size
    BY <2>8
  <2>11. Fits(chain[k], size)
    BY <2>6 DEF IsFirstFit
  <2> HIDE DEF p
  <2> QED BY <2>6, <2>8, <2>9, <2>10, <2>11
<1> QED BY <1>1, Invariance, PTL DEF Spec, CutOnlyByRefusal

(* A block off the list stays off it and is never given out again: the list  *)
(* only takes in new headers, and kmalloc only gives out those on the list.  *)
THEOREM LostBlocksStayLost == Spec => LostForGood
<1>1. Inv /\ [Next]_vars =>
        [\A b \in DOMAIN block :
           (\A i \in 1..Len(chain) : chain[i] # b) =>
              /\ \A i \in 1..Len(chain') : chain'[i] # b
              /\ b + HEADER \notin DOMAIN held => b + HEADER \notin DOMAIN held']_vars
  <2> SUFFICES ASSUME Inv, Next, NEW b \in DOMAIN block,
                      \A i \in 1..Len(chain) : chain[i] # b
               PROVE  /\ \A i \in 1..Len(chain') : chain'[i] # b
                      /\ b + HEADER \notin DOMAIN held => b + HEADER \notin DOMAIN held'
    OBVIOUS
  <2>1. b \in Nat /\ Len(chain) \in Nat
    BY LenProperties DEF Inv, TypeOK
  <2>2. ASSUME NEW ptr \in DOMAIN held, kfree(ptr)
        PROVE  chain' = chain /\ DOMAIN held' \subseteq DOMAIN held
    BY <2>2 DEF kfree, Drop
  <2>3. ASSUME NEW size \in Sizes, NEW align \in BOOLEAN, Reuse(size, align)
        PROVE  chain' = chain /\ (b + HEADER \notin DOMAIN held => b + HEADER \notin DOMAIN held')
    <3>1. PICK i \in 1..Len(chain) :
            held' = Put(held, chain[i] + HEADER, [size |-> size, align |-> align])
      BY <2>3 DEF Reuse
    <3>2. DOMAIN held' = DOMAIN held \cup {chain[i] + HEADER}
      BY <3>1 DEF Put
    <3>3. chain[i] \in Nat /\ chain[i] # b
      BY DEF Inv, TypeOK
    <3>4. chain[i] + HEADER # b + HEADER
      BY <2>1, <3>3 DEF HEADER
    <3> QED BY <2>3, <3>2, <3>4 DEF Reuse
  <2>4. ASSUME NEW size \in Sizes, NEW align \in BOOLEAN,
               Grow(size, align) \/ Refuse(size, align)
        PROVE  /\ \A i \in 1..Len(chain') : chain'[i] # b
               /\ b + HEADER \notin DOMAIN held => b + HEADER \notin DOMAIN held'
    <3>1. size \in Nat
      BY SizesAreNaturals
    <3>2. PICK keep \in 0..Len(chain) : request_space(keep, size, align)
      BY <2>4, GrowthIsRequestSpace
    <3> DEFINE q == Placed(align)
    <3>3. /\ q \in Nat /\ q \notin DOMAIN block
          /\ DOMAIN held' = DOMAIN held \cup {q + HEADER}
          /\ Len(chain') = keep + 1
          /\ \A i \in 1..keep : chain'[i] = chain[i]
          /\ chain'[keep + 1] = q
      BY <3>1, <3>2, CarvedIsNew
    <3> HIDE DEF q
    <3>4. q # b /\ q + HEADER # b + HEADER
      BY <2>1, <3>3 DEF HEADER
    <3>5. \A i \in 1..(keep + 1) : (i \in 1..keep /\ i \in 1..Len(chain)) \/ i = keep + 1
      BY <2>1
    <3> QED BY <3>3, <3>4, <3>5
  <2>5. ASSUME NEW ptr \in DOMAIN held, use(ptr) PROVE chain' = chain /\ held' = held
    BY <2>5 DEF use
  <2> QED BY <2>2, <2>3, <2>4, <2>5 DEF Next, kmalloc_int
<1> QED BY <1>1, Invariance, PTL DEF Spec, LostForGood
=============================================================================
