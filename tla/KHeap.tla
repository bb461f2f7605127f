------------------------------- MODULE KHeap -------------------------------
(***************************************************************************)
(* The kernel heap of src/memory/heap/kheap.c: a first-fit free list that  *)
(* grows upwards from the linker symbol `end' and never shrinks, splits or *)
(* merges a block.                                                         *)
(*                                                                         *)
(* Addresses are the real ones (naturals), because what can go wrong here  *)
(* is arithmetic: the page alignment of placement_address can put a header *)
(* on the end of the block below, or on that block's own header.  No       *)
(* interrupt handler allocates, so a call is one step.  The client (`held')*)
(* is the rest of the kernel: it frees only what it was given and has not  *)
(* freed, and writes only where it was given room.                         *)
(*                                                                         *)
(* The heap is followed up to the first header that something else was     *)
(* written over (`intact').  What the list does from there on depends on   *)
(* the bytes that landed in its fields.                                    *)
(***************************************************************************)
EXTENDS Integers, Sequences, FiniteSets

CONSTANTS
    End,        \* the address of the linker symbol `end'
    Sizes,      \* the request sizes the kernel makes, in bytes
    MaxBlocks   \* bound: blocks ever carved out of the heap

HEADER == 16    \* sizeof(block_meta_t): four 32-bit fields
PAGE   == 4096  \* PAGING_PAGE_SIZE, the 0xFFF / 0x1000 of the code

ASSUME EndAssumption    == End \in Nat
ASSUME SizesAssumption  == Sizes \subseteq Nat
ASSUME BlocksAssumption == MaxBlocks \in Nat

VARIABLES
    placement_address,  \* first byte never handed out
    chain,              \* the list from global_base along next; <<>> is NULL
    block,              \* the header last written at each header's address
    held,               \* client: pointers owned -> the request behind them
    intact              \* no byte of a header was overwritten

vars == <<placement_address, chain, block, held, intact>>

Init ==
    /\ placement_address = End
    /\ chain = <<>>
    /\ block = <<>>
    /\ held = <<>>
    /\ intact = TRUE

-----------------------------------------------------------------------------
(* Helpers *)

PageAligned(p) == p % PAGE = 0

\* One past the last byte of the block whose header is at b.
BlockEnd(b) == b + HEADER + block[b].size

\* Slip: without the PAGING_PAGE_SIZE that takes it to the next page.
AlignUp_Down(p) ==
    IF PageAligned(p + HEADER) THEN p ELSE p - (p % PAGE) - HEADER

\* The `if (align == 1)' paragraph: where the header goes so that the payload
\* starts a page.  When p is within HEADER-1 bytes below a page boundary the
\* result is BELOW p.
AlignUp(p) ==
    IF PageAligned(p + HEADER) THEN p ELSE p - (p % PAGE) + PAGE - HEADER

\* f with x mapped to v, whether or not x was in its domain.
Put(f, x, v) == [y \in DOMAIN f \cup {x} |-> IF y = x THEN v ELSE f[y]]
Drop(f, x)   == [y \in DOMAIN f \ {x} |-> f[y]]

\* Slips: the size alone decides; the size does not.
Fits_SizeOnly(b, size) == block[b].size >= size
Fits_FreeOnly(b, size) == block[b].free

\* find_free_block: the first block of the list that is free and big enough.
Fits(b, size) == block[b].free /\ block[b].size >= size
IsFirstFit(i, size) ==
    /\ i \in 1..Len(chain)
    /\ Fits(chain[i], size)
    /\ \A j \in 1..(i - 1) : ~Fits(chain[j], size)
NoFit(size) == \A i \in 1..Len(chain) : ~Fits(chain[i], size)

\* Bytes written from `from' up to `to' touch the header of a block other than b.
Damages(from, to, b) ==
    \E a \in DOMAIN block \ {b} : from < a + HEADER /\ a < to

-----------------------------------------------------------------------------
(* kmalloc (align = FALSE) and kmalloc_a (align = TRUE), by outcome of       *)
(* kmalloc_int.  A request of 0 bytes returns NULL and changes nothing.      *)

\* Slips: the payload is linked and not the header; the new block becomes the
\* first; the frontier skips the payload only.
Link_Payload(keep, q)  == Append(SubSeq(chain, 1, keep), q + HEADER)
Link_First(keep, q)    == <<q>> \o SubSeq(chain, 1, keep)
Frontier_NoHeader(q, size) == q + size

\* The list with q behind its first `keep' blocks; whatever followed them is no
\* longer linked.
Link(keep, q) == Append(SubSeq(chain, 1, keep), q)
Frontier(q, size) == q + HEADER + size

\* request_space: carve a block at the frontier and link it.
request_space(keep, size, align) ==
    LET q == IF align THEN AlignUp(placement_address) ELSE placement_address
    IN  /\ Cardinality(DOMAIN block) < MaxBlocks
        /\ placement_address' = Frontier(q, size)
        /\ chain' = Link(keep, q)
        /\ block' = Put(block, q, [size |-> size, free |-> FALSE])
        /\ held' = Put(held, q + HEADER, [size |-> size, align |-> align])
        /\ intact' = (intact /\ ~Damages(q, q + HEADER, q))

\* Slip: `last' is the block before the end of the list.
Grow_BeforeLast(size, align) ==
    /\ size > 0
    /\ NoFit(size)
    /\ request_space(IF chain = <<>> THEN 0 ELSE Len(chain) - 1, size, align)

\* No block fits (or there is none): `last' is the end of the list.
Grow(size, align) ==
    /\ size > 0
    /\ NoFit(size)
    /\ request_space(Len(chain), size, align)

\* A page was asked for and the first fit is not on a page: "Force new
\* allocation if block not aligned".  `last' is then its predecessor, or
\* global_base when the first fit is the first block.
Refuse(size, align) ==
    /\ size > 0
    /\ align
    /\ \E i \in 1..Len(chain) :
         /\ IsFirstFit(i, size)
         /\ ~PageAligned(chain[i] + HEADER)
         /\ request_space(IF i = 1 THEN 1 ELSE i - 1, size, align)

\* Slips: the free block nearest in memory is taken, on the list or not; the
\* alignment of the block found is not looked at.
Reuse_FromMemory(size, align) ==
    /\ size > 0
    /\ \E b \in DOMAIN block :
         /\ Fits(b, size)
         /\ align => PageAligned(b + HEADER)
         /\ block' = [block EXCEPT ![b].free = FALSE]
         /\ held' = Put(held, b + HEADER, [size |-> size, align |-> align])
    /\ UNCHANGED <<placement_address, chain, intact>>
Reuse_AnyAlignment(size, align) ==
    /\ size > 0
    /\ \E i \in 1..Len(chain) :
         LET b == chain[i] IN
         /\ IsFirstFit(i, size)
         /\ block' = [block EXCEPT ![b].free = FALSE]
         /\ held' = Put(held, b + HEADER, [size |-> size, align |-> align])
    /\ UNCHANGED <<placement_address, chain, intact>>

\* The first fit is taken whole, whatever its size.
Reuse(size, align) ==
    /\ size > 0
    /\ \E i \in 1..Len(chain) :
         LET b == chain[i] IN
         /\ IsFirstFit(i, size)
         /\ align => PageAligned(b + HEADER)
         /\ block' = [block EXCEPT ![b].free = FALSE]
         /\ held' = Put(held, b + HEADER, [size |-> size, align |-> align])
    /\ UNCHANGED <<placement_address, chain, intact>>

kmalloc_int(size, align) ==
    Grow(size, align) \/ Refuse(size, align) \/ Reuse(size, align)

\* kfree.  It does nothing to a header without a magic number; a header that is
\* intact has one.
kfree(ptr) ==
    /\ block' = [block EXCEPT ![ptr - HEADER].free = TRUE]
    /\ held' = Drop(held, ptr)
    /\ UNCHANGED <<placement_address, chain, intact>>

\* The owner of a region writes to all of it.
use(ptr) ==
    /\ intact' = ~Damages(ptr, ptr + held[ptr].size, ptr - HEADER)
    /\ UNCHANGED <<placement_address, chain, block, held>>

Next ==
    /\ intact
    /\ \/ \E size \in Sizes, align \in BOOLEAN : kmalloc_int(size, align)
       \/ \E ptr \in DOMAIN held : kfree(ptr) \/ use(ptr)

Spec == Init /\ [][Next]_vars

-----------------------------------------------------------------------------
(* Properties *)

Header  == [size : Nat, free : BOOLEAN]
Request == [size : Nat, align : BOOLEAN]

\* Types of the allocator's state; the list holds only real headers.
TypeOK ==
    /\ placement_address \in Nat
    /\ block \in [DOMAIN block -> Header]
    /\ DOMAIN block \subseteq Nat
    /\ chain \in Seq(DOMAIN block)
    /\ held \in [DOMAIN held -> Request]
    /\ DOMAIN held \subseteq Nat
    /\ intact \in BOOLEAN

\* What the alignment of placement_address may cost, whatever the history of
\* requests: a block reaches into the one above it by at most HEADER-1 bytes,
\* and only where that one was placed for a page-aligned request.
OverlapBounded ==
    \A a \in DOMAIN block :
      /\ BlockEnd(a) <= placement_address
      /\ \A b \in DOMAIN block :
           a < b => /\ BlockEnd(a) < b + HEADER
                    /\ ~PageAligned(b + HEADER) => BlockEnd(a) <= b

\* No header and no payload of one block lies in another block.
BlocksDisjoint ==
    \A a, b \in DOMAIN block : a < b => BlockEnd(a) <= b

\* The page alignment is the only thing that can damage the list: as long as it
\* has not made two blocks overlap, neither a new header nor an owner who fills
\* the room it was given, in a block used again or a new one, touches a header.
IntactUnlessOverlap == BlocksDisjoint => intact

\* What kmalloc gave out and nobody freed is backed by a block that the
\* allocator regards as taken, is as large as asked, and page aligned when that
\* was asked: no second caller can be given it.
Owned ==
    \A p \in DOMAIN held :
      /\ p - HEADER \in DOMAIN block
      /\ ~block[p - HEADER].free
      /\ held[p].size <= block[p - HEADER].size
      /\ held[p].align => PageAligned(p)
HeldOwned == intact => Owned

\* The list is in strictly increasing address order: find_free_block's walk
\* along next ends, and no block is on the list twice.
Increasing ==
    \A i, j \in 1..Len(chain) : i < j => chain[i] < chain[j]
ChainIncreasing == intact => Increasing

\* Blocks fall off the list in one case only: a page-aligned request that grew
\* the heap although a free, unaligned block would have been big enough.
CutOnlyByRefusal ==
    [][\A i \in 1..Len(chain) :
         (\A j \in 1..Len(chain') : chain'[j] # chain[i])
           => \E p \in DOMAIN held' \ DOMAIN held :
                /\ held'[p].align
                /\ p - HEADER \notin DOMAIN block
                /\ \E k \in 1..Len(chain) : /\ Fits(chain[k], held'[p].size)
                                            /\ ~PageAligned(chain[k] + HEADER)
      ]_vars

\* A block that fell off the list is lost: it never returns to the list, and a
\* pointer into it that is not held now is never handed out again.
LostForGood ==
    [][\A b \in DOMAIN block :
         (\A i \in 1..Len(chain) : chain[i] # b) =>
            /\ \A i \in 1..Len(chain') : chain'[i] # b
            /\ b + HEADER \notin DOMAIN held => b + HEADER \notin DOMAIN held'
      ]_vars

-----------------------------------------------------------------------------
(* What the rest of the kernel relies on: the allocator of HeapContract.     *)
(* Regions in use never share a byte, although headers and regions may.      *)

Contract == INSTANCE HeapContract WITH live <- held

Implements == Contract!Spec
=============================================================================
