--------------------------- MODULE MCAddressSpace ---------------------------
(* AddressSpace with an ELF program of two segments, the second not page     *)
(* aligned, one that has a page table of its own, a raw program that ends 6  *)
(* bytes below a page boundary, and one small enough for a freed buffer of   *)
(* the path parser, which is refused because it does not start a page.       *)
EXTENDS AddressSpace

KernelEnd == 35548      \* 0x8adc, as built
MCIsElf == [p \in Programs |-> p \in {"elf", "big"}]
MCSegments ==
    [p \in Programs |->
       CASE p = "elf"   -> <<[vaddr |-> 134512640, memsz |-> 5000],
                             [vaddr |-> 134520864, memsz |-> 100]>>
         [] p = "big"   -> <<[vaddr |-> 138407936, memsz |-> 20000]>>
         [] p = "raw"   -> <<[vaddr |-> RAW_BASE, memsz |-> 4090]>>
         [] p = "small" -> <<[vaddr |-> RAW_BASE, memsz |-> 200]>>]

ASSUME MCSegmentsApart == SegmentsApart
=============================================================================
