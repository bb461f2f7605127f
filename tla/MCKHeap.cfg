\* Two of the kernel's small requests (4 bytes for the chunk of a page directory,
\* 8 for the path parser's blocks) and the page of a directory or a page table.
SPECIFICATION Spec
CONSTANTS
    End <- KernelEnd
    Sizes = {4, 8, 4096}
    MaxBlocks = 4
INVARIANTS
    TypeOK
    IntactUnlessOverlap
    HeldOwned
PROPERTIES
    CutOnlyByRefusal
    LostForGood
    Implements
CHECK_DEADLOCK FALSE
