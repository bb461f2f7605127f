\* Does the heap stay below the stack of main?
SPECIFICATION SpaceSpec
CONSTANTS
    End <- KernelEnd
    Sizes = {}
    MaxBlocks = 150
    Depths = {0, 1}
    TABLES = 16
    Programs = {"elf", "big", "raw", "small"}
    IsElf <- MCIsElf
    Segments <- MCSegments
    MaxCommands = 2
INVARIANTS
    StackSafe
CHECK_DEADLOCK FALSE
