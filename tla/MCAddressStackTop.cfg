\* Is the top of the program's stack mapped when it starts?
SPECIFICATION SpaceSpec
CONSTANTS
    End <- KernelEnd
    Sizes = {}
    MaxBlocks = 150
    Depths = {0, 1}
    TABLES = 16
    Programs = {"elf", "big", "raw", "small"}
    IsElf <- MCIsElf
    Segments <- MCSegments
    MaxCommands = 2
INVARIANTS
    StackTopMapped
CHECK_DEADLOCK FALSE
