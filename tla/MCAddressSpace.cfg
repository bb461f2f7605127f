\* Three commands; a program that is started ends the run.
SPECIFICATION SpaceSpec
CONSTANTS
    End <- KernelEnd
    Sizes = {}
    MaxBlocks = 180
    Depths = {0, 1}
    TABLES = 16
    Programs = {"elf", "raw", "small"}
    IsElf <- MCIsElf
    Segments <- MCSegments
    MaxCommands = 3
INVARIANTS
    SpaceTypeOK
    ImageMapped
    ImageIntact
    TablesPrivate
    OverlapBounded
    ChainIncreasing
    HeadersIntact
CHECK_DEADLOCK FALSE
