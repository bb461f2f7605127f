\* Two slots and up to five commands: the table fills up, and is tried again.
SPECIFICATION Spec
CONSTANTS
    MAX_FILE_DESCRIPTORS = 2
    Files = {"elf", "raw"}
    IsElf <- MCIsElf
    Segments <- MCSegments
    MaxRuns = 5
INVARIANTS
    TypeOK
    UsesItsDescriptor
    DescriptorsBalanced
    StartedIsComplete
PROPERTIES
    ExhaustedForGood
CHECK_DEADLOCK FALSE
