SPECIFICATION Spec
CONSTANTS
    Drives <- TwoDrives
    Sectors = 9
    Disk <- MCDisk
    ItemsPerSector = 2
    EntriesPerSector = 8
    NameSize = 5
    Tree <- MCTree
    Root = "root"
    Directories <- MCDirectories
    Texts <- MCTexts
    Modes <- MCModes
    MaxOpen = 2
    MaxFaults = 2
INVARIANTS
    TypeOK
PROPERTIES
    OpenFindsTheFile
    ReadIsRight
    ListShowsDirectory
    FailsOnlyForCause
    CallReturns
