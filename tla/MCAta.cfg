SPECIFICATION FairSpec
CONSTANTS
    Drives <- TwoDrives
    SectorSize = 2
    Sectors = 2
    MaxRead = 3
INVARIANTS
    TypeOK
    OnlySelectedBusy
PROPERTIES
    ImplementsDisk
    StreamIsDisk
