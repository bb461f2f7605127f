\* One failing read of the FAT at a cluster boundary.
SPECIFICATION Spec
CONSTANTS
    ClusterSize = 3
    Chain <- FileChain
    FileSize = 8
    fat <- Table
    Faults = {"advance"}
    MaxRead = 9
    MaxSeek = 8
INVARIANTS
    OutIsFile
