\* Failing reads while skipping and of data: tolerated.
SPECIFICATION FairSpec
CONSTANTS
    ClusterSize = 3
    Chain <- FileChain
    FileSize = 8
    fat <- Table
    Faults = {"skip", "data"}
    MaxRead = 9
    MaxSeek = 8
INVARIANTS
    TypeOK
    CacheCoherent
PROPERTIES
    ImplementsStream
    ReadReturns
