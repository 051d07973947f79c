CONSTANTS
    hdb = hdb
    hdc = hdc
    hdb0 = hdb0
    Threads = {loader, reader}
    Loader = loader
    Physical <- TwoChannels
    Partition <- OnePartition
    Sectors = {0}
    MaxSector = 1
SPECIFICATION Spec
INVARIANTS
    TransfersHitTheirSector
    InterruptsAreNotLost
CHECK_DEADLOCK FALSE
CONSTRAINT OneAtATime
