SPECIFICATION Spec
CONSTANTS
    ClustersPerPage = 2
    FileClusters = 3
    MinCachedPages = 2
    Values = {v1, v2}
    NoData = NoData
    MaxCount = 3
INVARIANTS
    PagesCachedOnce
    ReadersSeeLastWrite
    UnsavedIsModified
    MapHasRoom
SYMMETRY Symmetry
