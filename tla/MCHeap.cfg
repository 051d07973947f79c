CONSTANTS
    Threads = {t1, t2}
    HeapUnits = 13
    HeaderUnits = 2
    Align = 16
    Requests = {16, 40, 72}
    GuardEntries = 2
    GuardRequest <- GuardSizes
SPECIFICATION Spec
SYMMETRY Symmetry
INVARIANTS
    BlocksTileTheHeap
    FreeListIsComplete
    FreeBlocksDoNotTouch
PROPERTIES
    LeaksAreDetected
    ImplementsAllocator
CHECK_DEADLOCK FALSE
