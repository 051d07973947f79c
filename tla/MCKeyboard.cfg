CONSTANTS
    Threads = {t1, t2}
    Nobody = Nobody
    KBD_BUFFER_SIZE = 2
    MaxKeys = 4
    MaxControls = 2
SPECIFICATION Spec
SYMMETRY Symmetry
INVARIANTS
    SymbolsAreAccounted
    ReaderIsWoken
    LedsShowIndicators
CHECK_DEADLOCK FALSE
