CONSTANTS
    Threads = {t1, t2}
    NoThread = noThread
    Null = null
    NotMapped = notMapped
    LastPage = 3
    Areas <- OneArea
    VirtualPages = {1, 2, 3}
    Mmds = {m1, m2}
    Sizes = {2}
    ShareBits = 5
    Increment = 1
SPECIFICATION Spec
SYMMETRY Symmetry
CONSTRAINTS Intact Few
INVARIANTS
    PageListsAreWellFormed
    PagesHaveOneOwner
    MappingsAreCounted
CHECK_DEADLOCK FALSE
