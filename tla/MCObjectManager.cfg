CONSTANTS
    Threads = {t1, t2}
    Objects = {o1, o2}
    Root = root
    NoObject = noObject
    NoThread = noThread
    a = a
    b = b
    Names = {a, b}
    NoName = noName
    Handles = {h1}
    NoHandle = noHandle
    Paths <- NestedPaths
    MaxPath = 2
    MaxOwned = 1
SPECIFICATION Spec
SYMMETRY Symmetry
CONSTRAINTS Intact Reachable KeptFew
INVARIANTS
    ReferencesAreCounted
    HandlesAreCounted
    ListedObjectsAreLive
CHECK_DEADLOCK FALSE
