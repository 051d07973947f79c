CONSTANTS
    Threads = {t1, t2}
    Files = {f, g}
    Writable = {g}
    Mappings = {m1, m2}
    FilePages = 2
    AreaPages = 2
    MaxHandle = 1
    Frames = {a}
    MaxViews = 2
    None = None
SYMMETRY Symmetry
SPECIFICATION Spec
INVARIANTS
    ViewsShowTheirFile
    PlacedViewsAreDisjoint
    FaultsFindTheirView
    OnlyMappingDeadlocks
CHECK_DEADLOCK FALSE
VIEW StoppedAlike
CONSTRAINTS
    StrongestProtection
    MappedFirst
    OneChosen
    OneOffset
