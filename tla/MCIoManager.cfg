CONSTANTS
    Threads = {mounter, user}
    Mounter = mounter
    Disks = {fdd0}
    FsDevice = fat
    Volumes = {v1, v2}
    Files = {f1, f2}
    LetterCount = 1
    Null = null
SPECIFICATION Spec
SYMMETRY Symmetry
INVARIANTS
    ReferencesAreCounted
    StacksAreDeepEnough
    RequestsAreCompleted
CHECK_DEADLOCK FALSE
