CONSTANTS
    Headers <- MCHeaders
    Names <- MCNames
    LastCluster = 4
    FileSizes = {0, 512, 513, 1025}
    BaseLength = 2
    ExtensionLength = 2
    MaxSteps = 5
SPECIFICATION Spec
INVARIANTS
    ReadsAreOfTheFile
    RootDirectoryFits
    NamesAreFound
CHECK_DEADLOCK FALSE
