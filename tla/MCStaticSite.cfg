SPECIFICATION Spec
CONSTANTS
    Trees <- MCTrees
    Root = "top"
    BaseDir <- MCBaseDir
    MAX_PATH = 11
    SizeOf <- MCSizeOf
    Capacity = 31
    IntMax = 31
    Batch = 2
    KnownSuffixes <- MCSuffixes
INVARIANTS
    CacheSafe
    WalkIsWhole
    FoundIsOwn
    AnswerIsOwn
CHECK_DEADLOCK FALSE
