SPECIFICATION Spec
CONSTANTS
    MaxThreads = 2
    MaxServlets = 2
    MaxStarts = 2
    Chains <- MCChains
    Busy = {0, 1}
    Keys = {"user", "db"}
INVARIANTS
    RunningIsOwned
    ChainInOrder
    FindIsInnermost
CHECK_DEADLOCK FALSE
