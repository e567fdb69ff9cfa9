CONSTANTS
    size = 4
    maxThreadCount = 3
    Options = {"Ordered", "Unordered"}
SPECIFICATION FairSpec
INVARIANTS
    NothingUsedAfterwards
    OnlyWholeResults
    InOrder
    AllReduced
PROPERTY Ends
CHECK_DEADLOCK FALSE
