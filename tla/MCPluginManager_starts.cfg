\* Every graph of dependencies and one start; for some, three starts with crashes.
CONSTANTS
    a = a
    b = b
    c = c
    None = None
    Plugins = {a, b, c}
    pluginSpecs <- ByName
    HashOrders <- Orders
    Configurations <- AllConfigurations
    SendsEarly = FALSE
    MaxStarts <- Starts
SPECIFICATION Spec
INVARIANTS
    LoadQueueIsSorted
    DependenciesOutlive
    RunsWhenItCan
    DeletedAfterAllFinished
    CrashIsBlamedRightly
    WaitsForPluginsOnly
\* Qt Creator is not started again for ever.
CHECK_DEADLOCK FALSE
