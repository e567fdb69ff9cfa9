CONSTANTS
    a1 = a1
    a2 = a2
    a3 = a3
    b1 = b1
    b2 = b2
    ta = ta
    ta2 = ta2
    tb = tb
    A = A
    B = B
    None = None
    Steps = {a1, a2, a3, b1, b2}
    Targets = {ta, ta2, tb}
    Projects = {A, B}
    target <- MCTarget
    project <- MCProject
    Disabled = {a2}
    Threads = {b1}
    Requests <- Usual
    MaxBuilds = 2
    MaxParses = 1
SPECIFICATION FairSpec
INVARIANTS
    StaysInStep
    AnnouncedOnce
    RemovedIsGone
PROPERTIES
    BuildEnds
CHECK_DEADLOCK FALSE
