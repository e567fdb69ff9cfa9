\* Every process handed over is deleted, and the destructor waits for all.
SPECIFICATION FairSpec
CONSTANTS
    Process = {p1, p2, p3}
INVARIANTS
    Accounted
PROPERTIES
    KeepsPromise
\* Owners need not hand over anything more.
CHECK_DEADLOCK FALSE
