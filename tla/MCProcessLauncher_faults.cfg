\* The socket fails at either end; closed processes and the stopped launcher come to an end.
SPECIFICATION FairSpec
CONSTANTS
    t1 = t1
    t2 = t2
    thr1 = thr1
    thr2 = thr2
    NoToken = NoToken
    Token = {t1}
    Thread = {thr1}
    ThreadOf <- OneThread
    MaxOutput = 1
    MaxDepth = 1
    Calls = {"Close", "Started", "Terminate"}
    Faults = TRUE
INVARIANTS
    LossIsReported
PROPERTIES
    ClosedProcessIsReaped
    StoppedLauncherEnds
\* User code need not make another call.
CHECK_DEADLOCK FALSE
