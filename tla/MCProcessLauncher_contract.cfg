\* One process, waits, kill and close, no faults: the contract is kept, and a kill takes effect.
SPECIFICATION FairSpec
CONSTANTS
    t1 = t1
    t2 = t2
    thr1 = thr1
    thr2 = thr2
    NoToken = NoToken
    Token = {t1}
    Thread = {thr1}
    ThreadOf <- OneThread
    MaxOutput = 2
    MaxDepth = 1
    Calls = {"Started", "ReadyRead", "Done", "Kill", "Write", "Close"}
    Faults = FALSE
PROPERTIES
    KeepsContract
    KilledProcessIsDone
\* User code need not make another call.
CHECK_DEADLOCK FALSE
