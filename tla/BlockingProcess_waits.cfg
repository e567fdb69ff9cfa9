\* Output, waits with and without timeouts, also in slots, stop, kill and close.
SPECIFICATION FairSpec
CONSTANTS
    MaxOutput = 2
    MaxDepth = 2
    Calls = {"Kill", "Stop", "StopInSlot", "Close", "Started", "ReadyRead", "Done"}
INVARIANTS
    SignalsAreServed
PROPERTIES
    KeepsContract
    StoppedProcessIsDone
\* User code need not make another call.
CHECK_DEADLOCK FALSE
