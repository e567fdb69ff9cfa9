\* Two processes in two threads that share the launcher, with waits inside slots.
SPECIFICATION Spec
CONSTANTS
    t1 = t1
    t2 = t2
    thr1 = thr1
    thr2 = thr2
    NoToken = NoToken
    Token = {t1, t2}
    Thread = {thr1, thr2}
    ThreadOf <- TwoThreads
    MaxOutput = 0
    MaxDepth = 2
    Calls = {"Close", "Started", "Done"}
    Faults = FALSE
INVARIANTS
    NothingIsStranded
    SilentAfterUnregister
    ExactlyOneAnswer
\* User code need not make another call.
CHECK_DEADLOCK FALSE
SYMMETRY SwapThreads
