SPECIFICATION Spec
CONSTANTS
    w1 = w1 w2 = w2 main = main t1 = t1 t2 = t2 q = q q2 = q2 sg = sg
    NULL = NULL IMMEDIATE = IMMEDIATE
    Workers = {w1, w2}
    Threads = {main, t1}
    Main = main
    Waitqs = {q, q2}
    Signals = {sg}
    Home <- Floating
    Calls <- NestedSignalCalls
    MaxDepth = 2
    PerWorker = 2
    Rounds = 2
CHECK_DEADLOCK FALSE
INVARIANT NoLostWakeup
