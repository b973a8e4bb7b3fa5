SPECIFICATION FairSpec
CONSTANTS
    w1 = w1 w2 = w2 main = main t1 = t1 t2 = t2 q = q q2 = q2 sg = sg
    NULL = NULL IMMEDIATE = IMMEDIATE
    Workers = {w1, w2}
    Threads = {main, t1, t2}
    Main = main
    Waitqs = {q}
    Signals = {sg}
    Home <- Pinned
    Calls <- SchedCalls
    MaxDepth = 1
    PerWorker = 1
    Rounds = 1
CHECK_DEADLOCK FALSE
INVARIANTS StackExclusive RunningFlagExact ListsConsistent RefcntExact ImmediateWatched
           RearmExclusive SignalsExact NothingLeftPending NoDanglingEvent AssertionsHold
           NoLostWakeup
PROPERTY ThreadsExit
