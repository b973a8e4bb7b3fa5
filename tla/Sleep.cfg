SPECIFICATION SleepFairSpec
CONSTANTS
    NULL = NULL
    t1 = t1 t2 = t2
    Threads = {t1, t2}
    Queues = {t1, t2, "wq"}
    Subscribers = {t1, t2}
    NSEC = 2
    Naps <- ShortNaps
    MaxTime = 3
    MaxSleeps = 1
CHECK_DEADLOCK FALSE
INVARIANTS TimerListExact SleepsLongEnough OneMaster SleepersWatched
PROPERTY SleepReturns
