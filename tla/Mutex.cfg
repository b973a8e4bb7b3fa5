SPECIFICATION FairSpec
CONSTANTS
    NULL = NULL
    Threads = {t1, t2, t3}
    Subscribers = {t1, t2, t3}
    Queues = {"wq"}
INVARIANTS MutualExclusion GrantNoticed NoSleepOnFree
PROPERTIES MutexIsLock LockReturns
