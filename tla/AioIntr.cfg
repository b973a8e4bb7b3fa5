SPECIFICATION AioSignalSpec
CONSTANTS
    NULL = NULL
    Threads = {t1}
    Queues = {t1, "wq"}
    Subscribers = {t1}
    Slots = {1, 2}
    AtOnce = 1
    Ops = {"submit", "wait"}
    MaxCalls = 3
CHECK_DEADLOCK FALSE
INVARIANT AioWaited
