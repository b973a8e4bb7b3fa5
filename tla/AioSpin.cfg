SPECIFICATION AioFairSpec
CONSTANTS
    NULL = NULL
    Threads = {t1}
    Queues = {t1, "wq"}
    Subscribers = {}
    Slots = {1, 2}
    AtOnce = 1
    Ops = {"submit", "notify"}
    MaxCalls = 3
CHECK_DEADLOCK FALSE
PROPERTY AioReturns
