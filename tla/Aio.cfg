SPECIFICATION AioFairSpec
CONSTANTS
    NULL = NULL
    Threads = {t1}
    Queues = {t1, "wq"}
    Subscribers = {}
    Slots = {1, 2}
    AtOnce = 1
    Ops = {"submit", "notify", "wait", "write", "read"}
    MaxCalls = 4
CHECK_DEADLOCK FALSE
INVARIANTS SlotExclusive AioWaited CompletionNoticed CompletionsCounted
PROPERTY AioReturnsWithRoom
