SPECIFICATION RwFairSpec
CONSTANTS
    NULL = NULL
    Threads = {t1, t2, t3}
    Subscribers = {t1, t2}
    Queues = {"wq", "wr_wq"}
INVARIANTS WriterAlone WriterWoken
PROPERTIES InnerIsLock RwImplements RwLockReturns
