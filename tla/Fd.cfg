SPECIFICATION FairSpec
CONSTANTS
    NULL = NULL
    t1 = t1 t2 = t2 w1 = w1 w2 = w2
    Threads = {t1, t2}
    Workers = {w1, w2}
    Requests <- ReaderWriter
    MaxWaits = 1
    Kinds = {"IN", "OUT", "HUP"}
    Subscribers = {t1}
INVARIANTS FdWatched MovedNotForgotten ErrorToldToAll
PROPERTY WaitFdReturns
