SPECIFICATION SyncFairSpec
CONSTANTS
    NULL = NULL
    Workers = {w1, w2}
    Fds = {f1}
PROPERTY FreedInTheEnd
