SPECIFICATION SyncFairSpec
CONSTANTS
    NULL = NULL
    Workers = {w1, w2, w3}
    Fds = {f1, f2}
INVARIANTS NoUseAfterFree BarrierExact SleepersKnown
PROPERTY FreedUnlessLost
