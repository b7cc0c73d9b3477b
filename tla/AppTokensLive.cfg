SPECIFICATION FairSpec
CONSTANTS
    Keys = {k1}
    Commands = {c1, c2}
    Claims = {q1, q2}
    Requests = {r1}
    None = None
    Wrong = Wrong
    PoolSize = 1
    DirSyncMayFail = FALSE
CHECK_DEADLOCK FALSE
PROPERTIES
    EveryCallEnds
