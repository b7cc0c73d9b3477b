SPECIFICATION Spec
CONSTANTS
    Keys = {k1, k2}
    Commands = {c1, c2}
    Claims = {q1, q2}
    Requests = {r1}
    None = None
    Wrong = Wrong
    PoolSize = 2
    DirSyncMayFail = TRUE
SYMMETRY Symmetry
CHECK_DEADLOCK FALSE
INVARIANTS
    SpentOnce
    HandedOutIsRecognised
    DeadStaysDead
    OnlyLiveSecretsServed
PROPERTIES
    ActsAsRegistry
