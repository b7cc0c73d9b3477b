SPECIFICATION Spec
CONSTANTS
    Providers = {p1, p2}
    Configured = {p1}
    Origins = {o1, o2}
    Garbled = Garbled
    Tokens = {t1, t2}
    t1 = t1
    t2 = t2
    o1 = o1
    o2 = o2
    Origin <- MCOrigin
    Claims = {c1, c2}
    None = None
    DirSyncMayFail = TRUE
SYMMETRY Symmetry
CHECK_DEADLOCK FALSE
INVARIANTS
    ClaimedIsKept
    SpentIsAccountedFor
    StoredWasVouchedFor
    ServedIsOwn
