SPECIFICATION FairSpec
CONSTANTS
    Calls = {c1, c2, c3}
    Readers = {r1}
    Inodes = {i1, i2}
    NoInode = NoInode
    NoFile = NoFile
    Closed = Closed
CHECK_DEADLOCK FALSE
INVARIANTS
    NeverTorn
    SavedStays
    HardenedStays
    RaisedLeavesNothing
PROPERTIES
    AtomicUpdates
    EveryCallReturns
