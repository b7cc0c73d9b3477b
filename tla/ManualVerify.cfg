SPECIFICATION ScriptSpec
CONSTANTS
    MaxPolls = 3
    Prefixed = {a1, a2}
    Bare = {b1, b2}
    MaxListed = 3
INVARIANTS
    DoneMeansVerified
    NothingLeftBehind
PROPERTIES
    ScriptEnds
