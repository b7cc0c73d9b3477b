SPECIFICATION Spec
CONSTANTS
    Symbols <- MCSymbols
    RootUrls <- MCRoots
    GivenUrls <- MCGiven
CHECK_DEADLOCK FALSE
INVARIANTS
    SentUnderRoot
    SentOnBoundary
    SentInPrivate
    RefusedForCause
