SPECIFICATION Spec
CONSTANTS
    Keys <- MCKeys
    Order <- MCOrder
    PrefixPool <- MCPrefixes
    Held <- MCHeld
    Strange <- MCStrange
    Requests = {r1}
    MaxAsked = 2
    CleanText = FALSE
    MayRepeat = FALSE
    ErrorFields = {"none"}
CHECK_DEADLOCK FALSE
INVARIANTS
    AlwaysAnswers200
