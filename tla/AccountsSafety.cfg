SPECIFICATION Spec
CONSTANTS
    Keys <- MCKeys
    Order <- MCOrder
    PrefixPool <- MCPrefixes
    Held <- MCHeld
    Strange <- MCStrange
    Requests = {r1}
    MaxAsked = 2
    CleanText = FALSE
    MayRepeat = TRUE
    ErrorFields = {"strings", "garbage"}
CHECK_DEADLOCK FALSE
INVARIANTS
    NoNamedIdLeaks
    ShownIdsRouteBack
    FailureIsContained
    OnlyBlanksCollide
    ConfiguredOrder
    OnlyAskedIsShown
