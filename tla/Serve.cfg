SPECIFICATION Spec
CONSTANTS
    Providers = {p1}
    Requests = {r1, r2}
    Days = {d1, d2}
    MaxClaims = 2
INVARIANTS
    OnlyOpenClients
    OneSnapshot
    NumberedInOrder
    FaultsAreFoundAtStart
PROPERTIES
    StopEnds
    AcceptedIsAnswered
