SPECIFICATION ClientSpec
CONSTANTS
    Symbols <- MCSymbols
    Unreserved <- MCUnreserved
    Bases <- MCBases
    ClaimSecrets <- MCSecrets
    Credentials <- MCCredentials
CHECK_DEADLOCK FALSE
INVARIANTS
    TokenReachesClaim
    CredentialsSurvive
