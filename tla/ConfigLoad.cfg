SPECIFICATION Spec
CONSTANTS
    Chars <- MCChars
    PrefixAlphabet <- MCPrefixAlphabet
    KeyAlphabet <- MCKeyAlphabet
    BuiltIn <- MCBuiltIn
    ProviderLists <- MCProviderLists
    CustomLists <- MCCustomLists
    BaseUrls <- MCBaseUrls
    GoodRoots <- MCGoodRoots
    Ids <- MCIds
    None = None
CHECK_DEADLOCK FALSE
INVARIANTS
    BlameIsDeserved
    EveryIdFindsItsProvider
    AcceptedIfSound
