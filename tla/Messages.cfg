SPECIFICATION MCSpec
CONSTANTS
    Targets <- MCTargets
    ServerNames = {"a", "x"}
    MaxHeaders = 2
    InitialCapacity = 1
    MaxRedirects = 2
    MaxCalls = 2
    MaxBlocks = 5
    MaxVariations = 3
INVARIANTS
    HpackInStep
    CodingsExact
    MessagesExact
    NamesAgree
    UrlsResolve
    ChainSound
    SentAsSubmitted
    RedirectSafe
CHECK_DEADLOCK FALSE
