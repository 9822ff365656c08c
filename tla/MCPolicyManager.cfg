SPECIFICATION MCSpec
CONSTANTS
    h1 = h1
    h2 = h2
    Handler <- MCHandlers
    MaxVersion = 4
    Malformed <- MCMalformed
    MaxCrash = 1
    Options <- MCOptions
    RcHandler <- MCOneHandler
    MaxDoc = 3
    BadDocs <- MCMalformed
    MaxRcCrash = 1
    RcOptions <- MCRcOptions
INVARIANTS
    NeverOpenWithCache
PROPERTIES
    CacheOnlyGetsParsedBodies
    RefreshConverges
    SameProtocol
CHECK_DEADLOCK FALSE
