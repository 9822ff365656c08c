SPECIFICATION MCSpec
CONSTANTS
    h1 = h1
    h2 = h2
    w1 = w1
    w2 = w2
    c1 = c1
    r1 = r1
    r2 = r2
    Host <- MCHost
    Worker <- MCWorker
    Client <- MCClient
    MaxPayload = 2
    Request <- MCRequest
    Token = {"t1"}
    User = {"al"}
    Secret = {"s1"}
    NoToken = "none"
    NoUser = "none"
    NoCred = "none"
    Headers <- MCHeaders
    SourceLists <- MCSourceLists
    TTL = 2
    IdTTLs = {2}
    Timeout = 1
    MaxTime = 4
    MaxChange = 1
SYMMETRY MCSymmetry
INVARIANTS
    BundleIsOneReload
    StaleOnlyByLateStore
    CredentialIsCurrent
