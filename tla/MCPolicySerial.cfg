SPECIFICATION MCSpec
CONSTANTS
    Handler = {}
    MaxVersion = 5
    Malformed <- MCMalformed
    MaxCrash = 2
    Options <- MCOptions
    ip1 = ip1
    ip2 = ip2
    ipMeta = ipMeta
    noIp = noIp
    Docs <- MCDocs
    Hosts <- MCHosts
    Addrs <- MCAddrs
    Metadata = ipMeta
    Scopes <- MCScopes
    RandomLen = 2
    MaxRecord = 40
    Hellos <- MCHellos
INVARIANTS
    CacheNotAheadOfMemory
    DecisionFollowsDocument
    NeverTheWrongName
PROPERTIES
    NoRollback
CHECK_DEADLOCK FALSE
