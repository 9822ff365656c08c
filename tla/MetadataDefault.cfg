SPECIFICATION Spec
CONSTANTS
    ip1 = ip1
    ip2 = ip2
    ipMeta = ipMeta
    noIp = noIp
    Docs <- MCDocs
    Hosts <- MCHosts
    Addrs <- MCAddrs
    Metadata = ipMeta
    Scopes <- MCScopes
INVARIANTS
    MetadataBlockedByDefault
CHECK_DEADLOCK FALSE
