SPECIFICATION FairSpec
CONSTANTS
    c1 = c1
    c2 = c2
    d1 = d1
    s1 = s1
    s2 = s2
    s3 = s3
    Client <- MCClient
    Dst <- MCDst
    Sid <- MCSid
    NoSid = NoSid
    NoKey = NoKey
INVARIANTS
    SessionsAccounted
    OneStragglerAfterShutdown
PROPERTIES
    FlowIsolation
    SilentSessionsAreReaped
CHECK_DEADLOCK FALSE
