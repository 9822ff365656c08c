SPECIFICATION MCSpec
CONSTANTS
    k1 = k1
    k2 = k2
    a = a
    b = b
    Conn <- MCConn
    Host <- MCHost
    Requests <- MCRequests
    Responses <- MCResponses
    MaxRequests = 2
SYMMETRY MCSymmetry
INVARIANTS
    OpenIsAllowed
    ForwardedWasJudged
    NoUpstreamLeak
    NumOpenIsExact
    InSync
    LossIsExplained
    MutualWaitOnlyByExpect
PROPERTIES
    DrainedWhenShutdownReturns
    InboundIsOutbound
CHECK_DEADLOCK FALSE
