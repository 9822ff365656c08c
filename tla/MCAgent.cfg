SPECIFICATION MCSpec
CONSTANTS
    MaxBytes = 2
    Window = 1
    Files <- MCFiles
    Requests <- MCRoutingRequests
    Lower <- MCLower
    Wrap = 3
    MaxStarts = 3
    Goroutines = {"g1", "g2"}
    Weights <- MCWeights
    MaxPicks = 9
    MaxOverlaps = 1
    Client = {"c1", "c2", "c3"}
    Conn = {"k1", "k2", "k3"}
    MaxCap = 2
    MaxIdle = 1
    MaxGen = 3
    Link = {1}
    Download = {"d1"}
    MaxVer = 2
    Inode = {1, 2, 3, 4, 5}
    MaxBak = 1
INVARIANTS
    HistoryFree
    PanicIsExplained
    ProportionalAtAllTimes
    EachConnInOnePlace
    AlwaysInService
    AlwaysAnImage
PROPERTIES
    ImplementsPipe
    HalfCloseIsRelayed
    TunnelEnds
    CacheCatchesUp
CHECK_DEADLOCK FALSE
