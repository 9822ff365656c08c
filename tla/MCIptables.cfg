SPECIFICATION MCSpec
CONSTANTS
    Setups <- MCSetups
    Packets <- MCPackets
    Which = {"all", "cmds", "ranges", "nowhere", "groups", "nogroups", "kube", "tproxy",
             "tports", "dnsall", "dns", "badexcl", "dry"}
    Long = {"all", "tproxy", "dns"}
    Which6 = {"cmds", "dns"}
    Configs <- MCConfigs
    Users = {"0", "1337"}
    Others <- MCOthers
INVARIANTS
    ProxyNeverLoops
    OnlyIntendedCaptured
    InstalledMatchesIntent
    CleanedCapturesNothing
    PassMeansRedirected
PROPERTIES
    WorkingCaptureDecides
\* Both programs end, and so does the validation.
CHECK_DEADLOCK FALSE
