SPECIFICATION AnySpec
CONSTANTS
    TrainMonths = {1, 2}
    Kinds = {"a", "b"}
    StaticFiles <- MCStaticFiles
    Settled0 <- MCSettled0
    MaxActs = 4
    Declared <- MCDeclared
    BoundaryKind = "a"
    TargetKind = "a"
    DonorKind = "b"
    Workers = {w1, w2}
    Rates <- MCRates
    Total = 4
    KillAt = 1
    Timeout = 2
    TailLength = 2
    MaxFaults = 2
    Procs = {p1, p2}
    Runs = {configured, refit}
    Refits = {refit}
    LegacyRefits = {}
    MaxJobs = 3
    MaxVersions = 2
    Clients = {c1, c2}
    Span = 3
    Fresh = 3
    MaxCount = 2
    MaxVersion = 2
    MaxTroubles = 2
CHECK_DEADLOCK FALSE
INVARIANTS
    PointInTime
    LoadIsMeasured
    ProvenanceIsSound
    SignalsAreHonest
PROPERTIES
    RefillIsWhole
    DrillLeavesTheTruth
    
