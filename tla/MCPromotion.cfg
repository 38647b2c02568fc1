SPECIFICATION Spec
CONSTANTS
    Scale = 3
    Procs = {p1, p2}
    Runs = {r1, r2}
    Scores <- MCScores
    Floor <- MCFloor
    GateCfg <- MCGateCfg
    Alone = FALSE
    FaultyReads = TRUE
    MaxLaunches = 2
    MaxOverrides = 2
CHECK_DEADLOCK FALSE
INVARIANTS
    VersionsTellTheTruth
    ChampionQuotable
    ChampionEarned
PROPERTY
    NothingDeleted
