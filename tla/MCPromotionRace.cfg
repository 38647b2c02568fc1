SPECIFICATION Spec
CONSTANTS
    Scale = 3
    Procs = {p1, p2}
    Runs = {r1, r2}
    Scores <- MCScores
    Floor <- MCFloor
    GateCfg <- MCGateCfg
    Alone = FALSE
    FaultyReads = FALSE
    MaxLaunches = 2
    MaxOverrides = 0
CHECK_DEADLOCK FALSE
PROPERTY
    ReplacesWhatItJudged
