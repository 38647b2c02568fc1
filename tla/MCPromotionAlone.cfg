SPECIFICATION Spec
CONSTANTS
    Scale = 3
    Procs = {p1, p2}
    Runs = {r1, r2}
    Scores <- MCScores
    Floor <- MCFloor
    GateCfg <- MCGateCfg
    Alone = TRUE
    FaultyReads = FALSE
    MaxLaunches = 3
    MaxOverrides = 1
CHECK_DEADLOCK FALSE
INVARIANTS
    OneVersionPerRun
PROPERTIES
    ReplacesWhatItJudged
    PromotionImproves
    RefinesLineage
