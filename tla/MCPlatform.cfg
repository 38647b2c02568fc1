SPECIFICATION EitherSpec
CONSTANTS
    Choices <- MCChoices
    MaxRuns = 2
    MaxTroubles = 2
    Snipers = {p1, p2}
    Requested = 3
    KillAfter = 2
    MaxRetry = 1
    MaxKills = 2
    MaxMishaps = 1
CHECK_DEADLOCK FALSE
INVARIANTS
    AccessIsKept
    ResumeIsSound
PROPERTIES
    FitRunsFinish
    StudyFills
