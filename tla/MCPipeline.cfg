SPECIFICATION BesideSpec
CONSTANTS
    Executions = {e1, e2}
    Sizes <- MCSizes
    Champions = {1, 2}
    Beats <- MCBeats
    MaxRetries = 1
    Staged = TRUE
    MaxExecutions = 2
    MaxLost = 1
    MaxChanges = 2
    Publishers = {p1}
    Months = {m1}
    RowsIn <- MCRowsIn
    Quiet = TRUE
    MaxLaunches = 0
    MaxFaults = 0
    MaxRestates = 0
CHECK_DEADLOCK FALSE
INVARIANTS
    ExecutionsAreSound
    
PROPERTY
    EveryRunReports
