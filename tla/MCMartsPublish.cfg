SPECIFICATION MCSpec
CONSTANTS
    Publishers = {p1, p2}
    Months = {m1, m2}
    RowsIn <- MCRowsIn
    MaxRetries = 1
    Quiet = TRUE
    MaxLaunches = 2
    MaxFaults = 2
    MaxRestates = 1
CHECK_DEADLOCK FALSE
INVARIANTS
    AloneBoardIsTrue
PROPERTIES
    AlonePublishes
    PublishedStays
    Converges
