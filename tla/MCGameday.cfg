\* Two invocations; enough trouble for a killed drill and a failed undo.
CONSTANTS
  MaxRuns = 2
  MaxTroubles = 2
SPECIFICATION FairSpec
INVARIANTS  RecordsAreTrue
PROPERTY OutageIsPaged
CHECK_DEADLOCK FALSE
