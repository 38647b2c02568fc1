SPECIFICATION Spec
CONSTANTS
    Versions = {1, 2, 3}
    FeatureSet <- MCFeatureSet
    StartVersion = 2
    TargetVersion = 1
    MaxMoves = 2
    MaxFaults = 2
    MaxServes = 2
    MaxDrills = 1
CHECK_DEADLOCK FALSE
INVARIANT RehearsalRestores
