SPECIFICATION EitherSpec
CONSTANTS
    Sustain12 = 1
    Sustain13 = 2
    Fresh = 8
    Patience <- MCPatience
    MaxEvents = 3
    Versions = {1, 2, 3}
    FeatureSet <- MCFeatureSet
    StartVersion = 2
    TargetVersion = 1
    MaxMoves = 2
    MaxFaults = 2
    MaxServes = 2
    MaxDrills = 1
CHECK_DEADLOCK FALSE
INVARIANTS
    HonestAnswers
    DrillIsSound
    ServingIsSound
PROPERTIES
    
    ServeTellsTheTruth
    RehearsalReturns
