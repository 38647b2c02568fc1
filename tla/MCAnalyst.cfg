SPECIFICATION Spec
CONSTANTS
    Train = {"2019-01"}
    HeldOut = {"2019-08"}
    Scoring = {"2020-03"}
    Named = {"2019-08"}
    Holdout = "2019-08"
    Bytes = {"original", "backfilled", "renamed"}
    Original = "original"
    RowsOf <- MCRowsOf
    Rules <- MCRules
    Strange = {"renamed"}
    Ceiling = 60
    Versions = {v1, v2}
    Fits = {v1, v2}
    MaxFaults = 1
    MaxChanges = 1
CHECK_DEADLOCK FALSE
SYMMETRY MCSymmetry
INVARIANTS
    GreenIsOneStory
    PublishedIsSound
PROPERTY
    PinnedBytesStand
