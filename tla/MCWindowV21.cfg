SPECIFICATION FairSpec
CONSTANTS
    Version = "V2.1"
    Replicate = FALSE
    HardLimit = 1
    MaxEnds = 2
INVARIANTS
    CompletedIntact
    PairIsFair
    RecordedBeforeNext
PROPERTIES
    NoChangeOfGear
    Concludes
CHECK_DEADLOCK FALSE
