SPECIFICATION FairSpec
CONSTANTS
    Version = "V2.2"
    Replicate = TRUE
    HardLimit = 2
    MaxEnds = 2
INVARIANTS
    CompletedIntact
    PairIsFair
PROPERTIES
    Concludes
CHECK_DEADLOCK FALSE
