SPECIFICATION Spec
CONSTANTS
    Version = "V2.1"
    Replicate = FALSE
    HardLimit = 2
    MaxEnds = 1
PROPERTIES
    FailureKeepsLogs
CHECK_DEADLOCK FALSE
