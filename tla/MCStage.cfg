SPECIFICATION FairSpec
CONSTANTS
    Requests = {r1}
    Tries = 2
    MinSuccess = 1
    Required = {l1}
    MaxRuns = 2
INVARIANTS
    ProbedBeforeSent
    NoOrphans
    EvidenceIsOwn
    FailsForAReason
PROPERTIES
    StageEnds
CHECK_DEADLOCK FALSE
