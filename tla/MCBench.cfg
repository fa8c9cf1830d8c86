SPECIFICATION FairSpec
CONSTANTS
    Requests <- MCRequests
    None = None
    Modes = {"closed_loop", "poisson"}
    ClosedChains <- MCClosed
    OpenChains <- MCOpen
    Concurrency = 2
    Connections = 1
    Pause <- MCPause
INVARIANTS
    SlotsConserved
    AllOrNothing
PROPERTIES
    RefinesReplay
    RunEnds
