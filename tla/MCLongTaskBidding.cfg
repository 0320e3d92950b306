CONSTANTS
    Requests = {k1, k2}
    Scanner = scanner
    Operations <- AllOperations
    Workspaces = {w1, w2, w3}
    SeatLimit = 2
    MaxRound = 2
    MaxFailures = 1
    MaxOverlaps = 1
SPECIFICATION FairSpec
INVARIANTS SeatsCounted OneContract SelectionComplete
PROPERTY FullRoundDecided
CHECK_DEADLOCK FALSE
