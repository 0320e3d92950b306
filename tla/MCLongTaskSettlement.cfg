CONSTANTS
    Requests = {1, 2}
    Scanner = 0
    Disputes = {1, 2}
    NoDispute = 0
    MaxClosings = 2
    MaxDisturbed = 1
SPECIFICATION FairSpec
INVARIANT PaidAsSettled
PROPERTIES DisputesSound ScanCloses
CHECK_DEADLOCK FALSE
