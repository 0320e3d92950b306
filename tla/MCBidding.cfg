CONSTANTS
    BidRequests = {1, 2}
    Scanner = 0
    Bids = {1, 2}
    NoBid = 0
    Prices = {1, 2}
    MaxNow = 1
    MaxBidDisturbed = 1
SPECIFICATION FairSpec
INVARIANTS OneSelection AcceptedIsOrdered
PROPERTY BidsEnd
CHECK_DEADLOCK FALSE
