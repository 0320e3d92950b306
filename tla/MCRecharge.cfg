CONSTANTS
    Rows = {1, 2}
    NotifyIds = {success, finished}
    NoNotify = NoNotify
    RechargeRequests = {k1, k2}
    MaxCredits = 2
    Aging = TRUE
    MaxFailures = 1
SPECIFICATION FairRechargeSpec
INVARIANTS CreditsMatch AckMeansCredit
PROPERTY PaidIsCredited
CHECK_DEADLOCK FALSE
