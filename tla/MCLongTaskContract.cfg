CONSTANTS
    Requests = {1, 2}
    Scanner = 0
    Changes = {1}
    NoChange = 0
    RejectionLimit = 2
    MaxRejections = 3
    Wallet = 2
    MaxVersion = 2
    MaxDisturbed = 1
SPECIFICATION FairSpec
INVARIANTS ContractSound EscrowRecorded CountersAct
PROPERTIES ContractFinal SilenceEnds
CHECK_DEADLOCK FALSE
