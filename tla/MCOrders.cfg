CONSTANTS
    Requests = {k1, k2}
    Operations <- AllOperations
    DeliveryIds = {1, 2, 3}
    NoDelivery = 0
    MaxDeliveryAttempts = 3
    Wallet = 2
    MaxPaidOut = 2
    MaxDisturbed = 2
SPECIFICATION Spec
INVARIANTS EscrowBacked MoneyFollowsStatus ReviewsCurrent
PROPERTY HonoursEscrow
SYMMETRY Symmetry
CHECK_DEADLOCK FALSE
