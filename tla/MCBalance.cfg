CONSTANTS
    Users = {u1, u2}
    Withdrawals = {w1, w2}
    Admins = {a1}
    NoWithdrawal = NoWithdrawal
    NoUser = NoUser
    Amounts = {0, 1, 2}
    MinWithdrawal = 1
    MaxCny = 2
    TransferEnabled = TRUE
SPECIFICATION Spec
INVARIANTS MoneyAccounted FrozenBacksPending
PROPERTIES ReviewDecidedOnce ImplementsWallet
SYMMETRY Symmetry
CHECK_DEADLOCK FALSE
