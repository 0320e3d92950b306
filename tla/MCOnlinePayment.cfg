SPECIFICATION Spec
CONSTANTS
  Rows = {1, 2}
  NotifyIds = {n1, n2}
  NoNotify = noNotify
  Requests = {k1, k2}
  Purposes = {"ORDER", "RECHARGE"}
  MaxCredits = 2
  MaxFailures = 1
  Crashes = TRUE
SYMMETRY Symmetry
CHECK_DEADLOCK FALSE
INVARIANT TradesMatch
PROPERTY SettlementFinal
