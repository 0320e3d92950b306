SPECIFICATION FairSpec
CONSTANTS
  Rows = {1, 2}
  NotifyIds = {n1, n2}
  NoNotify = noNotify
  Requests = {k1}
  Purposes = {"ORDER", "RECHARGE"}
  MaxCredits = 3
  MaxFailures = 2
  Crashes = FALSE
CHECK_DEADLOCK FALSE
INVARIANT CreditedOnce
PROPERTY PaidTakesEffect
