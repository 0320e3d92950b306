CONSTANTS
    basic = basic
    pro = pro
    Requests = {1, 2}
    Subs = {s1, s2}
    Periods = {1, 2}
    Holds = {h1}
    Estimates = {1}
    Nobody = nobody
    Plans = {basic, pro}
    Total <- PlanTotals
    FreeTotal = 1
    PeriodLength = 2
    FreeLength = 3
    MaxNow = 3
    MaxUsage = 2
    MaxDisturbed = 1
SYMMETRY Symmetry
SPECIFICATION Spec
INVARIANTS ChargesSound BilledOnce QuotaGiven
CHECK_DEADLOCK FALSE
