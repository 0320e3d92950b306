CONSTANTS
    Requests = {1}
    Scanner = 0
    Seqs = {1, 2}
    Negotiations = {1}
    ReminderDays = {1}
    Deadline = 2
    RevisionLimit = 2
    NeedReminders = TRUE
    MaxDisturbed = 1
SPECIFICATION FairSpec
INVARIANTS AppealGrounded LimitNegotiates
PROPERTIES AcceptanceSound DecidedOnce ScanDecides
CHECK_DEADLOCK FALSE
