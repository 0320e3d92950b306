SPECIFICATION FairSpec
CONSTANTS
  Webhooks = {w1}
  Notifications = {n1}
  Dispatchers = {d1, d2}
  NoItem = noItem
  MaxAttempts = 3
  MaxReplays = 2
  MaxStops = 1
CHECK_DEADLOCK FALSE
PROPERTIES DeliversAtLeastOnce WebhookSettles
