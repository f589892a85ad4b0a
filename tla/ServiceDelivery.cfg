CONSTANTS
  Devices = {d1}
  Events = {e1}
  Consumers = {c1, c2}
  Clients = {q1, q2}
  MaxAttempts = 2
  MaxTries = 3
  NotificationBudgets <- MCNotificationBudgets
  Alerts = {a1}
  Ticks = {t1, t2}
  MaxDeliveryAttempts = 2
  AlertBudgets <- MCAlertBudgets
  Calls = {q1, q2}
  States = {s1}
  Capabilities = {k1}
  Nobody = Nobody
  LeaseOutlivesRefresh = TRUE
  BrokerBudgets <- MCBrokerBudgets
SPECIFICATION MCSpec
INVARIANTS
  LedgerIsTrue
  ActiveDeviceHasToken
  SingleUse
PROPERTIES
  QueuedSettles
  DeliveredStays
  AlertSettles
CHECK_DEADLOCK FALSE
