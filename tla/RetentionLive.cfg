CONSTANTS
  Purges = {p1}
  Exports = {e1}
  Workers = {w1}
  None = None
  MaxFaults = 3
  MaxCrashes = 1
  MaxRetries = 1
  MaxWrites = 0
  MaxSweeps = 0
  MaxOverlaps = 0
  FirstArtifact = {"live"}
  LeaseOutlivesWorker = TRUE
SPECIFICATION LiveSpec
INVARIANTS
  RecoveredIntact
  ReceiptCertifiesErasure
  FailedPurgeIsRetryable
CHECK_DEADLOCK FALSE
PROPERTIES
  PurgeSettles
  FenceLifts
