\* One place, one dispatch: an invocation is lost, statements fail and the
\* workspace is deleted. Without symmetry.
SPECIFICATION FairSpec
CONSTANTS
  Triggers = {t1}
  Dispatches = {d1}
  TriggerOf <- OneTrigger
  Runs = {r1, r2}
  Requests = {q1}
  Crons = {c1}
  None = None
  MaxConcurrent = 1
  PackLimit = 2
  MaxAttempts = 2
  MaxLeases = 2
  MaxCrashes = 1
  MayThrow = TRUE
  MayQuarantine = TRUE
INVARIANTS
  OneLiveRun
PROPERTIES
  DispatchSettles
