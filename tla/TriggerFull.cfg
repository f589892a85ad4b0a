\* Two dispatches of one trigger compete for one place; one invocation may be
\* lost, a statement may throw, and the workspace may be deleted.
SPECIFICATION Spec
CONSTANTS
  Triggers = {t1}
  Dispatches = {d1, d2}
  TriggerOf <- OneTrigger
  Runs = {r1, r2}
  Requests = {q1}
  Crons = {c1}
  None = None
  MaxConcurrent = 1
  PackLimit = 2
  MaxAttempts = 2
  MaxLeases = 2
  MaxCrashes = 1
  MayThrow = TRUE
  MayQuarantine = TRUE
SYMMETRY Interchangeable
INVARIANTS
  OutcomeFollowsRun
  ConcurrencyBound
