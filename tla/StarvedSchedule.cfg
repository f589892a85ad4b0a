CONSTANTS
  Minutely = Minutely
  Slower = Slower
  Timers = {Minutely, Slower}
  Interval <- MCInterval
  DueLimit = 2
  MaxCoalesced = 2
  Ticks = {k1}
  Admins = {m1}
  MaxTime = 5
  MaxChanges = 1
SPECIFICATION MCSpec
PROPERTIES
  DueIsDispatched
CHECK_DEADLOCK FALSE
