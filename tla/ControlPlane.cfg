CONSTANTS
  Ann = Ann
  Ben = Ben
  Away = Away
  Free = Free
  Guarded = Guarded
  Users = {Ann, Ben}
  Home = Home
  Workspaces = {Home, Away}
  Requests = {r1, r2}
  Nowhere = Nowhere
  ExternalRole <- MCExternalRole
  IdentityBudgets <- MCIdentityBudgets
  Tools = {Free, Guarded}
  ToolRuns = {x1, x2}
  ToolCalls = {c1, c2}
  NoTool = NoTool
  Catalog <- MCCatalog
  AccessBudgets <- MCAccessBudgets
  PackRuns = {w1, w2}
  MaxToolCalls = 2
  MaxConcurrentRuns = 1
  NoRun = NoRun
  PubBudgets <- MCPubBudgets
  Minutely = Minutely
  Timers = {Minutely, Slower}
  Interval <- MCInterval
  DueLimit = 1
  MaxCoalesced = 2
  Ticks = {k1, k2}
  Admins = {m1}
  MaxTime = 3
  MaxChanges = 1
SPECIFICATION MCSpec
INVARIANTS
  HeldToolRunsOnce
  PublicationFollowsRun
  EveryOccurrenceOnce
PROPERTIES
  OwnerRemains
SYMMETRY Interchangeable
CHECK_DEADLOCK FALSE
