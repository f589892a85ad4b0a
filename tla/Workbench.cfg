CONSTANTS
  PanelCalls = {p1, p2}
  Members = {m1}
  PanelBudgets <- MCPanelBudgets
  Tabs = {tb1, tb2}
  AutomationBudgets <- MCAutomationBudgets
  Workspaces = {w1, w2}
  CacheBudgets <- MCCacheBudgets
  Refreshes = {r1, r2}
  None = None
  MaxAttempts = 1
  SummaryBudgets <- MCSummaryBudgets
  MaxEvents = 4
  StreamBatch = 2
  MaxCuts = 1
SPECIFICATION MCSpec
INVARIANTS
  FeedSkipsNothing
PROPERTIES
  ExportShownReady
  OwnChangeIsShown
  SummaryNeverGoesBack
CHECK_DEADLOCK FALSE
