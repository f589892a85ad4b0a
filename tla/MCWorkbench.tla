------------------------------ MODULE MCWorkbench ------------------------------
(***************************************************************************)
(* What the workbench shows: the workspace panel, the automations panel,   *)
(* the screens over the query cache, the administration summary and the    *)
(* event feed, each with the part of the control plane that answers it.    *)
(* They share no state, so each initial state runs one of them.            *)
(***************************************************************************)
EXTENDS WorkspacePanel, AutomationsPanel, QueryCache, AdminSummary, EventFeed

VARIABLE running

U(a, o, f) == [asks |-> a, others |-> o, faults |-> f]
MCPanelBudgets == {U(3, 0, 0), U(2, 1, 0), U(2, 0, 1)}
A(a, f) == [asks |-> a, faults |-> f]
MCAutomationBudgets == {A(2, 0), A(1, 1)}
MCCacheBudgets == {U(2, 1, 0), U(2, 0, 1)}
V(f, t, a, l) == [facts |-> f, traces |-> t, asks |-> a, faults |-> l]
MCSummaryBudgets == {V(0, 2, 2, 0), V(1, 0, 2, 1)}

vars == <<panelVars, automationVars, cacheVars, summaryVars, feedVars, running>>

One(set) == CHOOSE b \in set : TRUE
Runs(name) == running = name /\ UNCHANGED running

MCInit ==
  /\ PanelInit /\ AutomationInit /\ CacheInit /\ SummaryInit /\ FeedInit
  /\ running \in {"panel", "automations", "cache", "summary", "feed"}
  /\ running = "panel" \/ (pleft = One(PanelBudgets) /\ myRole = "owner")
  /\ running = "automations" \/ (aleft = One(AutomationBudgets) /\ trigger = NoTrigger)
  /\ running = "cache" \/ (qleft = One(CacheBudgets) /\ resolved = One(Workspaces))
  /\ running = "summary" \/ uleft = One(SummaryBudgets)

MCNext ==
  \/ Runs("panel") /\ PanelNext /\ UNCHANGED <<automationVars, cacheVars, summaryVars, feedVars>>
  \/ Runs("automations") /\ AutomationNext /\ UNCHANGED <<panelVars, cacheVars, summaryVars, feedVars>>
  \/ Runs("cache") /\ CacheNext /\ UNCHANGED <<panelVars, automationVars, summaryVars, feedVars>>
  \/ Runs("summary") /\ SummaryNext /\ UNCHANGED <<panelVars, automationVars, cacheVars, feedVars>>
  \/ Runs("feed") /\ FeedNext /\ UNCHANGED <<panelVars, automationVars, cacheVars, summaryVars>>

MCSpec == MCInit /\ [][MCNext]_vars /\ PanelFairness /\ CacheFairness
================================================================================
