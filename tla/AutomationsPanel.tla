---------------------------- MODULE AutomationsPanel ----------------------------
(***************************************************************************)
(* The automations panel of the web client: a trigger of the current pack, *)
(* its last dispatch and an operator alert, in two tabs of the same user.  *)
(* A change of the trigger names the version the tab was shown.            *)
(***************************************************************************)
EXTENDS Naturals

CONSTANTS
  Tabs,
  AutomationBudgets \* bound: what the user does, answers that are lost,
                    \* and the alerts that are raised

VARIABLES
  trigger,  \* control_triggers: the row, its status "none" before it is configured
  audits,   \* how many trigger.updated events were recorded
  secret,   \* which tabs were given the webhook's secret
  dispatch, \* the status of the last dispatch, "pending" while it is leased too
  alert,    \* the operator alert and its delivery
  tab,      \* what each tab shows: the rows, the draft of the input, its busy id
  change,   \* the request of each tab's button
  load,     \* the reads of each tab's loads: the panel's own, and the one that follows a change
  again,    \* the tab loads again in 1.2 s
  aleft     \* what is left of the budget

automation == <<trigger, audits, secret, dispatch, alert>>
automationVars == <<automation, tab, change, load, again, aleft>>

NoTrigger == [status |-> "none", input |-> 0, version |-> 0]
NoAlert == [status |-> "none", delivery |-> "none"]
NoDraft == 0 - 1
NoChange == [pc |-> "none", kind |-> "none", version |-> 0, status |-> "none", input |-> 0, row |-> NoTrigger]
NoLoad == [pc |-> "none", trigger |-> NoTrigger, dispatch |-> "none", alert |-> NoAlert]

Loads == {"own", "following"}

Fresh == [trigger |-> NoTrigger, dispatch |-> "none", alert |-> NoAlert, draft |-> NoDraft, busy |-> "none"]
(* A trigger whose first dispatch has failed, as both tabs show it; the    *)
(* user has typed another input. *)
FailedOnce == [trigger |-> [status |-> "enabled", input |-> 0, version |-> 2], dispatch |-> "failed",
           alert |-> [status |-> "open", delivery |-> "failed"], draft |-> 1, busy |-> "none"]

AutomationInit ==
  /\ \E shows \in {Fresh, FailedOnce} :
       /\ trigger = shows.trigger /\ dispatch = shows.dispatch /\ alert = shows.alert
       /\ tab = [t \in Tabs |-> shows]
  /\ audits = 0 /\ secret = {}
  /\ change = [t \in Tabs |-> NoChange] /\ load = [t \in Tabs |-> [l \in Loads |-> NoLoad]] /\ again = [t \in Tabs |-> FALSE]
  /\ aleft \in AutomationBudgets

Use(what) == aleft[what] > 0 /\ aleft' = [aleft EXCEPT ![what] = @ - 1]

-----------------------------------------------------------------------------
(* Around the panel.                                                       *)

(* The dispatch runs, and ends; one that failed raises an alert. *)
DispatchGoesOn ==
  /\ \/ dispatch = "pending" /\ dispatch' = "running" /\ UNCHANGED alert
     \/ dispatch = "running" /\ dispatch' = "completed" /\ UNCHANGED alert
     \/ /\ dispatch = "running" /\ dispatch' = "failed"
        /\ alert' = IF alert.status = "none" THEN [status |-> "open", delivery |-> "failed"] ELSE alert
  /\ UNCHANGED <<trigger, audits, secret, tab, change, load, again, aleft>>

-----------------------------------------------------------------------------
(* load: the triggers are read, then the dispatches and the alerts, and    *)
(* all are shown together. A draft that is there is kept.                  *)

StartLoad(t) ==
  /\ load[t]["own"].pc = "none" /\ Use("asks")
  /\ load' = [load EXCEPT ![t]["own"].pc = "triggers"]
  /\ UNCHANGED <<automation, tab, change, again>>

ReadRow(t, l) ==
  /\ \/ load[t][l].pc = "triggers" /\ load' = [load EXCEPT ![t][l].pc = "others", ![t][l].trigger = trigger]
     \/ load[t][l].pc = "others" /\ load' = [load EXCEPT ![t][l].pc = "shown", ![t][l].dispatch = dispatch, ![t][l].alert = alert]
  /\ UNCHANGED <<automation, tab, change, again, aleft>>

Draft(t, row) == IF tab[t].draft = NoDraft /\ row.status # "none" THEN row.input ELSE tab[t].draft

\* A change ends with the load that follows it.
Show(t, l) ==
  /\ load[t][l].pc = "shown"
  /\ tab' = [tab EXCEPT ![t].trigger = load[t][l].trigger, ![t].dispatch = load[t][l].dispatch,
                        ![t].alert = load[t][l].alert, ![t].draft = Draft(t, load[t][l].trigger),
                        ![t].busy = IF l = "following" THEN "none" ELSE @]
  /\ load' = [load EXCEPT ![t][l] = NoLoad]
  /\ change' = IF l = "following" THEN [change EXCEPT ![t] = NoChange] ELSE change
  /\ UNCHANGED <<automation, again, aleft>>

(* runNow and replay load a second time, 1.2 s later. *)
LoadAgain(t) ==
  /\ again[t] /\ load[t]["own"].pc = "none"
  /\ again' = [again EXCEPT ![t] = FALSE] /\ load' = [load EXCEPT ![t]["own"].pc = "triggers"]
  /\ UNCHANGED <<automation, tab, change, aleft>>

-----------------------------------------------------------------------------
(* The buttons.                                                            *)

Press(t, id, what) ==
  /\ change[t].pc = "none" /\ tab[t].busy # id /\ Use("asks")
  /\ tab' = [tab EXCEPT ![t].busy = id]
  /\ change' = [change EXCEPT ![t] = what]
  /\ UNCHANGED <<automation, load, again>>

Sent(t, kind) == [NoChange EXCEPT !.pc = "sent", !.kind = kind, !.version = tab[t].trigger.version]
Configured(t) == tab[t].trigger.status \in {"paused", "enabled"}

CreateTrigger(t) == tab[t].trigger.status = "none" /\ Press(t, "trigger", Sent(t, "create"))

UpdateStatus(t) ==
  /\ Configured(t)
  /\ \E s \in {IF tab[t].trigger.status = "enabled" THEN "paused" ELSE "enabled", "disabled"} :
       Press(t, "trigger", [Sent(t, "status") EXCEPT !.status = s])

TypeInput(t) ==
  /\ Configured(t) /\ tab[t].draft # NoDraft /\ Use("asks")
  /\ tab' = [tab EXCEPT ![t].draft = @ + 1]
  /\ UNCHANGED <<automation, change, load, again>>

SaveInput(t) == Configured(t) /\ tab[t].draft # NoDraft /\ Press(t, "trigger", [Sent(t, "input") EXCEPT !.input = tab[t].draft])

RunNow(t) == tab[t].trigger.status = "enabled" /\ Press(t, "trigger", Sent(t, "run"))

CanReplayDispatch(status) == status \in {"failed", "cancelled"}
ReplayDispatch(t) == CanReplayDispatch(tab[t].dispatch) /\ Press(t, "dispatch", Sent(t, "replay"))

UpdateAlert(t) ==
  \E s \in {"acknowledged", "resolved"} :
    /\ tab[t].alert.status \in IF s = "resolved" THEN {"open", "acknowledged"} ELSE {"open"}
    /\ Press(t, "alert", [Sent(t, "alert") EXCEPT !.status = s])

RetryAlertDelivery(t) ==
  /\ tab[t].alert.delivery = "failed" /\ tab[t].alert.status # "resolved"
  /\ Press(t, "alert", Sent(t, "deliver"))

-----------------------------------------------------------------------------
(* The control plane answers them; the tab then loads.                     *)

Arrived(t, kind) == change[t].pc = "sent" /\ change[t].kind = kind
ThenLoads(t) ==
  /\ change' = [change EXCEPT ![t].pc = "loading"]
  /\ load' = [load EXCEPT ![t]["following"].pc = "triggers"]
Refuse(t) ==
  /\ change' = [change EXCEPT ![t] = NoChange]
  /\ tab' = [tab EXCEPT ![t].busy = "none"]

(* handleCreateTrigger: the secret is answered only by the creation. *)
Create(t) ==
  /\ Arrived(t, "create")
  /\ trigger' = IF trigger.status = "none" THEN [status |-> "paused", input |-> 0, version |-> 1] ELSE trigger
  /\ secret' = IF trigger.status = "none" THEN secret \cup {t} ELSE secret
  /\ ThenLoads(t)
  /\ UNCHANGED <<audits, dispatch, alert, tab, again, aleft>>

(* handleUpdateTrigger: the row is read, and what is not changed of it is  *)
(* written back. *)
ReadTrigger(t) ==
  /\ change[t].pc = "sent" /\ change[t].kind \in {"status", "input"}
  /\ IF trigger.status = "disabled" THEN Refuse(t)
     ELSE change' = [change EXCEPT ![t].pc = "read", ![t].row = trigger] /\ UNCHANGED tab
  /\ UNCHANGED <<automation, load, again, aleft>>

IsCurrent(t) == trigger.status # "disabled" /\ trigger.version = change[t].version

\* The event is recorded when the row has the version it would have.
Audited(t, row) == IF row.version = change[t].version + 1 THEN audits + 1 ELSE audits

WriteTrigger(t) ==
  /\ change[t].pc = "read"
  /\ LET c == change[t] IN
       /\ trigger' = IF ~IsCurrent(t) THEN trigger
                     ELSE [status |-> IF c.kind = "status" THEN c.status ELSE c.row.status,
                           input |-> IF c.kind = "input" THEN c.input ELSE c.row.input,
                           version |-> trigger.version + 1]
       /\ dispatch' = IF IsCurrent(t) /\ trigger'.status = "disabled" /\ dispatch \in {"pending", "running"}
                      THEN "cancelled" ELSE dispatch
       /\ audits' = Audited(t, trigger')
  /\ IF IsCurrent(t) THEN ThenLoads(t) /\ UNCHANGED tab ELSE Refuse(t) /\ UNCHANGED load
  /\ UNCHANGED <<secret, alert, again, aleft>>

(* handleCreateTriggerDispatch: a dispatch is made under a key of its own. *)
(* Bound: it arrives when the one before has ended, as one is kept. *)
DispatchNow(t) ==
  /\ Arrived(t, "run") /\ dispatch \notin {"pending", "running"}
  /\ IF trigger.status = "enabled"
     THEN dispatch' = "pending" /\ ThenLoads(t) /\ again' = [again EXCEPT ![t] = TRUE] /\ UNCHANGED tab
     ELSE Refuse(t) /\ UNCHANGED <<dispatch, load, again>>
  /\ UNCHANGED <<trigger, audits, secret, alert, aleft>>

(* handleReplayTriggerDispatch *)
Replayed(t) ==
  /\ Arrived(t, "replay")
  /\ IF CanReplayDispatch(dispatch) /\ trigger.status = "enabled"
     THEN dispatch' = "pending" /\ ThenLoads(t) /\ again' = [again EXCEPT ![t] = TRUE] /\ UNCHANGED tab
     ELSE Refuse(t) /\ UNCHANGED <<dispatch, load, again>>
  /\ UNCHANGED <<trigger, audits, secret, alert, aleft>>

(* handleUpdateOperatorAlert; handleRetryOperatorAlertDelivery, which      *)
(* opens the alert again. *)
AlertChanged(t) ==
  /\ alert.status \in {"open", "acknowledged"}
  /\ \/ Arrived(t, "alert") /\ alert' = [alert EXCEPT !.status = change[t].status]
     \/ Arrived(t, "deliver") /\ alert.delivery = "failed" /\ alert' = [status |-> "open", delivery |-> "pending"]
  /\ ThenLoads(t)
  /\ UNCHANGED <<trigger, audits, secret, dispatch, tab, again, aleft>>

AlertRefused(t) ==
  /\ \/ Arrived(t, "alert") /\ alert.status = "resolved"
     \/ Arrived(t, "deliver") /\ (alert.status = "resolved" \/ alert.delivery # "failed")
  /\ Refuse(t)
  /\ UNCHANGED <<automation, load, again, aleft>>

(* An answer is lost: the change has been made or not, the tab shows an    *)
(* error and does not load. *)
ChangeLost(t) ==
  /\ change[t].pc \in {"sent", "loading"} /\ Use("faults") /\ Refuse(t)
  /\ secret' = IF change[t].kind = "create" THEN secret \ {t} ELSE secret
  /\ load' = [load EXCEPT ![t]["following"] = NoLoad]
  /\ UNCHANGED <<trigger, audits, dispatch, alert, again>>

AutomationNext ==
  \/ DispatchGoesOn
  \/ \E t \in Tabs : \/ StartLoad(t) \/ LoadAgain(t) \/ \E l \in Loads : ReadRow(t, l) \/ Show(t, l)
                     \/ CreateTrigger(t) \/ UpdateStatus(t) \/ TypeInput(t) \/ SaveInput(t) \/ RunNow(t)
                     \/ ReplayDispatch(t) \/ UpdateAlert(t) \/ RetryAlertDelivery(t)
                     \/ Create(t) \/ ReadTrigger(t) \/ WriteTrigger(t) \/ DispatchNow(t) \/ Replayed(t)
                     \/ AlertChanged(t) \/ AlertRefused(t) \/ ChangeLost(t)

-----------------------------------------------------------------------------
================================================================================
