---------------------------- MODULE OperatorAlerts ----------------------------
(***************************************************************************)
(* The operator alerts: any part raises one (once per key), the cron posts *)
(* the open ones to the operator's webhook, an admin acknowledges or       *)
(* resolves them or asks for another delivery. Two ticks may overlap, and  *)
(* the outcome of a post is written long after the row was read.           *)
(***************************************************************************)
EXTENDS Naturals, FiniteSets

CONSTANTS
  Alerts,            \* dedup keys
  Ticks,             \* concurrent invocations of deliverPendingOperatorAlerts
  MaxDeliveryAttempts, \* maximumDeliveryAttempts
  AlertBudgets       \* bounds: alerts raised, posts that fail, retries, lost ticks

ASSUME AlertAssumption ==
  /\ MaxDeliveryAttempts \in Nat \ {0}
  /\ AlertBudgets \subseteq [raise : Nat, errors : Nat, retries : Nat, lost : Nat]

VARIABLES
  alerts,  \* control_operator_alerts
  tick,    \* the cron's workers
  aleft    \* what is left of the bounds

avars == <<alerts, tick, aleft>>

NoAlert == [status |-> "none", delivery |-> "pending", attempts |-> 0]
IdleTick == [pc |-> "idle", todo |-> {}, at |-> "", seen |-> [a \in {} |-> 0], ok |-> FALSE]

AlertInit ==
  /\ alerts = [a \in Alerts |-> NoAlert]
  /\ tick = [t \in Ticks |-> IdleTick]
  /\ aleft \in AlertBudgets

Spend(what) == aleft[what] > 0 /\ aleft' = [aleft EXCEPT ![what] = @ - 1]

(* INSERT OR IGNORE: a key that was raised before adds nothing, whatever   *)
(* became of its alert.                                                    *)
RaiseAlert(a) ==
  /\ Spend("raise")
  /\ alerts' = IF alerts[a].status = "none" THEN [alerts EXCEPT ![a] = [NoAlert EXCEPT !.status = "open"]]
               ELSE alerts
  /\ UNCHANGED tick

\* Mutant: only alerts that were never posted are taken.
PendingMutant(a) == alerts[a].status = "open" /\ alerts[a].delivery = "pending"

Pending(a) ==
  /\ alerts[a].status = "open"
  /\ alerts[a].delivery \in {"pending", "failed"}
  /\ alerts[a].attempts < MaxDeliveryAttempts

TickSelect(t) ==
  /\ tick[t].pc = "idle"
  /\ {a \in Alerts : Pending(a)} # {}
  /\ LET todo == {a \in Alerts : Pending(a)}
     IN tick' = [tick EXCEPT ![t] = [IdleTick EXCEPT !.pc = "next", !.todo = todo,
                                       !.seen = [a \in todo |-> alerts[a].attempts]]]
  /\ UNCHANGED <<alerts, aleft>>

(* The receiver takes the post; or it refuses it as too large, signed with *)
(* another secret, malformed or too old; or it does not answer in time.    *)
ReceiverTakes == BOOLEAN

TickPost(t, a) ==
  /\ tick[t].pc = "next" /\ a \in tick[t].todo
  /\ \E ok \in ReceiverTakes :
       /\ IF ok THEN UNCHANGED aleft ELSE Spend("errors")
       /\ tick' = [tick EXCEPT ![t].pc = "posted", ![t].at = a, ![t].ok = ok]
  /\ UNCHANGED alerts

\* Mutant: the outcome is written whatever has become of the row.
TickRecordMutant(t) ==
  /\ tick[t].pc = "posted"
  /\ LET a == tick[t].at
     IN /\ alerts' = [alerts EXCEPT ![a].delivery = IF tick[t].ok THEN "delivered" ELSE "failed",
                                     ![a].attempts = tick[t].seen[a] + 1]
        /\ tick' = [tick EXCEPT ![t].pc = "next", ![t].todo = @ \ {a}]
  /\ UNCHANGED aleft

TickRecord(t) ==
  /\ tick[t].pc = "posted"
  /\ LET a == tick[t].at
         row == alerts[a]
     IN /\ alerts' = IF /\ row.status = "open" /\ row.delivery \in {"pending", "failed"}
                        /\ row.attempts = tick[t].seen[a]
                     THEN [alerts EXCEPT ![a].delivery = IF tick[t].ok THEN "delivered" ELSE "failed",
                                         ![a].attempts = @ + 1]
                     ELSE alerts
        /\ tick' = [tick EXCEPT ![t].pc = "next", ![t].todo = @ \ {a}]
  /\ UNCHANGED aleft

TickReturn(t) ==
  /\ tick[t].pc = "next" /\ tick[t].todo = {}
  /\ tick' = [tick EXCEPT ![t] = IdleTick]
  /\ UNCHANGED <<alerts, aleft>>

TickLost(t) ==
  /\ tick[t].pc # "idle" /\ Spend("lost")
  /\ tick' = [tick EXCEPT ![t] = IdleTick]
  /\ UNCHANGED alerts

UpdateAlert(a, status) ==
  /\ status \in {"acknowledged", "resolved"}
  /\ alerts[a].status \in {"open", "acknowledged"}
  /\ alerts' = [alerts EXCEPT ![a].status = status]
  /\ UNCHANGED <<tick, aleft>>

RetryAlertDelivery(a) ==
  /\ alerts[a].status \in {"open", "acknowledged"}
  /\ alerts[a].delivery = "failed"
  /\ Spend("retries")
  /\ alerts' = [alerts EXCEPT ![a] = [status |-> "open", delivery |-> "pending", attempts |-> 0]]
  /\ UNCHANGED tick

AlertNext ==
  \/ \E a \in Alerts :
       \/ RaiseAlert(a) \/ RetryAlertDelivery(a)
       \/ \E status \in {"acknowledged", "resolved"} : UpdateAlert(a, status)
  \/ \E t \in Ticks :
       \/ TickSelect(t) \/ TickRecord(t) \/ TickReturn(t) \/ TickLost(t)
       \/ \E a \in Alerts : TickPost(t, a)

AlertSpec == AlertInit /\ [][AlertNext]_avars

(* The cron starts a tick every minute, and a tick that started goes on.   *)
AlertFairness ==
  \A t \in Ticks : WF_avars(TickSelect(t) \/ TickRecord(t) \/ TickReturn(t) \/ \E a \in Alerts : TickPost(t, a))

-----------------------------------------------------------------------------
(* Every variable has its type. *)
AlertTypeOK ==
  /\ \A a \in Alerts : /\ alerts[a].status \in {"none", "open", "acknowledged", "resolved"}
                       /\ alerts[a].delivery \in {"pending", "delivered", "failed"}
                       /\ alerts[a].attempts \in 0..MaxDeliveryAttempts
  /\ \A t \in Ticks : tick[t].pc \in {"idle", "next", "posted"} /\ tick[t].todo \subseteq Alerts

(* What the receiver took stays delivered: not even the tick that posted   *)
(* the same alert at the same time and was refused says otherwise, nor one *)
(* that began before an admin asked for a retry.                           *)
DeliveredStays ==
  [][\A a \in Alerts : alerts[a].delivery = "delivered" => alerts'[a].delivery = "delivered"]_avars

(* An open alert is delivered, given up after its attempts, or closed by   *)
(* an admin, although posts fail and ticks vanish.                         *)
AlertSettles ==
  \A a \in Alerts :
    (alerts[a].status = "open") ~>
      \/ alerts[a].status # "open"
      \/ alerts[a].delivery = "delivered"
      \/ alerts[a].attempts >= MaxDeliveryAttempts
===============================================================================
