-------------------------- MODULE MCServiceDelivery --------------------------
(***************************************************************************)
(* The notification, alert and connection services side by side. They      *)
(* share no state, so each initial state lets one of them be busy.         *)
(***************************************************************************)
EXTENDS NotificationDelivery, OperatorAlerts, ConnectionBroker, TLC

B(creds, events, errors, lost) ==
  [creds |-> creds, events |-> events, errors |-> errors, lost |-> lost, clean |-> TRUE, whole |-> TRUE]
MCNotificationBudgets == {B(0,0,0,0), B(3,1,0,0), B(1,2,0,0), B(1,1,2,0), B(1,1,1,1)}

G(raise, errors, retries, lost) == [raise |-> raise, errors |-> errors, retries |-> retries, lost |-> lost]
MCAlertBudgets == {G(0,0,0,0), G(2,3,1,1)}

R(requests, errors, lost) == [requests |-> requests, errors |-> errors, lost |-> lost]
MCBrokerBudgets == {R(0,0,0), R(5,0,0), R(3,1,0), R(3,0,1)}

MCInit ==
  /\ NotificationInit /\ AlertInit /\ BrokerInit
  /\ <<nleft # B(0,0,0,0), aleft # G(0,0,0,0), bleft # R(0,0,0)>> \in
       {<<TRUE, FALSE, FALSE>>, <<FALSE, TRUE, FALSE>>, <<FALSE, FALSE, TRUE>>}
  /\ bleft = R(0,0,0) => kind = "oauth2"

MCNext ==
  \/ NotificationNext /\ UNCHANGED <<avars, bvars>>
  \/ AlertNext /\ UNCHANGED <<nvars, bvars>>
  \/ BrokerNext /\ UNCHANGED <<nvars, avars>>

MCSpec == MCInit /\ [][MCNext]_<<nvars, avars, bvars>> /\ NotificationFairness /\ AlertFairness

(* Every variable of the three services has its type. *)
TypeOK == NotificationTypeOK /\ AlertTypeOK /\ BrokerTypeOK
===============================================================================
