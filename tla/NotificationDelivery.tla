------------------------ MODULE NotificationDelivery ------------------------
(***************************************************************************)
(* Push notifications: a client registers and revokes its device, an event *)
(* fans out to the devices through an outbox row and a queue message, and  *)
(* consumers of the queue push it, record the answer and poll for the      *)
(* provider's receipt. Between two awaits of a handler anything may run.   *)
(*                                                                         *)
(* The queue (external) delivers at least once: a message that is retried  *)
(* or whose consumer vanishes comes back, MaxTries times in all, and is    *)
(* dropped after that. A row's thirty days end in the action Expire.       *)
(***************************************************************************)
EXTENDS Naturals, Sequences, FiniteSets, Bags, CredentialVault

CONSTANTS
  Devices,       \* installations of the client
  Events,        \* events worth a notification
  Consumers,     \* concurrent invocations of processNotificationQueue
  Clients,       \* concurrent registrations and revocations
  MaxAttempts,   \* maxDeliveryAttempts
  MaxTries,      \* deliveries of one queue message
  NotificationBudgets \* bounds: clients' requests, publications, failing calls, losses

ASSUME NotificationAssumption ==
  /\ MaxAttempts \in Nat \ {0} /\ MaxTries \in Nat \ {0}
  /\ NotificationBudgets \subseteq [creds : Nat, events : Nat, errors : Nat, lost : Nat,
                                   clean : {TRUE}, whole : {TRUE}]

VARIABLES
  device,    \* control_client_devices
  tokens,    \* the vault
  delivery,  \* control_notification_deliveries, by device and event
  old,       \* rows whose expires_at has passed
  queue,     \* a bag of messages
  pub,       \* enqueueNotificationEvent, by event
  con,       \* the consumers
  call,      \* the clients' requests
  pushed,    \* history: pushes of a delivery the provider took
  nleft      \* what is left of the bounds; no call has failed; no publisher is lost

nvars == <<device, tokens, delivery, old, queue, pub, con, call, pushed, nleft>>

Deliveries == Devices \X Events
(* "gone" is a row the sweep has deleted; no event is repeated after that. *)
DeliveryStatuses == {"none", "queued", "sent", "delivered", "failed", "expired", "gone"}
Settled == {"delivered", "failed", "expired", "gone"}
NoDelivery == [status |-> "none", attempts |-> 0, ticket |-> FALSE, marked |-> FALSE]
Message(x, phase) == [to |-> x, phase |-> phase, tries |-> 1]

IdleConsumer == [pc |-> "idle", msg |-> Message(<<"", "">>, "send"), attempts |-> 0,
                 ticket |-> FALSE, ref |-> NoRef, answer |-> "none"]
IdlePublisher == [pc |-> "idle", todo |-> {}, at |-> ""]
IdleClient == [pc |-> "idle", on |-> "", seen |-> NoRef, ref |-> NoRef]

NotificationInit ==
  /\ device = [d \in Devices |-> [status |-> "none", ref |-> NoRef]]
  /\ tokens = EmptyVault
  /\ delivery = [x \in Deliveries |-> NoDelivery]
  /\ old = {}
  /\ queue = EmptyBag
  /\ pub = [e \in Events |-> IdlePublisher]
  /\ con = [c \in Consumers |-> IdleConsumer]
  /\ call = [q \in Clients |-> IdleClient]
  /\ pushed = [x \in Deliveries |-> 0]
  /\ nleft \in NotificationBudgets

deviceVars == <<device, tokens, call>>
deliveryVars == <<delivery, queue, pub, con, pushed>>

Active(d) == device[d].status = "active"
Error == nleft.errors > 0 /\ nleft' = [nleft EXCEPT !.errors = @ - 1, !.clean = FALSE]
Lose(publisher) ==
  /\ nleft.lost > 0
  /\ nleft' = [nleft EXCEPT !.lost = @ - 1, !.clean = FALSE, !.whole = @ /\ ~publisher]

-----------------------------------------------------------------------------
(* The client's requests.                                                  *)

Request(q) ==
  /\ call[q].pc = "idle" /\ nleft.creds > 0
  /\ nleft' = [nleft EXCEPT !.creds = @ - 1]

RegisterRead(q, d) ==
  /\ Request(q)
  /\ call' = [call EXCEPT ![q] = [IdleClient EXCEPT !.pc = "register", !.on = d,
                                  !.seen = device[d].ref]]
  /\ UNCHANGED <<device, tokens, old, deliveryVars>>

\* Mutant: a replacement that is refused keeps the reference that was read.
RegisterStoreMutant(q) ==
  /\ call[q].pc = "register"
  /\ IF CanReplace(tokens, call[q].seen)
     THEN /\ tokens' = AfterReplace(tokens, call[q].seen)
          /\ call' = [call EXCEPT ![q].pc = "stored", ![q].ref = Replaced(call[q].seen)]
     ELSE IF call[q].seen = NoRef
     THEN /\ tokens' = AfterCreate(tokens)
          /\ call' = [call EXCEPT ![q].pc = "stored", ![q].ref = Created(tokens)]
     ELSE /\ call' = [call EXCEPT ![q].pc = "stored", ![q].ref = call[q].seen]
          /\ UNCHANGED tokens
  /\ UNCHANGED <<device, old, nleft, deliveryVars>>

(* The stored token is replaced; when that is refused, or the call fails,  *)
(* and for a new device, a new one is created.                             *)
RegisterStore(q) ==
  /\ call[q].pc = "register"
  /\ \/ /\ CanReplace(tokens, call[q].seen)
        /\ tokens' = AfterReplace(tokens, call[q].seen)
        /\ call' = [call EXCEPT ![q].pc = "stored", ![q].ref = Replaced(call[q].seen)]
        /\ UNCHANGED nleft
     \/ /\ IF CanReplace(tokens, call[q].seen) THEN Error ELSE UNCHANGED nleft
        /\ tokens' = AfterCreate(tokens)
        /\ call' = [call EXCEPT ![q].pc = "stored", ![q].ref = Created(tokens)]
  /\ UNCHANGED <<device, old, deliveryVars>>

RegisterUpsert(q) ==
  /\ call[q].pc = "stored"
  /\ device' = [device EXCEPT ![call[q].on] = [status |-> "active", ref |-> call[q].ref]]
  /\ call' = [call EXCEPT ![q] = IdleClient]
  /\ UNCHANGED <<tokens, old, nleft, deliveryVars>>

(* Sign-out, and the quarantine of the workspace for each active device.   *)
RevokeDeviceRead(q, d) ==
  /\ Request(q) /\ Active(d)
  /\ call' = [call EXCEPT ![q] = [IdleClient EXCEPT !.pc = "revoke", !.on = d,
                                  !.seen = device[d].ref]]
  /\ UNCHANGED <<device, tokens, old, deliveryVars>>

DeleteToken(ref) == CanDelete(tokens, ref) /\ tokens' = AfterDelete(tokens, ref)

RevokeDeviceDelete(q) ==
  /\ call[q].pc = "revoke"
  /\ DeleteToken(call[q].seen)
  /\ call' = [call EXCEPT ![q].pc = "erased"]
  /\ UNCHANGED <<device, old, nleft, deliveryVars>>

Disable(d, status) ==
  device' = IF Active(d) THEN [device EXCEPT ![d].status = status] ELSE device

RevokeDeviceUpdate(q) ==
  /\ call[q].pc = "erased"
  /\ Disable(call[q].on, "revoked")
  /\ call' = [call EXCEPT ![q] = IdleClient]
  /\ UNCHANGED <<tokens, old, nleft, deliveryVars>>

(* A handler throws: the vault refuses the version, or a call fails.       *)
ClientFails(q) ==
  /\ call[q].pc # "idle"
  /\ IF call[q].pc = "revoke" /\ ~CanDelete(tokens, call[q].seen) THEN UNCHANGED nleft ELSE Error
  /\ call' = [call EXCEPT ![q] = IdleClient]
  /\ UNCHANGED <<device, tokens, old, deliveryVars>>

-----------------------------------------------------------------------------
(* Publishing an event.                                                    *)

EnqueueSelect(e) ==
  /\ pub[e].pc = "idle" /\ nleft.events > 0
  /\ nleft' = [nleft EXCEPT !.events = @ - 1]
  /\ \E wanted \in {Devices, {}} :   \* the preference of the event's category
       pub' = [pub EXCEPT ![e] = [IdlePublisher EXCEPT !.pc = "insert", !.todo = {d \in wanted : Active(d)}]]
  /\ UNCHANGED <<deviceVars, delivery, queue, con, pushed, old>>

(* INSERT OR IGNORE: a second event about the same target adds nothing.    *)
EnqueueInsert(e, d) ==
  /\ pub[e].pc = "insert" /\ d \in pub[e].todo
  /\ IF delivery[<<d, e>>].status = "none"
     THEN /\ delivery' = [delivery EXCEPT ![<<d, e>>] = [NoDelivery EXCEPT !.status = "queued"]]
          /\ pub' = [pub EXCEPT ![e].pc = "send", ![e].at = d]
     ELSE /\ pub' = [pub EXCEPT ![e].todo = @ \ {d}]
          /\ UNCHANGED delivery
  /\ UNCHANGED <<deviceVars, queue, con, pushed, old, nleft>>

Sent(x, phase) == queue (+) SetToBag({Message(x, phase)})

(* A send that throws may have reached the queue all the same.             *)
EnqueueSend(e) ==
  /\ pub[e].pc = "send"
  /\ LET x == <<pub[e].at, e>>
     IN \/ /\ queue' = Sent(x, "send")
           /\ pub' = [pub EXCEPT ![e].pc = "insert", ![e].todo = @ \ {pub[e].at}]
           /\ UNCHANGED nleft
        \/ /\ Error
           /\ queue' \in {queue, Sent(x, "send")}
           /\ pub' = [pub EXCEPT ![e].pc = "mark"]
  /\ UNCHANGED <<deviceVars, delivery, con, pushed, old>>

\* Mutant: the row is not marked for the sweep.
EnqueueMarkMutant(e) ==
  /\ pub[e].pc = "mark"
  /\ pub' = [pub EXCEPT ![e].pc = "insert", ![e].todo = @ \ {pub[e].at}]
  /\ UNCHANGED <<deviceVars, delivery, queue, con, pushed, old, nleft>>

EnqueueMark(e) ==
  /\ pub[e].pc = "mark"
  /\ LET x == <<pub[e].at, e>>
     IN delivery' = [delivery EXCEPT ![x].marked = @ \/ delivery[x].status = "queued"]
  /\ pub' = [pub EXCEPT ![e].pc = "insert", ![e].todo = @ \ {pub[e].at}]
  /\ UNCHANGED <<deviceVars, queue, con, pushed, old, nleft>>

EnqueueReturn(e) ==
  /\ pub[e].pc = "insert" /\ pub[e].todo = {}
  /\ pub' = [pub EXCEPT ![e] = IdlePublisher]
  /\ UNCHANGED <<deviceVars, delivery, queue, con, pushed, old, nleft>>

PublisherLost(e) ==
  /\ pub[e].pc # "idle" /\ Lose(TRUE)
  /\ pub' = [pub EXCEPT ![e] = IdlePublisher]
  /\ UNCHANGED <<deviceVars, delivery, queue, con, pushed, old>>

-----------------------------------------------------------------------------
(* Consuming a message.                                                    *)

Without(m) == queue (-) SetToBag({m})
Returned(m) == IF m.tries < MaxTries THEN queue (+) SetToBag({[m EXCEPT !.tries = @ + 1]}) ELSE queue

On(c) == con[c].msg.to
Ack(c) == con' = [con EXCEPT ![c] = IdleConsumer] /\ UNCHANGED queue
Retry(c) == con' = [con EXCEPT ![c] = IdleConsumer] /\ queue' = Returned(con[c].msg)
Step(c, pc) == con' = [con EXCEPT ![c].pc = pc] /\ UNCHANGED queue

Live(status) == status \in {"queued", "sent"}

Take(c, m) ==
  /\ con[c].pc = "idle" /\ BagIn(m, queue)
  /\ queue' = Without(m)
  /\ LET row == delivery[m.to]
     IN con' = [con EXCEPT ![c] =
                  IF Live(row.status)
                  THEN [IdleConsumer EXCEPT !.pc = "device", !.msg = m, !.attempts = row.attempts,
                                            !.ticket = row.ticket]
                  ELSE IdleConsumer]
  /\ UNCHANGED <<deviceVars, delivery, pub, pushed, old, nleft>>

Update(x, row) == delivery' = IF delivery[x].status = "gone" THEN delivery
                              ELSE [delivery EXCEPT ![x] = row]
Fail(x, n) == Update(x, [delivery[x] EXCEPT !.status = "failed", !.attempts = @ + n, !.marked = FALSE])

(* The consumer's writes of 'expired' and 'failed' do not look at the      *)
(* status the row has by then.                                             *)
FindDevice(c) ==
  /\ con[c].pc = "device"
  /\ LET d == On(c)[1]
     IN IF Active(d) /\ On(c) \notin old
        THEN /\ con' = [con EXCEPT ![c].pc = IF con[c].msg.phase = "send" THEN "push" ELSE "poll",
                                   ![c].ref = device[d].ref]
             /\ UNCHANGED <<delivery, queue>>
        ELSE /\ Update(On(c), [delivery[On(c)] EXCEPT !.status = "expired"])
             /\ Ack(c)
  /\ UNCHANGED <<deviceVars, pub, pushed, old, nleft>>

\* Mutant: a call that fails on the way counts as taken.
PushMutant(c) ==
  /\ con[c].pc = "push" /\ Stored(tokens, con[c].ref.id)
  /\ \E answer \in {"ok", "invalid", "retryable", "rejected", "throw"} :
       /\ IF answer \in {"ok", "invalid"} THEN UNCHANGED nleft ELSE Error
       /\ con' = [con EXCEPT ![c].pc = "pushed", ![c].answer = IF answer = "throw" THEN "ok" ELSE answer]
       /\ \E got \in IF answer = "throw" THEN {0, 1} ELSE {IF answer = "ok" THEN 1 ELSE 0} :
            pushed' = [pushed EXCEPT ![On(c)] = @ + got]
  /\ UNCHANGED <<deviceVars, delivery, queue, pub, old>>

(* The token is read by its id; the provider may take a push whose answer  *)
(* never arrives.                                                          *)
Push(c) ==
  /\ con[c].pc = "push" /\ Stored(tokens, con[c].ref.id)
  /\ \E answer \in {"ok", "invalid", "retryable", "rejected", "throw"} :
       /\ IF answer \in {"ok", "invalid"} THEN UNCHANGED nleft ELSE Error
       /\ con' = [con EXCEPT ![c].pc = IF answer = "throw" THEN "throw" ELSE "pushed",
                             ![c].answer = answer]
       /\ \E got \in IF answer = "throw" THEN {0, 1} ELSE {IF answer = "ok" THEN 1 ELSE 0} :
            pushed' = [pushed EXCEPT ![On(c)] = @ + got]
  /\ UNCHANGED <<deviceVars, delivery, queue, pub, old>>

TokenMissing(c) ==
  /\ con[c].pc = "push" /\ ~Stored(tokens, con[c].ref.id)
  /\ Step(c, "throw")
  /\ UNCHANGED <<deviceVars, delivery, pub, pushed, old, nleft>>

RecordPush(c) ==
  /\ con[c].pc = "pushed"
  /\ LET x == On(c)
         row == delivery[x]
         again == con[c].attempts + 1 < MaxAttempts
     IN CASE con[c].answer = "ok" ->
               /\ delivery' = IF row.status = "queued"
                              THEN [delivery EXCEPT ![x] = [status |-> "sent", ticket |-> TRUE,
                                      attempts |-> row.attempts + 1, marked |-> FALSE]]
                              ELSE delivery
               /\ Step(c, "ask")
          [] con[c].answer = "invalid" -> Step(c, "disable") /\ UNCHANGED delivery
          [] con[c].answer = "retryable" /\ again ->
               /\ delivery' = IF row.status = "queued"
                              THEN [delivery EXCEPT ![x].attempts = @ + 1, ![x].marked = FALSE]
                              ELSE delivery
               /\ Retry(c)
          [] OTHER -> Fail(x, 1) /\ Ack(c)
  /\ UNCHANGED <<deviceVars, pub, pushed, old, nleft>>

PollReceipt(c) ==
  /\ con[c].pc = "poll"
  /\ IF ~con[c].ticket THEN Step(c, "throw") /\ UNCHANGED nleft
     ELSE \E answer \in {"delivered", "pending", "failed", "invalid", "throw"} :
            /\ IF answer \in {"delivered", "invalid"} THEN UNCHANGED nleft ELSE Error
            /\ con' = [con EXCEPT ![c].pc = IF answer = "throw" THEN "throw" ELSE "polled",
                                  ![c].answer = answer]
            /\ UNCHANGED queue
  /\ UNCHANGED <<deviceVars, delivery, pub, pushed, old>>

RecordReceipt(c) ==
  /\ con[c].pc = "polled"
  /\ LET x == On(c)
         sent == delivery[x].status = "sent"
     IN CASE con[c].answer = "pending" /\ con[c].attempts < MaxAttempts ->
               /\ delivery' = [delivery EXCEPT ![x].attempts = IF sent THEN @ + 1 ELSE @]
               /\ Step(c, "ask")
          [] con[c].answer = "pending" /\ con[c].attempts >= MaxAttempts ->
               Fail(x, 0) /\ Ack(c)
          [] con[c].answer = "delivered" ->
               /\ delivery' = IF sent THEN [delivery EXCEPT ![x].status = "delivered"] ELSE delivery
               /\ Ack(c)
          [] con[c].answer = "failed" -> Fail(x, 0) /\ Ack(c)
          [] con[c].answer = "invalid" -> Step(c, "disable") /\ UNCHANGED delivery
  /\ UNCHANGED <<deviceVars, pub, pushed, old, nleft>>

DisableDelete(c) ==
  /\ con[c].pc = "disable"
  /\ IF CanDelete(tokens, con[c].ref)
     THEN DeleteToken(con[c].ref) /\ Step(c, "disabled")
     ELSE Step(c, "throw") /\ UNCHANGED tokens
  /\ UNCHANGED <<device, call, delivery, pub, pushed, old, nleft>>

DisableUpdate(c) ==
  /\ con[c].pc = "disabled"
  /\ Disable(On(c)[1], "disabled")
  /\ Step(c, "fail")
  /\ UNCHANGED <<tokens, call, delivery, pub, pushed, old, nleft>>

RecordInvalid(c) ==
  /\ con[c].pc = "fail"
  /\ Fail(On(c), IF con[c].msg.phase = "send" THEN 1 ELSE 0)
  /\ Ack(c)
  /\ UNCHANGED <<deviceVars, pub, pushed, old, nleft>>

AskReceipt(c) ==
  /\ con[c].pc = "ask"
  /\ \/ /\ con' = [con EXCEPT ![c] = IdleConsumer]
        /\ queue' = Sent(On(c), "receipt")
        /\ UNCHANGED nleft
     \/ Error /\ Step(c, "throw")
  /\ UNCHANGED <<deviceVars, delivery, pub, pushed, old>>

(* The catch clause.                                                       *)
RecordThrow(c) ==
  /\ con[c].pc = "throw"
  /\ IF con[c].attempts + 1 < MaxAttempts
     THEN /\ Update(On(c), [delivery[On(c)] EXCEPT !.attempts = @ + 1, !.marked = FALSE])
          /\ Retry(c)
     ELSE Fail(On(c), 1) /\ Ack(c)
  /\ UNCHANGED <<deviceVars, pub, pushed, old, nleft>>

ConsumerLost(c) ==
  /\ con[c].pc # "idle" /\ Lose(FALSE)
  /\ Retry(c)
  /\ UNCHANGED <<deviceVars, delivery, pub, pushed, old>>

-----------------------------------------------------------------------------
(* The sweep and the clock.                                                *)

Stranded(x) == delivery[x].status = "queued" /\ delivery[x].marked /\ x \notin old

SweepSend(x) ==
  /\ Stranded(x)
  /\ queue' = Sent(x, "send")
  /\ \/ delivery' = [delivery EXCEPT ![x].marked = FALSE] /\ UNCHANGED nleft
     \/ Lose(FALSE) /\ UNCHANGED delivery
  /\ UNCHANGED <<deviceVars, pub, con, pushed, old>>

SweepExpired(x) ==
  /\ x \in old
  /\ delivery' = [delivery EXCEPT ![x] = [NoDelivery EXCEPT !.status = "gone"]]
  /\ old' = old \ {x}
  /\ UNCHANGED <<deviceVars, queue, pub, con, pushed, nleft>>

Expire(x) ==
  /\ delivery[x].status \notin {"none", "gone"} /\ x \notin old
  /\ old' = old \cup {x}
  /\ UNCHANGED <<deviceVars, deliveryVars, nleft>>

-----------------------------------------------------------------------------
NotificationNext ==
  \/ \E q \in Clients :
       \/ \E d \in Devices : RegisterRead(q, d) \/ RevokeDeviceRead(q, d)
       \/ RegisterStore(q) \/ RegisterUpsert(q)
       \/ RevokeDeviceDelete(q) \/ RevokeDeviceUpdate(q) \/ ClientFails(q)
  \/ \E e \in Events :
       \/ EnqueueSelect(e) \/ EnqueueSend(e) \/ EnqueueMark(e) \/ EnqueueReturn(e) \/ PublisherLost(e)
       \/ \E d \in Devices : EnqueueInsert(e, d)
  \/ \E c \in Consumers :
       \/ \E m \in BagToSet(queue) : Take(c, m)
       \/ FindDevice(c) \/ Push(c) \/ TokenMissing(c) \/ RecordPush(c)
       \/ PollReceipt(c) \/ RecordReceipt(c)
       \/ DisableDelete(c) \/ DisableUpdate(c) \/ RecordInvalid(c)
       \/ AskReceipt(c) \/ RecordThrow(c) \/ ConsumerLost(c)
  \/ \E x \in Deliveries : SweepSend(x) \/ SweepExpired(x) \/ Expire(x)

NotificationSpec == NotificationInit /\ [][NotificationNext]_nvars

(* The queue hands over what it holds, handlers run to their end, and the  *)
(* cron repeats the sweep. Time need not pass.                             *)
NotificationFairness ==
  /\ \A c \in Consumers :
       /\ WF_nvars(\E m \in BagToSet(queue) : Take(c, m))
       /\ WF_nvars(FindDevice(c) \/ Push(c) \/ TokenMissing(c) \/ RecordPush(c) \/ PollReceipt(c)
                   \/ RecordReceipt(c) \/ DisableDelete(c) \/ DisableUpdate(c) \/ RecordInvalid(c)
                   \/ AskReceipt(c) \/ RecordThrow(c))
  /\ \A e \in Events :
       WF_nvars(EnqueueSend(e) \/ EnqueueMark(e) \/ EnqueueReturn(e) \/ \E d \in Devices : EnqueueInsert(e, d))
  /\ \A x \in Deliveries : WF_nvars(SweepSend(x) \/ SweepExpired(x))

NotificationLive == NotificationSpec /\ NotificationFairness

-----------------------------------------------------------------------------
(* Every variable has its type. *)
NotificationTypeOK ==
  /\ \A d \in Devices : /\ device[d].status \in {"none", "active", "revoked", "disabled"}
                        /\ device[d].ref.id \in 0..Len(tokens)
  /\ \A x \in Deliveries : /\ delivery[x].status \in DeliveryStatuses
                           /\ delivery[x].attempts \in Nat
                           /\ {delivery[x].ticket, delivery[x].marked} \subseteq BOOLEAN
  /\ old \subseteq Deliveries
  /\ \A m \in BagToSet(queue) : m.to \in Deliveries /\ m.tries \in 1..MaxTries
  /\ \A c \in Consumers : con[c].pc \in {"idle", "device", "push", "poll", "pushed", "polled", "ask",
                                         "disable", "disabled", "fail", "throw"}

(* What the ledger says of a push is true: a row is 'sent' or 'delivered'  *)
(* only if the provider took a push of it, however the answers of several  *)
(* consumers are interleaved and whatever was retried.                     *)
LedgerIsTrue ==
  \A x \in Deliveries : delivery[x].status \in {"sent", "delivered"} => pushed[x] > 0 /\ delivery[x].ticket

(* An active device's token can be read: as long as no call has failed,    *)
(* registrations, revocations and consumers that overlap leave it without  *)
(* one only while whoever deleted it has yet to write the device's row.    *)
ActiveDeviceHasToken ==
  \A d \in Devices : Active(d) =>
    \/ Stored(tokens, device[d].ref.id)
    \/ ~nleft.clean
    \/ \E q \in Clients : call[q].pc = "erased" /\ call[q].on = d
    \/ \E c \in Consumers : con[c].pc = "disabled" /\ On(c)[1] = d

(* A notification that was queued is delivered, failed or expired in the   *)
(* end, also when the queue refused its message, a push failed or a        *)
(* consumer vanished. Within the bounds only an invocation lost between    *)
(* the row and its message leaves it waiting for its thirty days; so would *)
(* the queue's own limit of deliveries, which the bounds do not reach: it  *)
(* drops a message that lost consumers, or failures of D1, have used up.   *)
QueuedSettles ==
  \A x \in Deliveries :
    (delivery[x].status = "queued") ~> (delivery[x].status \in Settled \/ ~nleft.whole)
===============================================================================
