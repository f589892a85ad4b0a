------------------------ MODULE ServiceDelivery_proofs ------------------------
(***************************************************************************)
(* Proofs about the three services that deliver something to the outside:  *)
(* a row of the notification ledger stands for a push that was taken, the  *)
(* token of an active device can be read, a delivered alert stays          *)
(* delivered, and an authorization state or a capability is spent once.    *)
(*                                                                         *)
(* Each part has an inductive invariant that says what a handler knows     *)
(* between two of its awaits: LedgerInv and TokensOK (notifications),      *)
(* AlertInv (alerts) and BrokerInv (connections).                          *)
(***************************************************************************)
EXTENDS NotificationDelivery, OperatorAlerts, ConnectionBroker, TLAPS

-----------------------------------------------------------------------------
(* Notification delivery *)

Refs == [id : Nat, version : Nat]
Messages == [to : Deliveries, phase : {"send", "receipt"}, tries : Nat]
DeliveryRows == [status : DeliveryStatuses, attempts : Nat, ticket : BOOLEAN, marked : BOOLEAN]

ConsumerOK(r) ==
  /\ r = [pc |-> r.pc, msg |-> r.msg, attempts |-> r.attempts, ticket |-> r.ticket, ref |-> r.ref,
          answer |-> r.answer]
  /\ r.ref \in Refs
  /\ r.attempts \in Nat
  /\ r.pc # "idle" => r.msg \in Messages
  /\ r.pc = "polled" => r.answer \in {"delivered", "pending", "failed", "invalid"}

PublisherOK(p) ==
  /\ p = [pc |-> p.pc, todo |-> p.todo, at |-> p.at]
  /\ p.todo \subseteq Devices
  /\ p.pc \in {"send", "mark"} => p.at \in Devices

PublisherTypes == pub = [e \in Events |-> pub[e]] /\ \A e \in Events : PublisherOK(pub[e])

BudgetOK == nleft = [creds |-> nleft.creds, events |-> nleft.events, errors |-> nleft.errors,
                     lost |-> nleft.lost, clean |-> nleft.clean, whole |-> nleft.whole]

QueueTypes ==
  /\ delivery \in [Deliveries -> DeliveryRows]
  /\ pushed \in [Deliveries -> Nat]
  /\ DOMAIN queue \subseteq Messages
  /\ con = [c \in Consumers |-> con[c]]
  /\ \A c \in Consumers : ConsumerOK(con[c])

TokenTypes ==
  /\ device \in [Devices -> [status : {"none", "active", "revoked", "disabled"}, ref : Refs]]
  /\ call \in [Clients -> [pc : {"idle", "register", "stored", "revoke", "erased"}, on : Devices \union {""},
                           seen : Refs, ref : Refs]]
  /\ \A q \in Clients : call[q].pc # "idle" => call[q].on \in Devices
  /\ tokens \in Seq(Nat)
  /\ BudgetOK

\* A consumer that is about to record that its push was taken.
Took(c) == con[c].pc = "pushed" /\ con[c].answer = "ok"

Ledger(x) == delivery[x].status \in {"sent", "delivered"} => pushed[x] > 0 /\ delivery[x].ticket

LedgerInv ==
  /\ QueueTypes
  /\ \A x \in Deliveries : Ledger(x)
  /\ \A c \in Consumers : Took(c) => pushed[On(c)] > 0

LEMMA BagMore ==
  ASSUME NEW B, NEW m
  PROVE  DOMAIN (B (+) SetToBag({m})) = DOMAIN B \union {m}
  BY DEF (+), SetToBag

LEMMA BagLess ==
  ASSUME NEW B, NEW m
  PROVE  DOMAIN (B (-) SetToBag({m})) \subseteq DOMAIN B
  BY DEF (-), SetToBag

LEMMA MessageFor ==
  ASSUME NEW x \in Deliveries, NEW phase \in {"send", "receipt"}
  PROVE  Message(x, phase) \in Messages
  BY DEF Message, Messages

LEMMA QueueMore ==
  ASSUME DOMAIN queue \subseteq Messages, NEW x \in Deliveries, NEW phase \in {"send", "receipt"}
  PROVE  DOMAIN Sent(x, phase) \subseteq Messages
<1>1. DOMAIN Sent(x, phase) = DOMAIN queue \union {Message(x, phase)}
  BY BagMore DEF Sent
<1> QED
  BY <1>1, MessageFor

LEMMA QueueAgain ==
  ASSUME DOMAIN queue \subseteq Messages, NEW m \in Messages
  PROVE  DOMAIN Returned(m) \subseteq Messages
<1>1. [m EXCEPT !.tries = @ + 1] \in Messages
  BY DEF Messages
<1>2. PICK n : n = [m EXCEPT !.tries = @ + 1]
  OBVIOUS
<1>3. DOMAIN (queue (+) SetToBag({n})) = DOMAIN queue \union {n}
  BY BagMore
<1>4. Returned(m) = queue (+) SetToBag({n}) \/ Returned(m) = queue
  BY <1>2 DEF Returned
<1> QED
  BY <1>1, <1>2, <1>3, <1>4

LEMMA LedgerStarts == NotificationInit => LedgerInv
<1> SUFFICES ASSUME NotificationInit PROVE LedgerInv
  OBVIOUS
<1>1. DOMAIN queue = {}
  BY DEF NotificationInit, EmptyBag, SetToBag
<1>2. ConsumerOK(IdleConsumer) /\ IdleConsumer.pc = "idle"
  BY DEF ConsumerOK, IdleConsumer, NoRef, Refs
<1>3. /\ con = [c \in Consumers |-> con[c]] /\ \A c \in Consumers : con[c] = IdleConsumer
  BY DEF NotificationInit
<1>4. delivery \in [Deliveries -> DeliveryRows] /\ pushed \in [Deliveries -> Nat]
  BY DEF NotificationInit, NoDelivery, DeliveryRows, DeliveryStatuses
<1>5. \A x \in Deliveries : Ledger(x)
  BY DEF NotificationInit, NoDelivery, Ledger
<1> QED
  BY <1>1, <1>2, <1>3, <1>4, <1>5 DEF LedgerInv, QueueTypes, Took

\* A consumer c that becomes r; the others stay.
TurnsTo(c, r) ==
  /\ con' = [d \in Consumers |-> con'[d]] /\ \A d \in Consumers \ {c} : con'[d] = con[d]
  /\ con'[c] = r

LEMMA Turning ==
  ASSUME con = [d \in Consumers |-> con[d]], NEW c \in Consumers, NEW r, con' = [con EXCEPT ![c] = r]
  PROVE  TurnsTo(c, r)
  BY DEF TurnsTo

\* The ledger while nothing is pushed and one consumer moves on.
LEMMA LedgerKept ==
  ASSUME LedgerInv, NEW c \in Consumers, NEW r, TurnsTo(c, r), ConsumerOK(r),
         r.pc = "pushed" => r.answer # "ok", UNCHANGED pushed, DOMAIN queue' \subseteq Messages,
         delivery' \in [Deliveries -> DeliveryRows], \A x \in Deliveries : Ledger(x)'
  PROVE  LedgerInv'
<1>1. QueueTypes'
  BY DEF LedgerInv, QueueTypes, TurnsTo
<1>2. \A d \in Consumers : Took(d)' => pushed'[On(d)'] > 0
  BY DEF LedgerInv, TurnsTo, Took, On
<1> QED
  BY <1>1, <1>2 DEF LedgerInv

\* A row that keeps what the ledger says of it, or says nothing.
SaysNoMore(y) ==
  \/ delivery'[y].status \notin {"sent", "delivered"}
  \/ /\ delivery[y].status \in {"sent", "delivered"}
     /\ delivery'[y].ticket = delivery[y].ticket

LEMMA RowsKept ==
  ASSUME LedgerInv, UNCHANGED pushed, \A y \in Deliveries : SaysNoMore(y)
  PROVE  \A y \in Deliveries : Ledger(y)'
  BY DEF LedgerInv, Ledger, SaysNoMore

LEMMA SameRows ==
  ASSUME LedgerInv, UNCHANGED <<delivery, pushed>>
  PROVE  delivery' \in [Deliveries -> DeliveryRows] /\ \A y \in Deliveries : Ledger(y)'
  BY DEF LedgerInv, QueueTypes, Ledger

LEMMA OneRow ==
  ASSUME LedgerInv, NEW x \in Deliveries, NEW row \in DeliveryRows, UNCHANGED pushed,
         delivery' = [delivery EXCEPT ![x] = row],
         row.status \in {"sent", "delivered"} => pushed[x] > 0 /\ row.ticket
  PROVE  delivery' \in [Deliveries -> DeliveryRows] /\ \A y \in Deliveries : Ledger(y)'
  BY DEF LedgerInv, QueueTypes, Ledger

LEMMA UpdatedRow ==
  ASSUME LedgerInv, NEW x \in Deliveries, NEW row \in DeliveryRows, UNCHANGED pushed, Update(x, row),
         row.status \in {"sent", "delivered"} => pushed[x] > 0 /\ row.ticket
  PROVE  delivery' \in [Deliveries -> DeliveryRows] /\ \A y \in Deliveries : Ledger(y)'
  BY OneRow, SameRows DEF Update

LEMMA FailedRow ==
  ASSUME LedgerInv, NEW x \in Deliveries, NEW n \in Nat, UNCHANGED pushed, Fail(x, n)
  PROVE  delivery' \in [Deliveries -> DeliveryRows] /\ \A y \in Deliveries : Ledger(y)'
<1>1. delivery[x] \in DeliveryRows
  BY DEF LedgerInv, QueueTypes
<1>2. PICK k \in Nat : k = delivery[x].attempts + n
  BY <1>1 DEF DeliveryRows
<1>3. PICK row : row = [delivery[x] EXCEPT !.status = "failed", !.attempts = k, !.marked = FALSE]
  OBVIOUS
<1>4. row \in DeliveryRows /\ row.status = "failed"
  BY <1>1, <1>3 DEF DeliveryRows, DeliveryStatuses
<1>5. Update(x, row)
  BY <1>1, <1>2, <1>3 DEF Fail, DeliveryRows
<1> QED
  BY <1>4, <1>5, UpdatedRow

LEMMA IdleIsOK == ConsumerOK(IdleConsumer) /\ IdleConsumer.pc = "idle"
  BY DEF ConsumerOK, IdleConsumer, NoRef, Refs

\* A consumer that acknowledges, gives its message back or goes on.
LEMMA ConsumerMoves ==
  ASSUME LedgerInv, NEW c \in Consumers, con[c].pc # "idle", UNCHANGED pushed,
         Ack(c) \/ Retry(c) \/ (\E pc \in {"throw", "ask", "disable", "disabled", "fail"} : Step(c, pc)),
         delivery' \in [Deliveries -> DeliveryRows], \A y \in Deliveries : Ledger(y)'
  PROVE  LedgerInv'
<1>1. QueueTypes /\ ConsumerOK(con[c]) /\ con[c].msg \in Messages
  BY DEF LedgerInv, QueueTypes, ConsumerOK
<1>2. CASE Ack(c) \/ Retry(c)
  <2>1. DOMAIN queue' \subseteq Messages
    BY <1>1, <1>2, QueueAgain DEF Ack, Retry, QueueTypes
  <2>2. TurnsTo(c, IdleConsumer)
    BY <1>1, <1>2, Turning DEF Ack, Retry, QueueTypes
  <2> QED
    BY <2>1, <2>2, IdleIsOK, LedgerKept
<1>3. ASSUME NEW pc \in {"throw", "ask", "disable", "disabled", "fail"}, Step(c, pc) PROVE LedgerInv'
  <2>1. PICK r : r = [con[c] EXCEPT !.pc = pc]
    OBVIOUS
  <2>2. con' = [con EXCEPT ![c] = r] /\ DOMAIN queue' \subseteq Messages
    BY <1>1, <1>3, <2>1 DEF Step, QueueTypes
  <2>3. ConsumerOK(r) /\ r.pc # "pushed"
    BY <1>1, <2>1 DEF ConsumerOK
  <2>4. TurnsTo(c, r)
    BY <1>1, <2>2, Turning DEF QueueTypes
  <2> QED
    BY <2>2, <2>3, <2>4, LedgerKept
<1> QED
  BY <1>2, <1>3

LEMMA TakeKeeps ==
  ASSUME LedgerInv, NEW c \in Consumers, NEW m \in BagToSet(queue), Take(c, m)
  PROVE  LedgerInv'
<1>1. QueueTypes /\ m \in Messages
  BY DEF LedgerInv, QueueTypes, BagToSet
<1>2. DOMAIN queue' \subseteq Messages
  BY <1>1, BagLess DEF Take, Without, QueueTypes
<1>3. UNCHANGED <<delivery, pushed>>
  BY DEF Take
<1>4. PICK attempts \in Nat : attempts = delivery[m.to].attempts
  BY <1>1 DEF QueueTypes, Messages, DeliveryRows
<1>10. PICK ticket : ticket = delivery[m.to].ticket
  OBVIOUS
<1>5. PICK r : r = [IdleConsumer EXCEPT !.pc = "device", !.msg = m, !.attempts = attempts, !.ticket = ticket]
  OBVIOUS
<1>6. con' = [con EXCEPT ![c] = r] \/ con' = [con EXCEPT ![c] = IdleConsumer]
  BY <1>4, <1>10, <1>5 DEF Take
<1>7. ConsumerOK(r) /\ r.pc = "device"
  BY <1>1, <1>5 DEF ConsumerOK, IdleConsumer, NoRef, Refs
<1>8. TurnsTo(c, r) \/ TurnsTo(c, IdleConsumer)
  BY <1>1, <1>6, Turning DEF QueueTypes
<1> QED
  BY <1>2, <1>3, <1>7, <1>8, IdleIsOK, LedgerKept, SameRows

LEMMA FindDeviceKeeps ==
  ASSUME LedgerInv, TokenTypes, NEW c \in Consumers, FindDevice(c)
  PROVE  LedgerInv'
<1>1. QueueTypes /\ ConsumerOK(con[c]) /\ con[c].pc = "device" /\ con[c].msg \in Messages
  BY DEF LedgerInv, QueueTypes, ConsumerOK, FindDevice
<1>2. PICK x \in Deliveries : x = On(c)
  BY <1>1 DEF On, Messages
<1>3. x[1] \in Devices
  BY <1>2 DEF Deliveries
<1>4. UNCHANGED pushed
  BY DEF FindDevice
<1>5. CASE Update(x, [delivery[x] EXCEPT !.status = "expired"]) /\ Ack(c)
  <2>1. PICK row : row = [delivery[x] EXCEPT !.status = "expired"]
    OBVIOUS
  <2>2. delivery[x] \in DeliveryRows
    BY <1>1 DEF QueueTypes
  <2>3. row \in DeliveryRows /\ row.status = "expired"
    BY <2>1, <2>2 DEF DeliveryRows, DeliveryStatuses
  <2>4. Update(x, row)
    BY <1>5, <2>1
  <2> QED
    BY <1>1, <1>4, <1>5, <2>3, <2>4, UpdatedRow, ConsumerMoves
<1>6. CASE /\ con' = [con EXCEPT ![c].pc = IF con[c].msg.phase = "send" THEN "push" ELSE "poll",
                                ![c].ref = device[x[1]].ref]
           /\ UNCHANGED <<delivery, queue>>
  <2>1. PICK pc \in {"push", "poll"} : pc = IF con[c].msg.phase = "send" THEN "push" ELSE "poll"
    OBVIOUS
  <2>2. PICK ref \in Refs : ref = device[x[1]].ref
    BY <1>3 DEF TokenTypes
  <2>3. PICK r : r = [con[c] EXCEPT !.pc = pc, !.ref = ref]
    OBVIOUS
  <2>4. con' = [con EXCEPT ![c] = r]
    BY <1>1, <1>6, <2>1, <2>2, <2>3 DEF QueueTypes
  <2>5. ConsumerOK(r) /\ r.pc # "pushed"
    BY <1>1, <2>3 DEF ConsumerOK
  <2>6. TurnsTo(c, r) /\ DOMAIN queue' \subseteq Messages
    BY <1>1, <1>6, <2>4, Turning DEF QueueTypes
  <2> QED
    BY <1>4, <1>6, <2>5, <2>6, LedgerKept, SameRows
<1> QED
  BY <1>2, <1>5, <1>6 DEF FindDevice

LEMMA PushKeeps ==
  ASSUME LedgerInv, NEW c \in Consumers, Push(c)
  PROVE  LedgerInv'
<1>1. QueueTypes /\ ConsumerOK(con[c]) /\ con[c].pc = "push" /\ con[c].msg \in Messages
  BY DEF LedgerInv, QueueTypes, ConsumerOK, Push
<1>2. PICK x \in Deliveries : x = On(c)
  BY <1>1 DEF On, Messages
<1>3. PICK answer \in {"ok", "invalid", "retryable", "rejected", "throw"}, got \in {0, 1} :
        /\ con' = [con EXCEPT ![c].pc = IF answer = "throw" THEN "throw" ELSE "pushed", ![c].answer = answer]
        /\ pushed' = [pushed EXCEPT ![x] = pushed[x] + got]
        /\ answer = "ok" => got = 1
  BY <1>2 DEF Push
<1>4. UNCHANGED <<delivery, queue>>
  BY DEF Push
<1>5. PICK pc : pc = IF answer = "throw" THEN "throw" ELSE "pushed"
  OBVIOUS
<1>6. PICK r : r = [con[c] EXCEPT !.pc = pc, !.answer = answer]
  OBVIOUS
<1>7. con' = [con EXCEPT ![c] = r]
  BY <1>1, <1>3, <1>5, <1>6 DEF QueueTypes
<1>8. ConsumerOK(r) /\ r.answer = answer /\ r.msg = con[c].msg
  BY <1>1, <1>5, <1>6 DEF ConsumerOK
<1>9. TurnsTo(c, r)
  BY <1>1, <1>7, Turning DEF QueueTypes
<1>10. /\ pushed' \in [Deliveries -> Nat] /\ \A y \in Deliveries : pushed[y] > 0 => pushed'[y] > 0
       /\ answer = "ok" => pushed'[x] > 0
  BY <1>1, <1>3 DEF QueueTypes
<1>11. QueueTypes'
  BY <1>1, <1>4, <1>8, <1>9, <1>10 DEF QueueTypes, TurnsTo
<1>12. \A y \in Deliveries : Ledger(y)'
  BY <1>4, <1>10 DEF LedgerInv, Ledger
<1>13. ASSUME NEW d \in Consumers, Took(d)' PROVE pushed'[On(d)'] > 0
  <2>1. CASE d = c
    BY <1>2, <1>8, <1>9, <1>10, <1>13, <2>1 DEF TurnsTo, Took, On
  <2>2. CASE d # c
    <3>1. con'[d] = con[d] /\ Took(d) /\ ConsumerOK(con[d])
      BY <1>1, <1>9, <1>13, <2>2 DEF TurnsTo, Took, QueueTypes
    <3>2. On(d) \in Deliveries /\ pushed[On(d)] > 0 /\ On(d)' = On(d)
      BY <3>1 DEF LedgerInv, ConsumerOK, Messages, On, Took
    <3> QED
      BY <1>10, <3>2
  <2> QED
    BY <2>1, <2>2
<1> QED
  BY <1>11, <1>12, <1>13 DEF LedgerInv

\* The row a step writes, and how its consumer goes on.
LEMMA RecordPushKeeps ==
  ASSUME LedgerInv, NEW c \in Consumers, RecordPush(c)
  PROVE  LedgerInv'
<1>1. QueueTypes /\ ConsumerOK(con[c]) /\ con[c].pc = "pushed" /\ con[c].msg \in Messages
  BY DEF LedgerInv, QueueTypes, ConsumerOK, RecordPush
<1>2. PICK x \in Deliveries : x = On(c)
  BY <1>1 DEF On, Messages
<1>3. delivery[x] \in DeliveryRows /\ UNCHANGED pushed
  BY <1>1 DEF QueueTypes, RecordPush
<1>4. CASE con[c].answer = "ok"
  <2>1. pushed[x] > 0 /\ Step(c, "ask")
    BY <1>1, <1>2, <1>4 DEF LedgerInv, Took, RecordPush
  <2>2. CASE UNCHANGED delivery
    BY <1>1, <1>3, <2>1, <2>2, SameRows, ConsumerMoves
  <2>3. CASE delivery' = [delivery EXCEPT ![x] = [status |-> "sent", ticket |-> TRUE,
                            attempts |-> delivery[x].attempts + 1, marked |-> FALSE]]
    <3>1. PICK k \in Nat : k = delivery[x].attempts + 1
      BY <1>3 DEF DeliveryRows
    <3>2. PICK row : row = [status |-> "sent", ticket |-> TRUE, attempts |-> k, marked |-> FALSE]
      OBVIOUS
    <3>3. row \in DeliveryRows /\ row.ticket /\ delivery' = [delivery EXCEPT ![x] = row]
      BY <2>3, <3>1, <3>2 DEF DeliveryRows, DeliveryStatuses
    <3> QED
      BY <1>1, <1>3, <2>1, <3>3, OneRow, ConsumerMoves
  <2> QED
    BY <1>2, <1>4, <2>2, <2>3 DEF RecordPush
<1>5. CASE con[c].answer = "invalid"
  <2>1. Step(c, "disable") /\ UNCHANGED delivery
    BY <1>5 DEF RecordPush
  <2> QED
    BY <1>1, <1>3, <2>1, SameRows, ConsumerMoves
<1>6. CASE /\ delivery' = IF delivery[x].status = "queued"
                          THEN [delivery EXCEPT ![x].attempts = @ + 1, ![x].marked = FALSE]
                          ELSE delivery
           /\ Retry(c)
  <2>1. PICK k \in Nat : k = delivery[x].attempts + 1
    BY <1>3 DEF DeliveryRows
  <2>2. PICK row : row = [delivery[x] EXCEPT !.attempts = k, !.marked = FALSE]
    OBVIOUS
  <2>3. row \in DeliveryRows /\ row.status = delivery[x].status
    BY <1>3, <2>2 DEF DeliveryRows
  <2>4. UNCHANGED delivery \/ (delivery' = [delivery EXCEPT ![x] = row] /\ row.status = "queued")
    BY <1>1, <1>3, <1>6, <2>1, <2>2, <2>3 DEF QueueTypes, DeliveryRows
  <2> QED
    BY <1>1, <1>3, <1>6, <2>3, <2>4, SameRows, OneRow, ConsumerMoves
<1>7. CASE Fail(x, 1) /\ Ack(c)
  BY <1>1, <1>3, <1>7, FailedRow, ConsumerMoves
<1> QED
  BY <1>2, <1>4, <1>5, <1>6, <1>7 DEF RecordPush

LEMMA PollKeeps ==
  ASSUME LedgerInv, NEW c \in Consumers, PollReceipt(c)
  PROVE  LedgerInv'
<1>1. QueueTypes /\ ConsumerOK(con[c]) /\ con[c].pc = "poll" /\ con[c].msg \in Messages
  BY DEF LedgerInv, QueueTypes, ConsumerOK, PollReceipt
<1>2. UNCHANGED <<delivery, pushed>>
  BY DEF PollReceipt
<1>3. CASE Step(c, "throw")
  BY <1>1, <1>2, <1>3, SameRows, ConsumerMoves
<1>4. ASSUME NEW answer \in {"delivered", "pending", "failed", "invalid", "throw"},
             con' = [con EXCEPT ![c].pc = IF answer = "throw" THEN "throw" ELSE "polled", ![c].answer = answer],
             UNCHANGED queue
      PROVE  LedgerInv'
  <2>1. PICK pc \in {"throw", "polled"} : pc = IF answer = "throw" THEN "throw" ELSE "polled"
    OBVIOUS
  <2>6. pc = "polled" => answer \in {"delivered", "pending", "failed", "invalid"}
    BY <1>4, <2>1
  <2>2. PICK r : r = [con[c] EXCEPT !.pc = pc, !.answer = answer]
    OBVIOUS
  <2>3. con' = [con EXCEPT ![c] = r]
    BY <1>1, <1>4, <2>1, <2>2 DEF QueueTypes
  <2>4. ConsumerOK(r) /\ r.pc # "pushed"
    BY <1>1, <2>6, <2>2 DEF ConsumerOK
  <2>5. TurnsTo(c, r) /\ DOMAIN queue' \subseteq Messages
    BY <1>1, <1>4, <2>3, Turning DEF QueueTypes
  <2> QED
    BY <1>2, <2>4, <2>5, LedgerKept, SameRows
<1> QED
  BY <1>3, <1>4 DEF PollReceipt

\* What a consumer does with a receipt: the answers are those PollReceipt gives.
LEMMA ReceiptOutcomes ==
  ASSUME NEW c \in Consumers, ConsumerOK(con[c]), RecordReceipt(c)
  PROVE  \/ /\ delivery' = [delivery EXCEPT ![On(c)].attempts = IF delivery[On(c)].status = "sent" THEN @ + 1 ELSE @]
            /\ Step(c, "ask")
         \/ Fail(On(c), 0) /\ Ack(c)
         \/ /\ delivery' = IF delivery[On(c)].status = "sent"
                            THEN [delivery EXCEPT ![On(c)].status = "delivered"] ELSE delivery
            /\ Ack(c)
         \/ Step(c, "disable") /\ UNCHANGED delivery
<1>1. /\ con[c].answer \in {"delivered", "pending", "failed", "invalid"}
      /\ \/ con[c].attempts < MaxAttempts /\ ~(con[c].attempts >= MaxAttempts)
         \/ con[c].attempts >= MaxAttempts /\ ~(con[c].attempts < MaxAttempts)
  BY NotificationAssumption DEF ConsumerOK, RecordReceipt
<1>2. CASE con[c].answer = "pending" /\ con[c].attempts < MaxAttempts
  BY <1>1, <1>2 DEF RecordReceipt
<1>3. CASE con[c].answer = "pending" /\ con[c].attempts >= MaxAttempts
  BY <1>1, <1>3 DEF RecordReceipt
<1>4. CASE con[c].answer = "delivered"
  BY <1>4 DEF RecordReceipt
<1>5. CASE con[c].answer = "failed"
  BY <1>5 DEF RecordReceipt
<1>6. CASE con[c].answer = "invalid"
  BY <1>6 DEF RecordReceipt
<1> QED
  BY <1>1, <1>2, <1>3, <1>4, <1>5, <1>6

LEMMA RecordReceiptKeeps ==
  ASSUME LedgerInv, NEW c \in Consumers, RecordReceipt(c)
  PROVE  LedgerInv'
<1>1. QueueTypes /\ ConsumerOK(con[c]) /\ con[c].pc = "polled" /\ con[c].msg \in Messages
  BY DEF LedgerInv, QueueTypes, ConsumerOK, RecordReceipt
<1>2. PICK x \in Deliveries : x = On(c)
  BY <1>1 DEF On, Messages
<1>3. delivery[x] \in DeliveryRows /\ UNCHANGED pushed /\ Ledger(x)
  BY <1>1 DEF QueueTypes, RecordReceipt, LedgerInv
<1>4. CASE Fail(x, 0) /\ Ack(c)
  BY <1>1, <1>3, <1>4, FailedRow, ConsumerMoves
<1>5. CASE Step(c, "disable") /\ UNCHANGED delivery
  BY <1>1, <1>3, <1>5, SameRows, ConsumerMoves
<1>6. CASE /\ delivery' = [delivery EXCEPT ![x].attempts = IF delivery[x].status = "sent" THEN @ + 1 ELSE @]
           /\ Step(c, "ask")
  <2>1. PICK k \in Nat : k = IF delivery[x].status = "sent" THEN delivery[x].attempts + 1 ELSE delivery[x].attempts
    BY <1>3 DEF DeliveryRows
  <2>2. PICK row : row = [delivery[x] EXCEPT !.attempts = k]
    OBVIOUS
  <2>3. row \in DeliveryRows /\ row.status = delivery[x].status /\ row.ticket = delivery[x].ticket
    BY <1>3, <2>2 DEF DeliveryRows
  <2>4. delivery' = [delivery EXCEPT ![x] = row]
    BY <1>1, <1>6, <2>1, <2>2 DEF QueueTypes
  <2>5. row.status \in {"sent", "delivered"} => pushed[x] > 0 /\ row.ticket
    BY <1>3, <2>3 DEF Ledger
  <2> QED
    BY <1>1, <1>3, <1>6, <2>3, <2>4, <2>5, OneRow, ConsumerMoves
<1>7. CASE /\ delivery' = IF delivery[x].status = "sent" THEN [delivery EXCEPT ![x].status = "delivered"] ELSE delivery
           /\ Ack(c)
  <2>1. PICK row : row = [delivery[x] EXCEPT !.status = "delivered"]
    OBVIOUS
  <2>2. row \in DeliveryRows /\ row.ticket = delivery[x].ticket
    BY <1>3, <2>1 DEF DeliveryRows, DeliveryStatuses
  <2>3. UNCHANGED delivery \/ (delivery' = [delivery EXCEPT ![x] = row] /\ delivery[x].status = "sent")
    BY <1>1, <1>7, <2>1 DEF QueueTypes
  <2>4. delivery[x].status = "sent" => pushed[x] > 0 /\ row.ticket
    BY <1>3, <2>2 DEF Ledger
  <2> QED
    BY <1>1, <1>3, <1>7, <2>2, <2>3, <2>4, SameRows, OneRow, ConsumerMoves
<1> QED
  BY <1>1, <1>2, <1>4, <1>5, <1>6, <1>7, ReceiptOutcomes

LEMMA ConsumersKeep ==
  ASSUME LedgerInv, NEW c \in Consumers,
         \/ TokenMissing(c) \/ DisableDelete(c) \/ DisableUpdate(c) \/ RecordInvalid(c) \/ AskReceipt(c)
         \/ RecordThrow(c) \/ ConsumerLost(c)
  PROVE  LedgerInv'
<1>1. QueueTypes /\ ConsumerOK(con[c]) /\ con[c].pc # "idle" /\ con[c].msg \in Messages /\ UNCHANGED pushed
  BY DEF LedgerInv, QueueTypes, ConsumerOK, TokenMissing, DisableDelete, DisableUpdate, RecordInvalid,
         AskReceipt, RecordThrow, ConsumerLost
<1>2. PICK x \in Deliveries : x = On(c)
  BY <1>1 DEF On, Messages
<1>3. delivery[x] \in DeliveryRows /\ Ledger(x)
  BY <1>1 DEF QueueTypes, LedgerInv
<1>4. CASE UNCHANGED delivery /\ (Retry(c) \/ \E pc \in {"throw", "disabled", "fail"} : Step(c, pc))
  BY <1>1, <1>4, SameRows, ConsumerMoves
<1>5. CASE TokenMissing(c) \/ DisableDelete(c) \/ DisableUpdate(c) \/ ConsumerLost(c)
  BY <1>4, <1>5 DEF TokenMissing, DisableDelete, DisableUpdate, ConsumerLost
<1>6. CASE AskReceipt(c)
  <2>1. CASE con' = [con EXCEPT ![c] = IdleConsumer] /\ queue' = Sent(On(c), "receipt")
    <3>1. TurnsTo(c, IdleConsumer)
      BY <1>1, <2>1, Turning DEF QueueTypes
    <3>2. DOMAIN queue' \subseteq Messages
      BY <1>1, <1>2, <2>1, QueueMore DEF QueueTypes
    <3> QED
      BY <1>1, <1>6, <3>1, <3>2, IdleIsOK, LedgerKept, SameRows DEF AskReceipt
  <2> QED
    BY <1>4, <1>6, <2>1 DEF AskReceipt
<1>7. CASE \E n \in {0, 1} : Fail(x, n) /\ Ack(c)
  BY <1>1, <1>7, FailedRow, ConsumerMoves
<1>8. CASE RecordInvalid(c)
  BY <1>2, <1>7, <1>8 DEF RecordInvalid
<1>9. CASE RecordThrow(c) /\ Retry(c)
  <2>1. PICK k \in Nat : k = delivery[x].attempts + 1
    BY <1>3 DEF DeliveryRows
  <2>2. PICK row : row = [delivery[x] EXCEPT !.attempts = k, !.marked = FALSE]
    OBVIOUS
  <2>3. row \in DeliveryRows /\ row.status = delivery[x].status /\ row.ticket = delivery[x].ticket
    BY <1>3, <2>2 DEF DeliveryRows
  <2>4. CASE Update(x, [delivery[x] EXCEPT !.attempts = @ + 1, !.marked = FALSE])
    <3>1. Update(x, row)
      BY <1>3, <2>1, <2>2, <2>4 DEF DeliveryRows
    <3>2. row.status \in {"sent", "delivered"} => pushed[x] > 0 /\ row.ticket
      BY <1>3, <2>3 DEF Ledger
    <3> QED
      BY <1>1, <1>9, <2>3, <3>1, <3>2, UpdatedRow, ConsumerMoves
  <2> QED
    BY <1>2, <1>7, <1>9, <2>4 DEF RecordThrow
<1> QED
  BY <1>2, <1>5, <1>6, <1>7, <1>8, <1>9 DEF RecordThrow

\* Publishers and the sweep move no consumer.
LEMMA LedgerAlone ==
  ASSUME LedgerInv, UNCHANGED <<con, pushed>>, DOMAIN queue' \subseteq Messages,
         delivery' \in [Deliveries -> DeliveryRows], \A y \in Deliveries : Ledger(y)'
  PROVE  LedgerInv'
<1>1. QueueTypes'
  BY DEF LedgerInv, QueueTypes
<1>2. \A c \in Consumers : Took(c)' => pushed'[On(c)'] > 0
  BY DEF LedgerInv, Took, On
<1> QED
  BY <1>1, <1>2 DEF LedgerInv

LEMMA LedgerStays ==
  ASSUME LedgerInv, UNCHANGED <<delivery, queue, con, pushed>>
  PROVE  LedgerInv'
<1>1. DOMAIN queue' \subseteq Messages
  BY DEF LedgerInv, QueueTypes
<1> QED
  BY <1>1, SameRows, LedgerAlone

LEMMA PublishersKeep ==
  ASSUME LedgerInv, PublisherTypes, NEW e \in Events,
         \/ EnqueueSelect(e) \/ EnqueueSend(e) \/ EnqueueMark(e) \/ EnqueueReturn(e) \/ PublisherLost(e)
         \/ \E d \in Devices : EnqueueInsert(e, d)
  PROVE  LedgerInv'
<1>1. QueueTypes
  BY DEF LedgerInv
<1>2. CASE EnqueueSelect(e) \/ EnqueueReturn(e) \/ PublisherLost(e)
  BY <1>2, LedgerStays DEF EnqueueSelect, EnqueueReturn, PublisherLost
<1>3. CASE EnqueueMark(e)
  <2>1. PICK x : x = <<pub[e].at, e>>
    OBVIOUS
  <2>2. UNCHANGED <<con, queue, pushed>>
    BY <1>3 DEF EnqueueMark
  <2>3. CASE x \in Deliveries
    <3>1. PICK row : row = [delivery[x] EXCEPT !.marked = delivery[x].marked \/ delivery[x].status = "queued"]
      OBVIOUS
    <3>2. delivery[x] \in DeliveryRows /\ Ledger(x)
      BY <2>3 DEF LedgerInv, QueueTypes
    <3>3. row \in DeliveryRows /\ row.status = delivery[x].status /\ row.ticket = delivery[x].ticket
      BY <3>1, <3>2 DEF DeliveryRows
    <3>4. delivery' = [delivery EXCEPT ![x] = row]
      BY <1>1, <1>3, <2>1, <2>3, <3>1 DEF EnqueueMark, QueueTypes
    <3>5. row.status \in {"sent", "delivered"} => pushed[x] > 0 /\ row.ticket
      BY <3>2, <3>3 DEF Ledger
    <3> QED
      BY <1>1, <2>2, <2>3, <3>3, <3>4, <3>5, OneRow, LedgerAlone DEF QueueTypes
  <2>4. CASE x \notin Deliveries
    <3>1. UNCHANGED delivery
      BY <1>1, <1>3, <2>1, <2>4 DEF EnqueueMark, QueueTypes
    <3> QED
      BY <2>2, <3>1, LedgerStays
  <2> QED
    BY <2>3, <2>4
<1>4. ASSUME NEW d \in Devices, EnqueueInsert(e, d) PROVE LedgerInv'
  <2>1. PICK x \in Deliveries : x = <<d, e>>
    BY DEF Deliveries
  <2>2. PICK row : row = [NoDelivery EXCEPT !.status = "queued"]
    OBVIOUS
  <2>3. row \in DeliveryRows /\ row.status = "queued"
    BY <2>2 DEF NoDelivery, DeliveryRows, DeliveryStatuses
  <2>4. (UNCHANGED delivery \/ delivery' = [delivery EXCEPT ![x] = row]) /\ UNCHANGED <<queue, con, pushed>>
    BY <1>4, <2>1, <2>2 DEF EnqueueInsert
  <2> QED
    BY <1>1, <2>3, <2>4, LedgerStays, OneRow, LedgerAlone DEF QueueTypes
<1>5. CASE EnqueueSend(e)
  <2>1. UNCHANGED <<delivery, con, pushed>> /\ queue' \in {queue, Sent(<<pub[e].at, e>>, "send")}
    BY <1>5 DEF EnqueueSend
  <2>2. pub[e].at \in Devices
    BY <1>5 DEF PublisherTypes, PublisherOK, EnqueueSend
  <2>3. <<pub[e].at, e>> \in Deliveries
    BY <2>2 DEF Deliveries
  <2>4. DOMAIN queue' \subseteq Messages
    BY <1>1, <2>1, <2>3, QueueMore DEF QueueTypes
  <2> QED
    BY <2>1, <2>4, SameRows, LedgerAlone
<1> QED
  BY <1>2, <1>3, <1>4, <1>5

LEMMA SweepKeeps ==
  ASSUME LedgerInv, NEW x \in Deliveries, SweepSend(x) \/ SweepExpired(x) \/ Expire(x)
  PROVE  LedgerInv'
<1>1. QueueTypes /\ delivery[x] \in DeliveryRows
  BY DEF LedgerInv, QueueTypes
<1>2. CASE Expire(x)
  BY <1>2, LedgerStays DEF Expire, deliveryVars
<1>3. CASE SweepExpired(x)
  <2>1. PICK row : row = [NoDelivery EXCEPT !.status = "gone"]
    OBVIOUS
  <2>2. row \in DeliveryRows /\ row.status = "gone"
    BY <2>1 DEF NoDelivery, DeliveryRows, DeliveryStatuses
  <2>3. delivery' = [delivery EXCEPT ![x] = row] /\ UNCHANGED <<queue, con, pushed>>
    BY <1>3, <2>1 DEF SweepExpired
  <2> QED
    BY <1>1, <2>2, <2>3, OneRow, LedgerAlone DEF QueueTypes
<1>4. CASE SweepSend(x)
  <2>1. UNCHANGED <<con, pushed>> /\ queue' = Sent(x, "send")
    BY <1>4 DEF SweepSend
  <2>2. DOMAIN queue' \subseteq Messages
    BY <1>1, <2>1, QueueMore DEF QueueTypes
  <2>3. PICK row : row = [delivery[x] EXCEPT !.marked = FALSE]
    OBVIOUS
  <2>4. row \in DeliveryRows /\ row.status = "queued"
    BY <1>1, <1>4, <2>3 DEF DeliveryRows, SweepSend, Stranded
  <2>5. UNCHANGED delivery \/ delivery' = [delivery EXCEPT ![x] = row]
    BY <1>1, <1>4, <2>3 DEF SweepSend, QueueTypes
  <2> QED
    BY <2>1, <2>2, <2>4, <2>5, SameRows, OneRow, LedgerAlone
<1> QED
  BY <1>2, <1>3, <1>4

LEMMA PublishersStart == NotificationInit => PublisherTypes
<1> SUFFICES ASSUME NotificationInit PROVE PublisherTypes
  OBVIOUS
<1>1. PublisherOK(IdlePublisher)
  BY DEF PublisherOK, IdlePublisher
<1>2. pub = [e \in Events |-> IdlePublisher]
  BY DEF NotificationInit
<1> QED
  BY <1>1, <1>2 DEF PublisherTypes

LEMMA PublisherTurns ==
  ASSUME PublisherTypes, NEW e \in Events, NEW p, PublisherOK(p), pub' = [pub EXCEPT ![e] = p]
  PROVE  PublisherTypes'
  BY DEF PublisherTypes

LEMMA PublishersTyped ==
  ASSUME PublisherTypes, NEW e \in Events,
         \/ EnqueueSelect(e) \/ EnqueueSend(e) \/ EnqueueMark(e) \/ EnqueueReturn(e) \/ PublisherLost(e)
         \/ \E d \in Devices : EnqueueInsert(e, d)
  PROVE  PublisherTypes'
<1>1. /\ PublisherOK(pub[e]) /\ PublisherOK(IdlePublisher)
      /\ pub[e] = [pc |-> pub[e].pc, todo |-> pub[e].todo, at |-> pub[e].at] /\ pub[e].todo \subseteq Devices
      /\ pub = [f \in Events |-> pub[f]]
  BY DEF PublisherTypes, PublisherOK, IdlePublisher
<1>2. CASE EnqueueReturn(e) \/ PublisherLost(e)
  BY <1>1, <1>2, PublisherTurns DEF EnqueueReturn, PublisherLost
<1>3. CASE EnqueueSelect(e)
  <2>1. PICK todo \in SUBSET Devices : pub' = [pub EXCEPT ![e] = [IdlePublisher EXCEPT !.pc = "insert", !.todo = todo]]
    BY <1>3 DEF EnqueueSelect
  <2>2. PICK p : p = [IdlePublisher EXCEPT !.pc = "insert", !.todo = todo]
    OBVIOUS
  <2>3. PublisherOK(p)
    BY <2>2 DEF PublisherOK, IdlePublisher
  <2> QED
    BY <2>1, <2>2, <2>3, PublisherTurns
<1>4. CASE pub' = [pub EXCEPT ![e].pc = "insert", ![e].todo = @ \ {pub[e].at}]
  <2>1. PICK todo \in SUBSET Devices : todo = pub[e].todo \ {pub[e].at}
    BY <1>1
  <2>2. PICK p : p = [pub[e] EXCEPT !.pc = "insert", !.todo = todo]
    OBVIOUS
  <2>3. PublisherOK(p)
    BY <1>1, <2>2 DEF PublisherOK
  <2>4. pub' = [pub EXCEPT ![e] = p]
    BY <1>1, <1>4, <2>1, <2>2
  <2> QED
    BY <2>3, <2>4, PublisherTurns
<1>5. CASE EnqueueMark(e)
  BY <1>4, <1>5 DEF EnqueueMark
<1>6. CASE EnqueueSend(e)
  <2>1. PICK p : p = [pub[e] EXCEPT !.pc = "mark"]
    OBVIOUS
  <2>2. PublisherOK(p) \/ pub[e].pc # "send"
    BY <1>1, <2>1 DEF PublisherOK
  <2>3. pub[e].pc = "send"
    BY <1>6 DEF EnqueueSend
  <2>4. CASE pub' = [pub EXCEPT ![e].pc = "mark"]
    BY <1>1, <2>1, <2>2, <2>3, <2>4, PublisherTurns
  <2> QED
    BY <1>4, <1>6, <2>4 DEF EnqueueSend
<1>7. ASSUME NEW d \in Devices, EnqueueInsert(e, d) PROVE PublisherTypes'
  <2>1. PICK p : p = [pub[e] EXCEPT !.pc = "send", !.at = d]
    OBVIOUS
  <2>2. PublisherOK(p)
    BY <1>1, <2>1 DEF PublisherOK
  <2>3. CASE pub' = [pub EXCEPT ![e].pc = "send", ![e].at = d]
    BY <1>1, <2>1, <2>2, <2>3, PublisherTurns
  <2>4. CASE pub' = [pub EXCEPT ![e].todo = @ \ {d}]
    <3>1. PICK todo \in SUBSET Devices : todo = pub[e].todo \ {d}
      BY <1>1
    <3>2. PICK r : r = [pub[e] EXCEPT !.todo = todo]
      OBVIOUS
    <3>3. PublisherOK(r)
      BY <1>1, <3>2 DEF PublisherOK
    <3> QED
      BY <1>1, <2>4, <3>1, <3>2, <3>3, PublisherTurns
  <2> QED
    BY <1>7, <2>3, <2>4 DEF EnqueueInsert
<1> QED
  BY <1>2, <1>3, <1>5, <1>6, <1>7

-----------------------------------------------------------------------------
(* Tokens: who names which object of the vault. *)

\* A reference that a device, a request or a consumer holds, for a device.
Known(ref, d) ==
  \/ device[d].ref = ref
  \/ \E q \in Clients : call[q].seen = ref /\ call[q].on = d
  \/ \E c \in Consumers : con[c].ref = ref /\ On(c)[1] = d

\* A token a registration has stored and not yet recorded is newer than all that is known of it.
Newest(q) ==
  /\ Holds(tokens, call[q].ref)
  /\ \A ref \in Refs, d \in Devices :
       Known(ref, d) /\ ref.id = call[q].ref.id => ref.version < call[q].ref.version /\ d = call[q].on
  /\ \A p \in Clients \ {q} : call[p].pc = "stored" => call[p].ref.id # call[q].ref.id

NoneNewer(ref) == ref.id \in DOMAIN tokens /\ (tokens[ref.id] > 0 => ref.version <= tokens[ref.id])

Readable(d) == Active(d) =>
  \/ Stored(tokens, device[d].ref.id)
  \/ ~nleft.clean
  \/ \E q \in Clients : call[q].pc = "erased" /\ call[q].on = d
  \/ \E c \in Consumers : con[c].pc = "disabled" /\ On(c)[1] = d

TokenInv ==
  /\ \A ref \in Refs, d \in Devices : Known(ref, d) /\ ref.id > 0 => NoneNewer(ref)
  /\ \A r1, r2 \in Refs, d1, d2 \in Devices :
       Known(r1, d1) /\ Known(r2, d2) /\ r1.id = r2.id /\ r1.id > 0 => d1 = d2
  /\ \A q \in Clients : call[q].pc = "stored" => Newest(q)

\* Nothing new is known, and nothing new is stored.
KnownKept == \A ref \in Refs, d \in Devices : Known(ref, d)' /\ ref.id > 0 => Known(ref, d)
StoredKept == \A q \in Clients : call'[q].pc = "stored" => call'[q] = call[q]

LEMMA StoredTyped ==
  ASSUME TokenTypes, NEW q \in Clients
  PROVE  /\ call[q].seen \in Refs /\ call[q].ref \in Refs
         /\ call[q].pc # "idle" => call[q].on \in Devices
  BY DEF TokenTypes

LEMMA ObjectIds ==
  ASSUME TokenTypes
  PROVE  DOMAIN tokens = 1..Len(tokens) /\ \A id \in DOMAIN tokens : id \in Nat /\ id > 0 /\ tokens[id] \in Nat
<1>1. tokens \in Seq(Nat)
  BY DEF TokenTypes
<1>2. DOMAIN tokens = 1..Len(tokens) /\ Len(tokens) \in Nat
  BY <1>1
<1> QED
  BY <1>1, <1>2

LEMMA VaultChanged ==
  ASSUME TokenTypes, NEW id \in DOMAIN tokens, NEW n \in Nat, tokens' = [tokens EXCEPT ![id] = n]
  PROVE  /\ tokens' \in Seq(Nat) /\ DOMAIN tokens' = DOMAIN tokens /\ tokens'[id] = n
         /\ \A i \in DOMAIN tokens \ {id} : tokens'[i] = tokens[i]
<1>1. tokens \in Seq(Nat) /\ id \in 1..Len(tokens)
  BY ObjectIds DEF TokenTypes
<1> QED
  BY <1>1

LEMMA TokensKept ==
  ASSUME TokenTypes, TokenInv, KnownKept, StoredKept, UNCHANGED tokens
  PROVE  TokenInv'
<1>1. \A ref \in Refs, d \in Devices : Known(ref, d)' /\ ref.id > 0 => NoneNewer(ref)'
  BY DEF TokenInv, KnownKept, NoneNewer
<1>2. \A r1, r2 \in Refs, d1, d2 \in Devices :
        Known(r1, d1)' /\ Known(r2, d2)' /\ r1.id = r2.id /\ r1.id > 0 => d1 = d2
  BY DEF TokenInv, KnownKept
<1>3. ASSUME NEW q \in Clients, call'[q].pc = "stored" PROVE Newest(q)'
  <2>1. call'[q] = call[q] /\ Newest(q) /\ call[q].ref \in Refs
    BY <1>3, StoredTyped DEF TokenInv, StoredKept
  <2>2. Holds(tokens, call[q].ref)' /\ call[q].ref.id > 0
    BY <2>1, ObjectIds DEF Newest, Holds
  <2>3. \A ref \in Refs, d \in Devices :
          Known(ref, d)' /\ ref.id = call[q].ref.id => ref.version < call[q].ref.version /\ d = call[q].on
    BY <2>1, <2>2 DEF Newest, KnownKept
  <2>4. \A p \in Clients \ {q} : call'[p].pc = "stored" => call'[p].ref.id # call[q].ref.id
    BY <2>1 DEF Newest, StoredKept
  <2> QED
    BY <2>1, <2>2, <2>3, <2>4 DEF Newest
<1> QED
  BY <1>1, <1>2, <1>3 DEF TokenInv

\* Deleting what a reference names takes nothing from a registration that has stored a newer one.
LEMMA TokensErased ==
  ASSUME TokenTypes, TokenInv, KnownKept, StoredKept, NEW gone \in Refs, NEW e \in Devices,
         Known(gone, e), Holds(tokens, gone), tokens' = AfterDelete(tokens, gone)
  PROVE  TokenInv'
<1>1. /\ tokens \in Seq(Nat) /\ gone.id \in DOMAIN tokens /\ tokens[gone.id] = gone.version /\ gone.id > 0
      /\ tokens' = [tokens EXCEPT ![gone.id] = 0]
  BY ObjectIds DEF Holds, TokenTypes, AfterDelete
<1>2. /\ DOMAIN tokens' = DOMAIN tokens /\ tokens'[gone.id] = 0
      /\ \A id \in DOMAIN tokens \ {gone.id} : tokens'[id] = tokens[id]
  BY <1>1
<1>3. \A ref \in Refs, d \in Devices : Known(ref, d)' /\ ref.id > 0 => NoneNewer(ref)'
  BY <1>1, <1>2 DEF TokenInv, KnownKept, NoneNewer
<1>4. \A r1, r2 \in Refs, d1, d2 \in Devices :
        Known(r1, d1)' /\ Known(r2, d2)' /\ r1.id = r2.id /\ r1.id > 0 => d1 = d2
  BY DEF TokenInv, KnownKept
<1>5. ASSUME NEW q \in Clients, call'[q].pc = "stored" PROVE Newest(q)'
  <2>1. call'[q] = call[q] /\ Newest(q) /\ call[q].ref \in Refs
    BY <1>5, StoredTyped DEF TokenInv, StoredKept
  <2>2. call[q].ref.id # gone.id
    <3>1. SUFFICES ASSUME call[q].ref.id = gone.id PROVE FALSE
      OBVIOUS
    <3>2. gone.version < call[q].ref.version /\ tokens[gone.id] = call[q].ref.version
      BY <2>1, <3>1 DEF Newest, Holds
    <3> QED
      BY <1>1, <2>1, <3>2 DEF Refs
  <2>3. Holds(tokens, call[q].ref)' /\ call[q].ref.id > 0
    BY <1>2, <2>1, <2>2, <1>1 DEF Newest, Holds
  <2>4. \A ref \in Refs, d \in Devices :
          Known(ref, d)' /\ ref.id = call[q].ref.id => ref.version < call[q].ref.version /\ d = call[q].on
    BY <2>1, <2>3 DEF Newest, KnownKept
  <2>5. \A p \in Clients \ {q} : call'[p].pc = "stored" => call'[p].ref.id # call[q].ref.id
    BY <2>1 DEF Newest, StoredKept
  <2> QED
    BY <2>1, <2>3, <2>4, <2>5 DEF Newest
<1> QED
  BY <1>3, <1>4, <1>5 DEF TokenInv

TokensOK == TokenTypes /\ TokenInv /\ \A d \in Devices : Readable(d)

CallRows == [pc : {"idle", "register", "stored", "revoke", "erased"}, on : Devices \union {""},
             seen : Refs, ref : Refs]

\* The budget is spent; no failure is forgotten.
BudgetMoves == BudgetOK' /\ (nleft'.clean => nleft.clean)

LEMMA BudgetSpent ==
  ASSUME BudgetOK,
         \/ UNCHANGED nleft \/ Error \/ (\E publisher \in BOOLEAN : Lose(publisher))
         \/ nleft' = [nleft EXCEPT !.creds = @ - 1] \/ nleft' = [nleft EXCEPT !.events = @ - 1]
  PROVE  BudgetMoves
<1>1. CASE UNCHANGED nleft
  BY <1>1 DEF BudgetOK, BudgetMoves
<1>2. CASE Error
  BY <1>2 DEF BudgetOK, BudgetMoves, Error
<1>3. ASSUME NEW publisher \in BOOLEAN, Lose(publisher) PROVE BudgetMoves
  BY <1>3 DEF BudgetOK, BudgetMoves, Lose
<1>4. CASE nleft' = [nleft EXCEPT !.creds = @ - 1] \/ nleft' = [nleft EXCEPT !.events = @ - 1]
  BY <1>4 DEF BudgetOK, BudgetMoves
<1> QED
  BY <1>1, <1>2, <1>3, <1>4

\* Whoever excuses a device without a token goes on to do so, unless the device is no longer active.
ExcusesKept(d) ==
  \/ device'[d].status # "active"
  \/ /\ \A q \in Clients : call[q].pc = "erased" /\ call[q].on = d => call'[q].pc = "erased" /\ call'[q].on = d
     /\ \A c \in Consumers : con[c].pc = "disabled" /\ On(c)[1] = d => con'[c].pc = "disabled" /\ On(c)'[1] = d

LEMMA ReadableKept ==
  ASSUME NEW d \in Devices, Readable(d), BudgetMoves, ExcusesKept(d),
         device'[d] = device[d] \/ device'[d].status # "active",
         Stored(tokens, device[d].ref.id) => Stored(tokens, device[d].ref.id)'
  PROVE  Readable(d)'
<1>1. SUFFICES ASSUME device'[d].status = "active", nleft'.clean,
                      ~Stored(tokens', device[d].ref.id), device'[d] = device[d]
               PROVE  \/ \E q \in Clients : call'[q].pc = "erased" /\ call'[q].on = d
                      \/ \E c \in Consumers : con'[c].pc = "disabled" /\ On(c)'[1] = d
  BY DEF Readable, Active
<1>2. \/ \E q \in Clients : call[q].pc = "erased" /\ call[q].on = d
      \/ \E c \in Consumers : con[c].pc = "disabled" /\ On(c)[1] = d
  BY <1>1 DEF Readable, Active, BudgetMoves
<1> QED
  BY <1>1, <1>2 DEF ExcusesKept


LEMMA CallTyped ==
  ASSUME TokenTypes, NEW q \in Clients, NEW r \in CallRows, r.pc # "idle" => r.on \in Devices,
         call' = [call EXCEPT ![q] = r],
         device' \in [Devices -> [status : {"none", "active", "revoked", "disabled"}, ref : Refs]],
         tokens' \in Seq(Nat), BudgetMoves
  PROVE  TokenTypes' /\ call'[q] = r /\ \A p \in Clients \ {q} : call'[p] = call[p]
<1>1. call \in [Clients -> CallRows] /\ \A p \in Clients : call[p].pc # "idle" => call[p].on \in Devices
  BY DEF TokenTypes, CallRows
<1>2. call' \in [Clients -> CallRows] /\ call'[q] = r /\ \A p \in Clients \ {q} : call'[p] = call[p]
  BY <1>1
<1> QED
  BY <1>1, <1>2 DEF TokenTypes, CallRows, BudgetMoves

LEMMA RowIsTyped ==
  ASSUME TokenTypes, NEW q \in Clients
  PROVE  call[q] \in CallRows /\ call[q].seen \in Refs /\ call[q].ref \in Refs
  BY DEF TokenTypes, CallRows

LEMMA IdleCallTyped == IdleClient \in CallRows /\ IdleClient.pc = "idle" /\ IdleClient.seen.id = 0 /\ NoRef \in Refs
  BY DEF IdleClient, CallRows, NoRef, Refs

LEMMA ReadsKeep ==
  ASSUME TokensOK, NEW q \in Clients, NEW e \in Devices, RegisterRead(q, e) \/ RevokeDeviceRead(q, e)
  PROVE  TokensOK'
<1>1. TokenTypes /\ device[e].ref \in Refs /\ call[q].pc = "idle" /\ UNCHANGED <<device, tokens, con>>
  BY DEF TokensOK, TokenTypes, RegisterRead, RevokeDeviceRead, Request, deliveryVars
<1>2. PICK pc \in {"register", "revoke"} :
        call' = [call EXCEPT ![q] = [IdleClient EXCEPT !.pc = pc, !.on = e, !.seen = device[e].ref]]
  BY DEF RegisterRead, RevokeDeviceRead
<1>3. PICK seen \in Refs : seen = device[e].ref
  BY <1>1
<1>4. PICK r : r = [IdleClient EXCEPT !.pc = pc, !.on = e, !.seen = seen]
  OBVIOUS
<1>5. r \in CallRows /\ r.on = e /\ r.pc = pc /\ r.seen = seen
  BY <1>4, IdleCallTyped DEF CallRows, IdleClient
<1>6. BudgetMoves
  BY BudgetSpent DEF RegisterRead, RevokeDeviceRead, Request, TokensOK, TokenTypes
<1>7. TokenTypes' /\ call'[q] = r /\ \A p \in Clients \ {q} : call'[p] = call[p]
  BY <1>1, <1>2, <1>3, <1>4, <1>5, <1>6, CallTyped DEF TokenTypes
<1>8. KnownKept /\ StoredKept
  BY <1>1, <1>3, <1>5, <1>7 DEF KnownKept, StoredKept, Known, On
<1>9. ASSUME NEW d \in Devices PROVE Readable(d)'
  <2>1. ExcusesKept(d)
    BY <1>1, <1>7 DEF ExcusesKept, On
  <2>2. Stored(tokens, device[d].ref.id) => Stored(tokens, device[d].ref.id)'
    BY <1>1 DEF Stored
  <2> QED
    BY <1>1, <1>6, <2>1, <2>2, ReadableKept DEF TokensOK
<1> QED
  BY <1>1, <1>7, <1>8, <1>9, TokensKept DEF TokensOK

DeviceRows == [status : {"none", "active", "revoked", "disabled"}, ref : Refs]

\* A refused version or a failed call: the request is given up.
LEMMA ClientFailsKeeps ==
  ASSUME TokensOK, NEW q \in Clients, ClientFails(q)
  PROVE  TokensOK'
<1>1. TokenTypes /\ call[q].pc # "idle" /\ UNCHANGED <<device, tokens, con>>
  BY DEF TokensOK, ClientFails, deliveryVars
<1>2. BudgetMoves /\ (call[q].pc = "revoke" \/ ~nleft'.clean)
  <2>1. BudgetMoves
    BY BudgetSpent DEF ClientFails, TokensOK, TokenTypes
  <2>2. CASE Error
    BY <1>1, <2>1, <2>2 DEF Error, TokenTypes, BudgetOK
  <2> QED
    BY <2>1, <2>2 DEF ClientFails
<1>3. TokenTypes' /\ call'[q] = IdleClient /\ \A p \in Clients \ {q} : call'[p] = call[p]
  BY <1>1, <1>2, IdleCallTyped, CallTyped DEF TokenTypes, ClientFails
<1>4. KnownKept /\ StoredKept
  BY <1>1, <1>3, IdleCallTyped DEF KnownKept, StoredKept, Known, On
<1>5. ASSUME NEW d \in Devices PROVE Readable(d)'
  <2>1. CASE ~nleft'.clean
    BY <2>1 DEF Readable
  <2>2. CASE call[q].pc = "revoke"
    <3>1. ExcusesKept(d)
      BY <1>1, <1>3, <2>2 DEF ExcusesKept, On
    <3>2. Stored(tokens, device[d].ref.id) => Stored(tokens, device[d].ref.id)'
      BY <1>1 DEF Stored
    <3> QED
      BY <1>1, <1>2, <3>1, <3>2, ReadableKept DEF TokensOK
  <2> QED
    BY <1>2, <2>1, <2>2
<1> QED
  BY <1>1, <1>3, <1>4, <1>5, TokensKept DEF TokensOK

\* The device is no longer active.
LEMMA RevokeUpdateKeeps ==
  ASSUME TokensOK, NEW q \in Clients, RevokeDeviceUpdate(q)
  PROVE  TokensOK'
<1>1. /\ TokenTypes /\ call[q].pc = "erased" /\ call[q].on \in Devices /\ UNCHANGED <<tokens, con, nleft>>
      /\ device \in [Devices -> DeviceRows]
  BY DEF TokensOK, TokenTypes, RevokeDeviceUpdate, deliveryVars, DeviceRows
<1>2. PICK e \in Devices : e = call[q].on
  BY <1>1
<1>3. /\ device' \in [Devices -> DeviceRows] /\ device'[e].status # "active"
      /\ \A d \in Devices : device'[d].ref = device[d].ref
      /\ \A d \in Devices \ {e} : device'[d] = device[d]
  <2>1. CASE Active(e)
    <3>1. PICK row : row = [device[e] EXCEPT !.status = "revoked"]
      OBVIOUS
    <3>2. row \in DeviceRows /\ row.status = "revoked" /\ row.ref = device[e].ref
      BY <1>1, <3>1 DEF DeviceRows
    <3>3. device' = [device EXCEPT ![e] = row]
      BY <1>1, <1>2, <2>1, <3>1 DEF RevokeDeviceUpdate, Disable
    <3> QED
      BY <1>1, <3>2, <3>3
  <2>2. CASE ~Active(e)
    BY <1>1, <1>2, <2>2 DEF RevokeDeviceUpdate, Disable, Active
  <2> QED
    BY <2>1, <2>2
<1>4. BudgetMoves
  BY <1>1, BudgetSpent DEF TokenTypes
<1>5. TokenTypes' /\ call'[q] = IdleClient /\ \A p \in Clients \ {q} : call'[p] = call[p]
  BY <1>1, <1>3, <1>4, IdleCallTyped, CallTyped DEF TokenTypes, RevokeDeviceUpdate, DeviceRows
<1>6. KnownKept /\ StoredKept
  BY <1>1, <1>3, <1>5, IdleCallTyped DEF KnownKept, StoredKept, Known, On
<1>7. ASSUME NEW d \in Devices PROVE Readable(d)'
  <2>1. ExcusesKept(d)
    BY <1>1, <1>2, <1>3, <1>5 DEF ExcusesKept, On
  <2>2. Stored(tokens, device[d].ref.id) => Stored(tokens, device[d].ref.id)'
    BY <1>1, <1>3 DEF Stored
  <2>3. device'[d] = device[d] \/ device'[d].status # "active"
    BY <1>3
  <2> QED
    BY <1>4, <2>1, <2>2, <2>3, ReadableKept DEF TokensOK
<1> QED
  BY <1>1, <1>5, <1>6, <1>7, TokensKept DEF TokensOK

\* The token goes before the device: the request that deleted it is the excuse.
LEMMA RevokeDeleteKeeps ==
  ASSUME TokensOK, NEW q \in Clients, RevokeDeviceDelete(q)
  PROVE  TokensOK'
<1>1. /\ TokenTypes /\ call[q].pc = "revoke" /\ call[q].on \in Devices /\ UNCHANGED <<device, con, nleft>>
      /\ call[q] \in CallRows /\ call[q].seen \in Refs
  BY RowIsTyped DEF TokensOK, TokenTypes, RevokeDeviceDelete, deliveryVars
<1>2. PICK e \in Devices, gone \in Refs : e = call[q].on /\ gone = call[q].seen
  BY <1>1
<1>3. Holds(tokens, gone) /\ tokens' = AfterDelete(tokens, gone) /\ Known(gone, e)
  BY <1>2 DEF RevokeDeviceDelete, DeleteToken, CanDelete, Known
<1>4. /\ tokens' \in Seq(Nat) /\ gone.id > 0
      /\ \A id \in DOMAIN tokens \ {gone.id} : id \in DOMAIN tokens' /\ tokens'[id] = tokens[id]
  BY <1>1, <1>3, ObjectIds, VaultChanged DEF AfterDelete, Holds
<1>5. PICK r : r = [call[q] EXCEPT !.pc = "erased"]
  OBVIOUS
<1>6. r \in CallRows /\ r.on = e /\ r.pc = "erased" /\ r.seen = gone
  BY <1>1, <1>2, <1>5 DEF CallRows
<1>7. call' = [call EXCEPT ![q] = r]
  BY <1>1, <1>5 DEF RevokeDeviceDelete, TokenTypes
<1>8. BudgetMoves
  BY <1>1, BudgetSpent DEF TokenTypes
<1>9. TokenTypes' /\ call'[q] = r /\ \A p \in Clients \ {q} : call'[p] = call[p]
  BY <1>1, <1>4, <1>6, <1>7, <1>8, CallTyped DEF TokenTypes
<1>10. KnownKept /\ StoredKept
  BY <1>1, <1>2, <1>6, <1>9 DEF KnownKept, StoredKept, Known, On
<1>11. ASSUME NEW d \in Devices PROVE Readable(d)'
  <2>1. CASE d = e
    BY <1>6, <1>9, <2>1 DEF Readable
  <2>2. CASE d # e
    <3>1. device[d].ref \in Refs /\ Known(device[d].ref, d)
      BY <1>1 DEF Known, TokenTypes
    <3>2. device[d].ref.id # gone.id
      BY <1>3, <1>4, <2>2, <3>1 DEF TokensOK, TokenInv
    <3>3. Stored(tokens, device[d].ref.id) => Stored(tokens, device[d].ref.id)'
      BY <1>1, <1>4, <3>2 DEF Stored
    <3>4. ExcusesKept(d)
      BY <1>1, <1>6, <1>9 DEF ExcusesKept, On
    <3> QED
      BY <1>1, <1>8, <3>3, <3>4, ReadableKept DEF TokensOK
  <2> QED
    BY <2>1, <2>2
<1> QED
  BY <1>1, <1>3, <1>9, <1>10, <1>11, TokensErased DEF TokensOK

\* What is recorded is the newest, and can be read.
LEMMA UpsertKeeps ==
  ASSUME TokensOK, NEW q \in Clients, RegisterUpsert(q)
  PROVE  TokensOK'
<1>1. /\ TokenTypes /\ call[q].pc = "stored" /\ call[q].on \in Devices /\ UNCHANGED <<tokens, con, nleft>>
      /\ call[q] \in CallRows /\ call[q].ref \in Refs /\ device \in [Devices -> DeviceRows]
  BY RowIsTyped DEF TokensOK, TokenTypes, RegisterUpsert, deliveryVars, DeviceRows
<1>2. PICK e \in Devices, new \in Refs : e = call[q].on /\ new = call[q].ref
  BY <1>1
<1>3. Newest(q) /\ Holds(tokens, new) /\ new.id > 0
  BY <1>1, <1>2, ObjectIds DEF TokensOK, TokenInv, Newest, Holds
<1>4. PICK row : row = [status |-> "active", ref |-> new]
  OBVIOUS
<1>5. /\ device' \in [Devices -> DeviceRows] /\ device'[e] = row /\ row.ref = new
      /\ \A d \in Devices \ {e} : device'[d] = device[d]
  BY <1>1, <1>2, <1>4 DEF RegisterUpsert, DeviceRows
<1>6. BudgetMoves
  BY <1>1, BudgetSpent DEF TokenTypes
<1>7. TokenTypes' /\ call'[q] = IdleClient /\ \A p \in Clients \ {q} : call'[p] = call[p]
  BY <1>1, <1>5, <1>6, IdleCallTyped, CallTyped DEF TokenTypes, RegisterUpsert, DeviceRows
<1>8. \A ref \in Refs, d \in Devices : Known(ref, d)' /\ ref.id > 0 => Known(ref, d) \/ (ref = new /\ d = e)
  BY <1>1, <1>5, <1>7, IdleCallTyped DEF Known, On
<1>9. StoredKept
  BY <1>7, IdleCallTyped DEF StoredKept
<1>10. \A ref \in Refs, d \in Devices : Known(ref, d)' /\ ref.id > 0 => NoneNewer(ref)'
  BY <1>1, <1>2, <1>3, <1>8 DEF TokensOK, TokenInv, NoneNewer, Holds, Refs
<1>11. \A r1, r2 \in Refs, d1, d2 \in Devices :
        Known(r1, d1)' /\ Known(r2, d2)' /\ r1.id = r2.id /\ r1.id > 0 => d1 = d2
  <2>1. \A ref \in Refs, d \in Devices : Known(ref, d) /\ ref.id = new.id => d = e
    BY <1>2, <1>3 DEF Newest
  <2> QED
    BY <1>8, <2>1 DEF TokensOK, TokenInv
<1>12. ASSUME NEW p \in Clients, call'[p].pc = "stored" PROVE Newest(p)'
  <2>1. call'[p] = call[p] /\ Newest(p) /\ call[p].ref \in Refs /\ p # q
    BY <1>7, <1>9, <1>12, StoredTyped, IdleCallTyped DEF TokensOK, TokenInv, StoredKept
  <2>2. Holds(tokens, call[p].ref)' /\ call[p].ref.id > 0
    BY <1>1, <2>1, ObjectIds DEF Newest, Holds
  <2>3. call[p].ref.id # new.id
    BY <1>2, <1>1, <2>1 DEF Newest
  <2>4. \A ref \in Refs, d \in Devices :
          Known(ref, d)' /\ ref.id = call[p].ref.id => ref.version < call[p].ref.version /\ d = call[p].on
    BY <1>8, <2>1, <2>2, <2>3 DEF Newest
  <2>5. \A o \in Clients \ {p} : call'[o].pc = "stored" => call'[o].ref.id # call[p].ref.id
    BY <1>9, <2>1 DEF Newest, StoredKept
  <2> QED
    BY <2>1, <2>2, <2>4, <2>5 DEF Newest
<1>13. ASSUME NEW d \in Devices PROVE Readable(d)'
  <2>1. CASE d = e
    <3>1. Stored(tokens', device'[d].ref.id)
      BY <1>1, <1>3, <1>5, <2>1 DEF Stored, Holds
    <3> QED
      BY <3>1 DEF Readable
  <2>2. CASE d # e
    <3>1. ExcusesKept(d) /\ device'[d] = device[d]
      BY <1>1, <1>5, <1>7, <2>2 DEF ExcusesKept, On
    <3>2. Stored(tokens, device[d].ref.id) => Stored(tokens, device[d].ref.id)'
      BY <1>1, <3>1 DEF Stored
    <3> QED
      BY <1>6, <3>1, <3>2, ReadableKept DEF TokensOK
  <2> QED
    BY <2>1, <2>2
<1> QED
  BY <1>7, <1>10, <1>11, <1>12, <1>13 DEF TokensOK, TokenInv

\* A registration that has stored a token newer than all that is known of its object.
LEMMA StoredKeeps ==
  ASSUME TokensOK, NEW q \in Clients, call[q].pc = "register", NEW new \in Refs,
         call' = [call EXCEPT ![q].pc = "stored", ![q].ref = new],
         UNCHANGED <<device, con>>, BudgetMoves,
         tokens' \in Seq(Nat), Holds(tokens, new)', new.id > 0,
         \A i \in DOMAIN tokens : i \in DOMAIN tokens' /\ (i # new.id => tokens'[i] = tokens[i]),
         \A ref \in Refs, d \in Devices :
           Known(ref, d) /\ ref.id = new.id => ref.version < new.version /\ d = call[q].on,
         \A p \in Clients : call[p].pc = "stored" => call[p].ref.id # new.id
  PROVE  TokensOK'
<1>1. /\ TokenTypes /\ call[q] \in CallRows /\ call[q].on \in Devices /\ call[q].seen \in Refs
      /\ call = [p \in Clients |-> call[p]]
  BY RowIsTyped DEF TokensOK, TokenTypes
<1>2. PICK e \in Devices, seen \in Refs : e = call[q].on /\ seen = call[q].seen
  BY <1>1
<1>3. PICK r : r = [call[q] EXCEPT !.pc = "stored", !.ref = new]
  OBVIOUS
<1>4. r \in CallRows /\ r.on = e /\ r.pc = "stored" /\ r.seen = seen /\ r.ref = new
  BY <1>1, <1>2, <1>3 DEF CallRows
<1>5. call' = [call EXCEPT ![q] = r]
  BY <1>1, <1>3
<1>6. TokenTypes' /\ call'[q] = r /\ \A p \in Clients \ {q} : call'[p] = call[p]
  BY <1>1, <1>4, <1>5, CallTyped DEF TokenTypes
<1>7. KnownKept
  <2>1. \A p \in Clients : call'[p].seen = call[p].seen /\ call'[p].on = call[p].on
    BY <1>2, <1>4, <1>6
  <2> QED
    BY <2>1 DEF KnownKept, Known, On
<1>8. new.version > 0 /\ tokens'[new.id] = new.version /\ new.id \in DOMAIN tokens'
  BY DEF Holds
<1>9. \A ref \in Refs, d \in Devices : Known(ref, d)' /\ ref.id > 0 => NoneNewer(ref)'
  <2>1. SUFFICES ASSUME NEW ref \in Refs, NEW d \in Devices, Known(ref, d)', ref.id > 0
                 PROVE  NoneNewer(ref)'
    OBVIOUS
  <2>2. Known(ref, d) /\ NoneNewer(ref)
    BY <1>7, <2>1 DEF KnownKept, TokensOK, TokenInv
  <2>3. CASE ref.id = new.id
    BY <1>8, <2>2, <2>3 DEF NoneNewer, Refs
  <2>4. CASE ref.id # new.id
    BY <2>2, <2>4 DEF NoneNewer
  <2> QED
    BY <2>3, <2>4
<1>10. \A r1, r2 \in Refs, d1, d2 \in Devices :
        Known(r1, d1)' /\ Known(r2, d2)' /\ r1.id = r2.id /\ r1.id > 0 => d1 = d2
  BY <1>7 DEF KnownKept, TokensOK, TokenInv
<1>11. ASSUME NEW p \in Clients, call'[p].pc = "stored" PROVE Newest(p)'
  <2>1. CASE p = q
    <3>1. Holds(tokens, call[p].ref)'
      BY <1>4, <1>6, <2>1
    <3>2. \A ref \in Refs, d \in Devices : Known(ref, d)' /\ ref.id = new.id => ref.version < new.version /\ d = e
      BY <1>2, <1>7 DEF KnownKept
    <3>3. \A o \in Clients \ {p} : call'[o].pc = "stored" => call'[o].ref.id # new.id
      BY <1>6, <2>1
    <3>4. call'[p].on = e /\ call'[p].ref = new
      BY <1>4, <1>6, <2>1
    <3> QED
      BY <3>1, <3>2, <3>3, <3>4 DEF Newest
  <2>2. CASE p # q
    <3>1. call'[p] = call[p] /\ Newest(p) /\ call[p].ref \in Refs /\ call[p].ref.id # new.id
      BY <1>6, <1>11, <2>2, StoredTyped DEF TokensOK, TokenInv
    <3>2. Holds(tokens, call[p].ref)' /\ call[p].ref.id > 0
      BY <1>1, <3>1, ObjectIds DEF Newest, Holds
    <3>3. \A ref \in Refs, d \in Devices :
            Known(ref, d)' /\ ref.id = call[p].ref.id => ref.version < call[p].ref.version /\ d = call[p].on
      BY <1>7, <3>1, <3>2 DEF Newest, KnownKept
    <3>4. \A o \in Clients \ {p} : call'[o].pc = "stored" => call'[o].ref.id # call[p].ref.id
      BY <1>4, <1>6, <3>1 DEF Newest
    <3> QED
      BY <3>1, <3>2, <3>3, <3>4 DEF Newest
  <2> QED
    BY <2>1, <2>2
<1>12. ASSUME NEW d \in Devices PROVE Readable(d)'
  <2>1. ExcusesKept(d)
    BY <1>6 DEF ExcusesKept, On
  <2>2. Stored(tokens, device[d].ref.id) => Stored(tokens, device[d].ref.id)'
    BY <1>8 DEF Stored
  <2> QED
    BY <2>1, <2>2, ReadableKept DEF TokensOK
<1> QED
  BY <1>6, <1>9, <1>10, <1>11, <1>12 DEF TokensOK, TokenInv

LEMMA RegisterStoreKeeps ==
  ASSUME TokensOK, NEW q \in Clients, RegisterStore(q)
  PROVE  TokensOK'
<1>1. /\ TokenTypes /\ call[q].pc = "register" /\ call[q].on \in Devices /\ call[q].seen \in Refs
      /\ UNCHANGED <<device, con>>
  BY RowIsTyped DEF TokensOK, TokenTypes, RegisterStore, deliveryVars
<1>2. PICK e \in Devices, seen \in Refs : e = call[q].on /\ seen = call[q].seen
  BY <1>1
<1>3. Known(seen, e)
  BY <1>2 DEF Known
<1>4. BudgetMoves
  BY BudgetSpent DEF RegisterStore, TokensOK, TokenTypes
<1>5. CASE /\ CanReplace(tokens, seen) /\ tokens' = AfterReplace(tokens, seen)
           /\ call' = [call EXCEPT ![q].pc = "stored", ![q].ref = Replaced(seen)]
  <2>1. PICK version \in Nat : version = seen.version + 1
    BY DEF Refs
  <2>2. PICK new \in Refs : new = [seen EXCEPT !.version = version]
    BY DEF Refs
  <2>3. new = Replaced(seen) /\ new.id = seen.id /\ new.version = version
    BY <2>1, <2>2 DEF Replaced, Refs
  <2>4. seen.id \in DOMAIN tokens /\ seen.version > 0 /\ tokens[seen.id] = seen.version /\ seen.id > 0
    BY <1>1, <1>5, ObjectIds DEF CanReplace, Holds
  <2>5. tokens' = [tokens EXCEPT ![seen.id] = version]
    BY <1>5, <2>1 DEF AfterReplace
  <2>6. /\ tokens' \in Seq(Nat) /\ DOMAIN tokens' = DOMAIN tokens /\ tokens'[seen.id] = version
        /\ \A i \in DOMAIN tokens \ {seen.id} : tokens'[i] = tokens[i]
    BY <1>1, <2>4, <2>5, VaultChanged
  <2>7. Holds(tokens, new)'
    BY <2>1, <2>3, <2>4, <2>6 DEF Holds, Refs
  <2>8. ASSUME NEW ref \in Refs, NEW d \in Devices, Known(ref, d), ref.id = new.id
        PROVE  ref.version < new.version /\ d = call[q].on
    <3>1. d = e /\ ref.version <= tokens[ref.id]
      BY <1>3, <2>3, <2>4, <2>8 DEF TokensOK, TokenInv, NoneNewer
    <3>2. ref.version \in Nat /\ seen.version \in Nat
      BY DEF Refs
    <3> QED
      BY <1>2, <2>1, <2>3, <2>4, <2>8, <3>1, <3>2
  <2>9. ASSUME NEW p \in Clients, call[p].pc = "stored", call[p].ref.id = new.id PROVE FALSE
    <3>1. Newest(p) /\ call[p].ref \in Refs
      BY <1>1, <2>9, StoredTyped DEF TokensOK, TokenInv
    <3>2. seen.version < call[p].ref.version /\ tokens[seen.id] = call[p].ref.version
      BY <1>3, <2>3, <2>9, <3>1 DEF Newest, Holds
    <3> QED
      BY <2>4, <3>1, <3>2 DEF Refs
  <2>10. call' = [call EXCEPT ![q].pc = "stored", ![q].ref = new] /\ new.id > 0
    BY <1>5, <2>3, <2>4
  <2>11. \A i \in DOMAIN tokens : i \in DOMAIN tokens' /\ (i # new.id => tokens'[i] = tokens[i])
    BY <2>3, <2>6
  <2> QED
    BY <1>1, <1>4, <2>6, <2>7, <2>8, <2>9, <2>10, <2>11, StoredKeeps
<1>6. CASE tokens' = AfterCreate(tokens) /\ call' = [call EXCEPT ![q].pc = "stored", ![q].ref = Created(tokens)]
  <2>9. tokens \in Seq(Nat)
    BY <1>1 DEF TokenTypes
  <2>0. tokens \in Seq(Nat) /\ Len(tokens) \in Nat
    BY <2>9
  <2>1. PICK id \in Nat : id = Len(tokens) + 1
    BY <2>0
  <2>2. PICK new \in Refs : new = [id |-> id, version |-> 1]
    BY DEF Refs
  <2>3. new = Created(tokens) /\ new.id = id /\ new.version = 1 /\ id > 0 /\ id \notin DOMAIN tokens
    BY <1>1, <2>0, <2>1, <2>2, ObjectIds DEF Created
  <2>4. /\ tokens' \in Seq(Nat) /\ id \in DOMAIN tokens' /\ tokens'[id] = 1
        /\ \A i \in DOMAIN tokens : i \in DOMAIN tokens' /\ tokens'[i] = tokens[i]
    BY <1>6, <2>0, <2>1 DEF AfterCreate
  <2>5. Holds(tokens, new)'
    BY <2>3, <2>4 DEF Holds
  <2>6. \A ref \in Refs, d \in Devices : ~(Known(ref, d) /\ ref.id = new.id)
    BY <2>3 DEF TokensOK, TokenInv, NoneNewer
  <2>7. \A p \in Clients : call[p].pc = "stored" => call[p].ref.id # new.id
    BY <2>3 DEF TokensOK, TokenInv, Newest, Holds
  <2>8. call' = [call EXCEPT ![q].pc = "stored", ![q].ref = new] /\ new.id > 0
    BY <1>6, <2>3
  <2> QED
    BY <1>1, <1>4, <2>4, <2>5, <2>6, <2>7, <2>8, StoredKeeps
<1> QED
  BY <1>2, <1>5, <1>6 DEF RegisterStore

\* No consumer step but DisableDelete makes an excuse, and none but FindDevice learns a reference.
LEMMA ConsumersStill ==
  ASSUME QueueTypes, NEW c \in Consumers,
         \/ (\E m \in BagToSet(queue) : Take(c, m))
         \/ Push(c) \/ TokenMissing(c) \/ RecordPush(c) \/ PollReceipt(c) \/ RecordReceipt(c) \/ DisableDelete(c)
         \/ DisableUpdate(c) \/ RecordInvalid(c) \/ AskReceipt(c) \/ RecordThrow(c) \/ ConsumerLost(c)
  PROVE  /\ \A b \in Consumers \ {c} : con'[b] = con[b]
         /\ con'[c].ref.id = 0 \/ (con'[c].ref = con[c].ref /\ con'[c].msg = con[c].msg)
<1> DEFINE Goal == /\ \A b \in Consumers \ {c} : con'[b] = con[b]
                   /\ con'[c].ref.id = 0 \/ (con'[c].ref = con[c].ref /\ con'[c].msg = con[c].msg)
<1>1. ConsumerOK(con[c]) /\ con = [b \in Consumers |-> con[b]] /\ IdleConsumer.ref.id = 0
  BY DEF QueueTypes, IdleConsumer, NoRef
<1>2. CASE con' = [con EXCEPT ![c] = IdleConsumer]
  BY <1>1, <1>2
<1>3. ASSUME NEW pc, con' = [con EXCEPT ![c].pc = pc] PROVE Goal
  BY <1>1, <1>3 DEF ConsumerOK
<1>4. ASSUME NEW pc, NEW answer, con' = [con EXCEPT ![c].pc = pc, ![c].answer = answer] PROVE Goal
  BY <1>1, <1>4 DEF ConsumerOK
<1>5. ASSUME NEW m, Take(c, m) PROVE Goal
  BY <1>1, <1>5 DEF Take, IdleConsumer, NoRef
<1>6. CASE Ack(c) \/ Retry(c) \/ \E pc \in {"throw", "ask", "disable", "disabled", "fail"} : Step(c, pc)
  BY <1>2, <1>3, <1>6 DEF Ack, Retry, Step
<1>7. CASE RecordPush(c)
  BY <1>6, <1>7 DEF RecordPush
<1>8. CASE RecordReceipt(c)
  BY <1>1, <1>6, <1>8, ReceiptOutcomes
<1>9. CASE Push(c)
  <2>1. PICK answer \in {"ok", "invalid", "retryable", "rejected", "throw"} :
          con' = [con EXCEPT ![c].pc = IF answer = "throw" THEN "throw" ELSE "pushed", ![c].answer = answer]
    BY <1>9 DEF Push
  <2> QED
    BY <1>4, <2>1
<1>10. CASE PollReceipt(c)
  BY <1>4, <1>6, <1>10 DEF PollReceipt
<1>11. CASE AskReceipt(c)
  BY <1>2, <1>6, <1>11 DEF AskReceipt
<1>12. CASE \/ TokenMissing(c) \/ DisableDelete(c) \/ DisableUpdate(c) \/ RecordInvalid(c) \/ RecordThrow(c)
           \/ ConsumerLost(c)
  BY <1>6, <1>12 DEF TokenMissing, DisableDelete, DisableUpdate, RecordInvalid, RecordThrow, ConsumerLost
<1> QED
  BY <1>5, <1>7, <1>8, <1>9, <1>10, <1>11, <1>12

LEMMA ConsumersKnow ==
  ASSUME UNCHANGED <<device, call>>, NEW c \in Consumers, \A b \in Consumers \ {c} : con'[b] = con[b],
         con'[c].ref.id = 0 \/ (con'[c].ref = con[c].ref /\ con'[c].msg = con[c].msg)
  PROVE  KnownKept /\ StoredKept
  BY DEF KnownKept, StoredKept, Known, On

LEMMA VaultUntouched ==
  ASSUME TokenTypes, UNCHANGED <<device, tokens, call>>, BudgetMoves
  PROVE  TokenTypes'
  BY DEF TokenTypes, BudgetMoves

\* Publishers and the sweep.
LEMMA TokensAlone ==
  ASSUME TokensOK, UNCHANGED <<device, tokens, call, con>>, BudgetMoves
  PROVE  TokensOK'
<1>1. KnownKept /\ StoredKept
  BY DEF KnownKept, StoredKept, Known, On
<1>2. ASSUME NEW d \in Devices PROVE Readable(d)'
  BY DEF TokensOK, Readable, Active, Stored, On, BudgetMoves
<1> QED
  BY <1>1, <1>2, VaultUntouched, TokensKept DEF TokensOK

\* The consumer's steps that leave device and vault alone.
LEMMA ConsumersKeepTokens ==
  ASSUME TokensOK, QueueTypes, NEW c \in Consumers,
         \/ (\E m \in BagToSet(queue) : Take(c, m))
         \/ Push(c) \/ TokenMissing(c) \/ RecordPush(c) \/ PollReceipt(c) \/ RecordReceipt(c)
         \/ RecordInvalid(c) \/ AskReceipt(c) \/ RecordThrow(c) \/ ConsumerLost(c)
  PROVE  TokensOK'
<1>1. UNCHANGED <<device, tokens, call>>
  BY DEF deviceVars, Take, Push, TokenMissing, RecordPush, PollReceipt, RecordReceipt, RecordInvalid, AskReceipt,
         RecordThrow, ConsumerLost
<1>2. /\ \A b \in Consumers \ {c} : con'[b] = con[b]
      /\ con'[c].ref.id = 0 \/ (con'[c].ref = con[c].ref /\ con'[c].msg = con[c].msg)
  BY ConsumersStill
<1>3. BudgetMoves /\ (con[c].pc # "disabled" \/ ~nleft'.clean)
  <2>1. CASE ConsumerLost(c)
    <3>1. Lose(FALSE)
      BY <2>1 DEF ConsumerLost
    <3>2. ~nleft'.clean
      BY <3>1 DEF Lose, TokensOK, TokenTypes, BudgetOK
    <3> QED
      BY <3>1, <3>2, BudgetSpent DEF TokensOK, TokenTypes
  <2>2. CASE ~ConsumerLost(c)
    <3>1. con[c].pc # "disabled"
      BY <2>2 DEF Take, Push, TokenMissing, RecordPush, PollReceipt, RecordReceipt, RecordInvalid, AskReceipt,
                  RecordThrow
    <3>2. UNCHANGED nleft \/ Error
      BY <2>2 DEF Take, Push, TokenMissing, RecordPush, PollReceipt, RecordReceipt, RecordInvalid, AskReceipt,
                  RecordThrow
    <3> QED
      BY <3>1, <3>2, BudgetSpent DEF TokensOK, TokenTypes
  <2> QED
    BY <2>1, <2>2
<1>4. KnownKept /\ StoredKept
  BY <1>1, <1>2, ConsumersKnow
<1>5. ASSUME NEW d \in Devices PROVE Readable(d)'
  <2>1. CASE ~nleft'.clean
    BY <2>1 DEF Readable
  <2>2. CASE con[c].pc # "disabled"
    <3>1. ExcusesKept(d)
      BY <1>1, <1>2, <2>2 DEF ExcusesKept, On
    <3>2. Stored(tokens, device[d].ref.id) => Stored(tokens, device[d].ref.id)'
      BY <1>1 DEF Stored
    <3> QED
      BY <1>1, <1>3, <3>1, <3>2, ReadableKept DEF TokensOK
  <2> QED
    BY <1>3, <2>1, <2>2
<1> QED
  BY <1>1, <1>3, <1>4, <1>5, VaultUntouched, TokensKept DEF TokensOK

LEMMA FindDeviceTokens ==
  ASSUME TokensOK, QueueTypes, NEW c \in Consumers, FindDevice(c)
  PROVE  TokensOK'
<1>1. /\ TokenTypes /\ ConsumerOK(con[c]) /\ con[c].pc = "device" /\ con[c].msg \in Messages
      /\ con = [b \in Consumers |-> con[b]] /\ UNCHANGED <<device, tokens, call, nleft>>
  BY DEF TokensOK, QueueTypes, ConsumerOK, FindDevice, deviceVars
<1>2. PICK e \in Devices : e = On(c)[1]
  BY <1>1 DEF On, Messages, Deliveries
<1>3. BudgetMoves
  BY <1>1, BudgetSpent DEF TokenTypes
<1>4. /\ \A b \in Consumers \ {c} : con'[b] = con[b]
      /\ con'[c].ref.id = 0 \/ (con'[c].ref = device[e].ref /\ con'[c].msg = con[c].msg)
  <2>1. CASE Ack(c)
    BY <1>1, <2>1 DEF Ack, IdleConsumer, NoRef
  <2>2. CASE con' = [con EXCEPT ![c].pc = IF con[c].msg.phase = "send" THEN "push" ELSE "poll",
                                ![c].ref = device[e].ref]
    BY <1>1, <2>2 DEF ConsumerOK
  <2> QED
    BY <1>2, <2>1, <2>2 DEF FindDevice
<1>5. KnownKept
  <2>1. SUFFICES ASSUME NEW ref \in Refs, NEW d \in Devices, Known(ref, d)', ref.id > 0 PROVE Known(ref, d)
    BY DEF KnownKept
  <2>2. CASE con'[c].ref = ref /\ On(c)'[1] = d
    <3>1. con'[c].ref = device[e].ref /\ d = e
      BY <1>2, <1>4, <2>1, <2>2 DEF On
    <3> QED
      BY <2>2, <3>1 DEF Known
  <2>3. CASE ~(con'[c].ref = ref /\ On(c)'[1] = d)
    BY <1>1, <1>4, <2>1, <2>3 DEF Known, On
  <2> QED
    BY <2>2, <2>3
<1>6. StoredKept
  BY <1>1 DEF StoredKept
<1>7. ASSUME NEW d \in Devices PROVE Readable(d)'
  <2>1. ExcusesKept(d)
    BY <1>1, <1>4 DEF ExcusesKept, On
  <2>2. Stored(tokens, device[d].ref.id) => Stored(tokens, device[d].ref.id)'
    BY <1>1 DEF Stored
  <2> QED
    BY <1>1, <1>3, <2>1, <2>2, ReadableKept DEF TokensOK
<1> QED
  BY <1>1, <1>3, <1>5, <1>6, <1>7, VaultUntouched, TokensKept DEF TokensOK

\* The consumer that deleted the token is the excuse.
LEMMA DisableDeleteTokens ==
  ASSUME TokensOK, QueueTypes, NEW c \in Consumers, DisableDelete(c)
  PROVE  TokensOK'
<1>1. /\ TokenTypes /\ ConsumerOK(con[c]) /\ con[c].pc = "disable" /\ con[c].msg \in Messages
      /\ con = [b \in Consumers |-> con[b]] /\ UNCHANGED <<device, call, nleft>> /\ con[c].ref \in Refs
  BY DEF TokensOK, QueueTypes, ConsumerOK, DisableDelete
<1>2. PICK e \in Devices, gone \in Refs : e = On(c)[1] /\ gone = con[c].ref
  BY <1>1 DEF On, Messages, Deliveries
<1>3. BudgetMoves
  BY <1>1, BudgetSpent DEF TokenTypes
<1>4. /\ \A b \in Consumers \ {c} : con'[b] = con[b]
      /\ con'[c].ref.id = 0 \/ (con'[c].ref = con[c].ref /\ con'[c].msg = con[c].msg)
  BY ConsumersStill
<1>5. KnownKept /\ StoredKept
  BY <1>1, <1>4, ConsumersKnow
<1>6. CASE UNCHANGED tokens
  <2>1. ASSUME NEW d \in Devices PROVE Readable(d)'
    <3>1. ExcusesKept(d)
      BY <1>1, <1>4 DEF ExcusesKept, On
    <3>2. Stored(tokens, device[d].ref.id) => Stored(tokens, device[d].ref.id)'
      BY <1>1, <1>6 DEF Stored
    <3> QED
      BY <1>1, <1>3, <3>1, <3>2, ReadableKept DEF TokensOK
  <2> QED
    BY <1>1, <1>3, <1>5, <1>6, <2>1, VaultUntouched, TokensKept DEF TokensOK
<1>7. CASE DeleteToken(con[c].ref) /\ Step(c, "disabled")
  <2>1. Holds(tokens, gone) /\ tokens' = AfterDelete(tokens, gone) /\ Known(gone, e)
    BY <1>2, <1>7 DEF DeleteToken, CanDelete, Known
  <2>2. /\ tokens' \in Seq(Nat) /\ gone.id > 0
        /\ \A id \in DOMAIN tokens \ {gone.id} : id \in DOMAIN tokens' /\ tokens'[id] = tokens[id]
    BY <1>1, <2>1, ObjectIds, VaultChanged DEF AfterDelete, Holds
  <2>3. con'[c].pc = "disabled" /\ On(c)'[1] = e
    BY <1>1, <1>2, <1>7 DEF Step, ConsumerOK, On
  <2>4. ASSUME NEW d \in Devices PROVE Readable(d)'
    <3>1. CASE d = e
      BY <2>3, <3>1 DEF Readable
    <3>2. CASE d # e
      <4>1. device[d].ref \in Refs /\ Known(device[d].ref, d)
        BY <1>1 DEF Known, TokenTypes
      <4>2. device[d].ref.id # gone.id
        BY <2>1, <2>2, <3>2, <4>1 DEF TokensOK, TokenInv
      <4>3. Stored(tokens, device[d].ref.id) => Stored(tokens, device[d].ref.id)'
        BY <1>1, <2>2, <4>2 DEF Stored
      <4>4. ExcusesKept(d)
        BY <1>1, <1>4 DEF ExcusesKept, On
      <4> QED
        BY <1>1, <1>3, <4>3, <4>4, ReadableKept DEF TokensOK
    <3> QED
      BY <3>1, <3>2
  <2>5. TokenTypes'
    BY <1>1, <1>3, <2>2 DEF TokenTypes, BudgetMoves
  <2> QED
    BY <1>1, <1>5, <2>1, <2>4, <2>5, TokensErased DEF TokensOK
<1> QED
  BY <1>6, <1>7 DEF DisableDelete

LEMMA DisableUpdateTokens ==
  ASSUME TokensOK, QueueTypes, NEW c \in Consumers, DisableUpdate(c)
  PROVE  TokensOK'
<1>1. /\ TokenTypes /\ ConsumerOK(con[c]) /\ con[c].pc = "disabled" /\ con[c].msg \in Messages
      /\ UNCHANGED <<tokens, call, nleft>> /\ device \in [Devices -> DeviceRows]
  BY DEF TokensOK, QueueTypes, ConsumerOK, DisableUpdate, TokenTypes, DeviceRows
<1>2. PICK e \in Devices : e = On(c)[1]
  BY <1>1 DEF On, Messages, Deliveries
<1>3. /\ device' \in [Devices -> DeviceRows] /\ device'[e].status # "active"
      /\ \A d \in Devices : device'[d].ref = device[d].ref
      /\ \A d \in Devices \ {e} : device'[d] = device[d]
  <2>1. CASE Active(e)
    <3>1. PICK row : row = [device[e] EXCEPT !.status = "disabled"]
      OBVIOUS
    <3>2. row \in DeviceRows /\ row.status = "disabled" /\ row.ref = device[e].ref
      BY <1>1, <3>1 DEF DeviceRows
    <3>3. device' = [device EXCEPT ![e] = row]
      BY <1>1, <1>2, <2>1, <3>1 DEF DisableUpdate, Disable
    <3> QED
      BY <1>1, <3>2, <3>3
  <2>2. CASE ~Active(e)
    BY <1>1, <1>2, <2>2 DEF DisableUpdate, Disable, Active
  <2> QED
    BY <2>1, <2>2
<1>4. BudgetMoves
  BY <1>1, BudgetSpent DEF TokenTypes
<1>5. TokenTypes'
  BY <1>1, <1>3, <1>4 DEF TokenTypes, BudgetMoves, DeviceRows
<1>6. /\ \A b \in Consumers \ {c} : con'[b] = con[b]
      /\ con'[c].ref.id = 0 \/ (con'[c].ref = con[c].ref /\ con'[c].msg = con[c].msg)
  BY ConsumersStill
<1>7. KnownKept /\ StoredKept
  BY <1>1, <1>3, <1>6 DEF KnownKept, StoredKept, Known, On
<1>8. ASSUME NEW d \in Devices PROVE Readable(d)'
  <2>1. ExcusesKept(d)
    BY <1>1, <1>2, <1>3, <1>6 DEF ExcusesKept, On
  <2>2. Stored(tokens, device[d].ref.id) => Stored(tokens, device[d].ref.id)'
    BY <1>1, <1>3 DEF Stored
  <2>3. device'[d] = device[d] \/ device'[d].status # "active"
    BY <1>3
  <2> QED
    BY <1>4, <2>1, <2>2, <2>3, ReadableKept DEF TokensOK
<1> QED
  BY <1>1, <1>5, <1>7, <1>8, TokensKept DEF TokensOK

-----------------------------------------------------------------------------
LEMMA TokensStart == NotificationInit => TokensOK
<1> SUFFICES ASSUME NotificationInit PROVE TokensOK
  OBVIOUS
<1>1. tokens = <<>>
  BY DEF NotificationInit, EmptyVault
<1>2. BudgetOK
  BY NotificationAssumption DEF NotificationInit, BudgetOK
<1>3. /\ \A d \in Devices : device[d] = [status |-> "none", ref |-> NoRef]
      /\ \A q \in Clients : call[q] = IdleClient
      /\ \A c \in Consumers : con[c] = IdleConsumer
  BY DEF NotificationInit
<1>4. TokenTypes
  <2>1. tokens \in Seq(Nat)
    BY <1>1
  <2>2. device \in [Devices -> DeviceRows]
    BY IdleCallTyped DEF NotificationInit, DeviceRows
  <2>3. call \in [Clients -> CallRows]
    BY IdleCallTyped DEF NotificationInit
  <2> QED
    BY <1>2, <1>3, <2>1, <2>2, <2>3, IdleCallTyped DEF TokenTypes, CallRows, DeviceRows
<1>5. \A ref \in Refs, d \in Devices : Known(ref, d) => ref.id = 0
  <2>1. /\ \A d \in Devices : device[d].ref.id = 0
        /\ \A q \in Clients : call[q].seen.id = 0
        /\ \A c \in Consumers : con[c].ref.id = 0
    <3>1. NoRef.id = 0 /\ IdleClient.seen = NoRef /\ IdleConsumer.ref = NoRef
      BY DEF IdleClient, IdleConsumer, NoRef
    <3>2. \A d \in Devices : device[d].ref = NoRef
      BY <1>3
    <3>3. \A q \in Clients : call[q].seen.id = 0
      BY <1>3, <3>1
    <3>4. \A c \in Consumers : con[c].ref.id = 0
      BY <1>3, <3>1
    <3> QED
      BY <3>1, <3>2, <3>3, <3>4
  <2> QED
    BY <2>1 DEF Known
<1>6. TokenInv
  BY <1>3, <1>5, IdleCallTyped DEF TokenInv
<1>7. \A d \in Devices : Readable(d)
  BY <1>3 DEF Readable, Active
<1> QED
  BY <1>4, <1>6, <1>7 DEF TokensOK

NotificationInv == LedgerInv /\ PublisherTypes /\ TokensOK

LEMMA NotificationStep == NotificationInv /\ [NotificationNext]_nvars => NotificationInv'
<1> SUFFICES ASSUME NotificationInv, [NotificationNext]_nvars PROVE NotificationInv'
  OBVIOUS
<1>1. LedgerInv /\ PublisherTypes /\ TokensOK /\ QueueTypes /\ TokenTypes /\ BudgetOK
  BY DEF NotificationInv, LedgerInv, TokensOK, TokenTypes
<1>2. ASSUME NEW q \in Clients,
             \/ \E d \in Devices : RegisterRead(q, d) \/ RevokeDeviceRead(q, d)
             \/ RegisterStore(q) \/ RegisterUpsert(q)
             \/ RevokeDeviceDelete(q) \/ RevokeDeviceUpdate(q) \/ ClientFails(q)
      PROVE  NotificationInv'
  <2>1. UNCHANGED deliveryVars
    BY <1>2 DEF RegisterRead, RevokeDeviceRead, RegisterStore, RegisterUpsert, RevokeDeviceDelete,
                RevokeDeviceUpdate, ClientFails
  <2>2. LedgerInv' /\ PublisherTypes'
    BY <1>1, <2>1, LedgerStays DEF deliveryVars, PublisherTypes
  <2>3. TokensOK'
    BY <1>1, <1>2, ReadsKeep, RegisterStoreKeeps, UpsertKeeps, RevokeDeleteKeeps, RevokeUpdateKeeps, ClientFailsKeeps
  <2> QED
    BY <2>2, <2>3 DEF NotificationInv
<1>3. ASSUME NEW e \in Events,
             \/ EnqueueSelect(e) \/ EnqueueSend(e) \/ EnqueueMark(e) \/ EnqueueReturn(e) \/ PublisherLost(e)
             \/ \E d \in Devices : EnqueueInsert(e, d)
      PROVE  NotificationInv'
  <2>1. UNCHANGED <<device, tokens, call, con>>
    BY <1>3 DEF EnqueueSelect, EnqueueSend, EnqueueMark, EnqueueReturn, PublisherLost, EnqueueInsert, deviceVars
  <2>2. BudgetMoves
    BY <1>1, <1>3, BudgetSpent DEF EnqueueSelect, EnqueueSend, EnqueueMark, EnqueueReturn, PublisherLost, EnqueueInsert
  <2> QED
    BY <1>1, <1>3, <2>1, <2>2, PublishersKeep, PublishersTyped, TokensAlone DEF NotificationInv
<1>4. ASSUME NEW c \in Consumers,
             \/ \E m \in BagToSet(queue) : Take(c, m)
             \/ FindDevice(c) \/ Push(c) \/ TokenMissing(c) \/ RecordPush(c)
             \/ PollReceipt(c) \/ RecordReceipt(c)
             \/ DisableDelete(c) \/ DisableUpdate(c) \/ RecordInvalid(c)
             \/ AskReceipt(c) \/ RecordThrow(c) \/ ConsumerLost(c)
      PROVE  NotificationInv'
  <2>1. UNCHANGED pub
    BY <1>4 DEF Take, FindDevice, Push, TokenMissing, RecordPush, PollReceipt, RecordReceipt, DisableDelete,
                DisableUpdate, RecordInvalid, AskReceipt, RecordThrow, ConsumerLost
  <2>2. PublisherTypes'
    BY <1>1, <2>1 DEF PublisherTypes
  <2>3. LedgerInv'
    BY <1>1, <1>4, TakeKeeps, FindDeviceKeeps, PushKeeps, RecordPushKeeps, PollKeeps, RecordReceiptKeeps, ConsumersKeep
  <2>4. TokensOK'
    BY <1>1, <1>4, ConsumersKeepTokens, FindDeviceTokens, DisableDeleteTokens, DisableUpdateTokens
  <2> QED
    BY <2>2, <2>3, <2>4 DEF NotificationInv
<1>5. ASSUME NEW x \in Deliveries, SweepSend(x) \/ SweepExpired(x) \/ Expire(x) PROVE NotificationInv'
  <2>1. UNCHANGED <<device, tokens, call, con, pub>>
    BY <1>5 DEF SweepSend, SweepExpired, Expire, deviceVars, deliveryVars
  <2>2. BudgetMoves
    BY <1>1, <1>5, BudgetSpent DEF SweepSend, SweepExpired, Expire
  <2>3. PublisherTypes'
    BY <1>1, <2>1 DEF PublisherTypes
  <2> QED
    BY <1>1, <1>5, <2>1, <2>2, <2>3, SweepKeeps, TokensAlone DEF NotificationInv
<1>6. CASE UNCHANGED nvars
  <2>1. PublisherTypes' /\ BudgetMoves
    BY <1>1, <1>6, BudgetSpent DEF nvars, PublisherTypes
  <2> QED
    BY <1>1, <1>6, <2>1, LedgerStays, TokensAlone DEF NotificationInv, nvars
<1> QED
  BY <1>2, <1>3, <1>4, <1>5, <1>6 DEF NotificationNext

LEMMA NotificationKept == NotificationSpec => []NotificationInv
<1>1. NotificationInit => NotificationInv
  BY LedgerStarts, PublishersStart, TokensStart DEF NotificationInv
<1> QED
  BY <1>1, NotificationStep, PTL DEF NotificationSpec

(* A row of the ledger that says 'sent' or 'delivered' stands for a push   *)
(* the provider took, for any number of devices, events, consumers and     *)
(* attempts, whatever was retried, lost or delivered twice: the consumer   *)
(* that writes it took the provider's answer itself, or found a row that   *)
(* said so already.                                                        *)
THEOREM LedgerTrue == NotificationSpec => []LedgerIsTrue
<1>1. NotificationInv => LedgerIsTrue
  BY DEF NotificationInv, LedgerInv, Ledger, LedgerIsTrue
<1> QED
  BY <1>1, NotificationKept, PTL

(* As long as no call has failed, the token of an active device can be     *)
(* read, or whoever deleted it is about to write the device's row: every   *)
(* reference to an object of the vault is held for one and the same        *)
(* device, no reference is newer than the object, and a token that a       *)
(* registration has stored is newer than any reference another handler     *)
(* could delete it with.                                                   *)
THEOREM TokenReadable == NotificationSpec => []ActiveDeviceHasToken
<1>1. NotificationInv => ActiveDeviceHasToken
  BY DEF NotificationInv, TokensOK, Readable, ActiveDeviceHasToken
<1> QED
  BY <1>1, NotificationKept, PTL

-----------------------------------------------------------------------------
(* Operator alerts *)

AlertRowOK(row) ==
  /\ row = [status |-> row.status, delivery |-> row.delivery, attempts |-> row.attempts]
  /\ row.status = "none" => row.delivery # "delivered"

AlertInv == alerts = [a \in Alerts |-> alerts[a]] /\ \A a \in Alerts : AlertRowOK(alerts[a])

DeliveredKeep == \A a \in Alerts : alerts[a].delivery = "delivered" => alerts'[a].delivery = "delivered"

\* One row is written, and says 'delivered' if it did before.
LEMMA AlertWritten ==
  ASSUME AlertInv, NEW a \in Alerts, NEW row, AlertRowOK(row), alerts' = [alerts EXCEPT ![a] = row],
         alerts[a].delivery = "delivered" => row.delivery = "delivered"
  PROVE  AlertInv' /\ DeliveredKeep
  BY DEF AlertInv, DeliveredKeep

LEMMA AlertsSame ==
  ASSUME AlertInv, UNCHANGED alerts
  PROVE  AlertInv' /\ DeliveredKeep
  BY DEF AlertInv, DeliveredKeep

LEMMA TickRecords ==
  ASSUME AlertInv, NEW t \in Ticks, TickRecord(t)
  PROVE  AlertInv' /\ DeliveredKeep
<1>1. PICK a, ok : a = tick[t].at /\ ok = tick[t].ok
  OBVIOUS
<1>2. CASE UNCHANGED alerts
  BY <1>2, AlertsSame
<1>3. CASE /\ alerts[a].status = "open" /\ alerts[a].delivery \in {"pending", "failed"}
           /\ alerts' = [alerts EXCEPT ![a].delivery = IF ok THEN "delivered" ELSE "failed", ![a].attempts = @ + 1]
  <2>1. CASE a \in Alerts
    <3>1. PICK attempts, outcome : attempts = alerts[a].attempts + 1 /\ outcome = IF ok THEN "delivered" ELSE "failed"
      OBVIOUS
    <3>2. AlertRowOK(alerts[a]) /\ alerts = [b \in Alerts |-> alerts[b]]
      BY <2>1 DEF AlertInv
    <3>3. PICK row : row = [alerts[a] EXCEPT !.delivery = outcome, !.attempts = attempts]
      OBVIOUS
    <3>4. AlertRowOK(row)
      BY <1>3, <3>2, <3>3 DEF AlertRowOK
    <3>5. alerts' = [alerts EXCEPT ![a] = row]
      BY <1>3, <2>1, <3>1, <3>2, <3>3 DEF AlertRowOK
    <3> QED
      BY <1>3, <2>1, <3>4, <3>5, AlertWritten
  <2>2. CASE a \notin Alerts
    BY <1>3, <2>2, AlertsSame DEF AlertInv
  <2> QED
    BY <2>1, <2>2
<1> QED
  BY <1>1, <1>2, <1>3 DEF TickRecord

LEMMA AlertRowsWritten ==
  ASSUME AlertInv, NEW a \in Alerts,
         RaiseAlert(a) \/ RetryAlertDelivery(a) \/ \E status \in {"acknowledged", "resolved"} : UpdateAlert(a, status)
  PROVE  AlertInv' /\ DeliveredKeep
<1>1. AlertRowOK(alerts[a]) /\ alerts = [b \in Alerts |-> alerts[b]]
  BY DEF AlertInv
<1>2. CASE RaiseAlert(a)
  <2>1. PICK row : row = [NoAlert EXCEPT !.status = "open"]
    OBVIOUS
  <2>2. AlertRowOK(row)
    BY <2>1 DEF AlertRowOK, NoAlert
  <2>3. UNCHANGED alerts \/ (alerts[a].status = "none" /\ alerts' = [alerts EXCEPT ![a] = row])
    BY <1>2, <2>1 DEF RaiseAlert
  <2> QED
    BY <1>1, <2>2, <2>3, AlertsSame, AlertWritten DEF AlertRowOK
<1>3. CASE RetryAlertDelivery(a)
  <2>1. PICK row : row = [status |-> "open", delivery |-> "pending", attempts |-> 0]
    OBVIOUS
  <2>2. AlertRowOK(row) /\ alerts[a].delivery = "failed" /\ alerts' = [alerts EXCEPT ![a] = row]
    BY <1>3, <2>1 DEF AlertRowOK, RetryAlertDelivery
  <2> QED
    BY <2>2, AlertWritten
<1>4. ASSUME NEW status \in {"acknowledged", "resolved"}, UpdateAlert(a, status)
      PROVE  AlertInv' /\ DeliveredKeep
  <2>1. PICK row : row = [alerts[a] EXCEPT !.status = status]
    OBVIOUS
  <2>2. AlertRowOK(row) /\ row.delivery = alerts[a].delivery
    BY <1>1, <2>1 DEF AlertRowOK
  <2>3. alerts' = [alerts EXCEPT ![a] = row]
    BY <1>1, <1>4, <2>1 DEF UpdateAlert
  <2> QED
    BY <2>2, <2>3, AlertWritten
<1> QED
  BY <1>2, <1>3, <1>4

LEMMA AlertStep == AlertInv /\ [AlertNext]_avars => AlertInv' /\ DeliveredKeep
<1> SUFFICES ASSUME AlertInv, [AlertNext]_avars PROVE AlertInv' /\ DeliveredKeep
  OBVIOUS
<1>1. ASSUME NEW t \in Ticks, TickSelect(t) \/ TickReturn(t) \/ TickLost(t) \/ \E a \in Alerts : TickPost(t, a)
      PROVE  AlertInv' /\ DeliveredKeep
  BY <1>1, AlertsSame DEF TickSelect, TickReturn, TickLost, TickPost, ReceiverTakes
<1>2. CASE UNCHANGED avars
  BY <1>2, AlertsSame DEF avars
<1> QED
  BY <1>1, <1>2, TickRecords, AlertRowsWritten DEF AlertNext

(* What the receiver of an operator alert took stays delivered, for any    *)
(* number of alerts and overlapping ticks: a tick writes only over the     *)
(* 'pending' or 'failed' it finds, a retry only over 'failed', and a row   *)
(* that was never raised was never delivered.                              *)
THEOREM DeliveredKept == AlertSpec => DeliveredStays
<1>1. AlertInit => AlertInv
  <2>1. AlertRowOK(NoAlert)
    BY DEF AlertRowOK, NoAlert
  <2> QED
    BY <2>1 DEF AlertInit, AlertInv
<1>2. AlertInv /\ [AlertNext]_avars
        => [\A a \in Alerts : alerts[a].delivery = "delivered" => alerts'[a].delivery = "delivered"]_avars
  BY AlertStep DEF DeliveredKeep
<1>3. AlertInv /\ [AlertNext]_avars => AlertInv'
  BY AlertStep
<1> QED
  BY <1>1, <1>2, <1>3, PTL DEF AlertSpec, DeliveredStays

-----------------------------------------------------------------------------
(* The connection broker *)

\* Who is at work on a state: between its claim and its exchange, anywhere
\* in the completion, and before its row is inserted.
Exchanging == {"connection", "verifier", "exchange"}
Completing == {"claim", "connection", "verifier", "exchange", "store", "authorize", "clean", "unhealthy"}
Exchanges(q, s) == op[q].on = s /\ op[q].pc \in Exchanging
Completes(q, s) == op[q].on = s /\ op[q].pc \in Completing
Starts(q, s) == op[q].on = s /\ op[q].pc = "start"

StateOK(s) ==
  /\ history[s] <= 1
  /\ oauth[s].row = "none" => ~oauth[s].expired
  /\ oauth[s].row \in {"none", "open"} => history[s] = 0 /\ \A q \in Calls : ~Exchanges(q, s)
  /\ oauth[s].row = "none" => \A q \in Calls : ~Completes(q, s)
  /\ \A q \in Calls : Exchanges(q, s) => history[s] = 0
  /\ \A p, q \in Calls : Exchanges(p, s) /\ Exchanges(q, s) => p = q
  /\ \A q \in Calls : Starts(q, s) => oauth[s].row = "none" /\ oauth[s].verifier
  /\ \A p, q \in Calls : Starts(p, s) /\ Starts(q, s) => p = q

\* Who is about to make a capability's request, and who to insert it.
Spends(q, k) == op[q].on = k /\ op[q].pc = "request"
Issues(q, k) == op[q].on = k /\ op[q].pc = "issue"

CapabilityOK(k) ==
  /\ history[k] <= 1
  /\ cap[k] \in {"none", "open"} => history[k] = 0 /\ \A q \in Calls : ~Spends(q, k)
  /\ \A q \in Calls : Spends(q, k) => history[k] = 0
  /\ \A p, q \in Calls : Spends(p, k) /\ Spends(q, k) => p = q
  /\ \A q \in Calls : Issues(q, k) => cap[k] = "none"
  /\ \A p, q \in Calls : Issues(p, k) /\ Issues(q, k) => p = q

OpOK(r) ==
  /\ r = [pc |-> r.pc, all |-> r.all, on |-> r.on, seen |-> r.seen, status |-> r.status, ref |-> r.ref,
          token |-> r.token]
  /\ r.pc \in Completing \union {"start"} => r.on \in States
  /\ r.pc \in {"issue", "redeem"} => r.on \in Capabilities
  /\ r.pc = "request" => r.on \in Capabilities \union {""}

OAuthRows == [row : {"none", "open", "used", "gone"}, verifier : BOOLEAN, expired : BOOLEAN]

BrokerTypes ==
  /\ op = [q \in Calls |-> op[q]]
  /\ oauth \in [States -> OAuthRows]
  /\ cap \in [Capabilities -> {"none", "open", "consumed", "gone"}]
  /\ history \in [States \union Capabilities -> Nat]

BrokerInv ==
  /\ BrokerTypes
  /\ \A q \in Calls : OpOK(op[q])
  /\ \A s \in States : StateOK(s)
  /\ \A k \in Capabilities : CapabilityOK(k)

LEMMA BrokerStarts == BrokerInit => BrokerInv
<1> SUFFICES ASSUME BrokerInit PROVE BrokerInv
  OBVIOUS
<1>1. BrokerTypes
  BY DEF BrokerInit, BrokerTypes, OAuthRows
<1>2. \A q \in Calls : op[q] = IdleOp /\ op[q].pc = "idle"
  BY DEF BrokerInit, IdleOp
<1>3. OpOK(IdleOp)
  BY DEF OpOK, IdleOp, Completing
<1>4. \A s \in States : StateOK(s)
  BY <1>2 DEF BrokerInit, StateOK, Exchanges, Completes, Starts, Exchanging, Completing
<1>5. \A k \in Capabilities : CapabilityOK(k)
  BY <1>2 DEF BrokerInit, CapabilityOK, Spends, Issues
<1> QED
  BY <1>1, <1>2, <1>3, <1>4, <1>5 DEF BrokerInv

\* An invocation q that becomes r; nobody else moves.
Becomes(q, r) ==
  /\ op' = [p \in Calls |-> op'[p]] /\ \A p \in Calls \ {q} : op'[p] = op[p]
  /\ op'[q] = r

\* A state, and a capability, that nobody newly works on and nothing changes.
LEMMA StateLeft ==
  ASSUME NEW s \in States, StateOK(s), history'[s] = history[s], oauth'[s] = oauth[s],
         \A p \in Calls : /\ Exchanges(p, s)' => Exchanges(p, s)
                          /\ Completes(p, s)' => Completes(p, s)
                          /\ Starts(p, s)' => Starts(p, s)
  PROVE  StateOK(s)'
  BY DEF StateOK

LEMMA CapabilityLeft ==
  ASSUME NEW k \in Capabilities, CapabilityOK(k), history'[k] = history[k], cap'[k] = cap[k],
         \A p \in Calls : (Spends(p, k)' => Spends(p, k)) /\ (Issues(p, k)' => Issues(p, k))
  PROVE  CapabilityOK(k)'
  BY DEF CapabilityOK

LEMMA StatesLeft ==
  ASSUME BrokerInv, NEW q \in Calls, NEW r, Becomes(q, r), OpOK(r), UNCHANGED <<oauth, history>>,
         r.pc \notin {"start"} \union Completing
  PROVE  \A s \in States : StateOK(s)'
<1> TAKE s \in States
<1>1. StateOK(s)
  BY DEF BrokerInv
<1>2. \A p \in Calls : /\ Exchanges(p, s)' => Exchanges(p, s)
                       /\ Completes(p, s)' => Completes(p, s)
                       /\ Starts(p, s)' => Starts(p, s)
  BY DEF Becomes, Exchanges, Completes, Starts, Exchanging, Completing
<1> QED
  BY <1>1, <1>2, StateLeft

LEMMA CapabilitiesLeft ==
  ASSUME BrokerInv, NEW q \in Calls, NEW r, Becomes(q, r), UNCHANGED <<cap, history>>,
         r.pc # "issue", r.pc # "request" \/ r.on \notin Capabilities
  PROVE  \A k \in Capabilities : CapabilityOK(k)'
<1> TAKE k \in Capabilities
<1>1. CapabilityOK(k)
  BY DEF BrokerInv
<1>2. \A p \in Calls : (Spends(p, k)' => Spends(p, k)) /\ (Issues(p, k)' => Issues(p, k))
  BY DEF Becomes, Spends, Issues
<1> QED
  BY <1>1, <1>2, CapabilityLeft

LEMMA BrokerOps ==
  ASSUME BrokerInv, NEW q \in Calls, NEW r, Becomes(q, r), OpOK(r)
  PROVE  \A p \in Calls : OpOK(op'[p])
  BY DEF BrokerInv, Becomes

\* An invocation that is not, or no longer, at work on a state.
LEMMA Elsewhere ==
  ASSUME BrokerInv, NEW q \in Calls, NEW r, Becomes(q, r), OpOK(r), UNCHANGED <<oauth, cap, history>>,
         r.pc \notin {"start", "issue"} \union Completing, r.pc # "request" \/ r.on \notin Capabilities
  PROVE  BrokerInv'
<1>1. BrokerTypes'
  BY DEF BrokerInv, BrokerTypes, Becomes
<1> QED
  BY <1>1, StatesLeft, CapabilitiesLeft, BrokerOps DEF BrokerInv

\* An invocation that goes on with its completion, or begins it.
LEMMA GoesOn ==
  ASSUME BrokerInv, NEW q \in Calls, NEW r, Becomes(q, r), OpOK(r), UNCHANGED <<oauth, cap, history>>,
         r.pc \in Completing, oauth[r.on].row # "none",
         r.pc \in Exchanging => Exchanges(q, r.on)
  PROVE  BrokerInv'
<1>1. BrokerTypes'
  BY DEF BrokerInv, BrokerTypes, Becomes
<1>2. ASSUME NEW s \in States PROVE StateOK(s)'
  <2>1. StateOK(s)
    BY DEF BrokerInv
  <2>2. \A p \in Calls : /\ Exchanges(p, s)' => Exchanges(p, s)
                         /\ Completes(p, s)' => Completes(p, s) \/ oauth[s].row # "none"
                         /\ Starts(p, s)' => Starts(p, s)
    BY DEF Becomes, Exchanges, Completes, Starts, Exchanging, Completing
  <2> QED
    BY <2>1, <2>2 DEF StateOK
<1>3. \A k \in Capabilities : CapabilityOK(k)'
  BY CapabilitiesLeft DEF Completing
<1> QED
  BY <1>1, <1>2, <1>3, BrokerOps DEF BrokerInv

LEMMA Becoming ==
  ASSUME BrokerInv, NEW q \in Calls, NEW r, op' = [op EXCEPT ![q] = r]
  PROVE  Becomes(q, r)
  BY DEF BrokerInv, BrokerTypes, Becomes

LEMMA Finishes ==
  ASSUME BrokerInv, NEW q \in Calls, Done(q), UNCHANGED <<oauth, cap, history>>
  PROVE  BrokerInv'
<1>1. OpOK(IdleOp) /\ IdleOp.pc = "idle"
  BY DEF OpOK, IdleOp, Completing
<1>2. Becomes(q, IdleOp)
  BY Becoming DEF Done
<1> QED
  BY <1>1, <1>2, Elsewhere DEF Completing

\* A step of an invocation that has nothing to do with states and capabilities.
Apart == {"put", "upsert", "lease", "token", "refresh", "replace", "refreshed", "required", "unseal",
          "delete", "revoke", "states", "health"}

LEMMA Passes ==
  ASSUME BrokerInv, NEW q \in Calls, NEW r, op' = [op EXCEPT ![q] = r], OpOK(r),
         r.pc \in Apart \union {"redeem"}, UNCHANGED <<oauth, cap, history>>
  PROVE  BrokerInv'
<1>1. Becomes(q, r)
  BY Becoming
<1>2. r.pc \notin {"start", "issue", "request"} \union Completing
  BY DEF Apart, Completing
<1> QED
  BY <1>1, <1>2, Elsewhere

LEMMA PassesBy ==
  ASSUME BrokerInv, NEW q \in Calls, NEW pc \in Apart, Go(q, pc), UNCHANGED <<oauth, cap, history>>
  PROVE  BrokerInv'
<1>1. OpOK(op[q]) /\ BrokerTypes
  BY DEF BrokerInv
<1>2. PICK r : r = [op[q] EXCEPT !.pc = pc]
  OBVIOUS
<1>3. op' = [op EXCEPT ![q] = r]
  BY <1>1, <1>2 DEF Go, BrokerTypes
<1>4. OpOK(r) /\ r.pc \in Apart
  BY <1>1, <1>2 DEF OpOK, Apart, Completing
<1> QED
  BY <1>3, <1>4, Passes

LEMMA RequestsKeep ==
  ASSUME BrokerInv, NEW q \in Calls,
         \/ StoreRead(q) \/ RefreshRead(q) \/ (\E all \in BOOLEAN : RevokeRead(q, all)) \/ HealthRead(q)
         \/ (\E k \in Capabilities : RedeemRead(q, k)) \/ PortRequest(q)
  PROVE  BrokerInv'
<1>1. CASE StoreRead(q)
  <2>1. PICK r : r = [IdleOp EXCEPT !.pc = "put", !.seen = conn.ref]
    OBVIOUS
  <2>2. op' = [op EXCEPT ![q] = r] /\ UNCHANGED <<oauth, cap, history>>
    BY <1>1, <2>1 DEF StoreRead, Begin
  <2>3. OpOK(r) /\ r.pc \in Apart \union {"redeem"}
    BY <2>1 DEF OpOK, IdleOp, Apart, Completing
  <2> QED
    BY <2>2, <2>3, Passes
<1>2. CASE RefreshRead(q)
  <2>1. PICK r : r = [IdleOp EXCEPT !.pc = "lease", !.seen = conn.ref]
    OBVIOUS
  <2>2. op' = [op EXCEPT ![q] = r] /\ UNCHANGED <<oauth, cap, history>>
    BY <1>2, <2>1 DEF RefreshRead, Begin
  <2>3. OpOK(r) /\ r.pc \in Apart \union {"redeem"}
    BY <2>1 DEF OpOK, IdleOp, Apart, Completing
  <2> QED
    BY <2>2, <2>3, Passes
<1>3. ASSUME NEW all \in BOOLEAN, RevokeRead(q, all) PROVE BrokerInv'
  <2>1. PICK r : r = [IdleOp EXCEPT !.pc = IF all /\ conn.status \in {"none", "revoked"} THEN "states"
                                          ELSE IF conn.ref = NoRef THEN "revoke" ELSE "unseal",
                                   !.all = all, !.seen = conn.ref]
    OBVIOUS
  <2>2. op' = [op EXCEPT ![q] = r] /\ UNCHANGED <<oauth, cap, history>>
    BY <1>3, <2>1 DEF RevokeRead, Begin
  <2>3. OpOK(r) /\ r.pc \in Apart \union {"redeem"}
    BY <2>1 DEF OpOK, IdleOp, Apart, Completing
  <2> QED
    BY <2>2, <2>3, Passes
<1>4. CASE HealthRead(q)
  <2>1. PICK r : r = [IdleOp EXCEPT !.pc = "health",
                  !.status = IF conn.status = "authorized" /\ conn.expired THEN "refresh_required" ELSE conn.status]
    OBVIOUS
  <2>2. op' = [op EXCEPT ![q] = r] /\ UNCHANGED <<oauth, cap, history>>
    BY <1>4, <2>1 DEF HealthRead, Begin
  <2>3. OpOK(r) /\ r.pc \in Apart \union {"redeem"}
    BY <2>1 DEF OpOK, IdleOp, Apart, Completing
  <2> QED
    BY <2>2, <2>3, Passes
<1>5. ASSUME NEW k \in Capabilities, RedeemRead(q, k) PROVE BrokerInv'
  <2>1. PICK r : r = [IdleOp EXCEPT !.pc = "redeem", !.on = k, !.seen = conn.ref]
    OBVIOUS
  <2>2. op' = [op EXCEPT ![q] = r] /\ UNCHANGED <<oauth, cap, history>>
    BY <1>5, <2>1 DEF RedeemRead, Begin
  <2>3. OpOK(r) /\ r.pc \in Apart \union {"redeem"}
    BY <2>1 DEF OpOK, IdleOp, Apart, Completing
  <2> QED
    BY <2>2, <2>3, Passes
<1>6. CASE PortRequest(q)
  <2>1. PICK r : r = [IdleOp EXCEPT !.pc = "request", !.seen = conn.ref]
    OBVIOUS
  <2>2. op' = [op EXCEPT ![q] = r] /\ UNCHANGED <<oauth, cap, history>>
    BY <1>6, <2>1 DEF PortRequest, Begin
  <2>3. OpOK(r) /\ r.pc = "request" /\ r.on = ""
    BY <2>1 DEF OpOK, IdleOp, Completing
  <2>4. Becomes(q, r)
    BY <2>2, Becoming
  <2> QED
    BY <2>2, <2>3, <2>4, Elsewhere, BrokerAssumption DEF Completing
<1> QED
  BY <1>1, <1>2, <1>3, <1>4, <1>5, <1>6

LEMMA ApartKeeps ==
  ASSUME BrokerInv, NEW q \in Calls,
         \/ StoreSecret(q) \/ StoreCommit(q)
         \/ RefreshClaim(q) \/ RefreshToken(q) \/ RefreshExchange(q) \/ RefreshReplace(q)
         \/ RefreshCommit(q) \/ RefreshFailed(q)
         \/ RevokeUnseal(q) \/ RevokeDelete(q) \/ RevokeCommit(q) \/ HealthWrite(q) \/ CallLost(q)
  PROVE  BrokerInv'
<1>1. UNCHANGED <<oauth, cap, history>>
  BY DEF StoreSecret, StoreCommit, RefreshClaim, RefreshToken, RefreshExchange, RefreshReplace,
         RefreshCommit, RefreshFailed, RevokeUnseal, RevokeDelete, RevokeCommit, HealthWrite, CallLost
<1>2. OpOK(op[q]) /\ BrokerTypes
  BY DEF BrokerInv
<1>3. CASE Done(q)
  BY <1>1, <1>3, Finishes
<1>4. ASSUME NEW pc \in Apart, Go(q, pc) PROVE BrokerInv'
  BY <1>1, <1>4, PassesBy
<1>5. ASSUME NEW pc \in Apart, NEW ref, op' = [op EXCEPT ![q].pc = pc, ![q].ref = ref] PROVE BrokerInv'
  <2>1. PICK r : r = [op[q] EXCEPT !.pc = pc, !.ref = ref]
    OBVIOUS
  <2>2. op' = [op EXCEPT ![q] = r]
    BY <1>2, <1>5, <2>1 DEF BrokerTypes
  <2>3. OpOK(r) /\ r.pc \in Apart
    BY <1>2, <2>1 DEF OpOK, Apart, Completing
  <2> QED
    BY <1>1, <2>2, <2>3, Passes
<1>6. ASSUME NEW pc \in Apart, NEW token, op' = [op EXCEPT ![q].pc = pc, ![q].token = token] PROVE BrokerInv'
  <2>1. PICK r : r = [op[q] EXCEPT !.pc = pc, !.token = token]
    OBVIOUS
  <2>2. op' = [op EXCEPT ![q] = r]
    BY <1>2, <1>6, <2>1 DEF BrokerTypes
  <2>3. OpOK(r) /\ r.pc \in Apart
    BY <1>2, <2>1 DEF OpOK, Apart, Completing
  <2> QED
    BY <1>1, <2>2, <2>3, Passes
<1>7. CASE StoreSecret(q)
  <2>1. "upsert" \in Apart
    BY DEF Apart
  <2>2. CASE op' = [op EXCEPT ![q].pc = "upsert", ![q].ref = Created(secrets)]
    BY <1>5, <2>1, <2>2
  <2>3. CASE op' = [op EXCEPT ![q].pc = "upsert", ![q].ref = Replaced(op[q].seen)]
    BY <1>5, <2>1, <2>3
  <2> QED
    BY <1>3, <1>7, <2>2, <2>3 DEF StoreSecret, Stores
<1>8. CASE RefreshReplace(q)
  <2>1. "refreshed" \in Apart /\ "required" \in Apart
    BY DEF Apart
  <2>2. CASE op' = [op EXCEPT ![q].pc = "refreshed", ![q].ref = Created(secrets)]
    BY <1>5, <2>1, <2>2
  <2>3. CASE op' = [op EXCEPT ![q].pc = "refreshed", ![q].ref = Replaced(op[q].seen)]
    BY <1>5, <2>1, <2>3
  <2>4. CASE Go(q, "required")
    BY <1>4, <2>1, <2>4
  <2> QED
    BY <1>8, <2>2, <2>3, <2>4 DEF RefreshReplace, Stores
<1>9. CASE RefreshClaim(q)
  <2>1. "token" \in Apart
    BY DEF Apart
  <2> QED
    BY <1>3, <1>4, <1>9, <2>1 DEF RefreshClaim
<1>10. CASE RefreshToken(q)
  <2>1. "refresh" \in Apart /\ "required" \in Apart
    BY DEF Apart
  <2>2. CASE op' = [op EXCEPT ![q].pc = "refresh", ![q].token = holds[op[q].seen.id]]
    BY <1>6, <2>1, <2>2
  <2>3. CASE Go(q, "required")
    BY <1>4, <2>1, <2>3
  <2> QED
    BY <1>10, <2>2, <2>3 DEF RefreshToken
<1>11. CASE RefreshExchange(q)
  <2>1. "replace" \in Apart /\ "required" \in Apart
    BY DEF Apart
  <2>2. CASE op' = [op EXCEPT ![q].pc = "replace", ![q].token = issued + 1]
    BY <1>6, <2>1, <2>2
  <2>3. CASE Go(q, "required")
    BY <1>4, <2>1, <2>3
  <2> QED
    BY <1>11, <2>2, <2>3 DEF RefreshExchange
<1>12. CASE RevokeUnseal(q) \/ RevokeDelete(q) \/ RevokeCommit(q)
  <2>1. {"delete", "revoke", "states"} \subseteq Apart
    BY DEF Apart
  <2>2. Done(q) \/ Go(q, "delete") \/ Go(q, "revoke") \/ Go(q, "states")
    BY <1>12 DEF RevokeUnseal, RevokeDelete, RevokeCommit, RevokeThrows
  <2> QED
    BY <1>3, <1>4, <2>1, <2>2
<1>13. CASE StoreCommit(q) \/ RefreshCommit(q) \/ RefreshFailed(q) \/ HealthWrite(q) \/ CallLost(q)
  BY <1>3, <1>13 DEF StoreCommit, RefreshCommit, RefreshFailed, HealthWrite, CallLost
<1> QED
  BY <1>7, <1>8, <1>9, <1>10, <1>11, <1>12, <1>13

LEMMA CompletionGoesOn ==
  ASSUME BrokerInv, NEW q \in Calls,
         \/ (\E s \in States : CompleteRead(q, s)) \/ CompleteConnection(q) \/ CompleteVerifier(q)
         \/ CompleteStore(q) \/ CompleteAuthorize(q)
  PROVE  BrokerInv'
<1>1. UNCHANGED <<oauth, cap, history>>
  BY DEF CompleteRead, CompleteConnection, CompleteVerifier, CompleteStore, CompleteAuthorize
<1>2. OpOK(op[q]) /\ BrokerTypes /\ \A s \in States : StateOK(s)
  BY DEF BrokerInv
<1>3. ASSUME NEW r, op' = [op EXCEPT ![q] = r], OpOK(r), op[q].pc \in Completing, r.on = op[q].on,
             r.pc \in Completing, r.pc \in Exchanging => op[q].pc \in Exchanging
      PROVE  BrokerInv'
  <2>1. r.on \in States
    BY <1>3 DEF OpOK
  <2>2. Completes(q, r.on) /\ (r.pc \in Exchanging => Exchanges(q, r.on))
    BY <1>3 DEF Completes, Exchanges
  <2>3. oauth[r.on].row # "none"
    BY <1>2, <2>1, <2>2 DEF StateOK
  <2>4. Becomes(q, r)
    BY <1>3, Becoming
  <2> QED
    BY <1>1, <1>3, <2>2, <2>3, <2>4, GoesOn
<1>4. ASSUME NEW s \in States, CompleteRead(q, s) PROVE BrokerInv'
  <2>1. PICK r : r = [IdleOp EXCEPT !.pc = "claim", !.on = s]
    OBVIOUS
  <2>2. op' = [op EXCEPT ![q] = r] /\ oauth[s].row # "none"
    BY <1>4, <2>1 DEF CompleteRead, Begin, OpenState
  <2>3. OpOK(r) /\ r.pc = "claim" /\ r.on = s
    BY <2>1 DEF OpOK, IdleOp
  <2>4. Becomes(q, r)
    BY <2>2, Becoming
  <2> QED
    BY <1>1, <2>2, <2>3, <2>4, GoesOn DEF Completing, Exchanging
<1>5. CASE CompleteConnection(q)
  <2>1. PICK r : r = [op[q] EXCEPT !.pc = "verifier", !.seen = conn.ref]
    OBVIOUS
  <2>2. op' = [op EXCEPT ![q] = r] /\ op[q].pc = "connection"
    BY <1>2, <1>5, <2>1 DEF CompleteConnection, BrokerTypes, At
  <2>3. OpOK(r) /\ r.pc = "verifier" /\ r.on = op[q].on
    BY <1>2, <2>1, <2>2 DEF OpOK, Completing
  <2> QED
    BY <1>3, <2>2, <2>3 DEF Completing, Exchanging
<1>6. ASSUME NEW pc \in {"exchange", "clean", "unhealthy"}, Go(q, pc),
             op[q].pc \in {"verifier", "store", "authorize"}, pc = "exchange" => op[q].pc = "verifier"
      PROVE  BrokerInv'
  <2>1. PICK r : r = [op[q] EXCEPT !.pc = pc]
    OBVIOUS
  <2>2. op' = [op EXCEPT ![q] = r]
    BY <1>2, <1>6, <2>1 DEF Go, BrokerTypes
  <2>3. OpOK(r) /\ r.pc = pc /\ r.on = op[q].on
    BY <1>2, <1>6, <2>1 DEF OpOK, Completing
  <2> QED
    BY <1>3, <1>6, <2>2, <2>3 DEF Completing, Exchanging
<1>7. CASE CompleteStore(q)
  <2>1. op[q].pc = "store"
    BY <1>7 DEF CompleteStore, At
  <2>2. ASSUME NEW ref, op' = [op EXCEPT ![q].pc = "authorize", ![q].ref = ref] PROVE BrokerInv'
    <3>1. PICK r : r = [op[q] EXCEPT !.pc = "authorize", !.ref = ref]
      OBVIOUS
    <3>2. op' = [op EXCEPT ![q] = r]
      BY <1>2, <2>2, <3>1 DEF BrokerTypes
    <3>3. OpOK(r) /\ r.pc = "authorize" /\ r.on = op[q].on
      BY <1>2, <2>1, <3>1 DEF OpOK, Completing
    <3> QED
      BY <1>3, <2>1, <3>2, <3>3 DEF Completing, Exchanging
  <2>3. CASE op' = [op EXCEPT ![q].pc = "authorize", ![q].ref = Created(secrets)]
    BY <2>2, <2>3
  <2>4. CASE op' = [op EXCEPT ![q].pc = "authorize", ![q].ref = Replaced(op[q].seen)]
    BY <2>2, <2>4
  <2>5. CASE Go(q, "unhealthy")
    BY <1>6, <2>1, <2>5
  <2> QED
    BY <1>7, <2>3, <2>4, <2>5 DEF CompleteStore, Stores
<1>8. CASE CompleteAuthorize(q)
  BY <1>6, <1>8 DEF CompleteAuthorize, At
<1>9. CASE CompleteVerifier(q)
  BY <1>6, <1>9 DEF CompleteVerifier, At
<1> QED
  BY <1>4, <1>5, <1>7, <1>8, <1>9

LEMMA Stays ==
  ASSUME BrokerInv, UNCHANGED <<op, oauth, cap, history>>
  PROVE  BrokerInv'
<1>1. \A s \in States : StateOK(s)'
  BY DEF BrokerInv, StateOK, Exchanges, Completes, Starts
<1>2. \A k \in Capabilities : CapabilityOK(k)'
  BY DEF BrokerInv, CapabilityOK, Spends, Issues
<1> QED
  BY <1>1, <1>2 DEF BrokerInv, BrokerTypes

\* Where the invocations stay what they are for the capabilities.
LEMMA CapabilitiesStay ==
  ASSUME BrokerInv, UNCHANGED <<op, cap, history>>
  PROVE  \A k \in Capabilities : CapabilityOK(k)'
  BY DEF BrokerInv, CapabilityOK, Spends, Issues

\* One state changes, the others are left.
LEMMA OneState ==
  ASSUME BrokerInv, NEW q \in Calls, NEW r, Becomes(q, r), OpOK(r), NEW s \in States,
         \A t \in States \ {s} : oauth'[t] = oauth[t] /\ history'[t] = history[t],
         r.pc \in {"start"} \union Completing => r.on = s, StateOK(s)'
  PROVE  \A t \in States : StateOK(t)'
<1> SUFFICES ASSUME NEW t \in States \ {s} PROVE StateOK(t)'
  OBVIOUS
<1>1. StateOK(t)
  BY DEF BrokerInv
<1>2. \A p \in Calls : /\ Exchanges(p, t)' => Exchanges(p, t)
                       /\ Completes(p, t)' => Completes(p, t)
                       /\ Starts(p, t)' => Starts(p, t)
  BY DEF Becomes, Exchanges, Completes, Starts, Exchanging, Completing
<1> QED
  BY <1>1, <1>2, StateLeft

LEMMA StartVerifierKeeps ==
  ASSUME BrokerInv, NEW q \in Calls, NEW s \in States, StartVerifier(q, s)
  PROVE  BrokerInv'
<1>1. BrokerTypes /\ StateOK(s)
  BY DEF BrokerInv
<1>2. PICK r : r = [IdleOp EXCEPT !.pc = "start", !.on = s]
  OBVIOUS
<1>3. /\ op' = [op EXCEPT ![q] = r] /\ UNCHANGED <<cap, history>>
      /\ oauth' = [oauth EXCEPT ![s].verifier = TRUE] /\ oauth[s].row = "none" /\ ~oauth[s].verifier
  BY <1>2 DEF StartVerifier, Begin
<1>4. OpOK(r) /\ r.pc = "start" /\ r.on = s
  BY <1>2 DEF OpOK, IdleOp
<1>5. Becomes(q, r)
  BY <1>3, Becoming
<1>6. /\ oauth' \in [States -> OAuthRows] /\ oauth'[s].row = "none" /\ oauth'[s].verifier
      /\ oauth'[s].expired = oauth[s].expired
      /\ \A t \in States \ {s} : oauth'[t] = oauth[t]
  BY <1>1, <1>3 DEF BrokerTypes, OAuthRows
<1>7. /\ \A p \in Calls : ~Starts(p, s) /\ ~Completes(p, s) /\ ~Exchanges(p, s)
      /\ history'[s] = 0
  BY <1>1, <1>3 DEF StateOK
<1>8. \A p \in Calls : (Starts(p, s)' => p = q) /\ ~Completes(p, s)' /\ ~Exchanges(p, s)'
  BY <1>4, <1>5, <1>7 DEF Becomes, Starts, Completes, Exchanges, Exchanging, Completing
<1>9. StateOK(s)'
  BY <1>1, <1>3, <1>6, <1>7, <1>8 DEF StateOK
<1>10. \A t \in States : StateOK(t)'
  BY <1>3, <1>4, <1>5, <1>6, <1>9, OneState
<1>11. \A k \in Capabilities : CapabilityOK(k)'
  BY <1>3, <1>4, <1>5, CapabilitiesLeft
<1> QED
  BY <1>1, <1>3, <1>4, <1>5, <1>6, <1>10, <1>11, BrokerOps DEF BrokerInv, BrokerTypes, Becomes

LEMMA StartCommitKeeps ==
  ASSUME BrokerInv, NEW q \in Calls, StartCommit(q)
  PROVE  BrokerInv'
<1>1. BrokerTypes /\ OpOK(op[q]) /\ op[q].pc = "start"
  BY DEF BrokerInv, StartCommit, At
<1>2. PICK s \in States : s = op[q].on /\ Starts(q, s)
  BY <1>1 DEF OpOK, Starts
<1>3. /\ oauth' = [oauth EXCEPT ![s].row = "open"] \/ oauth' = [oauth EXCEPT ![s].verifier = FALSE]
      /\ Done(q) /\ UNCHANGED <<cap, history>>
  BY <1>2 DEF StartCommit
<1>4. OpOK(IdleOp) /\ IdleOp.pc = "idle"
  BY DEF OpOK, IdleOp, Completing
<1>5. Becomes(q, IdleOp)
  BY <1>3, Becoming DEF Done
<1>6. StateOK(s) /\ oauth[s].row = "none"
  BY <1>2 DEF BrokerInv, StateOK
<1>7. /\ oauth' \in [States -> OAuthRows] /\ oauth'[s].row \in {"none", "open"}
      /\ oauth'[s].expired = oauth[s].expired
      /\ \A t \in States \ {s} : oauth'[t] = oauth[t]
  BY <1>1, <1>3, <1>6 DEF BrokerTypes, OAuthRows
<1>8. \A p \in Calls : ~Completes(p, s) /\ ~Exchanges(p, s) /\ (Starts(p, s) => p = q)
  BY <1>2, <1>6 DEF StateOK
<1>9. \A p \in Calls : ~Completes(p, s)' /\ ~Exchanges(p, s)' /\ ~Starts(p, s)'
  BY <1>4, <1>5, <1>8 DEF Becomes, Starts, Completes, Exchanges, Exchanging, Completing
<1>10. StateOK(s)'
  BY <1>3, <1>6, <1>7, <1>9 DEF StateOK
<1>11. \A t \in States : StateOK(t)'
  BY <1>3, <1>4, <1>5, <1>7, <1>10, OneState DEF Completing
<1>12. \A k \in Capabilities : CapabilityOK(k)'
  BY <1>3, <1>4, <1>5, CapabilitiesLeft
<1> QED
  BY <1>1, <1>3, <1>4, <1>5, <1>7, <1>11, <1>12, BrokerOps DEF BrokerInv, BrokerTypes, Becomes

LEMMA CompleteClaimKeeps ==
  ASSUME BrokerInv, NEW q \in Calls, CompleteClaim(q)
  PROVE  BrokerInv'
<1>1. BrokerTypes /\ OpOK(op[q]) /\ op[q].pc = "claim"
  BY DEF BrokerInv, CompleteClaim, At
<1>2. PICK s \in States : s = op[q].on
  BY <1>1 DEF OpOK, Completing
<1>3. CASE ~OpenState(s)
  BY <1>2, <1>3, Finishes DEF CompleteClaim
<1>4. CASE OpenState(s)
  <2>1. PICK r : r = [op[q] EXCEPT !.pc = "connection"]
    OBVIOUS
  <2>2. /\ op' = [op EXCEPT ![q] = r] /\ oauth' = [oauth EXCEPT ![s].row = "used"]
        /\ UNCHANGED <<cap, history>> /\ oauth[s].row = "open"
    BY <1>1, <1>2, <1>4, <2>1 DEF CompleteClaim, Go, BrokerTypes, OpenState
  <2>3. OpOK(r) /\ r.pc = "connection" /\ r.on = s
    BY <1>1, <1>2, <2>1 DEF OpOK, Completing
  <2>4. Becomes(q, r)
    BY <2>2, Becoming
  <2>5. StateOK(s)
    BY DEF BrokerInv
  <2>6. /\ oauth' \in [States -> OAuthRows] /\ oauth'[s].row = "used"
        /\ \A t \in States \ {s} : oauth'[t] = oauth[t]
    BY <1>1, <2>2 DEF BrokerTypes, OAuthRows
  <2>7. \A p \in Calls : ~Exchanges(p, s) /\ ~Starts(p, s)
    BY <2>2, <2>5 DEF StateOK
  <2>8. \A p \in Calls : (Exchanges(p, s)' => p = q) /\ ~Starts(p, s)'
    BY <2>3, <2>4, <2>7 DEF Becomes, Starts, Exchanges, Exchanging
  <2>9. history'[s] = 0
    BY <2>2, <2>5 DEF StateOK
  <2>10. StateOK(s)'
    BY <2>6, <2>8, <2>9 DEF StateOK
  <2>11. \A t \in States : StateOK(t)'
    BY <2>2, <2>3, <2>4, <2>6, <2>10, OneState
  <2>12. \A k \in Capabilities : CapabilityOK(k)'
    BY <2>2, <2>3, <2>4, CapabilitiesLeft
  <2> QED
    BY <1>1, <2>2, <2>3, <2>4, <2>6, <2>11, <2>12, BrokerOps DEF BrokerInv, BrokerTypes, Becomes
<1> QED
  BY <1>3, <1>4

LEMMA CompleteExchangeKeeps ==
  ASSUME BrokerInv, NEW q \in Calls, CompleteExchange(q)
  PROVE  BrokerInv'
<1>1. BrokerTypes /\ OpOK(op[q]) /\ op[q].pc = "exchange"
  BY DEF BrokerInv, CompleteExchange, At
<1>2. PICK s \in States : s = op[q].on /\ Completes(q, s) /\ Exchanges(q, s)
  BY <1>1 DEF OpOK, Completing, Completes, Exchanging, Exchanges
<1>3. StateOK(s)
  BY DEF BrokerInv
<1>4. CASE Go(q, "unhealthy") /\ UNCHANGED history
  <2>1. PICK r : r = [op[q] EXCEPT !.pc = "unhealthy"]
    OBVIOUS
  <2>2. op' = [op EXCEPT ![q] = r] /\ UNCHANGED <<oauth, cap, history>>
    BY <1>1, <1>4, <2>1 DEF CompleteExchange, Go, BrokerTypes
  <2>3. OpOK(r) /\ r.pc = "unhealthy" /\ r.on = s
    BY <1>1, <1>2, <2>1 DEF OpOK, Completing
  <2>4. Becomes(q, r)
    BY <2>2, Becoming
  <2>5. oauth[s].row # "none"
    BY <1>2, <1>3 DEF StateOK
  <2> QED
    BY <2>2, <2>3, <2>4, <2>5, GoesOn DEF Completing, Exchanging
<1>5. CASE /\ history' = [history EXCEPT ![s] = history[s] + 1]
           /\ \/ op' = [op EXCEPT ![q].pc = "store", ![q].token = issued + 1]
              \/ Go(q, "unhealthy")
  <2>1. PICK token : token = issued + 1
    OBVIOUS
  <2>2. PICK r : /\ r \in {[op[q] EXCEPT !.pc = "store", !.token = token], [op[q] EXCEPT !.pc = "unhealthy"]}
                 /\ op' = [op EXCEPT ![q] = r]
    BY <1>1, <1>5, <2>1 DEF Go, BrokerTypes
  <2>3. op' = [op EXCEPT ![q] = r] /\ UNCHANGED <<oauth, cap>>
    BY <2>2 DEF CompleteExchange
  <2>4. OpOK(r) /\ r.pc \in {"store", "unhealthy"} /\ r.on = s
    BY <1>1, <1>2, <2>2 DEF OpOK, Completing
  <2>5. Becomes(q, r)
    BY <2>3, Becoming
  <2>6. history[s] = 0
    BY <1>2, <1>3 DEF StateOK
  <2>7. /\ history' \in [States \union Capabilities -> Nat] /\ history'[s] = 1
        /\ \A t \in (States \union Capabilities) \ {s} : history'[t] = history[t]
    BY <1>1, <1>5, <2>6 DEF BrokerTypes
  <2>8. oauth[s].row \notin {"none", "open"} /\ \A p \in Calls : ~Starts(p, s)
    BY <1>2, <1>3 DEF StateOK
  <2>9. \A p \in Calls : ~Exchanges(p, s)' /\ ~Starts(p, s)'
    BY <1>2, <1>3, <2>4, <2>5, <2>8 DEF Becomes, Starts, Exchanges, Exchanging, StateOK
  <2>10. StateOK(s)'
    BY <2>3, <2>7, <2>8, <2>9 DEF StateOK
  <2>11. \A t \in States : StateOK(t)'
    BY <2>3, <2>4, <2>5, <2>7, <2>10, OneState
  <2>12. ASSUME NEW k \in Capabilities PROVE CapabilityOK(k)'
    <3>1. history'[k] = history[k]
      BY <2>7, BrokerAssumption
    <3>2. \A p \in Calls : (Spends(p, k)' => Spends(p, k)) /\ (Issues(p, k)' => Issues(p, k))
      BY <2>4, <2>5 DEF Becomes, Spends, Issues
    <3>3. CapabilityOK(k)
      BY DEF BrokerInv
    <3> QED
      BY <2>3, <3>1, <3>2, <3>3, CapabilityLeft
  <2> QED
    BY <1>1, <2>3, <2>4, <2>5, <2>7, <2>11, <2>12, BrokerOps DEF BrokerInv, BrokerTypes, Becomes
<1> QED
  BY <1>2, <1>4, <1>5 DEF CompleteExchange

LEMMA CleaningKeeps ==
  ASSUME BrokerInv, NEW q \in Calls, CompleteClean(q) \/ CompleteFailed(q)
  PROVE  BrokerInv'
<1>1. BrokerTypes /\ OpOK(op[q]) /\ op[q].pc \in {"clean", "unhealthy"}
  BY DEF BrokerInv, CompleteClean, CompleteFailed, At
<1>2. PICK s \in States : s = op[q].on /\ Completes(q, s)
  BY <1>1 DEF OpOK, Completing, Completes
<1>3. oauth' = Cleaned(s) /\ Done(q) /\ UNCHANGED <<cap, history>>
  BY <1>2 DEF CompleteClean, CompleteFailed
<1>4. OpOK(IdleOp) /\ IdleOp.pc = "idle"
  BY DEF OpOK, IdleOp, Completing
<1>5. Becomes(q, IdleOp)
  BY <1>3, Becoming DEF Done
<1>6. StateOK(s) /\ oauth[s].row # "none"
  BY <1>2 DEF BrokerInv, StateOK
<1>7. /\ oauth' \in [States -> OAuthRows] /\ oauth'[s].row = "gone"
      /\ \A t \in States \ {s} : oauth'[t] = oauth[t]
  BY <1>1, <1>3 DEF BrokerTypes, OAuthRows, Cleaned
<1>8. \A p \in Calls : (Exchanges(p, s)' => Exchanges(p, s)) /\ ~Starts(p, s)'
  BY <1>4, <1>5, <1>6 DEF Becomes, Starts, Exchanges, Exchanging, StateOK
<1>9. StateOK(s)'
  BY <1>3, <1>6, <1>7, <1>8 DEF StateOK
<1>10. \A t \in States : StateOK(t)'
  BY <1>3, <1>4, <1>5, <1>7, <1>9, OneState DEF Completing
<1>11. \A k \in Capabilities : CapabilityOK(k)'
  BY <1>3, <1>4, <1>5, CapabilitiesLeft
<1> QED
  BY <1>1, <1>3, <1>4, <1>5, <1>7, <1>10, <1>11, BrokerOps DEF BrokerInv, BrokerTypes, Becomes

LEMMA RevokeStatesKeeps ==
  ASSUME BrokerInv, NEW q \in Calls, RevokeStates(q)
  PROVE  BrokerInv'
<1>1. BrokerTypes
  BY DEF BrokerInv
<1>2. OpOK(IdleOp) /\ IdleOp.pc = "idle"
  BY DEF OpOK, IdleOp, Completing
<1>3. Becomes(q, IdleOp) /\ UNCHANGED history
  BY Becoming DEF RevokeStates, Done
<1>4. /\ oauth' \in [States -> OAuthRows]
      /\ \A s \in States : oauth'[s] = oauth[s] \/ (oauth[s].row # "none" /\ oauth'[s].row = "gone")
  BY <1>1 DEF RevokeStates, BrokerTypes, OAuthRows, Cleaned
<1>5. /\ cap' \in [Capabilities -> {"none", "open", "consumed", "gone"}]
      /\ \A k \in Capabilities : cap'[k] = cap[k] \/ (cap[k] # "none" /\ cap'[k] = "gone")
  BY <1>1 DEF RevokeStates, BrokerTypes
<1>6. ASSUME NEW s \in States PROVE StateOK(s)'
  <2>1. StateOK(s)
    BY DEF BrokerInv
  <2>2. \A p \in Calls : /\ Exchanges(p, s)' => Exchanges(p, s)
                         /\ Completes(p, s)' => Completes(p, s)
                         /\ Starts(p, s)' => Starts(p, s)
    BY <1>2, <1>3 DEF Becomes, Exchanges, Completes, Starts, Exchanging, Completing
  <2> QED
    BY <1>3, <1>4, <2>1, <2>2 DEF StateOK
<1>7. ASSUME NEW k \in Capabilities PROVE CapabilityOK(k)'
  <2>1. CapabilityOK(k)
    BY DEF BrokerInv
  <2>2. \A p \in Calls : (Spends(p, k)' => Spends(p, k)) /\ (Issues(p, k)' => Issues(p, k))
    BY <1>2, <1>3 DEF Becomes, Spends, Issues
  <2> QED
    BY <1>3, <1>5, <2>1, <2>2 DEF CapabilityOK
<1> QED
  BY <1>1, <1>2, <1>3, <1>4, <1>5, <1>6, <1>7, BrokerOps DEF BrokerInv, BrokerTypes, Becomes

LEMMA IssueReadKeeps ==
  ASSUME BrokerInv, NEW q \in Calls, NEW k \in Capabilities, IssueRead(q, k)
  PROVE  BrokerInv'
<1>1. BrokerTypes
  BY DEF BrokerInv
<1>2. PICK r : r = [IdleOp EXCEPT !.pc = "issue", !.on = k]
  OBVIOUS
<1>3. /\ op' = [op EXCEPT ![q] = r] /\ UNCHANGED <<oauth, cap, history>>
      /\ cap[k] = "none" /\ \A p \in Calls : op[p].on # k
  BY <1>2 DEF IssueRead, Begin
<1>4. OpOK(r) /\ r.pc = "issue" /\ r.on = k
  BY <1>2 DEF OpOK, IdleOp, Completing
<1>5. Becomes(q, r)
  BY <1>3, Becoming
<1>6. \A s \in States : StateOK(s)'
  BY <1>3, <1>4, <1>5, StatesLeft DEF Completing
<1>7. ASSUME NEW l \in Capabilities PROVE CapabilityOK(l)'
  <2>1. CapabilityOK(l)
    BY DEF BrokerInv
  <2>2. \A p \in Calls : /\ Spends(p, l)' => Spends(p, l)
                         /\ Issues(p, l)' => Issues(p, l) \/ (p = q /\ l = k)
                         /\ l = k => ~Issues(p, l)
    BY <1>3, <1>4, <1>5 DEF Becomes, Spends, Issues
  <2> QED
    BY <1>3, <2>1, <2>2 DEF CapabilityOK
<1> QED
  BY <1>1, <1>3, <1>4, <1>5, <1>6, <1>7, BrokerOps DEF BrokerInv, BrokerTypes, Becomes

LEMMA IssueCommitKeeps ==
  ASSUME BrokerInv, NEW q \in Calls, IssueCommit(q)
  PROVE  BrokerInv'
<1>1. BrokerTypes /\ OpOK(op[q]) /\ op[q].pc = "issue"
  BY DEF BrokerInv, IssueCommit, At
<1>2. PICK k \in Capabilities : k = op[q].on /\ Issues(q, k)
  BY <1>1 DEF OpOK, Issues
<1>3. /\ cap' = cap \/ cap' = [cap EXCEPT ![k] = "open"]
      /\ Done(q) /\ UNCHANGED <<oauth, history>>
  BY <1>2 DEF IssueCommit
<1>4. OpOK(IdleOp) /\ IdleOp.pc = "idle"
  BY DEF OpOK, IdleOp, Completing
<1>5. Becomes(q, IdleOp)
  BY <1>3, Becoming DEF Done
<1>6. \A s \in States : StateOK(s)'
  BY <1>3, <1>4, <1>5, StatesLeft DEF Completing
<1>7. ASSUME NEW l \in Capabilities PROVE CapabilityOK(l)'
  <2>1. CapabilityOK(l)
    BY DEF BrokerInv
  <2>2. \A p \in Calls : (Spends(p, l)' => Spends(p, l)) /\ (Issues(p, l)' => Issues(p, l) /\ p # q)
    BY <1>4, <1>5 DEF Becomes, Spends, Issues
  <2>3. l = k => cap[l] = "none" /\ \A p \in Calls : ~Issues(p, l)'
    BY <1>2, <2>1, <2>2 DEF CapabilityOK
  <2>4. cap'[l] = cap[l] \/ (l = k /\ cap'[l] = "open")
    BY <1>1, <1>3 DEF BrokerTypes
  <2> QED
    BY <1>3, <2>1, <2>2, <2>3, <2>4 DEF CapabilityOK
<1>8. cap' \in [Capabilities -> {"none", "open", "consumed", "gone"}]
  BY <1>1, <1>3 DEF BrokerTypes
<1> QED
  BY <1>1, <1>3, <1>4, <1>5, <1>6, <1>7, <1>8, BrokerOps DEF BrokerInv, BrokerTypes, Becomes

LEMMA RedeemClaimKeeps ==
  ASSUME BrokerInv, NEW q \in Calls, RedeemClaim(q)
  PROVE  BrokerInv'
<1>1. BrokerTypes /\ OpOK(op[q]) /\ op[q].pc = "redeem"
  BY DEF BrokerInv, RedeemClaim, At
<1>2. PICK k \in Capabilities : k = op[q].on
  BY <1>1 DEF OpOK
<1>3. CASE cap[k] # "open"
  BY <1>2, <1>3, Finishes DEF RedeemClaim
<1>4. CASE cap[k] = "open"
  <2>1. PICK r : r = [op[q] EXCEPT !.pc = "request"]
    OBVIOUS
  <2>2. /\ op' = [op EXCEPT ![q] = r] /\ cap' = [cap EXCEPT ![k] = "consumed"]
        /\ UNCHANGED <<oauth, history>>
    BY <1>1, <1>2, <1>4, <2>1 DEF RedeemClaim, Go, BrokerTypes
  <2>3. OpOK(r) /\ r.pc = "request" /\ r.on = k
    BY <1>1, <1>2, <2>1 DEF OpOK, Completing
  <2>4. Becomes(q, r)
    BY <2>2, Becoming
  <2>5. \A s \in States : StateOK(s)'
    BY <2>2, <2>3, <2>4, StatesLeft DEF Completing
  <2>6. ASSUME NEW l \in Capabilities PROVE CapabilityOK(l)'
    <3>1. CapabilityOK(l)
      BY DEF BrokerInv
    <3>2. \A p \in Calls : /\ Spends(p, l)' => Spends(p, l) \/ (p = q /\ l = k)
                           /\ Issues(p, l)' => Issues(p, l)
      BY <2>3, <2>4 DEF Becomes, Spends, Issues
    <3>3. (cap'[l] = cap[l] /\ l # k) \/ (l = k /\ cap'[l] = "consumed" /\ cap[l] = "open")
      BY <1>1, <1>4, <2>2 DEF BrokerTypes
    <3> QED
      BY <2>2, <3>1, <3>2, <3>3 DEF CapabilityOK
  <2>7. cap' \in [Capabilities -> {"none", "open", "consumed", "gone"}]
    BY <1>1, <2>2 DEF BrokerTypes
  <2> QED
    BY <1>1, <2>2, <2>3, <2>4, <2>5, <2>6, <2>7, BrokerOps DEF BrokerInv, BrokerTypes, Becomes
<1> QED
  BY <1>3, <1>4

LEMMA UseCredentialKeeps ==
  ASSUME BrokerInv, NEW q \in Calls, UseCredential(q)
  PROVE  BrokerInv'
<1>1. BrokerTypes /\ OpOK(op[q]) /\ op[q].pc = "request"
  BY DEF BrokerInv, UseCredential, At
<1>2. CASE UNCHANGED history
  BY <1>2, Finishes DEF UseCredential
<1>3. CASE op[q].on # "" /\ history' = [history EXCEPT ![op[q].on] = @ + 1]
  <2>1. PICK k \in Capabilities : k = op[q].on /\ Spends(q, k)
    BY <1>1, <1>3 DEF OpOK, Spends
  <2>2. CapabilityOK(k) /\ history[k] = 0 /\ cap[k] \notin {"none", "open"}
    BY <2>1 DEF BrokerInv, CapabilityOK
  <2>3. /\ history' \in [States \union Capabilities -> Nat] /\ history'[k] = 1
        /\ \A x \in (States \union Capabilities) \ {k} : history'[x] = history[x]
    <3>1. history' = [history EXCEPT ![k] = history[k] + 1]
      BY <1>3, <2>1
    <3> QED
      BY <1>1, <2>2, <3>1 DEF BrokerTypes
  <2>4. OpOK(IdleOp) /\ IdleOp.pc = "idle"
    BY DEF OpOK, IdleOp, Completing
  <2>5. Becomes(q, IdleOp) /\ UNCHANGED <<oauth, cap>>
    BY Becoming DEF UseCredential, Done
  <2>6. ASSUME NEW s \in States PROVE StateOK(s)'
    <3>1. StateOK(s) /\ history'[s] = history[s]
      BY <2>3, BrokerAssumption DEF BrokerInv
    <3>2. \A p \in Calls : /\ Exchanges(p, s)' => Exchanges(p, s)
                           /\ Completes(p, s)' => Completes(p, s)
                           /\ Starts(p, s)' => Starts(p, s)
      BY <2>4, <2>5 DEF Becomes, Exchanges, Completes, Starts, Exchanging, Completing
    <3> QED
      BY <2>5, <3>1, <3>2, StateLeft
  <2>7. ASSUME NEW l \in Capabilities PROVE CapabilityOK(l)'
    <3>1. CapabilityOK(l)
      BY DEF BrokerInv
    <3>2. \A p \in Calls : (Spends(p, l)' => Spends(p, l) /\ p # q) /\ (Issues(p, l)' => Issues(p, l))
      BY <2>4, <2>5 DEF Becomes, Spends, Issues
    <3>3. l = k => \A p \in Calls : ~Spends(p, l)'
      BY <2>1, <2>2, <3>2 DEF CapabilityOK
    <3> QED
      BY <2>2, <2>3, <2>5, <3>1, <3>2, <3>3 DEF CapabilityOK
  <2> QED
    BY <1>1, <2>3, <2>4, <2>5, <2>6, <2>7, BrokerOps DEF BrokerInv, BrokerTypes, Becomes
<1> QED
  BY <1>2, <1>3 DEF UseCredential

\* The cron and the clock change rows, and no invocation.
LEMMA ClockKeeps ==
  ASSUME BrokerInv,
         \/ (\E s \in States : StateExpires(s) \/ SweepStates(s))
         \/ (\E k \in Capabilities : SweepCapability(k))
         \/ TokenExpires \/ LeaseExpires \/ RunEnds \/ UNCHANGED bvars
  PROVE  BrokerInv'
<1>1. BrokerTypes /\ (\A s \in States : StateOK(s)) /\ (\A k \in Capabilities : CapabilityOK(k))
  BY DEF BrokerInv
<1>2. UNCHANGED <<op, history>>
  BY DEF StateExpires, SweepStates, SweepCapability, TokenExpires, LeaseExpires, RunEnds, bvars
<1>3. CASE UNCHANGED <<oauth, cap>>
  BY <1>2, <1>3, Stays
<1>4. ASSUME NEW k \in Capabilities, SweepCapability(k) PROVE BrokerInv'
  <2>1. cap' = [cap EXCEPT ![k] = "gone"] /\ cap[k] # "none" /\ UNCHANGED oauth
    BY <1>4 DEF SweepCapability
  <2>2. /\ cap' \in [Capabilities -> {"none", "open", "consumed", "gone"}]
        /\ \A l \in Capabilities : cap'[l] = cap[l] \/ (cap[l] # "none" /\ cap'[l] = "gone")
    BY <1>1, <2>1 DEF BrokerTypes
  <2>3. \A l \in Capabilities : CapabilityOK(l)'
    BY <1>1, <1>2, <2>2 DEF CapabilityOK, Spends, Issues
  <2>4. \A s \in States : StateOK(s)'
    BY <1>1, <1>2, <2>1 DEF StateOK, Exchanges, Completes, Starts
  <2> QED
    BY <1>1, <1>2, <2>1, <2>2, <2>3, <2>4 DEF BrokerInv, BrokerTypes
<1>5. ASSUME NEW s \in States, StateExpires(s) \/ SweepStates(s) PROVE BrokerInv'
  <2>1. \/ oauth' = [oauth EXCEPT ![s].expired = TRUE] /\ oauth[s].row # "none"
        \/ oauth' = Cleaned(s) /\ oauth[s].expired
    BY <1>5 DEF StateExpires, SweepStates
  <2>2. UNCHANGED cap
    BY <1>5 DEF StateExpires, SweepStates
  <2>3. /\ oauth' \in [States -> OAuthRows] /\ \A t \in States \ {s} : oauth'[t] = oauth[t]
        /\ oauth'[s].row \in {oauth[s].row, "gone"}
    <3>1. CASE oauth' = [oauth EXCEPT ![s].expired = TRUE]
      BY <1>1, <3>1 DEF BrokerTypes, OAuthRows
    <3>2. CASE oauth' = Cleaned(s)
      BY <1>1, <3>2 DEF BrokerTypes, OAuthRows, Cleaned
    <3> QED
      BY <2>1, <3>1, <3>2
  <2>4. oauth[s].row # "none"
    BY <1>1, <2>1 DEF StateOK
  <2>5. \A t \in States : StateOK(t)'
    BY <1>1, <1>2, <2>3, <2>4 DEF StateOK, Exchanges, Completes, Starts
  <2>6. \A k \in Capabilities : CapabilityOK(k)'
    BY <1>2, <2>2, CapabilitiesStay
  <2> QED
    BY <1>1, <1>2, <2>2, <2>3, <2>5, <2>6 DEF BrokerInv, BrokerTypes
<1> QED
  BY <1>3, <1>4, <1>5 DEF TokenExpires, LeaseExpires, RunEnds, bvars

LEMMA BrokerStep == BrokerInv /\ [BrokerNext]_bvars => BrokerInv'
<1> SUFFICES ASSUME BrokerInv, [BrokerNext]_bvars PROVE BrokerInv'
  OBVIOUS
<1>1. ASSUME NEW q \in Calls, NEW s \in States, StartVerifier(q, s) \/ CompleteRead(q, s) PROVE BrokerInv'
  BY <1>1, StartVerifierKeeps, CompletionGoesOn
<1>2. ASSUME NEW q \in Calls, NEW k \in Capabilities, IssueRead(q, k) \/ RedeemRead(q, k) PROVE BrokerInv'
  BY <1>2, IssueReadKeeps, RequestsKeep
<1>3. ASSUME NEW q \in Calls,
             \/ StartCommit(q) \/ CompleteClaim(q) \/ CompleteConnection(q) \/ CompleteVerifier(q)
             \/ CompleteExchange(q) \/ CompleteStore(q) \/ CompleteAuthorize(q) \/ CompleteClean(q) \/ CompleteFailed(q)
      PROVE  BrokerInv'
  BY <1>3, StartCommitKeeps, CompleteClaimKeeps, CompletionGoesOn, CompleteExchangeKeeps, CleaningKeeps
<1>4. ASSUME NEW q \in Calls,
             \/ StoreRead(q) \/ RefreshRead(q) \/ (\E all \in BOOLEAN : RevokeRead(q, all)) \/ HealthRead(q)
             \/ PortRequest(q) \/ IssueCommit(q) \/ RedeemClaim(q) \/ UseCredential(q) \/ RevokeStates(q)
      PROVE  BrokerInv'
  BY <1>4, RequestsKeep, IssueCommitKeeps, RedeemClaimKeeps, UseCredentialKeeps, RevokeStatesKeeps
<1>5. ASSUME NEW q \in Calls,
             \/ StoreSecret(q) \/ StoreCommit(q)
             \/ RefreshClaim(q) \/ RefreshToken(q) \/ RefreshExchange(q) \/ RefreshReplace(q)
             \/ RefreshCommit(q) \/ RefreshFailed(q)
             \/ RevokeUnseal(q) \/ RevokeDelete(q) \/ RevokeCommit(q) \/ HealthWrite(q) \/ CallLost(q)
      PROVE  BrokerInv'
  BY <1>5, ApartKeeps
<1> QED
  BY <1>1, <1>2, <1>3, <1>4, <1>5, ClockKeeps DEF BrokerNext

(* Each OAuth state is exchanged, and each capability redeemed, at most    *)
(* once, for any number of invocations that race, fail or vanish: between  *)
(* its claim and its use a state or capability is one invocation's, and a  *)
(* row that was claimed or expired is never open again.                    *)
THEOREM UsedOnce == BrokerSpec => []SingleUse
<1>1. BrokerInv => SingleUse
  BY DEF BrokerInv, SingleUse, StateOK, CapabilityOK
<1> QED
  BY <1>1, BrokerStarts, BrokerStep, PTL DEF BrokerSpec
===============================================================================
