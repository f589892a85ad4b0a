----------------------------- MODULE Chat_proofs -----------------------------
(***************************************************************************)
(* What holds of the chat however many threads, turns, runs, requests and  *)
(* failures there are: a client's turn is taken once, an accepted turn is  *)
(* in its thread, and a run settles once.                                  *)
(***************************************************************************)
EXTENDS ChatRuns, TLAPS

OrNone == Threads \union {None}

-----------------------------------------------------------------------------
(* The inductive invariant. Of one turn there is one request at a time. It *)
(* writes the receipt before it submits, so that whatever is on its way to *)
(* a thread, or in one, was recorded for that thread and no other.         *)

\* A request for a turn, before it has written the receipt and after.
Finding == {"find", "insert", "promote", "promoted", "record"}
Sending == {"resume", "send", "wait", "accepted"}

CallOK(r) ==
  /\ r = [pc |-> r.pc, does |-> r.does, turn |-> r.turn, thread |-> r.thread, agent |-> r.agent, status |-> r.status]
  /\ r.thread \in OrNone
  /\ r.does = "materialize" => r.turn \in Turns
  /\ r.pc = "find" => r.does \in {"materialize", "create", "stage"}
  /\ r.pc \in {"promote", "promoted", "record"} \union Sending => r.does = "materialize" /\ r.thread \in Threads
  /\ r.does = "materialize" /\ r.pc \in Finding => receipt[r.turn].status = "none"
  /\ r.pc \in Sending => receipt[r.turn].status = "dispatching" /\ receipt[r.turn].thread = r.thread
  /\ r.pc = "accepted" => messages[r.thread][r.turn] = 1

ReceiptOK(u) ==
  /\ receipt[u].status \in {"none", "dispatching", "accepted"}
  /\ receipt[u].status # "none" => receipt[u].thread \in Threads
  /\ receipt[u].status = "accepted" => messages[receipt[u].thread][u] = 1

RecordedFor(u, t) == receipt[u].status # "none" /\ receipt[u].thread = t

SubmissionOK(m) ==
  /\ m = [turn |-> m.turn, thread |-> m.thread, agent |-> m.agent, again |-> m.again, checked |-> m.checked]
  /\ m.turn \in Turns /\ m.thread \in Threads /\ RecordedFor(m.turn, m.thread)

TakenOK(t, u) == messages[t][u] <= 1 /\ (messages[t][u] > 0 => RecordedFor(u, t))

BusyOK(t) ==
  /\ busy[t] = [turn |-> busy[t].turn, agent |-> busy[t].agent, begun |-> busy[t].begun]
  /\ busy[t].turn \in Turns => messages[t][busy[t].turn] > 0

CallsOK == call = [c \in Calls |-> call[c]] /\ \A c \in Calls : CallOK(call[c])
OneRequest ==
  \A c, d \in Calls :
    call[c].does = "materialize" /\ call[d].does = "materialize" /\ call[c].turn = call[d].turn => c = d
ReceiptsOK == receipt = [u \in Turns |-> receipt[u]] /\ \A u \in Turns : ReceiptOK(u)
TakenAll == messages \in [Threads -> [Turns -> Nat]] /\ \A t \in Threads, u \in Turns : TakenOK(t, u)
BusyAll == busy = [t \in Threads |-> busy[t]] /\ \A t \in Threads : BusyOK(t)
OutboxOK == \A m \in outbox : SubmissionOK(m)
ShownOK ==
  /\ session = [active |-> session.active, agent |-> session.agent, preferred |-> session.preferred]
  /\ session.active \in OrNone /\ snap.thread \in OrNone

TurnsInv == CallsOK /\ OneRequest /\ ReceiptsOK /\ TakenAll /\ BusyAll /\ OutboxOK /\ ShownOK

(* Runs: an answer is stored only for a run that its own invocation found  *)
(* running and completed.                                                  *)
RunsShape ==
  /\ run = [r \in Runs |-> run[r]]
  /\ \A r \in Runs : run[r] = [status |-> run[r].status, thread |-> run[r].thread, left |-> run[r].left]
StreamOK(s) ==
  /\ s = [pc |-> s.pc, thread |-> s.thread, run |-> s.run]
  /\ s.thread \in OrNone
  /\ s.pc \in {"claimed", "provider", "output"} => s.run \in Runs
  /\ s.pc = "output" => run[s.run].status = "completed"
StreamsOK == stream = [q \in Streams |-> stream[q]] /\ \A q \in Streams : StreamOK(stream[q])
EndingOK ==
  /\ ending = [r \in Runs |-> ending[r]]
  /\ \A r \in Runs : ending[r] = "store" => run[r].status = "completed"

RunsInv == RunsShape /\ StreamsOK /\ EndingOK

-----------------------------------------------------------------------------
(* Steps of one request.                                                   *)

(* Whatever builds a snapshot from a thread shows that thread or none.     *)
LEMMA BuiltShows ==
  ASSUME NEW t \in OrNone, NEW a
  PROVE  Built(t, a).thread \in OrNone
BY DEF Built, OrNone

(* A request that is not about a turn.                                     *)
LEMMA PlainCall ==
  ASSUME NEW r, r = [pc |-> r.pc, does |-> r.does, turn |-> r.turn, thread |-> r.thread, agent |-> r.agent,
                     status |-> r.status],
         r.thread \in OrNone, r.does # "materialize",
         r.pc = "find" => r.does \in {"create", "stage"},
         r.pc \notin {"promote", "promoted", "record"} \union Sending
  PROVE  CallOK(r)
BY DEF CallOK, Sending

LEMMA IdleOK == CallOK(IdleCall)
BY DEF CallOK, IdleCall, Sending, Finding, OrNone

(* One request moves and nothing else of the turns does.                   *)
LEMMA CallMoves ==
  ASSUME TurnsInv, NEW c \in Calls, NEW r, call' = [call EXCEPT ![c] = r], CallOK(r),
         r.does = "materialize" =>
           (call[c].does = "materialize" /\ r.turn = call[c].turn) \/ ~Dispatching(r.turn),
         UNCHANGED <<receipt, messages>>
  PROVE  CallsOK' /\ OneRequest' /\ ReceiptsOK' /\ TakenAll'
<1>1. CallsOK'
  <2>1. call' = [x \in Calls |-> call'[x]]
    BY DEF TurnsInv, CallsOK
  <2>2. ASSUME NEW d \in Calls PROVE CallOK(call[d])'
    <3>1. CallOK(call[d]) /\ (call'[d] = call[d] \/ call'[d] = r)
      BY DEF TurnsInv, CallsOK
    <3> QED BY <3>1 DEF CallOK
  <2> QED BY <2>1, <2>2 DEF CallsOK
<1>2. OneRequest'
  <2> SUFFICES ASSUME NEW d \in Calls, NEW e \in Calls, d # e, call'[d].does = "materialize",
                      call'[e].does = "materialize", call'[d].turn = call'[e].turn
               PROVE  FALSE
    BY DEF OneRequest
  <2>1. call'[d] = (IF d = c THEN r ELSE call[d]) /\ call'[e] = (IF e = c THEN r ELSE call[e])
    BY DEF TurnsInv, CallsOK
  <2>2. CASE d # c /\ e # c
    BY <2>1, <2>2 DEF TurnsInv, OneRequest
  <2>3. CASE d = c
    BY <2>1, <2>3 DEF TurnsInv, OneRequest, Dispatching
  <2>4. CASE e = c
    BY <2>1, <2>4 DEF TurnsInv, OneRequest, Dispatching
  <2> QED BY <2>2, <2>3, <2>4
<1>3. ReceiptsOK' /\ TakenAll'
  BY DEF TurnsInv, ReceiptsOK, ReceiptOK, TakenAll, TakenOK, RecordedFor
<1> QED BY <1>1, <1>2, <1>3

(* The same, when the threads and the submissions stay as they are.        *)
LEMMA OneCallMoves ==
  ASSUME TurnsInv, NEW c \in Calls, NEW r, call' = [call EXCEPT ![c] = r], CallOK(r),
         r.does = "materialize" =>
           (call[c].does = "materialize" /\ r.turn = call[c].turn) \/ ~Dispatching(r.turn),
         UNCHANGED <<receipt, messages, outbox, busy>>, ShownOK'
  PROVE  TurnsInv'
<1>1. BusyAll' /\ OutboxOK'
  BY DEF TurnsInv, BusyAll, BusyOK, OutboxOK, SubmissionOK, RecordedFor
<1> QED BY <1>1, CallMoves DEF TurnsInv

(* No step outside the turns disturbs them.                                *)
LEMMA TurnsUntouched ==
  ASSUME TurnsInv, UNCHANGED <<call, receipt, messages, outbox, busy>>, ShownOK'
  PROVE  TurnsInv'
<1>1. CallsOK' /\ OneRequest'
  BY DEF TurnsInv, CallsOK, CallOK, OneRequest
<1>2. ReceiptsOK' /\ TakenAll'
  BY DEF TurnsInv, ReceiptsOK, ReceiptOK, TakenAll, TakenOK, RecordedFor
<1>3. BusyAll' /\ OutboxOK'
  BY DEF TurnsInv, BusyAll, BusyOK, OutboxOK, SubmissionOK, RecordedFor
<1> QED BY <1>1, <1>2, <1>3 DEF TurnsInv

(* A request begins that is not for a turn.                                *)
LEMMA PlainBegins ==
  ASSUME TurnsInv, NEW c \in Calls, NEW r, call' = [call EXCEPT ![c] = r],
         r = [pc |-> r.pc, does |-> r.does, turn |-> r.turn, thread |-> r.thread, agent |-> r.agent,
              status |-> r.status],
         r.thread \in OrNone, r.does # "materialize",
         r.pc = "find" => r.does \in {"create", "stage"},
         r.pc \notin {"promote", "promoted", "record"} \union Sending,
         UNCHANGED <<receipt, messages, outbox, busy>>, ShownOK'
  PROVE  TurnsInv'
BY PlainCall, OneCallMoves

(* A request returns.                                                      *)
LEMMA CallReturns ==
  ASSUME TurnsInv, NEW c \in Calls, Return(c), UNCHANGED <<receipt, messages, outbox, busy>>, ShownOK'
  PROVE  TurnsInv'
<1>1. PICK r : r = IdleCall
  OBVIOUS
<1>2. CallOK(r) /\ r.does # "materialize" /\ call' = [call EXCEPT ![c] = r]
  BY <1>1, IdleOK DEF Return, IdleCall
<1> QED BY <1>2, OneCallMoves

(* A request goes on to a step that is not one of a turn's.                *)
LEMMA PlainGoes ==
  ASSUME TurnsInv, NEW c \in Calls, NEW pc, Goto(c, pc), call[c].pc \notin Finding \union Sending,
         pc \notin Finding \union Sending,
         UNCHANGED <<receipt, messages, outbox, busy>>, ShownOK'
  PROVE  TurnsInv'
<1>1. CallOK(call[c]) /\ call = [x \in Calls |-> call[x]]
  BY DEF TurnsInv, CallsOK
<1>2. PICK r : r = [call[c] EXCEPT !.pc = pc]
  OBVIOUS
<1>3. /\ r = [pc |-> pc, does |-> call[c].does, turn |-> call[c].turn, thread |-> call[c].thread,
              agent |-> call[c].agent, status |-> call[c].status]
      /\ call' = [call EXCEPT ![c] = r]
  BY <1>1, <1>2 DEF CallOK, Goto
<1>4. CallOK(r)
  BY <1>1, <1>3 DEF CallOK, Finding, Sending
<1>5. r.does = call[c].does /\ r.turn = call[c].turn
  BY <1>3
<1> QED BY <1>3, <1>4, <1>5, OneCallMoves

-----------------------------------------------------------------------------
(* The steps of the session's object, one lemma for each kind.             *)

(* Requests that are not for a turn.                                       *)
LEMMA RequestsBegin ==
  ASSUME TurnsInv, ChatAssumption, NEW c \in Calls,
         \/ GetSession(c) \/ CreateThread(c) \/ StageThread(c)
         \/ \E t \in Threads : UpdateThread(c, t) \/ ActivateThread(c, t)
         \/ \E t \in Threads, a \in Agents : SwitchAgent(c, t, a)
         \/ \E a \in Agents : SwitchForNewThread(c, a)
  PROVE  TurnsInv'
<1>0. ShownOK /\ UNCHANGED <<receipt, messages, outbox, busy, snap>>
  BY DEF TurnsInv, GetSession, CreateThread, StageThread, UpdateThread, ActivateThread, SwitchAgent,
         SwitchForNewThread, threadVars
<1>1. PICK shown : shown = session.preferred
  OBVIOUS
<1>2. ShownOK'
  <2>1. UNCHANGED session \/ \E a \in Agents : session' = [active |-> None, agent |-> a, preferred |-> a]
    BY DEF GetSession, CreateThread, StageThread, UpdateThread, ActivateThread, SwitchAgent, SwitchForNewThread
  <2> QED BY <1>0, <2>1 DEF ShownOK, OrNone
<1>r. \A does : Request(does) = [pc |-> "idle", does |-> does, turn |-> None, thread |-> None, agent |-> shown,
                                status |-> "none"]
  <2> SUFFICES ASSUME NEW does
               PROVE  Request(does) = [pc |-> "idle", does |-> does, turn |-> None, thread |-> None,
                                       agent |-> shown, status |-> "none"]
    OBVIOUS
  <2>1. PICK idle : idle = IdleCall
    OBVIOUS
  <2>2. idle = [pc |-> "idle", does |-> "none", turn |-> None, thread |-> None, agent |-> FirstAgent,
                status |-> "none"]
    BY <2>1 DEF IdleCall
  <2>3. Request(does) = [idle EXCEPT !.does = does, !.agent = shown]
    BY <1>1, <2>1 DEF Request
  <2> QED BY <2>2, <2>3
<1>3. ASSUME NEW next, Begin(c, next), NEW does, NEW pc, NEW t \in OrNone, NEW a, NEW s,
             next = [pc |-> pc, does |-> does, turn |-> None, thread |-> t, agent |-> a, status |-> s],
             does # "materialize", pc = "find" => does \in {"create", "stage"},
             pc \notin {"promote", "promoted", "record"} \union Sending
      PROVE  TurnsInv'
  <2>1. /\ next.pc = pc /\ next.does = does /\ next.thread = t
        /\ next = [pc |-> next.pc, does |-> next.does, turn |-> next.turn, thread |-> next.thread,
                   agent |-> next.agent, status |-> next.status]
    BY <1>3
  <2>2. call' = [call EXCEPT ![c] = next]
    BY <1>3 DEF Begin
  <2> HIDE <1>3
  <2> QED BY <1>0, <1>2, <1>3, <2>1, <2>2, PlainBegins
<1>4. None \in OrNone /\ Threads \subseteq OrNone
  BY DEF OrNone
<1>5. CASE GetSession(c)
  <2>1. PICK next : next = [pc |-> "get", does |-> "get", turn |-> None, thread |-> None, agent |-> shown,
                           status |-> "none"]
    OBVIOUS
  <2>2. Begin(c, next)
    BY <1>1, <1>5, <2>1, <1>r DEF GetSession
  <2>3. "get" \notin {"promote", "promoted", "record"} \union Sending
    BY DEF Sending
  <2> QED BY <1>3, <1>4, <2>1, <2>2, <2>3
<1>6. CASE CreateThread(c)
  <2>1. PICK next : next = [pc |-> "find", does |-> "create", turn |-> None, thread |-> None, agent |-> shown,
                           status |-> "none"]
    OBVIOUS
  <2>2. Begin(c, next)
    BY <1>1, <1>6, <2>1, <1>r DEF CreateThread
  <2>3. "find" \notin {"promote", "promoted", "record"} \union Sending
    BY DEF Sending
  <2> QED BY <1>3, <1>4, <2>1, <2>2, <2>3
<1>7. CASE StageThread(c)
  <2>1. PICK next : next = [pc |-> "find", does |-> "stage", turn |-> None, thread |-> None, agent |-> shown,
                           status |-> "none"]
    OBVIOUS
  <2>2. Begin(c, next)
    BY <1>1, <1>7, <2>1, <1>r DEF StageThread
  <2>3. "find" \notin {"promote", "promoted", "record"} \union Sending
    BY DEF Sending
  <2> QED BY <1>3, <1>4, <2>1, <2>2, <2>3
<1>8. CASE \E t \in Threads : UpdateThread(c, t)
  <2>1. PICK t \in Threads : UpdateThread(c, t)
    BY <1>8
  <2>2. "persist" \notin {"promote", "promoted", "record"} \union Sending
    BY DEF Sending
  <2>3. ASSUME NEW does \in {"update", "rename"}, NEW s,
               Begin(c, [Request(does) EXCEPT !.pc = "persist", !.thread = t, !.status = s])
        PROVE  TurnsInv'
    <3>1. PICK next : next = [pc |-> "persist", does |-> does, turn |-> None, thread |-> t, agent |-> shown,
                             status |-> s]
      OBVIOUS
    <3>2. next = [Request(does) EXCEPT !.pc = "persist", !.thread = t, !.status = s]
      <4>1. PICK asked : asked = Request(does)
        OBVIOUS
      <4>2. asked = [pc |-> "idle", does |-> does, turn |-> None, thread |-> None, agent |-> shown,
                     status |-> "none"]
        BY <1>r, <4>1
      <4>3. next = [asked EXCEPT !.pc = "persist", !.thread = t, !.status = s]
        <5>1. PICK n : n = [asked EXCEPT !.pc = "persist", !.thread = t, !.status = s]
          OBVIOUS
        <5>2. n = [pc |-> "persist", does |-> does, turn |-> None, thread |-> t,
                   agent |-> shown, status |-> s]
          BY <5>1, <4>2
        <5> QED BY <5>1, <5>2, <3>1
      <4> QED BY <4>1, <4>3
    <3>3. Begin(c, next)
      BY <2>3, <3>2
    <3> QED BY <1>3, <1>4, <2>2, <3>1, <3>3
  <2>4. \/ \E s : Begin(c, [Request("update") EXCEPT !.pc = "persist", !.thread = t, !.status = s])
        \/ \E s : Begin(c, [Request("rename") EXCEPT !.pc = "persist", !.thread = t, !.status = s])
    BY <2>1 DEF UpdateThread
  <2> QED BY <2>3, <2>4
<1>9. CASE \E t \in Threads : ActivateThread(c, t)
  <2>1. PICK t \in Threads : ActivateThread(c, t)
    BY <1>9
  <2>2. PICK a : a = thread[t].agent
    OBVIOUS
  <2>3. PICK next : next = [pc |-> "touch", does |-> "activate", turn |-> None, thread |-> t, agent |-> a,
                           status |-> "none"]
    OBVIOUS
  <2>4. Begin(c, next)
    <3>1. PICK asked : asked = Request("activate")
      OBVIOUS
    <3>2. asked = [pc |-> "idle", does |-> "activate", turn |-> None, thread |-> None, agent |-> shown,
                   status |-> "none"]
      BY <1>r, <3>1
    <3>3. next = [asked EXCEPT !.pc = "touch", !.thread = t, !.agent = a]
      <4>1. PICK n : n = [asked EXCEPT !.pc = "touch", !.thread = t, !.agent = a]
        OBVIOUS
      <4>2. n = [pc |-> "touch", does |-> "activate", turn |-> None, thread |-> t,
                 agent |-> a, status |-> "none"]
        BY <4>1, <3>2
      <4> QED BY <4>1, <4>2, <2>3
    <3>4. Begin(c, [asked EXCEPT !.pc = "touch", !.thread = t, !.agent = a])
      BY <3>1, <2>1, <2>2 DEF ActivateThread
    <3> QED BY <3>3, <3>4
  <2>5. "touch" \notin {"promote", "promoted", "record"} \union Sending
    BY DEF Sending
  <2> QED BY <1>3, <1>4, <2>3, <2>4, <2>5
<1>10. CASE \E t \in Threads, a \in Agents : SwitchAgent(c, t, a)
  <2>1. PICK t \in Threads, a \in Agents : SwitchAgent(c, t, a)
    BY <1>10
  <2>2. PICK pc \in {"show", "check"} : pc = IF thread[t].agent = a THEN "show" ELSE "check"
    OBVIOUS
  <2>3. PICK next : next = [pc |-> pc, does |-> "switch", turn |-> None, thread |-> t, agent |-> a,
                           status |-> "none"]
    OBVIOUS
  <2>4. Begin(c, next)
    <3>1. PICK asked : asked = Request("switch")
      OBVIOUS
    <3>2. asked = [pc |-> "idle", does |-> "switch", turn |-> None, thread |-> None, agent |-> shown,
                   status |-> "none"]
      BY <1>r, <3>1
    <3>3. next = [asked EXCEPT !.pc = pc, !.thread = t, !.agent = a]
      <4>1. PICK n : n = [asked EXCEPT !.pc = pc, !.thread = t, !.agent = a]
        OBVIOUS
      <4>2. n = [pc |-> pc, does |-> "switch", turn |-> None, thread |-> t,
                 agent |-> a, status |-> "none"]
        BY <4>1, <3>2
      <4> QED BY <4>1, <4>2, <2>3
    <3>4. Begin(c, [asked EXCEPT !.pc = pc, !.thread = t, !.agent = a])
      BY <3>1, <2>1, <2>2 DEF SwitchAgent
    <3> QED BY <3>3, <3>4
  <2>5. pc \notin {"promote", "promoted", "record"} \union Sending /\ pc # "find"
    BY DEF Sending
  <2> QED BY <1>3, <1>4, <2>3, <2>4, <2>5
<1>11. CASE \E a \in Agents : SwitchForNewThread(c, a)
  <2>1. PICK a \in Agents : SwitchForNewThread(c, a)
    BY <1>11
  <2>2. PICK next : next = [pc |-> "show", does |-> "switch", turn |-> None, thread |-> None, agent |-> a,
                           status |-> "none"]
    OBVIOUS
  <2>3. Begin(c, next)
    <3>1. PICK asked : asked = Request("switch")
      OBVIOUS
    <3>2. asked = [pc |-> "idle", does |-> "switch", turn |-> None, thread |-> None, agent |-> shown,
                   status |-> "none"]
      BY <1>r, <3>1
    <3>3. next = [asked EXCEPT !.pc = "show", !.agent = a]
      <4>1. PICK n : n = [asked EXCEPT !.pc = "show", !.agent = a]
        OBVIOUS
      <4>2. n = [pc |-> "show", does |-> "switch", turn |-> None, thread |-> None,
                 agent |-> a, status |-> "none"]
        BY <4>1, <3>2
      <4> QED BY <4>1, <4>2, <2>2
    <3>4. Begin(c, [asked EXCEPT !.pc = "show", !.agent = a])
      BY <3>1, <2>1 DEF SwitchForNewThread
    <3> QED BY <3>3, <3>4
  <2>4. "show" \notin {"promote", "promoted", "record"} \union Sending
    BY DEF Sending
  <2> QED BY <1>3, <1>4, <2>2, <2>3, <2>4
<1> QED BY <1>5, <1>6, <1>7, <1>8, <1>9, <1>10, <1>11

(* Steps that go on or return and are not a turn's.                        *)
LEMMA PlainSteps ==
  ASSUME TurnsInv, ChatAssumption, NEW c \in Calls,
         \/ Load(c) \/ DropDraft(c) \/ PersistThread(c) \/ TouchSession(c)
         \/ ShowThread(c) \/ CheckRunning(c) \/ Handoff(c) \/ CallFails(c)
  PROVE  TurnsInv'
<1>0. ShownOK /\ UNCHANGED <<receipt, messages, outbox, busy>>
  BY DEF TurnsInv, Load, DropDraft, PersistThread, TouchSession, ShowThread, CheckRunning, Handoff,
         CallFails, sessionVars, threadVars
<1>1. CallOK(call[c]) /\ call[c].thread \in OrNone
  BY DEF TurnsInv, CallsOK, CallOK
<1>2. CASE Load(c) \/ ShowThread(c) \/ CallFails(c)
  <2>1. Return(c)
    BY <1>2 DEF Load, ShowThread, CallFails
  <2>2. UNCHANGED session
    BY <1>2 DEF Load, ShowThread, CallFails
  <2>3. session.active \in OrNone /\ snap.thread \in OrNone
    BY <1>0 DEF ShownOK
  <2>4. snap'.thread \in OrNone
    BY <1>1, <1>2, <2>3, BuiltShows DEF Load, ShowThread, CallFails
  <2>5. ShownOK'
    BY <1>0, <2>2, <2>4 DEF ShownOK
  <2> QED BY <1>0, <2>1, <2>5, CallReturns
<1>3. CASE DropDraft(c)
  <2>1. UNCHANGED <<call, snap, session>>
    BY <1>3 DEF DropDraft, sessionVars
  <2>2. ShownOK'
    BY <1>0, <2>1 DEF ShownOK
  <2> QED BY <1>0, <2>1, <2>2, TurnsUntouched
<1>4. CASE PersistThread(c)
  <2>1. PICK pc \in {"abort", "latest"} : Goto(c, pc)
    BY <1>4 DEF PersistThread
  <2>2. ShownOK'
    BY <1>0, <1>4 DEF ShownOK, PersistThread
  <2>3. call[c].pc \notin Finding \union Sending /\ pc \notin Finding \union Sending
    BY <1>4 DEF PersistThread, Finding, Sending
  <2> QED BY <1>0, <2>1, <2>2, <2>3, PlainGoes
<1>5. CASE TouchSession(c)
  <2>1. Goto(c, "show") /\ call[c].pc \notin Finding \union Sending /\ "show" \notin Finding \union Sending
    BY <1>5 DEF TouchSession, Finding, Sending
  <2>2. ShownOK'
    BY <1>0, <1>1, <1>5 DEF ShownOK, TouchSession
  <2> QED BY <1>0, <2>1, <2>2, PlainGoes
<1>6. CASE CheckRunning(c) /\ RunningOn(call[c].thread)
  <2>1. Return(c) /\ UNCHANGED <<session, snap>>
    BY <1>6 DEF CheckRunning
  <2>2. ShownOK'
    BY <1>0, <2>1 DEF ShownOK
  <2> QED BY <1>0, <2>1, <2>2, CallReturns
<1>7. CASE CheckRunning(c) /\ ~RunningOn(call[c].thread)
  <2>1. Goto(c, "handoff") /\ call[c].pc \notin Finding \union Sending /\ "handoff" \notin Finding \union Sending
    BY <1>7 DEF CheckRunning, Finding, Sending
  <2>2. ShownOK'
    BY <1>0, <1>1, <1>7 DEF ShownOK, CheckRunning
  <2> QED BY <1>0, <2>1, <2>2, PlainGoes
<1>8. CASE Handoff(c)
  <2>1. Goto(c, "show") /\ call[c].pc \notin Finding \union Sending /\ "show" \notin Finding \union Sending
    BY <1>8 DEF Handoff, Finding, Sending
  <2>2. ShownOK'
    BY <1>0, <1>1, <1>8 DEF ShownOK, Handoff
  <2> QED BY <1>0, <2>1, <2>2, PlainGoes
<1> QED BY <1>2, <1>3, <1>4, <1>5, <1>6, <1>7, <1>8

-----------------------------------------------------------------------------
(* The steps of a turn.                                                    *)

LEMMA PcSet ==
  ASSUME TurnsInv, NEW c \in Calls, NEW pc, call' = [call EXCEPT ![c].pc = pc]
  PROVE  call' = [call EXCEPT ![c] = [pc |-> pc, does |-> call[c].does, turn |-> call[c].turn,
                    thread |-> call[c].thread, agent |-> call[c].agent, status |-> call[c].status]]
<1>1. CallOK(call[c])
  BY DEF TurnsInv, CallsOK
<1>2. PICK r : r = [call[c] EXCEPT !.pc = pc]
  OBVIOUS
<1>3. r = [pc |-> pc, does |-> call[c].does, turn |-> call[c].turn, thread |-> call[c].thread,
           agent |-> call[c].agent, status |-> call[c].status]
  BY <1>1, <1>2 DEF CallOK
<1>4. call' = [call EXCEPT ![c] = r]
  BY <1>2
<1> QED BY <1>3, <1>4

LEMMA ThreadSet ==
  ASSUME TurnsInv, NEW c \in Calls, NEW pc, NEW t, NEW a, call' = [call EXCEPT ![c].thread = t, ![c].agent = a,
  ![c].pc = pc]
  PROVE  call' = [call EXCEPT ![c] = [pc |-> pc, does |-> call[c].does, turn |-> call[c].turn,
                    thread |-> t, agent |-> a, status |-> call[c].status]]
<1>1. CallOK(call[c]) /\ call = [x \in Calls |-> call[x]]
  BY DEF TurnsInv, CallsOK
<1>2. PICK r : r = [call[c] EXCEPT !.thread = t, !.agent = a, !.pc = pc]
  OBVIOUS
<1>3. r = [pc |-> pc, does |-> call[c].does, turn |-> call[c].turn, thread |-> t,
           agent |-> a, status |-> call[c].status]
  BY <1>1, <1>2 DEF CallOK
<1>4. call' = [call EXCEPT ![c] = r]
  BY <1>1, <1>2
<1> QED BY <1>3, <1>4

(* A request that goes on keeps its kind and its turn.                     *)
LEMMA CallGoes ==
  ASSUME TurnsInv, NEW c \in Calls, NEW pc, NEW t, NEW a, NEW s, NEW r,
         r = [pc |-> pc, does |-> call[c].does, turn |-> call[c].turn, thread |-> t, agent |-> a, status |-> s],
         call' = [call EXCEPT ![c] = r], CallOK(r),
         UNCHANGED <<receipt, messages, outbox, busy>>, ShownOK'
  PROVE  TurnsInv'
<1>1. r.does = call[c].does /\ r.turn = call[c].turn
  OBVIOUS
<1> QED BY <1>1, OneCallMoves

LEMMA MaterializeStep ==
  ASSUME TurnsInv, NEW c \in Calls, NEW u \in Turns, MaterializeTurn(c, u)
  PROVE  TurnsInv'
<1>0. UNCHANGED <<receipt, messages, outbox, busy>> /\ ShownOK'
  BY DEF MaterializeTurn, threadVars, TurnsInv, ShownOK
<1>1. ReceiptOK(u) /\ None \in OrNone /\ Threads \subseteq OrNone
  BY DEF TurnsInv, ReceiptsOK, OrNone
<1>2. PICK shown : shown = session.preferred
  OBVIOUS
<1>3. PICK known : known = [Request("materialize") EXCEPT !.turn = u]
  OBVIOUS
<1>4. known = [pc |-> "idle", does |-> "materialize", turn |-> u, thread |-> None, agent |-> shown, status |-> "none"]
  <2>1. PICK idle : idle = IdleCall
    OBVIOUS
  <2>2. idle = [pc |-> "idle", does |-> "none", turn |-> None, thread |-> None, agent |-> FirstAgent,
                status |-> "none"]
    BY <2>1 DEF IdleCall
  <2>3. PICK asked : asked = [idle EXCEPT !.does = "materialize", !.agent = shown]
    OBVIOUS
  <2>4. asked = [pc |-> "idle", does |-> "materialize", turn |-> None, thread |-> None, agent |-> shown,
                 status |-> "none"]
    BY <2>2, <2>3
  <2>5. known = [asked EXCEPT !.turn = u]
    BY <1>2, <1>3, <2>1, <2>3 DEF Request
  <2> QED BY <2>4, <2>5
<1>5. ~Dispatching(u)
  BY DEF MaterializeTurn
<1>6. CASE receipt[u].status = "accepted"
  <2>1. PICK r : r = [known EXCEPT !.pc = "get"]
    OBVIOUS
  <2>2. r = [pc |-> "get", does |-> "materialize", turn |-> u, thread |-> None, agent |-> shown, status |-> "none"]
    BY <1>4, <2>1
  <2>3. call' = [call EXCEPT ![c] = r]
    BY <1>3, <1>6, <2>1 DEF MaterializeTurn, Begin
  <2>4. CallOK(r) /\ r.turn = u
    BY <1>1, <2>2 DEF CallOK, Finding, Sending
  <2> QED BY <1>0, <1>5, <2>3, <2>4, OneCallMoves
<1>7. CASE receipt[u].status = "dispatching"
  <2>1. PICK t, a : t = receipt[u].thread /\ a = receipt[u].agent
    OBVIOUS
  <2>2. PICK r : r = [known EXCEPT !.pc = "resume", !.thread = t, !.agent = a]
    OBVIOUS
  <2>3. r = [pc |-> "resume", does |-> "materialize", turn |-> u, thread |-> t, agent |-> a, status |-> "none"]
    BY <1>4, <2>2
  <2>4. call' = [call EXCEPT ![c] = r]
    BY <1>3, <1>7, <2>1, <2>2 DEF MaterializeTurn, Begin
  <2>5. t \in Threads
    BY <1>1, <1>7, <2>1 DEF ReceiptOK
  <2>6. CallOK(r) /\ r.turn = u
    BY <1>1, <1>7, <2>1, <2>3, <2>5 DEF CallOK, Finding, Sending
  <2> QED BY <1>0, <1>5, <2>4, <2>6, OneCallMoves
<1>8. CASE receipt[u].status = "none"
  <2>1. PICK r : r = [known EXCEPT !.pc = "find"]
    OBVIOUS
  <2>2. r = [pc |-> "find", does |-> "materialize", turn |-> u, thread |-> None, agent |-> shown, status |-> "none"]
    BY <1>4, <2>1
  <2>3. call' = [call EXCEPT ![c] = r]
    BY <1>3, <1>8, <2>1 DEF MaterializeTurn, Begin
  <2>4. CallOK(r) /\ r.turn = u
    BY <1>1, <1>8, <2>2 DEF CallOK, Finding, Sending
  <2> QED BY <1>0, <1>5, <2>3, <2>4, OneCallMoves
<1> QED BY <1>1, <1>6, <1>7, <1>8 DEF ReceiptOK

(* A request looks for a thread, inserts one or promotes its draft.        *)
LEMMA FindingSteps ==
  ASSUME TurnsInv, ChatAssumption, NEW c \in Calls,
         FindDraft(c) \/ InsertThread(c) \/ PromoteRead(c) \/ PromoteWrite(c) \/ FindFallback(c)
  PROVE  TurnsInv'
<1>0. ShownOK /\ UNCHANGED <<receipt, messages, outbox, busy, snap>>
  BY DEF TurnsInv, FindDraft, InsertThread, PromoteRead, PromoteWrite, FindFallback, threadVars, sessionVars
<1>1. CallOK(call[c]) /\ None \in OrNone /\ Threads \subseteq OrNone
  BY DEF TurnsInv, CallsOK, OrNone
<1>2. CASE FindDraft(c)
  <2>1. PICK reuse \in BOOLEAN : reuse = (call[c].does # "create" /\ Draft(ReusableDraft))
    OBVIOUS
  <2>2. PICK t : t = IF reuse THEN ReusableDraft ELSE None
    OBVIOUS
  <2>3. PICK a : a = IF reuse THEN thread[ReusableDraft].agent ELSE Known(session.agent)
    OBVIOUS
  <2>4. PICK pc : pc = IF ~reuse THEN "insert" ELSE IF call[c].does = "stage" THEN "show" ELSE "promote"
    OBVIOUS
  <2>5. call' = [call EXCEPT ![c].thread = t, ![c].agent = a, ![c].pc = pc]
    BY <1>2, <2>1, <2>2, <2>3, <2>4 DEF FindDraft
  <2>6. PICK r : r = [pc |-> pc, does |-> call[c].does, turn |-> call[c].turn, thread |-> t, agent |-> a,
                     status |-> call[c].status]
    OBVIOUS
  <2>7. call' = [call EXCEPT ![c] = r]
    <3>1. call' = [call EXCEPT ![c] = [pc |-> pc, does |-> call[c].does, turn |-> call[c].turn,
                     thread |-> t, agent |-> a, status |-> call[c].status]]
      BY <2>5, ThreadSet
    <3> QED BY <2>6, <3>1
  <2>8. t \in OrNone /\ (reuse => t \in Threads)
    BY <1>0, <1>1, <2>1, <2>2 DEF Draft, ReusableDraft, ShownOK, OrNone
  <2>9. call[c].pc = "find"
    BY <1>2 DEF FindDraft
  <2>10. CallOK(r)
    <3>1. CASE ~reuse
      BY <1>1, <2>4, <2>6, <2>8, <2>9, <3>1 DEF CallOK, Finding, Sending
    <3>2. CASE reuse /\ call[c].does = "stage"
      BY <1>1, <2>4, <2>6, <2>8, <2>9, <3>2 DEF CallOK, Finding, Sending
    <3>3. CASE reuse /\ call[c].does = "materialize"
      BY <1>1, <2>4, <2>6, <2>8, <2>9, <3>3 DEF CallOK, Finding, Sending
    <3> QED BY <1>1, <2>1, <2>9, <3>1, <3>2, <3>3 DEF CallOK
  <2>11. ShownOK'
    BY <1>0, <1>2 DEF ShownOK, FindDraft
  <2> QED BY <1>0, <2>6, <2>7, <2>10, <2>11, CallGoes
<1>3. CASE InsertThread(c)
  <2>1. PICK pc : pc = IF call[c].does = "materialize" THEN "record" ELSE "show"
    OBVIOUS
  <2>2. PICK t \in Threads : /\ session' = [session EXCEPT !.active = t]
                             /\ call' = [call EXCEPT ![c].thread = t, ![c].pc = pc]
    BY <1>3, <2>1 DEF InsertThread
  <2>3. PICK r : r = [pc |-> pc, does |-> call[c].does, turn |-> call[c].turn, thread |-> t,
                     agent |-> call[c].agent, status |-> call[c].status]
    OBVIOUS
  <2>4. call' = [call EXCEPT ![c] = r]
    <3>1. call = [x \in Calls |-> call[x]]
      BY DEF TurnsInv, CallsOK
    <3>2. PICK q : q = [call[c] EXCEPT !.thread = t, !.pc = pc]
      OBVIOUS
    <3>3. q = [pc |-> pc, does |-> call[c].does, turn |-> call[c].turn, thread |-> t,
               agent |-> call[c].agent, status |-> call[c].status]
      BY <1>1, <3>2 DEF CallOK
    <3>4. call' = [call EXCEPT ![c] = q]
      BY <2>2, <3>1, <3>2
    <3> QED BY <2>3, <3>3, <3>4
  <2>5. call[c].pc = "insert"
    BY <1>3 DEF InsertThread
  <2>6. CallOK(r)
    BY <1>1, <2>1, <2>3, <2>5 DEF CallOK, Finding, Sending
  <2>7. ShownOK'
    BY <1>0, <1>1, <2>2 DEF ShownOK
  <2> QED BY <1>0, <2>3, <2>4, <2>6, <2>7, CallGoes
<1>4. CASE PromoteRead(c) /\ ~Draft(call[c].thread)
  <2>1. Return(c) /\ ShownOK'
    BY <1>0, <1>4 DEF PromoteRead, ShownOK
  <2> QED BY <1>0, <2>1, CallReturns
<1>5. ASSUME NEW pc \in {"promoted", "record"}, Goto(c, pc), call[c].pc \in {"promote", "promoted"}, UNCHANGED session
      PROVE  TurnsInv'
  <2>1. PICK r : r = [pc |-> pc, does |-> call[c].does, turn |-> call[c].turn, thread |-> call[c].thread,
                     agent |-> call[c].agent, status |-> call[c].status]
    OBVIOUS
  <2>2. call' = [call EXCEPT ![c] = r]
    BY <1>5, <2>1, PcSet DEF Goto
  <2>3. CallOK(r)
    BY <1>1, <1>5, <2>1 DEF CallOK, Finding, Sending
  <2>4. ShownOK'
    BY <1>0, <1>5 DEF ShownOK
  <2> QED BY <1>0, <2>1, <2>2, <2>3, <2>4, CallGoes
<1>6. CASE PromoteRead(c) /\ Draft(call[c].thread)
  BY <1>5, <1>6 DEF PromoteRead
<1>7. CASE PromoteWrite(c)
  BY <1>5, <1>7 DEF PromoteWrite
<1>8. CASE FindFallback(c)
  <2>1. call[c].pc = "latest" /\ UNCHANGED session
    BY <1>8 DEF FindFallback
  <2>2. ASSUME NEW pc \in {"show", "touch"}, NEW t \in OrNone, NEW a, NEW r,
               r = [pc |-> pc, does |-> call[c].does, turn |-> call[c].turn, thread |-> t, agent |-> a,
                    status |-> call[c].status],
               call' = [call EXCEPT ![c] = r]
        PROVE  TurnsInv'
    <3>1. CallOK(r)
      BY <1>1, <2>1, <2>2 DEF CallOK, Finding, Sending
    <3>2. ShownOK'
      BY <1>0, <2>1 DEF ShownOK
    <3> QED BY <1>0, <2>2, <3>1, <3>2, CallGoes
  <2>3. CASE \E pc \in {"show", "touch"} : call' = [call EXCEPT ![c].pc = pc, ![c].thread = None]
    <3>1. PICK pc \in {"show", "touch"} : call' = [call EXCEPT ![c].pc = pc, ![c].thread = None]
      BY <2>3
    <3>2. PICK a : a = call[c].agent
      OBVIOUS
    <3>3. PICK r : r = [call[c] EXCEPT !.pc = pc, !.thread = None]
      OBVIOUS
    <3>4. r = [pc |-> pc, does |-> call[c].does, turn |-> call[c].turn, thread |-> None, agent |-> a,
               status |-> call[c].status]
      BY <1>1, <3>2, <3>3 DEF CallOK
    <3>5. call' = [call EXCEPT ![c] = r]
      <4>1. call = [x \in Calls |-> call[x]]
        BY DEF TurnsInv, CallsOK
      <4> QED BY <3>1, <3>3, <4>1
    <3> QED BY <1>1, <2>2, <3>4, <3>5
  <2>4. CASE \E x \in Threads : call' = [call EXCEPT ![c].pc = "touch", ![c].thread = x, ![c].agent = thread[x].agent]
    <3>1. PICK x \in Threads : call' = [call EXCEPT ![c].pc = "touch", ![c].thread = x, ![c].agent = thread[x].agent]
      BY <2>4
    <3>2. PICK a : a = thread[x].agent
      OBVIOUS
    <3>3. PICK r : r = [call[c] EXCEPT !.pc = "touch", !.thread = x, !.agent = a]
      OBVIOUS
    <3>4. r = [pc |-> "touch", does |-> call[c].does, turn |-> call[c].turn, thread |-> x, agent |-> a,
               status |-> call[c].status]
      BY <1>1, <3>3 DEF CallOK
    <3>5. call' = [call EXCEPT ![c] = r]
      <4>1. call = [y \in Calls |-> call[y]]
        BY DEF TurnsInv, CallsOK
      <4> QED BY <3>1, <3>2, <3>3, <4>1
    <3> QED BY <1>1, <2>2, <3>4, <3>5
  <2> QED BY <1>8, <2>3, <2>4 DEF FindFallback
<1> QED BY <1>2, <1>3, <1>4, <1>6, <1>7, <1>8

(* The receipt is written: nothing of the turn has left the object yet.    *)
LEMMA RecordStep ==
  ASSUME TurnsInv, ChatAssumption, NEW c \in Calls, RecordTurn(c)
  PROVE  TurnsInv'
<1> DEFINE u == call[c].turn
           t == call[c].thread
<1>0. /\ CallOK(call[c]) /\ call[c].pc = "record" /\ call = [x \in Calls |-> call[x]]
      /\ UNCHANGED <<session, messages, outbox, busy>>
  BY DEF TurnsInv, CallsOK, RecordTurn, threadVars
<1>1. /\ u \in Turns /\ t \in Threads /\ receipt[u].status = "none"
      /\ call[c].does = "materialize"
  BY <1>0 DEF CallOK, Finding
<1>2. PICK a : a = call[c].agent
  OBVIOUS
<1>3. PICK rec : rec = [status |-> "dispatching", thread |-> t, agent |-> a]
  OBVIOUS
<1>4. receipt' = [receipt EXCEPT ![u] = rec] /\ receipt = [x \in Turns |-> receipt[x]]
  BY <1>2, <1>3 DEF RecordTurn, TurnsInv, ReceiptsOK
<1>5. receipt' = [x \in Turns |-> IF x = u THEN rec ELSE receipt[x]]
  BY <1>4
<1>6. PICK r : r = [pc |-> "send", does |-> call[c].does, turn |-> u, thread |-> t, agent |-> a,
                   status |-> call[c].status]
  OBVIOUS
<1>7. call' = [call EXCEPT ![c] = r]
  BY <1>2, <1>6, PcSet DEF RecordTurn, Goto
<1>8. CallsOK'
  <2>1. call' = [x \in Calls |-> call'[x]]
    BY <1>0, <1>7
  <2>2. ASSUME NEW d \in Calls PROVE CallOK(call[d])'
    <3>1. CASE d = c
      <4>1. call'[d] = r
        BY <1>0, <1>7, <3>1
      <4>2. CallOK(r)'
        <5>1. receipt'[u] = rec
          BY <1>1, <1>5
        <5>2. r.thread \in OrNone
          BY <1>1, <1>6 DEF OrNone
        <5> QED BY <1>1, <1>3, <1>6, <5>1, <5>2 DEF CallOK, Finding, Sending
      <4> QED BY <4>1, <4>2 DEF CallOK
    <3>2. CASE d # c
      <4>1. call'[d] = call[d] /\ CallOK(call[d])
        BY <1>0, <1>7, <3>2 DEF TurnsInv, CallsOK
      <4>2. call[d].does = "materialize" => call[d].turn # u /\ call[d].turn \in Turns
        BY <1>1, <3>2, <4>1 DEF TurnsInv, OneRequest, CallOK
      <4>3. call[d].does = "materialize" => receipt'[call[d].turn] = receipt[call[d].turn]
        BY <1>5, <4>2
      <4> QED BY <1>0, <4>1, <4>3 DEF CallOK
    <3> QED BY <3>1, <3>2
  <2> QED BY <2>1, <2>2 DEF CallsOK
<1>9. OneRequest'
  <2>1. \A d \in Calls : call'[d].does = call[d].does /\ call'[d].turn = call[d].turn
    BY <1>0, <1>6, <1>7
  <2> QED BY <2>1 DEF TurnsInv, OneRequest
<1>10. ReceiptsOK'
  <2>1. ASSUME NEW x \in Turns PROVE ReceiptOK(x)'
    <3>1. receipt'[x] = (IF x = u THEN rec ELSE receipt[x]) /\ ReceiptOK(x)
      BY <1>5 DEF TurnsInv, ReceiptsOK
    <3> QED BY <1>0, <1>1, <1>3, <3>1 DEF ReceiptOK
  <2> QED BY <1>5, <2>1 DEF ReceiptsOK
<1>11. \A x \in Turns, s \in Threads : RecordedFor(x, s) => RecordedFor(x, s)'
  BY <1>1, <1>5 DEF RecordedFor
<1>12. TakenAll' /\ BusyAll' /\ OutboxOK'
  BY <1>0, <1>11 DEF TurnsInv, TakenAll, TakenOK, BusyAll, BusyOK, OutboxOK, SubmissionOK
<1>13. ShownOK'
  <2>1. snap' = [known |-> TRUE, thread |-> t, agent |-> a]
    BY <1>2 DEF RecordTurn
  <2> QED BY <1>0, <1>1, <2>1 DEF TurnsInv, ShownOK, OrNone
<1> QED BY <1>8, <1>9, <1>10, <1>12, <1>13 DEF TurnsInv

(* The receipt says accepted: the turn is in the thread it was sent to.    *)
LEMMA AcceptStep ==
  ASSUME TurnsInv, ChatAssumption, NEW c \in Calls, AcceptTurn(c)
  PROVE  TurnsInv'
<1> DEFINE u == call[c].turn
           t == call[c].thread
<1>0. /\ CallOK(call[c]) /\ call[c].pc = "accepted" /\ call = [x \in Calls |-> call[x]]
      /\ UNCHANGED <<session, snap, messages, outbox, busy>>
  BY DEF TurnsInv, CallsOK, AcceptTurn, threadVars
<1>1. /\ u \in Turns /\ t \in Threads /\ receipt[u].status = "dispatching" /\ receipt[u].thread = t
      /\ messages[t][u] = 1 /\ call[c].does = "materialize"
  BY <1>0 DEF CallOK, Sending
<1>2. PICK a : a = call[c].agent
  OBVIOUS
<1>3. PICK rec : rec = [status |-> "accepted", thread |-> t, agent |-> a]
  OBVIOUS
<1>4. receipt' = [receipt EXCEPT ![u] = rec] /\ receipt = [x \in Turns |-> receipt[x]]
  BY <1>2, <1>3 DEF AcceptTurn, TurnsInv, ReceiptsOK
<1>5. receipt' = [x \in Turns |-> IF x = u THEN rec ELSE receipt[x]]
  BY <1>4
<1>6. PICK idle : idle = IdleCall
  OBVIOUS
<1>7. call' = [x \in Calls |-> IF x = c THEN idle ELSE call[x]] /\ idle.does = "none"
  BY <1>0, <1>6 DEF AcceptTurn, Return, IdleCall
<1>8. CallsOK'
  <2>1. call' = [x \in Calls |-> call'[x]]
    BY <1>7
  <2>2. ASSUME NEW d \in Calls PROVE CallOK(call[d])'
    <3>1. CASE d = c
      <4>1. call'[d] = idle
        BY <1>7, <3>1
      <4>2. CallOK(idle)'
        BY <1>6 DEF CallOK, IdleCall, Sending, Finding, OrNone
      <4> QED BY <4>1, <4>2 DEF CallOK
    <3>2. CASE d # c
      <4>1. call'[d] = call[d] /\ CallOK(call[d])
        BY <1>7, <3>2 DEF TurnsInv, CallsOK
      <4>2. call[d].does = "materialize" => call[d].turn # u /\ call[d].turn \in Turns
        BY <1>1, <3>2, <4>1 DEF TurnsInv, OneRequest, CallOK
      <4>3. call[d].does = "materialize" => receipt'[call[d].turn] = receipt[call[d].turn]
        BY <1>5, <4>2
      <4> QED BY <1>0, <4>1, <4>3 DEF CallOK
    <3> QED BY <3>1, <3>2
  <2> QED BY <2>1, <2>2 DEF CallsOK
<1>9. OneRequest'
  <2>1. \A d \in Calls : call'[d].does = "materialize" => call'[d] = call[d]
    BY <1>7
  <2> QED BY <2>1 DEF TurnsInv, OneRequest
<1>10. ReceiptsOK'
  <2>1. ASSUME NEW x \in Turns PROVE ReceiptOK(x)'
    <3>1. receipt'[x] = (IF x = u THEN rec ELSE receipt[x]) /\ ReceiptOK(x)
      BY <1>5 DEF TurnsInv, ReceiptsOK
    <3> QED BY <1>0, <1>1, <1>3, <3>1 DEF ReceiptOK
  <2> QED BY <1>5, <2>1 DEF ReceiptsOK
<1>11. \A x \in Turns, s \in Threads : RecordedFor(x, s) => RecordedFor(x, s)'
  BY <1>1, <1>3, <1>5 DEF RecordedFor
<1>12. TakenAll' /\ BusyAll' /\ OutboxOK'
  BY <1>0, <1>11 DEF TurnsInv, TakenAll, TakenOK, BusyAll, BusyOK, OutboxOK, SubmissionOK
<1>13. ShownOK'
  BY <1>0 DEF TurnsInv, ShownOK
<1> QED BY <1>8, <1>9, <1>10, <1>12, <1>13 DEF TurnsInv

LEMMA ResumeStep ==
  ASSUME TurnsInv, NEW c \in Calls, ResumeTurn(c)
  PROVE  TurnsInv'
<1>0. /\ CallOK(call[c]) /\ call[c].pc = "resume" /\ call = [x \in Calls |-> call[x]] /\ ShownOK
      /\ UNCHANGED <<session, receipt, messages, outbox, busy>> /\ call[c].thread \in OrNone
  BY DEF TurnsInv, CallsOK, CallOK, ResumeTurn, threadVars
<1>1. ShownOK'
  BY <1>0, BuiltShows DEF ShownOK, ResumeTurn
<1>2. CASE Return(c)
  BY <1>0, <1>1, <1>2, CallReturns
<1>3. CASE call' = [call EXCEPT ![c].pc = "send", ![c].status = "again"]
  <2>1. PICK t, a : t = call[c].thread /\ a = call[c].agent
    OBVIOUS
  <2>2. PICK r : r = [call[c] EXCEPT !.pc = "send", !.status = "again"]
    OBVIOUS
  <2>3. r = [pc |-> "send", does |-> call[c].does, turn |-> call[c].turn, thread |-> t, agent |-> a,
             status |-> "again"]
    BY <1>0, <2>1, <2>2 DEF CallOK
  <2>4. call' = [call EXCEPT ![c] = r]
    BY <1>0, <1>3, <2>2
  <2>5. CallOK(r)
    BY <1>0, <2>1, <2>3 DEF CallOK, Finding, Sending
  <2> QED BY <1>0, <1>1, <2>3, <2>4, <2>5, CallGoes
<1> QED BY <1>2, <1>3 DEF ResumeTurn

(* A submission is sent for a turn that has its receipt.                   *)
LEMMA SubmitStep ==
  ASSUME TurnsInv, NEW c \in Calls, Submit(c)
  PROVE  TurnsInv'
<1>0. /\ CallOK(call[c]) /\ call[c].pc = "send"
      /\ UNCHANGED <<session, snap, receipt, messages, busy>>
  BY DEF TurnsInv, CallsOK, Submit, threadVars
<1>1. PICK r : r = [pc |-> "wait", does |-> call[c].does, turn |-> call[c].turn, thread |-> call[c].thread,
                   agent |-> call[c].agent, status |-> call[c].status]
  OBVIOUS
<1>2. call' = [call EXCEPT ![c] = r]
  BY <1>1, PcSet DEF Submit, Goto
<1>3. CallOK(r) /\ r.does = call[c].does /\ r.turn = call[c].turn
  BY <1>0, <1>1 DEF CallOK, Finding, Sending
<1>4. CallsOK' /\ OneRequest' /\ ReceiptsOK' /\ TakenAll'
  BY <1>0, <1>2, <1>3, CallMoves
<1>5. PICK m : m = [turn |-> call[c].turn, thread |-> call[c].thread, agent |-> call[c].agent,
                   again |-> call[c].status = "again", checked |-> FALSE]
  OBVIOUS
<1>6. SubmissionOK(m)
  BY <1>0, <1>5 DEF CallOK, Sending, SubmissionOK, RecordedFor
<1>7. outbox' = outbox \cup {m}
  BY <1>5 DEF Submit
<1>8. OutboxOK' /\ BusyAll' /\ ShownOK'
  BY <1>0, <1>6, <1>7 DEF TurnsInv, OutboxOK, SubmissionOK, RecordedFor, BusyAll, BusyOK, ShownOK
<1> QED BY <1>4, <1>8 DEF TurnsInv

-----------------------------------------------------------------------------
(* The steps of a thread's object.                                         *)

(* A turn under way ends, or is marked as begun.                           *)
LEMMA BusyEnds ==
  ASSUME ChatAssumption, BusyAll, UNCHANGED messages, busy' = [t \in Threads |-> busy'[t]],
         \A t \in Threads : \/ busy'[t] = busy[t] \/ busy'[t] = Free
                            \/ busy'[t] = [turn |-> busy[t].turn, agent |-> busy[t].agent, begun |-> TRUE]
  PROVE  BusyAll'
<1>1. /\ Free = [turn |-> Free.turn, agent |-> Free.agent, begun |-> Free.begun]
      /\ Free.turn \notin Turns
  BY DEF Free, ChatAssumption
<1>2. ASSUME NEW t \in Threads PROVE BusyOK(t)'
  <2>1. BusyOK(t)
    BY DEF BusyAll
  <2>2. CASE busy'[t] = busy[t]
    BY <2>1, <2>2 DEF BusyOK
  <2>3. CASE busy'[t] = Free
    BY <1>1, <2>3 DEF BusyOK
  <2>4. CASE busy'[t] = [turn |-> busy[t].turn, agent |-> busy[t].agent, begun |-> TRUE]
    BY <2>1, <2>4 DEF BusyOK
  <2> QED BY <2>2, <2>3, <2>4
<1> QED BY <1>2 DEF BusyAll

(* Requests, submissions and turns under way are lost.                     *)
LEMMA TurnsDrop ==
  ASSUME ChatAssumption, TurnsInv, call' = [c \in Calls |-> call'[c]],
         \A c \in Calls : call'[c] = call[c] \/ call'[c] = IdleCall,
         UNCHANGED <<receipt, messages>>, outbox' \subseteq outbox,
         busy' = [t \in Threads |-> busy'[t]],
         \A t \in Threads : \/ busy'[t] = busy[t] \/ busy'[t] = Free
                            \/ busy'[t] = [turn |-> busy[t].turn, agent |-> busy[t].agent, begun |-> TRUE],
         ShownOK'
  PROVE  TurnsInv'
<1>1. BusyAll'
  BY BusyEnds DEF TurnsInv
<1>2. CallsOK'
  <2>1. ASSUME NEW c \in Calls PROVE CallOK(call[c])'
    <3>1. CallOK(call[c])
      BY DEF TurnsInv, CallsOK
    <3>2. CASE call'[c] = call[c]
      BY <3>1, <3>2 DEF CallOK
    <3>3. CASE call'[c] = IdleCall
      BY <3>3 DEF CallOK, IdleCall, Sending, Finding, OrNone
    <3> QED BY <3>2, <3>3
  <2> QED BY <2>1 DEF CallsOK
<1>3. OneRequest'
  <2>1. \A c \in Calls : call'[c].does = "materialize" => call'[c] = call[c]
    BY DEF IdleCall
  <2> QED BY <2>1 DEF TurnsInv, OneRequest
<1>4. ReceiptsOK' /\ TakenAll' /\ OutboxOK'
  BY DEF TurnsInv, ReceiptsOK, ReceiptOK, TakenAll, TakenOK, RecordedFor, OutboxOK, SubmissionOK
<1> QED BY <1>1, <1>2, <1>3, <1>4 DEF TurnsInv

LEMMA AbortStep ==
  ASSUME ChatAssumption, TurnsInv, NEW c \in Calls, AbortResponse(c)
  PROVE  TurnsInv'
<1>0. /\ CallOK(call[c]) /\ call[c].pc = "abort" /\ UNCHANGED <<session, snap, receipt, messages, outbox>>
  BY DEF TurnsInv, CallsOK, AbortResponse
<1>1. PICK r : r = [pc |-> "latest", does |-> call[c].does, turn |-> call[c].turn, thread |-> call[c].thread,
                   agent |-> call[c].agent, status |-> call[c].status]
  OBVIOUS
<1>2. call' = [call EXCEPT ![c] = r]
  BY <1>1, PcSet DEF AbortResponse, Goto
<1>3. CallOK(r) /\ r.does = call[c].does /\ r.turn = call[c].turn
  BY <1>0, <1>1 DEF CallOK, Finding, Sending
<1>4. CallsOK' /\ OneRequest' /\ ReceiptsOK' /\ TakenAll'
  BY <1>0, <1>2, <1>3, CallMoves
<1>5. busy = [t \in Threads |-> busy[t]] /\ BusyAll
  BY DEF TurnsInv, BusyAll
<1>6. UNCHANGED busy \/ busy' = [busy EXCEPT ![call[c].thread] = Free]
  BY DEF AbortResponse
<1>7. /\ busy' = [t \in Threads |-> busy'[t]]
      /\ \A t \in Threads : busy'[t] = busy[t] \/ busy'[t] = Free
  BY <1>5, <1>6
<1>8. BusyAll'
  BY <1>0, <1>5, <1>7, BusyEnds
<1>9. OutboxOK' /\ ShownOK'
  BY <1>0 DEF TurnsInv, OutboxOK, SubmissionOK, RecordedFor, ShownOK
<1> QED BY <1>4, <1>8, <1>9 DEF TurnsInv

LEMMA SessionRestarts ==
  ASSUME ChatAssumption, TurnsInv, SessionRestart
  PROVE  TurnsInv'
<1>1. call' = [c \in Calls |-> IdleCall] /\ UNCHANGED <<session, receipt, messages, outbox, busy>>
  BY DEF SessionRestart, threadVars
<1>2. ShownOK'
  BY <1>1 DEF TurnsInv, ShownOK, SessionRestart, NoSnapshot, OrNone
<1>3. call' = [c \in Calls |-> call'[c]] /\ \A c \in Calls : call'[c] = IdleCall
  BY <1>1
<1>4. busy' = [t \in Threads |-> busy'[t]] /\ outbox' \subseteq outbox
  BY <1>1 DEF TurnsInv, BusyAll
<1> QED BY <1>1, <1>2, <1>3, <1>4, TurnsDrop

LEMMA ThreadRestarts ==
  ASSUME ChatAssumption, TurnsInv, NEW t \in Threads, ThreadRestart(t)
  PROVE  TurnsInv'
<1>1. UNCHANGED <<session, snap, receipt, messages>>
  BY DEF ThreadRestart
<1>2. call' = [c \in Calls |-> call'[c]] /\ \A c \in Calls : call'[c] = call[c] \/ call'[c] = IdleCall
  <2>1. \E waits : call' = [c \in Calls |-> IF c \in waits THEN IdleCall ELSE call[c]]
    <3>1. PICK lost : lost = {m \in outbox : m.thread = t /\ m.checked}
      OBVIOUS
    <3>2. PICK waits : waits = {c \in Calls : call[c].pc = "wait" /\ \E m \in lost : m.turn = call[c].turn}
      OBVIOUS
    <3>3. call' = [c \in Calls |-> IF call[c].pc = "wait" /\ \E m \in lost : m.turn = call[c].turn
                                   THEN IdleCall ELSE call[c]]
      BY <3>1 DEF ThreadRestart
    <3>4. call' = [c \in Calls |-> IF c \in waits THEN IdleCall ELSE call[c]]
      BY <3>2, <3>3
    <3> QED BY <3>4
  <2> QED BY <2>1
<1>3. outbox' \subseteq outbox
  BY DEF ThreadRestart
<1>4. /\ busy' = [x \in Threads |-> busy'[x]]
      /\ \A x \in Threads : busy'[x] = busy[x] \/ busy'[x] = Free
  BY DEF ThreadRestart, TurnsInv, BusyAll
<1>5. ShownOK'
  BY <1>1 DEF TurnsInv, ShownOK
<1> QED BY <1>1, <1>2, <1>3, <1>4, <1>5, TurnsDrop

(* The turn under way begins or ends; nothing else of the turns changes.   *)
LEMMA ChatEnds ==
  ASSUME ChatAssumption, TurnsInv, NEW t \in Threads, UNCHANGED <<session, sessionVars, messages>>,
         UNCHANGED busy \/ EndChat(t) \/ busy' = [busy EXCEPT ![t].begun = TRUE]
  PROVE  TurnsInv'
<1>1. busy = [x \in Threads |-> busy[x]] /\ BusyOK(t) /\ call = [c \in Calls |-> call[c]]
  BY DEF TurnsInv, BusyAll, CallsOK
<1>2. PICK begun : begun = [busy[t] EXCEPT !.begun = TRUE]
  OBVIOUS
<1>3. begun = [turn |-> busy[t].turn, agent |-> busy[t].agent, begun |-> TRUE]
  BY <1>1, <1>2 DEF BusyOK
<1>4. \/ UNCHANGED busy \/ busy' = [busy EXCEPT ![t] = Free] \/ busy' = [busy EXCEPT ![t] = begun]
  BY <1>2 DEF EndChat
<1>5. /\ busy' = [x \in Threads |-> busy'[x]]
      /\ \A x \in Threads : \/ busy'[x] = busy[x] \/ busy'[x] = Free
                            \/ busy'[x] = [turn |-> busy[x].turn, agent |-> busy[x].agent, begun |-> TRUE]
  BY <1>1, <1>3, <1>4
<1>6. UNCHANGED <<call, snap, receipt, outbox>>
  BY DEF sessionVars
<1>7. ShownOK'
  BY <1>6 DEF TurnsInv, ShownOK
<1> QED BY <1>1, <1>5, <1>6, <1>7, TurnsDrop

LEMMA ThreadStepsKeepTurns ==
  ASSUME ChatAssumption, TurnsInv, NEW t \in Threads,
         ThreadSteps(t) \/ ThreadFaults(t) \/ StopResponse(t) \/ \E a \in Agents : TypeMessage(t, a)
  PROVE  TurnsInv'
<1>1. UNCHANGED <<session, sessionVars, messages>>
  BY DEF ThreadSteps, BeginTurn, VerifyClaims, PromoteDraft, StartRun, FinishStream, AbortStream, ThreadFaults,
         StartFails, FailAgentRun, StopResponse,
         TypeMessage
<1>2. UNCHANGED busy \/ EndChat(t) \/ busy' = [busy EXCEPT ![t].begun = TRUE]
  BY DEF ThreadSteps, BeginTurn, VerifyClaims, PromoteDraft, StartRun, FinishStream, AbortStream, ThreadFaults,
         StartFails, FailAgentRun, StopResponse,
         TypeMessage
<1> QED BY <1>1, <1>2, ChatEnds

(* The steps of runs and of the simple chat touch no turn; the simple chat *)
(* makes its thread the session's.                                         *)
LEMMA RunStepsKeepTurns ==
  ASSUME ChatAssumption, TurnsInv, RunsInv,
         \/ \E r \in Runs : RunSteps(r) \/ CompleteFails(r)
         \/ \E q \in Streams : \/ StreamSteps(q) \/ SimpleCreate(q) \/ StreamFaults(q) \/ StreamLost(q)
                               \/ \E t \in Threads : SimpleAsk(q, t)
  PROVE  TurnsInv'
<1>1. UNCHANGED <<sessionVars, messages, busy>>
  BY DEF RunSteps, CompleteRun, StoreOutput, CompleteFails, StreamSteps, SimpleTouch, SimplePolicy, SimpleClaim,
         SimpleComplete, SimpleOutput, SimpleCreate, StreamFaults, SimpleClaimFails, SimpleStore,
         SimpleStoreFails, SimpleFail, StreamLost, SimpleAsk, threadVars
<1>2. UNCHANGED session \/ \E q \in Streams : session' = [session EXCEPT !.active = stream[q].thread]
  BY DEF RunSteps, CompleteRun, StoreOutput, CompleteFails, StreamSteps, SimpleTouch, SimplePolicy, SimpleClaim,
         SimpleComplete, SimpleOutput, SimpleCreate, StreamFaults, SimpleClaimFails, SimpleStore,
         SimpleStoreFails, SimpleFail, StreamLost, SimpleAsk
<1>3. \A q \in Streams : stream[q].thread \in OrNone
  BY DEF RunsInv, StreamsOK, StreamOK
<1>4. ShownOK'
  BY <1>1, <1>2, <1>3 DEF TurnsInv, ShownOK, sessionVars
<1> QED BY <1>1, <1>4, TurnsUntouched DEF sessionVars

-----------------------------------------------------------------------------
(* The thread answers.                                                     *)

(* Whoever waits for the turn hears the answer; "ok" is said of a turn     *)
(* that is in the thread.                                                  *)
LEMMA AnswerHeard ==
  ASSUME TurnsInv, NEW m \in outbox, NEW heard, Answer(m, heard), UNCHANGED receipt,
         \A x \in Threads, u \in Turns : messages[x][u] = 1 => messages'[x][u] = 1,
         heard = "ok" => messages'[m.thread][m.turn] = 1
  PROVE  CallsOK' /\ OneRequest'
<1>1. SubmissionOK(m) /\ call = [c \in Calls |-> call[c]]
  BY DEF TurnsInv, OutboxOK, CallsOK
<1>2. ASSUME NEW c \in Calls
      PROVE  /\ CallOK(call[c])'
             /\ call'[c].does = "materialize" => call[c].does = "materialize" /\ call'[c].turn = call[c].turn
  <2>0. CallOK(call[c])
    BY DEF TurnsInv, CallsOK
  <2>1. CASE ~(call[c].pc = "wait" /\ call[c].turn = m.turn)
    <3>1. call'[c] = call[c]
      BY <2>1 DEF Answer
    <3>2. call[c].pc = "accepted" => call[c].thread \in Threads /\ call[c].turn \in Turns
      BY <2>0 DEF CallOK, Sending
    <3> QED BY <2>0, <3>1, <3>2 DEF CallOK
  <2>2. CASE call[c].pc = "wait" /\ call[c].turn = m.turn /\ heard = "ok"
    <3>1. PICK r : r = [call[c] EXCEPT !.pc = "accepted"]
      OBVIOUS
    <3>2. r = [pc |-> "accepted", does |-> call[c].does, turn |-> call[c].turn, thread |-> call[c].thread,
               agent |-> call[c].agent, status |-> call[c].status]
      BY <2>0, <3>1 DEF CallOK
    <3>3. call'[c] = r
      BY <2>2, <3>1 DEF Answer
    <3>4. call[c].thread = m.thread
      BY <1>1, <2>0, <2>2 DEF CallOK, Sending, SubmissionOK, RecordedFor
    <3>5. messages'[r.thread][r.turn] = 1
      BY <2>2, <3>2, <3>4
    <3>6. CallOK(r)'
      BY <2>0, <2>2, <3>2, <3>5 DEF CallOK, Finding, Sending
    <3>7. r.turn = call[c].turn /\ r.does = call[c].does
      BY <3>2
    <3>8. CallOK(call[c])'
      BY <3>3, <3>6 DEF CallOK
    <3> QED BY <3>3, <3>7, <3>8
  <2>3. CASE call[c].pc = "wait" /\ call[c].turn = m.turn /\ heard # "ok"
    <3>1. call'[c] = IdleCall
      BY <2>3 DEF Answer
    <3> QED BY <3>1 DEF CallOK, IdleCall, Sending, Finding, OrNone
  <2> QED BY <2>1, <2>2, <2>3
<1>3. call' = [c \in Calls |-> call'[c]]
  BY DEF Answer
<1> QED BY <1>2, <1>3 DEF CallsOK, OneRequest, TurnsInv

LEMMA VerifySubmitStep ==
  ASSUME ChatAssumption, TurnsInv, NEW m \in outbox, VerifySubmit(m)
  PROVE  TurnsInv'
<1>0. UNCHANGED <<session, snap, receipt, messages, busy>> /\ SubmissionOK(m)
  BY DEF VerifySubmit, threadVars, TurnsInv, OutboxOK
<1>1. ReceiptsOK' /\ TakenAll' /\ BusyAll' /\ ShownOK'
  BY <1>0 DEF TurnsInv, ReceiptsOK, ReceiptOK, TakenAll, TakenOK, RecordedFor, BusyAll, BusyOK, ShownOK
<1>2. CASE Answer(m, "error")
  <2>1. CallsOK' /\ OneRequest'
    BY <1>0, <1>2, AnswerHeard
  <2>2. OutboxOK'
    BY <1>0, <1>2 DEF Answer, TurnsInv, OutboxOK, SubmissionOK, RecordedFor
  <2> QED BY <1>1, <2>1, <2>2 DEF TurnsInv
<1>3. CASE outbox' = (outbox \ {m}) \cup {[m EXCEPT !.checked = TRUE]} /\ UNCHANGED call
  <2>1. PICK n : n = [m EXCEPT !.checked = TRUE]
    OBVIOUS
  <2>2. n = [turn |-> m.turn, thread |-> m.thread, agent |-> m.agent, again |-> m.again, checked |-> TRUE]
    BY <1>0, <2>1 DEF SubmissionOK
  <2>3. SubmissionOK(n)
    BY <1>0, <2>2 DEF SubmissionOK
  <2>4. outbox' = (outbox \ {m}) \cup {n}
    BY <1>3, <2>1
  <2>5. OutboxOK'
    BY <1>0, <2>3, <2>4 DEF TurnsInv, OutboxOK, SubmissionOK, RecordedFor
  <2>6. CallsOK' /\ OneRequest'
    BY <1>0, <1>3 DEF TurnsInv, CallsOK, CallOK, OneRequest
  <2> QED BY <1>1, <2>5, <2>6 DEF TurnsInv
<1> QED BY <1>2, <1>3 DEF VerifySubmit

LEMMA TakeTurnStep ==
  ASSUME ChatAssumption, TurnsInv, NEW m \in outbox, TakeTurn(m)
  PROVE  TurnsInv'
<1> DEFINE t == m.thread
           u == m.turn
<1>0. /\ UNCHANGED <<session, snap, receipt>> /\ SubmissionOK(m)
      /\ messages \in [Threads -> [Turns -> Nat]] /\ busy = [x \in Threads |-> busy[x]]
      /\ \A x \in Threads, y \in Turns : TakenOK(x, y)
      /\ \A x \in Threads : BusyOK(x)
  BY DEF TakeTurn, TurnsInv, OutboxOK, TakenAll, BusyAll
<1>1. t \in Threads /\ u \in Turns /\ RecordedFor(u, t)
  BY <1>0 DEF SubmissionOK
<1>2. ShownOK'
  BY <1>0 DEF TurnsInv, ShownOK
<1>3. OutboxOK'
  <2>1. outbox' \subseteq outbox
    BY DEF TakeTurn, Answer
  <2> QED BY <1>0, <2>1 DEF TurnsInv, OutboxOK, SubmissionOK, RecordedFor
<1>4. ASSUME UNCHANGED <<messages, busy>>, NEW heard, Answer(m, heard), heard = "ok" => messages[t][u] = 1
      PROVE  TurnsInv'
  <2>1. CallsOK' /\ OneRequest'
    BY <1>0, <1>4, AnswerHeard
  <2>2. ReceiptsOK' /\ TakenAll' /\ BusyAll'
    BY <1>0, <1>4 DEF TurnsInv, ReceiptsOK, ReceiptOK, TakenAll, TakenOK, RecordedFor, BusyAll, BusyOK
  <2> QED BY <1>2, <1>3, <2>1, <2>2 DEF TurnsInv
<1>5. CASE AlreadyTaken(m)
  <2>1. messages[t][u] \in Nat /\ TakenOK(t, u) /\ BusyOK(t)
    BY <1>0, <1>1
  <2>2. messages[t][u] > 0
    BY <1>1, <1>5, <2>1 DEF AlreadyTaken, BusyOK
  <2>3. messages[t][u] = 1
    BY <2>1, <2>2 DEF TakenOK
  <2>4. Answer(m, "ok") /\ UNCHANGED <<messages, busy>>
    BY <1>5 DEF TakeTurn
  <2> QED BY <1>4, <2>3, <2>4
<1>6. CASE ~AlreadyTaken(m) /\ busy[m.thread] # Free
  BY <1>4, <1>6 DEF TakeTurn
<1>7. CASE ~AlreadyTaken(m) /\ busy[m.thread] = Free
  <2>1. PICK b : b = [turn |-> m.turn, agent |-> m.agent, begun |-> FALSE]
    OBVIOUS
  <2>2. /\ messages' = [messages EXCEPT ![t][u] = messages[t][u] + 1]
        /\ busy' = [busy EXCEPT ![t] = b] /\ Answer(m, "ok")
    BY <1>7, <2>1 DEF TakeTurn
  <2>3. messages[t][u] = 0
    BY <1>0, <1>1, <1>7 DEF AlreadyTaken
  <2>4. /\ messages' \in [Threads -> [Turns -> Nat]]
        /\ \A x \in Threads, y \in Turns : messages'[x][y] = IF x = t /\ y = u THEN 1 ELSE messages[x][y]
    BY <1>0, <1>1, <2>2, <2>3
  <2>5. CallsOK' /\ OneRequest'
    <3>1. \A x \in Threads, y \in Turns : messages[x][y] = 1 => messages'[x][y] = 1
      BY <2>4
    <3>2. messages'[m.thread][m.turn] = 1
      BY <1>1, <2>4
    <3> QED BY <1>0, <2>2, <3>1, <3>2, AnswerHeard
  <2>6. TakenAll'
    <3>1. ASSUME NEW x \in Threads, NEW y \in Turns PROVE TakenOK(x, y)'
      BY <1>0, <1>1, <2>4 DEF TakenOK, RecordedFor
    <3> QED BY <2>4, <3>1 DEF TakenAll
  <2>7. ReceiptsOK'
    <3>1. ASSUME NEW y \in Turns PROVE ReceiptOK(y)'
      BY <1>0, <2>4 DEF ReceiptOK, TurnsInv, ReceiptsOK
    <3> QED BY <1>0, <3>1 DEF TurnsInv, ReceiptsOK
  <2>8. BusyAll'
    <3>1. busy' = [x \in Threads |-> IF x = t THEN b ELSE busy[x]]
      BY <1>0, <2>2
    <3>2. ASSUME NEW x \in Threads PROVE BusyOK(x)'
      <4>1. CASE x = t
        <5>1. busy'[x] = b
          BY <3>1, <4>1
        <5>2. b = [turn |-> b.turn, agent |-> b.agent, begun |-> b.begun] /\ b.turn = u
          BY <2>1
        <5>3. messages'[x][u] = 1
          BY <1>1, <2>4, <4>1
        <5> QED BY <5>1, <5>2, <5>3 DEF BusyOK
      <4>2. CASE x # t
        <5>1. busy'[x] = busy[x] /\ BusyOK(x)
          BY <1>0, <3>1, <4>2
        <5>2. busy[x].turn \in Turns => messages'[x][busy[x].turn] = messages[x][busy[x].turn]
          BY <2>4, <4>2
        <5> QED BY <5>1, <5>2 DEF BusyOK
      <4> QED BY <4>1, <4>2
    <3>3. busy' = [x \in Threads |-> busy'[x]]
      BY <3>1
    <3> QED BY <3>2, <3>3 DEF BusyAll
  <2> QED BY <1>2, <1>3, <2>5, <2>6, <2>7, <2>8 DEF TurnsInv
<1> QED BY <1>5, <1>6, <1>7

-----------------------------------------------------------------------------
(* Runs.                                                                   *)

Settled == {"completed", "failed", "cancelled"}

\* What a step may do to the runs.
RunsKept ==
  RunsShape' /\ \A r \in Runs : run[r].status \in Settled => run'[r].status = run[r].status

LEMMA RunsUnchanged ==
  ASSUME RunsShape, UNCHANGED run
  PROVE  RunsKept
BY DEF RunsShape, RunsKept

LEMMA SettlesKeeps ==
  ASSUME RunsShape, NEW r \in Runs, NEW status, Settles(r, status)
  PROVE  RunsKept
<1>1. CASE run[r].status # "running"
  BY <1>1, RunsUnchanged DEF Settles
<1>2. CASE run[r].status = "running"
  <2>1. PICK q : q = [run[r] EXCEPT !.status = status]
    OBVIOUS
  <2>2. q = [status |-> status, thread |-> run[r].thread, left |-> run[r].left]
    BY <2>1 DEF RunsShape
  <2>3. run' = [run EXCEPT ![r] = q]
    BY <1>2, <2>1 DEF Settles
  <2>4. q = [status |-> q.status, thread |-> q.thread, left |-> q.left]
    BY <2>2
  <2>5. run' = [x \in Runs |-> IF x = r THEN q ELSE run[x]]
    BY <2>3 DEF RunsShape
  <2>6. RunsShape'
    BY <2>4, <2>5 DEF RunsShape
  <2>7. \A x \in Runs : run[x].status \in Settled => run'[x].status = run[x].status
    BY <1>2, <2>5 DEF Settled
  <2> QED BY <2>6, <2>7 DEF RunsKept
<1> QED BY <1>1, <1>2

LEMMA LeaveKeeps ==
  ASSUME RunsShape, NEW r \in Runs, Leave(r)
  PROVE  RunsKept
<1>1. PICK left : left = (run[r].status = "running")
  OBVIOUS
<1>2. PICK q : q = [run[r] EXCEPT !.left = left]
  OBVIOUS
<1>3. q = [status |-> run[r].status, thread |-> run[r].thread, left |-> left]
  BY <1>2 DEF RunsShape
<1>4. run' = [run EXCEPT ![r] = q]
  BY <1>1, <1>2 DEF Leave
<1>5. q = [status |-> q.status, thread |-> q.thread, left |-> q.left] /\ q.status = run[r].status
  BY <1>3
<1>6. run' = [x \in Runs |-> IF x = r THEN q ELSE run[x]]
  BY <1>4 DEF RunsShape
<1>7. RunsShape'
  BY <1>5, <1>6 DEF RunsShape
<1>8. \A x \in Runs : run[x].status \in Settled => run'[x].status = run[x].status
  BY <1>5, <1>6
<1> QED BY <1>7, <1>8 DEF RunsKept

LEMMA ClaimsKeeps ==
  ASSUME RunsShape, NEW r \in Runs, NEW t, NEW unheard, Claims(r, t, unheard)
  PROVE  RunsKept
<1>1. PICK q : q = [status |-> "running", thread |-> t, left |-> unheard]
  OBVIOUS
<1>2. run' = [x \in Runs |-> IF x = r THEN q ELSE run[x]]
  BY <1>1 DEF Claims, RunsShape
<1>3. q = [status |-> q.status, thread |-> q.thread, left |-> q.left]
  BY <1>1
<1>4. RunsShape'
  BY <1>2, <1>3 DEF RunsShape
<1>5. \A x \in Runs : run[x].status \in Settled => run'[x].status = run[x].status
  BY <1>2 DEF Settled, Claims
<1> QED BY <1>4, <1>5 DEF RunsKept

LEMMA PersistKeeps ==
  ASSUME RunsShape, NEW c \in Calls, PersistThread(c)
  PROVE  RunsKept
<1>1. PICK hit : hit = {r \in Runs : Ends(c) /\ run[r].status = "running" /\ run[r].thread = call[c].thread}
  OBVIOUS
<1>2. run' = [r \in Runs |-> IF r \in hit THEN [run[r] EXCEPT !.status = "cancelled"] ELSE run[r]]
  BY <1>1 DEF PersistThread
<1>3. ASSUME NEW r \in Runs
      PROVE  /\ run'[r] = [status |-> run'[r].status, thread |-> run'[r].thread, left |-> run'[r].left]
             /\ run[r].status \in Settled => run'[r].status = run[r].status
  <2>1. CASE r \in hit
    <3>1. PICK q : q = [run[r] EXCEPT !.status = "cancelled"]
      OBVIOUS
    <3>2. q = [status |-> "cancelled", thread |-> run[r].thread, left |-> run[r].left]
      BY <3>1 DEF RunsShape
    <3>3. q = [status |-> q.status, thread |-> q.thread, left |-> q.left]
      BY <3>2
    <3>4. run'[r] = q /\ run[r].status = "running"
      BY <1>1, <1>2, <2>1, <3>1
    <3> QED BY <3>3, <3>4 DEF Settled
  <2>2. CASE r \notin hit
    BY <1>2, <2>2 DEF RunsShape
  <2> QED BY <2>1, <2>2
<1>4. run' = [r \in Runs |-> run'[r]]
  BY <1>2
<1>5. RunsShape'
  BY <1>3, <1>4 DEF RunsShape
<1> QED BY <1>3, <1>5 DEF RunsKept

(* A run under its thread or its stream that is not one of the rows leaves *)
(* the rows as they are.                                                   *)
LEMMA NoRun ==
  ASSUME RunsShape, NEW r, r \notin Runs,
         \/ Leave(r)
         \/ \E s : run' = [run EXCEPT ![r].status = s]
  PROVE  UNCHANGED run
BY DEF RunsShape, Leave

LEMMA RunsNext ==
  ASSUME RunsInv, ChatNext
  PROVE  RunsKept
<1>0. RunsShape
  BY DEF RunsInv
<1>1. CASE SessionNext
  <2>1. UNCHANGED run \/ \E c \in Calls : PersistThread(c)
    BY <1>1 DEF SessionNext, GetSession, CreateThread, StageThread, Load, FindDraft, DropDraft, InsertThread,
       PromoteRead, PromoteWrite, RecordTurn, ResumeTurn, Submit, AcceptTurn, AbortResponse, FindFallback,
       TouchSession, ShowThread, CheckRunning, Handoff, CallFails, MaterializeTurn, UpdateThread, ActivateThread,
       SwitchAgent, SwitchForNewThread, SessionRestart
  <2> QED BY <1>0, <2>1, PersistKeeps, RunsUnchanged
<1>2. CASE \E m \in outbox : VerifySubmit(m) \/ TakeTurn(m)
  BY <1>0, <1>2, RunsUnchanged DEF VerifySubmit, TakeTurn
<1>3. ASSUME NEW r, NEW s, Settles(r, s) PROVE RunsKept
  BY <1>0, <1>3, SettlesKeeps, NoRun, RunsUnchanged DEF Settles
<1>4. ASSUME NEW r, Leave(r) PROVE RunsKept
  BY <1>0, <1>4, LeaveKeeps, NoRun, RunsUnchanged
<1>5. CASE \E t \in Threads :
             \/ ThreadSteps(t) \/ ThreadFaults(t) \/ StopResponse(t) \/ ThreadRestart(t)
             \/ \E a \in Agents : TypeMessage(t, a)
  <2>1. PICK t \in Threads :
             \/ ThreadSteps(t) \/ ThreadFaults(t) \/ StopResponse(t) \/ ThreadRestart(t)
             \/ \E a \in Agents : TypeMessage(t, a)
    BY <1>5
  <2>2. \/ UNCHANGED run \/ Leave(chat[t].run) \/ Settles(chat[t].run, "failed")
        \/ \E r \in Runs, unheard \in BOOLEAN : Claims(r, t, unheard)
    BY <2>1 DEF ThreadSteps, BeginTurn, VerifyClaims, PromoteDraft, StartRun, FinishStream, AbortStream,
       ThreadFaults, StartFails, FailAgentRun, StopResponse, ThreadRestart, TypeMessage
  <2> QED BY <1>0, <1>3, <1>4, <2>2, ClaimsKeeps, RunsUnchanged
<1>6. CASE \E r \in Runs : RunSteps(r) \/ CompleteFails(r)
  <2>1. PICK r \in Runs : RunSteps(r) \/ CompleteFails(r)
    BY <1>6
  <2>2. UNCHANGED run \/ Leave(r) \/ Settles(r, "completed")
    BY <2>1 DEF RunSteps, CompleteRun, StoreOutput, CompleteFails
  <2> QED BY <1>0, <1>3, <1>4, <2>2, RunsUnchanged
<1>7. CASE \E q \in Streams : \/ StreamSteps(q) \/ SimpleCreate(q) \/ StreamFaults(q) \/ StreamLost(q)
                              \/ \E t \in Threads : SimpleAsk(q, t)
  <2>1. PICK q \in Streams : \/ StreamSteps(q) \/ SimpleCreate(q) \/ StreamFaults(q) \/ StreamLost(q)
                             \/ \E t \in Threads : SimpleAsk(q, t)
    BY <1>7
  <2>2. \/ UNCHANGED run \/ Settles(stream[q].run, "failed") \/ Settles(stream[q].run, "completed")
        \/ Leave(stream[q].run)
        \/ \E r \in Runs, unheard \in BOOLEAN : Claims(r, stream[q].thread, unheard)
    BY <2>1 DEF StreamSteps, SimpleTouch, SimplePolicy, SimpleClaim, SimpleComplete, SimpleOutput, SimpleCreate,
       StreamFaults, SimpleClaimFails, SimpleStore, SimpleStoreFails, SimpleFail, StreamLost, SimpleAsk
  <2> QED BY <1>0, <1>3, <1>4, <2>2, ClaimsKeeps, RunsUnchanged
<1> QED BY <1>1, <1>2, <1>5, <1>6, <1>7 DEF ChatNext

(* A request of the simple chat that stays where it is keeps its run.      *)
LEMMA StreamKept ==
  ASSUME RunsKept, NEW s, StreamOK(s)
  PROVE  StreamOK(s)'
BY DEF RunsKept, StreamOK, Settled

\* Steps outside the simple chat, and outside the callbacks.
LEMMA StreamsKept ==
  ASSUME RunsInv, RunsKept, UNCHANGED stream
  PROVE  StreamsOK'
BY StreamKept DEF RunsInv, StreamsOK

LEMMA EndingKept ==
  ASSUME RunsInv, RunsKept, ending' = [r \in Runs |-> ending'[r]],
         \A r \in Runs : ending'[r] = "store" => ending[r] = "store"
  PROVE  EndingOK'
BY DEF RunsInv, RunsKept, EndingOK, Settled

LEMMA StreamsStep ==
  ASSUME RunsInv, RunsKept, NEW q \in Streams, NEW s, stream' = [stream EXCEPT ![q] = s], StreamOK(s)'
  PROVE  StreamsOK'
<1>1. stream' = [x \in Streams |-> stream'[x]]
  BY DEF RunsInv, StreamsOK
<1>2. ASSUME NEW x \in Streams PROVE StreamOK(stream[x])'
  <2>1. CASE x = q
    <3>1. stream'[x] = s
      BY <2>1 DEF RunsInv, StreamsOK
    <3> QED BY <3>1 DEF StreamOK
  <2>2. CASE x # q
    <3>1. stream'[x] = stream[x] /\ StreamOK(stream[x])
      BY <2>2 DEF RunsInv, StreamsOK
    <3>2. StreamOK(stream[x])'
      BY <3>1, StreamKept DEF StreamOK, RunsKept, Settled
    <3> QED BY <3>2
  <2> QED BY <2>1, <2>2
<1> QED BY <1>1, <1>2 DEF StreamsOK

LEMMA StreamEndsKeeps ==
  ASSUME ChatAssumption, RunsInv, RunsKept, NEW q \in Streams, StreamEnds(q)
  PROVE  StreamsOK'
<1>1. PICK s : s = IdleStream
  OBVIOUS
<1>2. StreamOK(s)'
  BY <1>1 DEF StreamOK, IdleStream, OrNone
<1> QED BY <1>1, <1>2, StreamsStep DEF StreamEnds

(* A step of the simple chat to pc, with the run it has or a new one.      *)
LEMMA StreamGoes ==
  ASSUME RunsInv, RunsKept, NEW q \in Streams, NEW pc, NEW r,
         stream' = [stream EXCEPT ![q] = [pc |-> pc, thread |-> stream[q].thread, run |-> r]],
         pc \in {"claimed", "provider", "output"} => r \in Runs,
         pc = "output" => run'[r].status = "completed"
  PROVE  StreamsOK'
<1>1. PICK t \in OrNone : t = stream[q].thread
  BY DEF RunsInv, StreamsOK, StreamOK
<1>2. PICK s : s = [pc |-> pc, thread |-> t, run |-> r]
  OBVIOUS
<1>3. s = [pc |-> s.pc, thread |-> s.thread, run |-> s.run] /\ s.pc = pc /\ s.thread = t /\ s.run = r
  BY <1>2
<1>4. StreamOK(s)'
  BY <1>3 DEF StreamOK
<1> QED BY <1>1, <1>2, <1>4, StreamsStep

LEMMA StreamPcSet ==
  ASSUME RunsInv, NEW q \in Streams, NEW pc, StreamGoto(q, pc)
  PROVE  stream' = [stream EXCEPT ![q] = [pc |-> pc, thread |-> stream[q].thread, run |-> stream[q].run]]
<1>1. PICK s : s = [stream[q] EXCEPT !.pc = pc]
  OBVIOUS
<1>2. s = [pc |-> pc, thread |-> stream[q].thread, run |-> stream[q].run]
  BY <1>1 DEF RunsInv, StreamsOK, StreamOK
<1>3. stream' = [stream EXCEPT ![q] = s]
  BY <1>1 DEF StreamGoto
<1> QED BY <1>2, <1>3

LEMMA SimpleBegins ==
  ASSUME ChatAssumption, RunsInv, RunsKept, NEW q \in Streams, NEW t \in Threads, NEW pc \in {"created", "asked"},
         stream' = [stream EXCEPT ![q] = [IdleStream EXCEPT !.pc = pc, !.thread = t]]
  PROVE  StreamsOK'
<1>1. PICK idle : idle = IdleStream
  OBVIOUS
<1>2. idle = [pc |-> "idle", thread |-> None, run |-> None]
  BY <1>1 DEF IdleStream
<1>3. PICK s : s = [idle EXCEPT !.pc = pc, !.thread = t]
  OBVIOUS
<1>4. s = [pc |-> pc, thread |-> t, run |-> None]
  BY <1>2, <1>3
<1>5. s = [pc |-> s.pc, thread |-> s.thread, run |-> s.run] /\ s.pc = pc /\ s.thread = t
  BY <1>4
<1>6. StreamOK(s)'
  BY <1>5 DEF StreamOK, OrNone
<1>7. stream' = [stream EXCEPT ![q] = s]
  BY <1>1, <1>3
<1> QED BY <1>6, <1>7, StreamsStep

(* The simple chat.                                                        *)
LEMMA SimpleStep ==
  ASSUME ChatAssumption, RunsInv, RunsKept, NEW q \in Streams,
         \/ StreamSteps(q) \/ SimpleCreate(q) \/ StreamFaults(q) \/ StreamLost(q)
         \/ \E t \in Threads : SimpleAsk(q, t)
  PROVE  StreamsOK'
<1>0. StreamOK(stream[q])
  BY DEF RunsInv, StreamsOK
<1>1. CASE SimpleTouch(q) \/ SimplePolicy(q)
  <2>1. CASE StreamEnds(q)
    BY <2>1, StreamEndsKeeps
  <2>2. CASE StreamGoto(q, "policy") \/ StreamGoto(q, "claim")
    BY <2>2, StreamPcSet, StreamGoes
  <2> QED BY <1>1, <2>1, <2>2 DEF SimpleTouch, SimplePolicy
<1>2. CASE SimpleClaim(q)
  <2>1. CASE StreamEnds(q)
    BY <2>1, StreamEndsKeeps
  <2>2. CASE \E r \in Runs : stream' = [stream EXCEPT ![q].pc = "claimed", ![q].run = r]
    <3>1. PICK r \in Runs : stream' = [stream EXCEPT ![q].pc = "claimed", ![q].run = r]
      BY <2>2
    <3>2. PICK s : s = [stream[q] EXCEPT !.pc = "claimed", !.run = r]
      OBVIOUS
    <3>3. s = [pc |-> "claimed", thread |-> stream[q].thread, run |-> r]
      BY <1>0, <3>2 DEF StreamOK
    <3>4. stream' = [stream EXCEPT ![q] = s]
      <4>1. stream = [x \in Streams |-> stream[x]]
        BY DEF RunsInv, StreamsOK
      <4> QED BY <3>1, <3>2, <4>1
    <3>5. stream' = [stream EXCEPT ![q] = [pc |-> "claimed", thread |-> stream[q].thread, run |-> r]]
      BY <3>3, <3>4
    <3> QED BY <3>5, StreamGoes
  <2> QED BY <1>2, <2>1, <2>2 DEF SimpleClaim
<1>3. CASE SimpleComplete(q)
  <2>1. CASE run[stream[q].run].status = "running"
    <3>1. StreamGoto(q, "output")
      BY <1>3, <2>1 DEF SimpleComplete
    <3>2. stream[q].run \in Runs
      BY <1>0, <1>3 DEF SimpleComplete, StreamOK
    <3>3. run'[stream[q].run].status = "completed"
      <4>1. PICK r \in Runs : r = stream[q].run
        BY <3>2
      <4>2. PICK n : n = [run[r] EXCEPT !.status = "completed"]
        OBVIOUS
      <4>3. n = [status |-> "completed", thread |-> run[r].thread, left |-> run[r].left]
        BY <4>2 DEF RunsInv, RunsShape
      <4>4. run' = [run EXCEPT ![r] = n]
        BY <1>3, <2>1, <4>1, <4>2 DEF SimpleComplete, Settles
      <4>5. run'[r] = n
        BY <4>4 DEF RunsInv, RunsShape
      <4> QED BY <4>1, <4>3, <4>5
    <3> QED BY <3>1, <3>2, <3>3, StreamPcSet, StreamGoes
  <2>2. CASE run[stream[q].run].status # "running"
    BY <1>3, <2>2, StreamEndsKeeps DEF SimpleComplete
  <2> QED BY <2>1, <2>2
<1>4. CASE SimpleOutput(q) \/ StreamFaults(q) \/ StreamLost(q)
  BY <1>4, StreamEndsKeeps DEF SimpleOutput, StreamFaults, SimpleClaimFails, SimpleStoreFails, SimpleFail, StreamLost
<1>5. CASE SimpleCreate(q)
  <2>1. PICK t \in Threads : stream' = [stream EXCEPT ![q] = [IdleStream EXCEPT !.pc = "created", !.thread = t]]
    BY <1>5 DEF SimpleCreate
  <2> QED BY <2>1, SimpleBegins
<1>6. CASE \E t \in Threads : SimpleAsk(q, t)
  <2>1. PICK t \in Threads : stream' = [stream EXCEPT ![q] = [IdleStream EXCEPT !.pc = "asked", !.thread = t]]
    BY <1>6 DEF SimpleAsk
  <2> QED BY <2>1, SimpleBegins
<1>7. CASE SimpleStore(q)
  <2>1. stream[q].run \in Runs /\ StreamGoto(q, "provider")
    BY <1>0, <1>7 DEF SimpleStore, StreamOK
  <2> QED BY <2>1, StreamPcSet, StreamGoes
<1> QED BY <1>1, <1>2, <1>3, <1>4, <1>5, <1>6, <1>7 DEF StreamSteps

(* The callbacks of a thread's object.                                     *)
LEMMA EndingStep ==
  ASSUME RunsInv, RunsKept, NEW r \in Runs, RunSteps(r) \/ CompleteFails(r)
  PROVE  EndingOK'
<1>0. ending = [x \in Runs |-> ending[x]]
  BY DEF RunsInv, EndingOK
<1>1. CASE StoreOutput(r) \/ CompleteFails(r)
  <2>1. ending' = [ending EXCEPT ![r] = "none"]
    BY <1>1 DEF StoreOutput, CompleteFails
  <2> QED BY <1>0, <2>1, EndingKept
<1>2. CASE CompleteRun(r) /\ run[r].status # "running"
  <2>1. ending' = [ending EXCEPT ![r] = "none"]
    BY <1>2 DEF CompleteRun
  <2> QED BY <1>0, <2>1, EndingKept
<1>3. CASE CompleteRun(r) /\ run[r].status = "running"
  <2>1. ending' = [x \in Runs |-> IF x = r THEN "store" ELSE ending[x]]
    BY <1>0, <1>3 DEF CompleteRun
  <2>2. run'[r].status = "completed"
    <3>1. PICK n : n = [run[r] EXCEPT !.status = "completed"]
      OBVIOUS
    <3>2. n = [status |-> "completed", thread |-> run[r].thread, left |-> run[r].left]
      BY <3>1 DEF RunsInv, RunsShape
    <3>3. run' = [run EXCEPT ![r] = n]
      BY <1>3, <3>1 DEF CompleteRun, Settles
    <3>4. run'[r] = n
      BY <3>3 DEF RunsInv, RunsShape
    <3> QED BY <3>2, <3>4
  <2>3. \A x \in Runs : ending'[x] = "store" => run'[x].status = "completed"
    BY <2>1, <2>2 DEF RunsInv, EndingOK, RunsKept, Settled
  <2> QED BY <2>1, <2>3 DEF EndingOK
<1> QED BY <1>1, <1>2, <1>3 DEF RunSteps

LEMMA RunsInvNext ==
  ASSUME ChatAssumption, RunsInv, ChatNext
  PROVE  RunsInv'
<1>1. RunsKept
  BY RunsNext
<1>0. ending = [x \in Runs |-> ending[x]]
  BY DEF RunsInv, EndingOK
<1>2. CASE UNCHANGED <<stream, ending>>
  <2>1. ending' = [x \in Runs |-> ending'[x]] /\ \A r \in Runs : ending'[r] = ending[r]
    BY <1>0, <1>2
  <2>2. UNCHANGED stream
    BY <1>2
  <2>3. StreamsOK'
    BY <1>1, <2>2, StreamsKept
  <2>4. EndingOK'
    BY <1>1, <2>1, EndingKept
  <2> QED BY <1>1, <2>3, <2>4 DEF RunsKept, RunsInv
<1>3. CASE SessionNext
  <2>1. UNCHANGED stream
    BY <1>3 DEF
      SessionNext, GetSession, CreateThread, StageThread, Load, FindDraft, DropDraft, InsertThread,
      PromoteRead, PromoteWrite, RecordTurn, ResumeTurn, Submit, AcceptTurn, PersistThread, AbortResponse,
      FindFallback, TouchSession, ShowThread, CheckRunning, Handoff, CallFails, MaterializeTurn,
      UpdateThread, ActivateThread, SwitchAgent, SwitchForNewThread, SessionRestart
  <2>2. UNCHANGED ending
    BY <1>3 DEF
      SessionNext, GetSession, CreateThread, StageThread, Load, FindDraft, DropDraft, InsertThread,
      PromoteRead, PromoteWrite, RecordTurn, ResumeTurn, Submit, AcceptTurn, PersistThread, AbortResponse,
      FindFallback, TouchSession, ShowThread, CheckRunning, Handoff, CallFails, MaterializeTurn,
      UpdateThread, ActivateThread, SwitchAgent, SwitchForNewThread, SessionRestart, threadVars
  <2> QED BY <1>2, <2>1, <2>2
<1>4. CASE \E m \in outbox : VerifySubmit(m) \/ TakeTurn(m)
  BY <1>2, <1>4 DEF VerifySubmit, TakeTurn, threadVars
<1>5. CASE \E t \in Threads :
             \/ ThreadSteps(t) \/ ThreadFaults(t) \/ StopResponse(t) \/ ThreadRestart(t)
             \/ \E a \in Agents : TypeMessage(t, a)
  <2>1. PICK t \in Threads :
             \/ ThreadSteps(t) \/ ThreadFaults(t) \/ StopResponse(t) \/ ThreadRestart(t)
             \/ \E a \in Agents : TypeMessage(t, a)
    BY <1>5
  <2>2. UNCHANGED stream
    BY <2>1 DEF ThreadSteps, BeginTurn, VerifyClaims, PromoteDraft, StartRun, FinishStream, AbortStream,
       ThreadFaults, StartFails, FailAgentRun, StopResponse, ThreadRestart, TypeMessage
  <2>3. \/ UNCHANGED ending \/ ending' = [ending EXCEPT ![chat[t].run] = "complete"]
        \/ ending' = [r \in Runs |-> IF run[r].thread = t THEN "none" ELSE ending[r]]
    BY <2>1 DEF ThreadSteps, BeginTurn, VerifyClaims, PromoteDraft, StartRun, FinishStream, AbortStream,
       ThreadFaults, StartFails, FailAgentRun, StopResponse, ThreadRestart, TypeMessage
  <2>4. /\ ending' = [r \in Runs |-> ending'[r]]
        /\ \A r \in Runs : ending'[r] = "store" => ending[r] = "store"
    BY <1>0, <2>3
  <2> QED BY <1>1, <2>2, <2>4, StreamsKept, EndingKept DEF RunsKept, RunsInv
<1>6. CASE \E r \in Runs : RunSteps(r) \/ CompleteFails(r)
  <2>1. PICK r \in Runs : RunSteps(r) \/ CompleteFails(r)
    BY <1>6
  <2>2. UNCHANGED stream
    BY <2>1 DEF RunSteps, CompleteRun, StoreOutput, CompleteFails
  <2> QED BY <1>1, <2>1, <2>2, StreamsKept, EndingStep DEF RunsKept, RunsInv
<1>7. CASE \E q \in Streams : \/ StreamSteps(q) \/ SimpleCreate(q) \/ StreamFaults(q) \/ StreamLost(q)
                              \/ \E t \in Threads : SimpleAsk(q, t)
  <2>1. PICK q \in Streams : \/ StreamSteps(q) \/ SimpleCreate(q) \/ StreamFaults(q) \/ StreamLost(q)
                             \/ \E t \in Threads : SimpleAsk(q, t)
    BY <1>7
  <2>2. UNCHANGED ending
    BY <2>1 DEF StreamSteps, SimpleTouch, SimplePolicy, SimpleClaim, SimpleComplete, SimpleOutput, SimpleCreate,
       StreamFaults, SimpleClaimFails, SimpleStore, SimpleStoreFails, SimpleFail, StreamLost, SimpleAsk, threadVars
  <2> QED BY <1>0, <1>1, <2>1, <2>2, SimpleStep, EndingKept DEF RunsKept, RunsInv
<1> QED BY <1>3, <1>4, <1>5, <1>6, <1>7 DEF ChatNext

LEMMA TurnsInvNext ==
  ASSUME ChatAssumption, TurnsInv, RunsInv, ChatNext
  PROVE  TurnsInv'
<1>1. CASE SessionNext
  BY <1>1, RequestsBegin, PlainSteps, MaterializeStep, FindingSteps, RecordStep, AcceptStep, ResumeStep, SubmitStep,
     AbortStep, SessionRestarts DEF SessionNext
<1>2. CASE \E m \in outbox : VerifySubmit(m) \/ TakeTurn(m)
  BY <1>2, VerifySubmitStep, TakeTurnStep
<1>3. CASE \E t \in Threads :
             \/ ThreadSteps(t) \/ ThreadFaults(t) \/ StopResponse(t) \/ ThreadRestart(t)
             \/ \E a \in Agents : TypeMessage(t, a)
  BY <1>3, ThreadStepsKeepTurns, ThreadRestarts
<1>4. CASE \/ \E r \in Runs : RunSteps(r) \/ CompleteFails(r)
           \/ \E q \in Streams : \/ StreamSteps(q) \/ SimpleCreate(q) \/ StreamFaults(q) \/ StreamLost(q)
                                 \/ \E t \in Threads : SimpleAsk(q, t)
  BY <1>4, RunStepsKeepTurns
<1> QED BY <1>1, <1>2, <1>3, <1>4 DEF ChatNext

-----------------------------------------------------------------------------
(* The results.                                                            *)

LEMMA ChatInvInit ==
  ASSUME ChatAssumption, ChatInit
  PROVE  TurnsInv /\ RunsInv
<1>1. CallsOK /\ OneRequest
  <2>1. \A c \in Calls : call[c] = IdleCall
    BY DEF ChatInit
  <2>2. ASSUME NEW c \in Calls PROVE CallOK(call[c])
    BY <2>1, IdleOK
  <2>3. call = [c \in Calls |-> call[c]]
    BY DEF ChatInit
  <2> QED BY <2>1, <2>2, <2>3 DEF CallsOK, OneRequest, IdleCall
<1>2. ReceiptsOK /\ OutboxOK
  BY DEF ChatInit, ReceiptsOK, ReceiptOK, NoReceipt, OutboxOK
<1>3. TakenAll
  <2>1. messages = [t \in Threads |-> [u \in Turns |-> 0]]
    BY DEF ChatInit
  <2> QED BY <2>1 DEF TakenAll, TakenOK
<1>4. BusyAll
  BY DEF ChatInit, BusyAll, BusyOK, Free, ChatAssumption
<1>5. ShownOK
  BY DEF ChatInit, ShownOK, NoSnapshot, OrNone
<1>6. RunsShape /\ EndingOK
  BY DEF ChatInit, RunsShape, EndingOK
<1>7. StreamsOK
  BY DEF ChatInit, StreamsOK, StreamOK, IdleStream, OrNone
<1> QED BY <1>1, <1>2, <1>3, <1>4, <1>5, <1>6, <1>7 DEF TurnsInv, RunsInv

(* The invariants hold in every state.                                     *)
THEOREM ChatInv == ChatSpec => [](TurnsInv /\ RunsInv)
<1>1. ASSUME TurnsInv /\ RunsInv, [ChatNext]_cvars
      PROVE  (TurnsInv /\ RunsInv)'
  <2>1. CASE ChatNext
    BY <1>1, <2>1, ChatAssumption, TurnsInvNext, RunsInvNext
  <2>2. CASE UNCHANGED cvars
    <3>1. UNCHANGED <<run, stream, ending, call, receipt, messages, outbox, busy, session, snap>>
      BY <2>2 DEF cvars, sessionVars, threadVars
    <3>2. RunsInv'
      BY <1>1, <3>1 DEF RunsInv, RunsShape, StreamsOK, StreamOK, EndingOK
    <3>3. ShownOK'
      BY <1>1, <3>1 DEF TurnsInv, ShownOK
    <3> QED BY <1>1, <3>1, <3>2, <3>3, TurnsUntouched
  <2> QED BY <1>1, <2>1, <2>2
<1> QED BY <1>1, ChatAssumption, ChatInvInit, PTL DEF ChatSpec

(* A client's turn is taken into a thread once, however often it is        *)
(* retried, resumed after a restart or delivered late: of each turn there  *)
(* is one dispatcher, and what reaches a thread was recorded for it alone. *)
THEOREM TurnOnce == ChatSpec => []TurnTakenOnce
<1>1. TurnsInv => TurnTakenOnce
  <2> SUFFICES ASSUME TurnsInv, NEW u \in Turns, NEW t \in Threads, messages[t][u] > 0
               PROVE  messages[t][u] = 1 /\ \A s \in Threads \ {t} : messages[s][u] = 0
    BY DEF TurnTakenOnce
  <2>1. messages \in [Threads -> [Turns -> Nat]] /\ \A x \in Threads : TakenOK(x, u)
    BY DEF TurnsInv, TakenAll
  <2> QED BY <2>1 DEF TakenOK, RecordedFor
<1> QED BY <1>1, ChatInv, PTL

(* A turn whose receipt says accepted is in the thread the receipt names.  *)
THEOREM AcceptedTaken == ChatSpec => []AcceptedIsTaken
<1>1. TurnsInv => AcceptedIsTaken
  BY DEF TurnsInv, ReceiptsOK, ReceiptOK, AcceptedIsTaken
<1> QED BY <1>1, ChatInv, PTL

(* A run settles once, and only the answer of a completed run is stored.   *)
THEOREM SettlesOnce == ChatSpec => RunSettlesOnce
<1>1. ASSUME RunsInv, [ChatNext]_cvars
      PROVE  [/\ \A r \in Runs :
                   run[r].status \in {"completed", "failed", "cancelled"} => run'[r].status = run[r].status
              /\ \A r \in spoken' \ spoken : run[r].status = "completed"]_cvars
  <2> SUFFICES ASSUME ChatNext
               PROVE  /\ \A r \in Runs :
                           run[r].status \in {"completed", "failed", "cancelled"} => run'[r].status = run[r].status
                      /\ \A r \in spoken' \ spoken : run[r].status = "completed"
    BY <1>1
  <2>1. RunsKept
    BY <1>1, RunsNext
  <2>2. \A r \in spoken' \ spoken : run[r].status = "completed"
    <3>1. CASE SessionNext
      <4>1. UNCHANGED spoken
        BY <3>1 DEF SessionNext, GetSession, CreateThread, StageThread, Load, FindDraft, DropDraft, InsertThread,
           PromoteRead, PromoteWrite, RecordTurn, ResumeTurn, Submit, AcceptTurn, PersistThread, AbortResponse,
           FindFallback, TouchSession, ShowThread, CheckRunning, Handoff, CallFails, MaterializeTurn,
           UpdateThread, ActivateThread, SwitchAgent, SwitchForNewThread, SessionRestart
      <4> QED BY <4>1
    <3>2. CASE \E m \in outbox : VerifySubmit(m) \/ TakeTurn(m)
      <4>1. UNCHANGED spoken
        BY <3>2 DEF VerifySubmit, TakeTurn
      <4> QED BY <4>1
    <3>3. CASE \E t \in Threads :
                 \/ ThreadSteps(t) \/ ThreadFaults(t) \/ StopResponse(t) \/ ThreadRestart(t)
                 \/ \E a \in Agents : TypeMessage(t, a)
      <4>1. UNCHANGED spoken
        BY <3>3 DEF ThreadSteps, BeginTurn, VerifyClaims, PromoteDraft, StartRun, FinishStream, AbortStream,
           ThreadFaults, StartFails, FailAgentRun, StopResponse, ThreadRestart, TypeMessage
      <4> QED BY <4>1
    <3>4. CASE \E r \in Runs : RunSteps(r) \/ CompleteFails(r)
      <4>1. PICK r \in Runs : RunSteps(r) \/ CompleteFails(r)
        BY <3>4
      <4>2. UNCHANGED spoken \/ (ending[r] = "store" /\ spoken' = spoken \cup {r})
        BY <4>1 DEF RunSteps, CompleteRun, StoreOutput, CompleteFails
      <4>3. ending[r] = "store" => run[r].status = "completed"
        BY <1>1 DEF RunsInv, EndingOK
      <4> QED BY <4>2, <4>3
    <3>5. CASE \E q \in Streams : \/ StreamSteps(q) \/ SimpleCreate(q) \/ StreamFaults(q) \/ StreamLost(q)
                                  \/ \E t \in Threads : SimpleAsk(q, t)
      <4>1. PICK q \in Streams : \/ StreamSteps(q) \/ SimpleCreate(q) \/ StreamFaults(q) \/ StreamLost(q)
                                 \/ \E t \in Threads : SimpleAsk(q, t)
        BY <3>5
      <4>2. UNCHANGED spoken \/ (stream[q].pc = "output" /\ spoken' = spoken \cup {stream[q].run})
        BY <4>1 DEF StreamSteps, SimpleTouch, SimplePolicy, SimpleClaim, SimpleComplete, SimpleOutput,
           SimpleCreate, StreamFaults, SimpleClaimFails, SimpleStore, SimpleStoreFails, SimpleFail, StreamLost,
           SimpleAsk
      <4>3. stream[q].pc = "output" => run[stream[q].run].status = "completed"
        BY <1>1 DEF RunsInv, StreamsOK, StreamOK
      <4> QED BY <4>2, <4>3
    <3> QED BY <3>1, <3>2, <3>3, <3>4, <3>5 DEF ChatNext
  <2> QED BY <2>1, <2>2 DEF RunsKept, Settled
<1> QED BY <1>1, ChatInv, PTL DEF ChatSpec, RunSettlesOnce
===============================================================================
