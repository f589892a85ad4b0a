---------------------------- MODULE ChatConnection ----------------------------
(***************************************************************************)
(* The connection a web tab holds to a thread's Durable Object: a token,   *)
(* for one thread and one agent, that expires. The tab asks for a new one  *)
(* when the token is about to expire and when a session event says that    *)
(* another thread or agent is current; answers arrive in any order or not  *)
(* at all, and other tabs activate, archive and hand off threads.          *)
(***************************************************************************)
EXTENDS Naturals, FiniteSets, Sequences

CONSTANTS
  Chats, Personas,  \* the workspace's threads and agents
  Asks,             \* the tab's requests that can be under way at once
  Life, Skew,       \* ticks a token lives, and the ticks left when it is renewed
  NoChat,
  LinkBudgets       \* [mine, others, faults]: user actions, other tabs' actions, lost answers

ASSUME LinkAssumption == Life \in Nat /\ Skew \in Nat /\ Skew + 1 < Life

VARIABLES
  rows,     \* chat_threads: status and agent of each thread
  shot,     \* the session object's snapshot: current thread, agent and revision
  news,     \* session events on their way to the tab
  ask,      \* the tab's requests, with their answers
  seen,     \* the thread, agent and revision the tab shows
  held,     \* the tab's connection: thread, agent and ticks left, or NoChat
  armed,    \* whether the renewal timer runs
  planned,  \* loads the tab has scheduled
  blank,    \* the tab shows an empty new chat (localNewSession)
  first,    \* the first message of a new chat: typed, staged, sent
  open,     \* the tab's event stream is connected
  turn,     \* for each thread object, its first turn: none, verified, running
  failed,   \* a load was lost: nothing repeats it
  kleft     \* budgets

linkVars == <<rows, shot, news, ask, seen, held, armed, planned, blank, first, open, turn, failed, kleft>>
serverVars == <<rows, shot, turn>>
shownVars == <<seen, held, armed, blank>>

Spends(what) == kleft[what] > 0 /\ kleft' = [kleft EXCEPT ![what] = @ - 1]

IdleAsk == [pc |-> "idle", does |-> "none", arg |-> NoChat, thread |-> NoChat, agent |-> NoChat,
            rev |-> 0, left |-> 0, old |-> FALSE]

(* A workspace with no thread yet, or with one that is current.            *)
LinkInit ==
  /\ LET a == CHOOSE x \in Personas : TRUE
         t == CHOOSE x \in Chats : TRUE
     IN \E now \in {NoChat, t} :
          /\ rows = [x \in Chats |-> [status |-> IF x = now THEN "active" ELSE "none", agent |-> a]]
          /\ shot = [thread |-> now, agent |-> a, rev |-> 1]
          /\ seen = [thread |-> now, agent |-> a, rev |-> 0]
  /\ news = <<>> /\ ask = [q \in Asks |-> IdleAsk] /\ held = NoChat /\ armed = FALSE
  /\ planned = {"get"} /\ blank = FALSE /\ first = "no" /\ open = FALSE
  /\ turn = [t \in Chats |-> "none"] /\ failed = FALSE /\ kleft \in LinkBudgets

-----------------------------------------------------------------------------
(* What the session's object does with a request. Every change is a new    *)
(* revision; all but staging and a plain read are told to the streams.     *)
Shot(t, a) == [thread |-> t, agent |-> a, rev |-> shot.rev + 1]
Tell(kind) ==
  news' = IF open THEN Append(news, [kind |-> kind, thread |-> shot'.thread, agent |-> shot'.agent,
                                     rev |-> shot'.rev])
          ELSE news
Unused == {t \in Chats : rows[t].status = "none"}
Reusable == shot.thread # NoChat /\ rows[shot.thread].status = "draft"
Target == IF Reusable THEN shot.thread ELSE CHOOSE t \in Unused : TRUE

ReadSession ==
  UNCHANGED <<rows, shot, news, turn>>

RefreshThreads ==
  /\ shot' = [shot EXCEPT !.rev = @ + 1] /\ Tell("passive")
  /\ UNCHANGED <<rows, turn>>

MakeCurrent(t) ==
  /\ rows[t].status = "active"
  /\ shot' = Shot(t, rows[t].agent) /\ Tell("change")
  /\ UNCHANGED <<rows, turn>>

(* Archiving the current thread makes another active one current, and the  *)
(* thread's answer is cancelled.                                           *)
Archive(t) ==
  /\ rows[t].status = "active"
  /\ rows' = [rows EXCEPT ![t].status = "archived"]
  /\ turn' = [turn EXCEPT ![t] = "none"]
  /\ LET others == {u \in Chats \ {t} : rows[u].status = "active"}
     IN shot' = IF shot.thread # t THEN Shot(shot.thread, shot.agent)
                ELSE IF others = {} THEN Shot(NoChat, shot.agent)
                ELSE LET u == CHOOSE u \in others : TRUE IN Shot(u, rows[u].agent)
  /\ Tell("change")

Stage ==
  /\ Reusable \/ Unused # {}
  /\ rows' = [rows EXCEPT ![Target] = IF Reusable THEN @ ELSE [status |-> "draft", agent |-> shot.agent]]
  /\ shot' = Shot(Target, rows'[Target].agent)
  /\ UNCHANGED <<news, turn>>

(* The first message makes the draft, or a new thread, active and is sent  *)
(* to the thread's object with a token of its own.                         *)
Materialize ==
  /\ Reusable \/ Unused # {}
  /\ rows' = [rows EXCEPT ![Target] = [status |-> "active",
                                       agent |-> IF Reusable THEN @.agent ELSE shot.agent]]
  /\ shot' = Shot(Target, rows'[Target].agent) /\ Tell("change")
  /\ turn' = [turn EXCEPT ![Target] = "verified"]

(* A thread is handed to another agent unless an answer is being written.  *)
SwitchTo(a) ==
  /\ shot.thread # NoChat /\ rows[shot.thread].status = "active"
  /\ rows[shot.thread].agent = a \/ turn[shot.thread] # "running"
  /\ rows' = [rows EXCEPT ![shot.thread].agent = a]
  /\ shot' = Shot(shot.thread, a)
  /\ IF rows[shot.thread].agent = a THEN UNCHANGED news ELSE Tell("change")
  /\ UNCHANGED turn

SelectForNewThread(a) ==
  /\ shot' = Shot(NoChat, a) /\ Tell("change")
  /\ UNCHANGED <<rows, turn>>

(* What a user of any tab asks for, and what only the tab's own code does. *)
Change(does, arg) ==
  \/ does = "activate" /\ MakeCurrent(arg)
  \/ does = "archive" /\ Archive(arg)
  \/ does = "switch" /\ SwitchTo(arg)
  \/ does = "fresh" /\ SelectForNewThread(arg)

Handle(does, arg) ==
  \/ does = "get" /\ ReadSession
  \/ does = "threads" /\ RefreshThreads
  \/ does = "stage" /\ Stage
  \/ does = "materialize" /\ Materialize
  \/ Change(does, arg)

Refuses(does, arg) ==
  \/ does \in {"activate", "archive"} /\ rows[arg].status # "active"
  \/ does \in {"stage", "materialize"} /\ ~Reusable /\ Unused = {}
  \/ /\ does = "switch"
     /\ \/ shot.thread = NoChat
        \/ rows[shot.thread].status # "active"
        \/ rows[shot.thread].agent # arg /\ turn[shot.thread] = "running"

UserActions == {"activate", "archive"} \X Chats \cup {"switch", "fresh"} \X Personas

OtherTabActs ==
  /\ Spends("others")
  /\ \E u \in UserActions : Change(u[1], u[2])
  /\ UNCHANGED <<ask, shownVars, planned, first, open, failed>>

Serve(q) ==
  /\ ask[q].pc = "sent"
  /\ IF Refuses(ask[q].does, ask[q].arg)
     THEN ask' = [ask EXCEPT ![q].pc = "lost"] /\ UNCHANGED <<serverVars, news>>
     ELSE /\ Handle(ask[q].does, ask[q].arg)
          /\ ask' = [ask EXCEPT ![q] = [@ EXCEPT !.pc = "built", !.thread = shot'.thread,
                                       !.agent = shot'.agent, !.rev = shot'.rev, !.left = Life]]
  /\ UNCHANGED <<shownVars, planned, first, open, failed, kleft>>

Lose(q) ==
  /\ ask[q].pc \in {"sent", "built"} /\ Spends("faults")
  /\ ask' = [ask EXCEPT ![q].pc = "lost"]
  /\ UNCHANGED <<serverVars, news, shownVars, planned, first, open, failed>>

-----------------------------------------------------------------------------
(* What the tab asks. *)
Idle(q) == ask[q].pc = "idle"
UnderWay(does) == \E q \in Asks : ask[q].does = does
Issue(q, does, arg) == Idle(q) /\ ask' = [ask EXCEPT ![q] = [IdleAsk EXCEPT !.pc = "sent", !.does = does, !.arg = arg]]

SendPlanned(q) ==
  \E does \in planned :
    /\ Issue(q, does, NoChat)
    /\ planned' = planned \ {does}
    /\ UNCHANGED <<serverVars, news, shownVars, first, open, failed, kleft>>

(* Activating a thread shows it before the answer. *)
UserActs(q) ==
  /\ Spends("mine")
  /\ \E u \in UserActions :
       /\ Issue(q, u[1], u[2])
       /\ IF u[1] = "activate" /\ rows[u[2]].status = "active"
          THEN seen' = [seen EXCEPT !.thread = u[2], !.agent = rows[u[2]].agent]
          ELSE UNCHANGED seen
  /\ UNCHANGED <<serverVars, news, held, armed, blank, planned, first, open, failed>>

PlanStage == planned' = IF UnderWay("stage") THEN planned ELSE planned \cup {"stage"}

(* A new chat drops the connection, and with it the event stream. *)
OpenNewChat ==
  /\ Spends("mine")
  /\ blank' = TRUE /\ held' = NoChat /\ armed' = FALSE /\ open' = FALSE /\ news' = <<>>
  /\ seen' = [seen EXCEPT !.thread = NoChat]
  /\ PlanStage
  /\ UNCHANGED <<serverVars, ask, first, failed>>

(* The first message waits for the staged thread, or for its failure. *)
SubmitLocalTurn ==
  /\ first = "no" /\ held = NoChat /\ (blank \/ seen.thread = NoChat) /\ Spends("mine")
  /\ first' = "staging"
  /\ PlanStage
  /\ UNCHANGED <<serverVars, news, ask, shownVars, open, failed>>

SendFirst(q) ==
  /\ first = "staged" /\ first' = "sent"
  /\ Issue(q, "materialize", NoChat)
  /\ UNCHANGED <<serverVars, news, shownVars, planned, open, failed, kleft>>

AfterAnswer(q) ==
  first' = CASE first = "staging" /\ ask[q].does = "stage" -> "staged"
             [] first = "sent" /\ ask[q].does = "materialize" -> "no"
             [] OTHER -> first

-----------------------------------------------------------------------------
(* What the tab does with an answer or an event. Its renewal timer is set  *)
(* anew only when the connection's expiry changes.                         *)
Hold(link) ==
  /\ held' = link
  /\ armed' = CASE link = NoChat -> FALSE
               [] link # NoChat /\ held # NoChat -> armed \/ link.left # held.left
               [] OTHER -> TRUE
  /\ open' = (open /\ link # NoChat)

\* Mutant: every load keeps the connection of an unchanged thread and agent.
KeepsConnectionMutant(q) ==
  /\ held # NoChat /\ held.thread = ask[q].thread /\ held.agent = ask[q].agent

KeepsConnection(q) ==
  /\ ask[q].does \in {"threads", "materialize"}
  /\ held # NoChat /\ held.thread = ask[q].thread /\ held.agent = ask[q].agent

KeepsBlank(q) == ask[q].does = "fresh" \/ (blank /\ ask[q].does \in {"get", "threads"})

ApplyAnswer(q) ==
  /\ ask[q].pc = "built"
  /\ LET a == ask[q]
         shown == IF KeepsBlank(q) THEN NoChat ELSE a.thread
     IN /\ seen' = [thread |-> shown, agent |-> a.agent, rev |-> a.rev]
        /\ Hold(CASE shown = NoChat -> NoChat
                  [] shown # NoChat /\ KeepsConnection(q) -> held
                  [] OTHER -> [thread |-> a.thread, agent |-> a.agent, left |-> a.left])
        /\ blank' = (a.does = "fresh" \/ (blank /\ shown = NoChat /\ a.does \notin {"switch", "materialize"}))
        /\ planned' = IF a.does \in {"activate", "switch", "fresh", "materialize"}
                      THEN planned \cup {"threads"} ELSE planned
        /\ news' = IF shown = NoChat THEN <<>> ELSE news
  /\ AfterAnswer(q)
  /\ ask' = [ask EXCEPT ![q] = IdleAsk]
  /\ UNCHANGED <<serverVars, failed, kleft>>

(* A failed load only warns: nothing repeats it. *)
LoadFails(q) ==
  /\ ask[q].pc = "lost"
  /\ failed' = (failed \/ ask[q].does = "get")
  /\ AfterAnswer(q)
  /\ ask' = [ask EXCEPT ![q] = IdleAsk]
  /\ UNCHANGED <<serverVars, news, shownVars, planned, open, kleft>>

(* A stream opens with the session's snapshot. *)
OpenStream ==
  /\ held # NoChat /\ ~open
  /\ open' = TRUE
  /\ news' = <<[kind |-> "passive", thread |-> shot.thread, agent |-> shot.agent, rev |-> shot.rev]>>
  /\ UNCHANGED <<serverVars, ask, shownVars, planned, first, failed, kleft>>

RequiresConnection(e, shown) ==
  /\ e.kind = "change" /\ shown # NoChat
  /\ held = NoChat \/ held.thread # shown \/ held.agent # e.agent

(* The handler learns from React's updater of the session whether to load  *)
(* or to give up the connection; the updater may run only after it looked. *)
ApplySessionEvent ==
  /\ news # <<>>
  /\ LET e == Head(news)
         shown == IF blank /\ e.kind = "passive" THEN NoChat ELSE e.thread
     IN IF e.rev < seen.rev
        THEN news' = Tail(news) /\ UNCHANGED <<shownVars, planned, open>>
        ELSE /\ seen' = [thread |-> shown, agent |-> e.agent, rev |-> e.rev]
             /\ \/ RequiresConnection(e, shown) /\ planned' = planned \cup {"get"}
                \/ UNCHANGED planned
             /\ \/ shown = NoChat /\ Hold(NoChat) /\ news' = <<>>
                \/ news' = Tail(news) /\ UNCHANGED <<held, armed, open>>
             /\ UNCHANGED blank
  /\ UNCHANGED <<serverVars, ask, first, failed, kleft>>

-----------------------------------------------------------------------------
(* Time. A request is answered or given up within a tick: it times out     *)
(* before the renewal's margin is over.                                    *)
Aged(left) == IF left = 0 THEN 0 ELSE left - 1

Tick ==
  /\ \A q \in Asks : ~ask[q].old
  /\ held # NoChat \/ \E q \in Asks : ~Idle(q)
  /\ held' = IF held = NoChat THEN NoChat ELSE [held EXCEPT !.left = Aged(@)]
  /\ ask' = [q \in Asks |-> IF Idle(q) THEN ask[q] ELSE [ask[q] EXCEPT !.old = TRUE, !.left = Aged(@)]]
  /\ UNCHANGED <<serverVars, news, seen, armed, blank, planned, first, open, failed, kleft>>

RenewalTimer ==
  /\ armed /\ held # NoChat /\ held.left <= Skew
  /\ armed' = FALSE
  /\ planned' = planned \cup {"get"}
  /\ UNCHANGED <<serverVars, news, ask, seen, held, blank, first, open, failed, kleft>>

-----------------------------------------------------------------------------
(* The first message's turn, which a handoff waits for once it runs.       *)
BeginRun(t) ==
  /\ turn[t] = "verified"
  /\ turn' = [turn EXCEPT ![t] = "running"]
  /\ UNCHANGED <<rows, shot, news, ask, shownVars, planned, first, open, failed, kleft>>

EndRun(t) ==
  /\ turn[t] = "running"
  /\ turn' = [turn EXCEPT ![t] = "none"]
  /\ UNCHANGED <<rows, shot, news, ask, shownVars, planned, first, open, failed, kleft>>

-----------------------------------------------------------------------------
LinkProgress ==
  \/ \E q \in Asks : Serve(q) \/ SendPlanned(q) \/ ApplyAnswer(q) \/ LoadFails(q)
  \/ OpenStream \/ ApplySessionEvent \/ RenewalTimer

LinkStep ==
  \/ LinkProgress \/ Tick
  \/ OtherTabActs \/ OpenNewChat \/ SubmitLocalTurn
  \/ \E q \in Asks : Lose(q) \/ UserActs(q) \/ SendFirst(q)
  \/ \E t \in Chats : BeginRun(t) \/ EndRun(t)

Connected == held # NoChat /\ held.left > 0 /\ held.thread = shot.thread /\ held.agent = shot.agent
EmptyChat == held = NoChat /\ seen.thread = NoChat

(* Again and again the tab holds a live token for the session's current    *)
(* thread and its agent, or shows an empty chat, unless a load was lost.   *)
ConnectionRenews == []<>(Connected \/ EmptyChat \/ failed)
===============================================================================
