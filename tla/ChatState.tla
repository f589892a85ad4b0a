------------------------------ MODULE ChatState ------------------------------
(***************************************************************************)
(* What the chat of one user in one workspace keeps: the rows in D1, the   *)
(* session's Durable Object, the Durable Object of each thread, and the    *)
(* requests that are between two of their calls. Titles and texts are left *)
(* out; a message is the id of the client's turn it carries.               *)
(***************************************************************************)
EXTENDS Naturals, FiniteSets

CONSTANTS
  Threads,      \* ids of threads
  Turns,        \* clientTurnIds
  Agents,       \* the workspace's agents, which stay active
  Runs,         \* ids of chat runs
  Calls,        \* concurrent requests to the session's Durable Object
  Streams,      \* concurrent requests to the LangGraph facade
  None,         \* no thread, turn or run
  FirstAgent,   \* the default agent
  ChatBudgets   \* bounds: requests by kind, failures, crashes

ASSUME ChatAssumption ==
  /\ FirstAgent \in Agents
  /\ None \notin Threads \cup Turns \cup Runs
  /\ ChatBudgets \subseteq [turns : Nat, threads : Nat, typed : Nat, streams : Nat, faults : Nat,
                            crashes : Nat, whole : {TRUE}]

VARIABLES
  thread,   \* chat_threads
  session,  \* the chat_sessions row and the preferred agent
  run,      \* chat_runs, each with its intent
  snap,     \* the session's Durable Object: its snapshot
  receipt,  \* and the receipts of the turns it has dispatched
  call,     \* its requests
  outbox,   \* submissions on their way to a thread, of living requests or not
  messages, \* a thread's Durable Object: how often each turn is in its messages
  busy,     \* programmaticSubmitBody
  chat,     \* onChatMessage
  ending,   \* what onFinish left to waitUntil, by run
  stream,   \* handleCloudflareRunStream
  spoken,   \* history: runs whose output was stored in the thread or announced
  cleft     \* what is left of the bounds; no invocation was lost

sessionVars == <<snap, receipt, call, outbox>>
threadVars == <<messages, busy, chat, ending>>
cvars == <<thread, session, run, sessionVars, threadVars, stream, spoken, cleft>>

NoSnapshot == [known |-> FALSE, thread |-> None, agent |-> FirstAgent]
NoReceipt == [status |-> "none", thread |-> None, agent |-> FirstAgent]
IdleCall == [pc |-> "idle", does |-> "none", turn |-> None, thread |-> None, agent |-> FirstAgent,
             status |-> "none"]
IdleChat == [pc |-> "idle", agent |-> FirstAgent, run |-> None, aborted |-> FALSE]
Free == [turn |-> None, agent |-> FirstAgent, begun |-> FALSE]
IdleStream == [pc |-> "idle", thread |-> None, run |-> None]

ChatInit ==
  /\ thread = [t \in Threads |-> [status |-> "none", agent |-> FirstAgent]]
  /\ session = [active |-> None, agent |-> FirstAgent, preferred |-> FirstAgent]
  /\ run = [r \in Runs |-> [status |-> "none", thread |-> None, left |-> FALSE]]
  /\ snap = NoSnapshot
  /\ receipt = [u \in Turns |-> NoReceipt]
  /\ call = [c \in Calls |-> IdleCall]
  /\ outbox = {}
  /\ messages = [t \in Threads |-> [u \in Turns |-> 0]]
  /\ busy = [t \in Threads |-> Free]
  /\ chat = [t \in Threads |-> IdleChat]
  /\ ending = [r \in Runs |-> "none"]
  /\ stream = [q \in Streams |-> IdleStream]
  /\ spoken = {}
  /\ cleft \in ChatBudgets

Live(t) == thread[t].status \in {"active", "draft"}
RunningOn(t) == \E r \in Runs : run[r].status = "running" /\ run[r].thread = t

Spend(what) == cleft[what] > 0 /\ cleft' = [cleft EXCEPT ![what] = @ - 1]
Faults(n) == cleft.faults >= n /\ cleft' = [cleft EXCEPT !.faults = @ - n]
Crash == cleft.crashes > 0 /\ cleft' = [cleft EXCEPT !.crashes = @ - 1, !.whole = FALSE]

(* updateChatRun: a terminal status is written over 'running' only.        *)
Settles(r, status) ==
  run' = IF run[r].status = "running" THEN [run EXCEPT ![r].status = status] ELSE run

(* Whoever was to settle the run has given up.                             *)
Leave(r) == run' = [run EXCEPT ![r].left = run[r].status = "running"]

(* The insert of a running run; the index idx_chat_runs_one_running lets a *)
(* thread have one. The run of an insert whose answer is lost is left.     *)
Claims(r, t, unheard) ==
  /\ run[r].status = "none" /\ ~RunningOn(t)
  /\ r = CHOOSE x \in Runs : run[x].status = "none"
  /\ run' = [run EXCEPT ![r] = [status |-> "running", thread |-> t, left |-> unheard]]
===============================================================================
