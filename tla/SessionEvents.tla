----------------------------- MODULE SessionEvents -----------------------------
(***************************************************************************)
(* The event stream of a user's session. Each change of the threads builds *)
(* a snapshot with the next revision and broadcasts an event; the events   *)
(* of the last minutes are kept so that a tab which was cut off resumes    *)
(* from its cursor, or starts again from a snapshot. ChatSession has the   *)
(* changes themselves in detail: here one step commits them.               *)
(***************************************************************************)
EXTENDS Naturals, Sequences, SequencesExt

CONSTANTS
  Threads,      \* ids of threads
  Calls,        \* concurrent requests to the session's Durable Object
  None,         \* no thread
  EventBudgets  \* bounds: requests of the tab and of others, failures, restarts, expiries

ASSUME EventAssumption ==
  /\ None \notin Threads
  /\ EventBudgets \subseteq [mine : Nat, others : Nat, faults : Nat, restarts : Nat, expiries : Nat]

VARIABLES
  db,       \* the rows: which threads are active, which one the session is in
  snap,     \* the snapshot in the object's memory
  revision, \* and its revision counter
  log,      \* the events kept for replay
  last,     \* history: the id of the newest event
  call,     \* the requests, and the answers on their way to the tab
  stream,   \* the tab's stream, and the events in it
  owed,     \* history: broadcasts since the tab's last snapshot it has not received
  eleft     \* what is left of the bounds

evars == <<db, snap, revision, log, last, call, stream, owed, eleft>>

NoCall == [pc |-> "idle", does |-> "none", thread |-> None, rev |-> 0, threads |-> {}, active |-> None,
           mine |-> FALSE, partial |-> FALSE]

Rows == [threads |-> {t \in Threads : db.status[t] = "active"},
         active |-> IF db.active # None /\ db.status[db.active] = "active" THEN db.active ELSE None]

EventInit ==
  /\ LET t == CHOOSE t \in Threads : TRUE
     IN db = [status |-> [x \in Threads |-> IF x = t THEN "none" ELSE "active"],
              active |-> CHOOSE x \in Threads : x # t]
  /\ snap = [known |-> FALSE, rev |-> 0, threads |-> {}, active |-> None]
  /\ revision = 0
  /\ log = <<>> /\ last = 0
  /\ call = [c \in Calls |-> NoCall]
  /\ stream = [open |-> FALSE, queue |-> <<>>]
  /\ owed = {}
  /\ eleft \in EventBudgets

Spend(what) == eleft[what] > 0 /\ eleft' = [eleft EXCEPT ![what] = @ - 1]

Changes == {"create", "activate", "archive", "delete"}
Reads == {"get", "refresh", "reconcile"}

Asked(c, does, t, mine) ==
  /\ call[c].pc = "idle"
  /\ call' = [call EXCEPT ![c] = [NoCall EXCEPT !.pc = IF does \in Changes THEN "commit" ELSE "build",
                                                !.does = does, !.thread = t, !.mine = mine]]

(* Another device, or a run that starts or ends. *)
AskOther(c) ==
  /\ Spend("others")
  /\ \/ \E t \in Threads, does \in {"create", "activate", "delete"} : Asked(c, does, t, FALSE)
     \/ /\ call[c].pc = "idle"
        /\ call' = [call EXCEPT ![c] = [NoCall EXCEPT !.pc = "publish", !.does = "run"]]
  /\ UNCHANGED <<db, snap, revision, log, last, stream, owed>>

Refused(c, why) == call' = [call EXCEPT ![c] = IF @.mine THEN [@ EXCEPT !.pc = why] ELSE NoCall]

(* A thread that ends gives the session to another active one, if any.     *)
Commit(c) ==
  /\ call[c].pc = "commit"
  /\ LET t == call[c].thread
         does == call[c].does
         others == Rows.threads \ {t}
     IN \/ /\ does \in {"archive", "delete"} /\ db.status[t] = "active"
           /\ \E next \in IF db.active # t THEN {db.active} ELSE IF others = {} THEN {None} ELSE others :
                db' = [status |-> [db.status EXCEPT ![t] = "gone"], active |-> next]
           /\ call' = [call EXCEPT ![c].pc = "build"]
        \/ /\ \/ does = "create" /\ db.status[t] = "none"
              \/ does = "activate" /\ db.status[t] = "active"
           /\ db' = [status |-> [db.status EXCEPT ![t] = "active"], active |-> t]
           /\ call' = [call EXCEPT ![c].pc = "build"]
        \/ /\ db.status[t] # IF does = "create" THEN "none" ELSE "active"
           /\ Refused(c, "missing")
           /\ UNCHANGED db
  /\ UNCHANGED <<snap, revision, log, last, stream, owed, eleft>>

Answer(c, rev, threads, active, partial) ==
  call' = [call EXCEPT ![c] =
    IF @.mine THEN [@ EXCEPT !.pc = "answered", !.rev = rev, !.threads = threads, !.active = active,
                             !.partial = partial]
    ELSE NoCall]

(* A created or activated thread is put into the snapshot there is, a      *)
(* plain read answers with it, everything else reads the rows again, under *)
(* a revision it takes first.                                              *)
Build(c) ==
  /\ call[c].pc = "build"
  /\ \/ /\ call[c].does = "get" /\ snap.known
        /\ Answer(c, snap.rev, snap.threads, snap.active, FALSE)
        /\ UNCHANGED <<snap, revision>>
     \/ /\ call[c].does \in {"create", "activate"}
        /\ revision' = revision + 1
        /\ snap' = [known |-> TRUE, rev |-> revision + 1, active |-> call[c].thread,
                    threads |-> (IF snap.known THEN snap.threads ELSE {}) \cup {call[c].thread}]
        /\ call' = [call EXCEPT ![c].pc = "publish"]
     \/ /\ call[c].does \in {"archive", "delete"} \cup Reads /\ (call[c].does = "get" => ~snap.known)
        /\ revision' = revision + 1
        /\ call' = [call EXCEPT ![c].pc = "read", ![c].rev = revision + 1]
        /\ UNCHANGED snap
  /\ UNCHANGED <<db, log, last, stream, owed, eleft>>

ReadRows(c) ==
  /\ call[c].pc = "read"
  /\ call' = [call EXCEPT ![c].pc = "set", ![c].threads = Rows.threads, ![c].active = Rows.active]
  /\ UNCHANGED <<db, snap, revision, log, last, stream, owed, eleft>>

Event(type, gone, s) ==
  [id |-> last + 1, type |-> type, rev |-> s.rev, threads |-> s.threads, active |-> s.active, gone |-> gone]

Broadcast(e) ==
  /\ last' = e.id
  /\ log' = Append(log, e)
  /\ owed' = owed \cup {e.id}
  /\ stream' = IF stream.open THEN [stream EXCEPT !.queue = Append(@, e)] ELSE stream

(* The snapshot of the later reader stays, whoever began first. *)
SetSnapshot(c) ==
  /\ call[c].pc = "set"
  /\ snap' = [known |-> TRUE, rev |-> call[c].rev, threads |-> call[c].threads, active |-> call[c].active]
  /\ \/ /\ call[c].does \in {"archive", "delete"}
        /\ call' = [call EXCEPT ![c].pc = "publish"]
        /\ UNCHANGED <<log, last, stream, owed>>
     \/ /\ call[c].does \in Reads
        /\ Answer(c, snap'.rev, snap'.threads, snap'.active, FALSE)
        /\ IF call[c].does = "get" THEN UNCHANGED <<log, last, stream, owed>>
           ELSE Broadcast(Event("refreshed", {}, snap'))
  /\ UNCHANGED <<db, revision, eleft>>

(* The event and the answer carry the snapshot there is by then. *)
Publish(c) ==
  /\ call[c].pc = "publish"
  /\ \/ /\ call[c].does = "run"
        /\ Broadcast(Event("run", {}, [snap EXCEPT !.rev = IF snap.known THEN @ ELSE 0]))
     \/ /\ call[c].does # "run"
        /\ Broadcast(Event("changed", IF call[c].does \in {"archive", "delete"} THEN {call[c].thread} ELSE {},
                           snap))
  /\ Answer(c, snap.rev, snap.threads, snap.active, TRUE)
  /\ UNCHANGED <<db, snap, revision, eleft>>

-----------------------------------------------------------------------------
(* Connecting.                                                             *)

\* Mutant: a cursor that is not kept any more is taken for the newest event.
ReplayMutant(after, snapshot) ==
  IF after = 0 THEN <<snapshot>>
  ELSE LET at == {i \in DOMAIN log : log[i].id = after}
       IN IF at = {} THEN <<>> ELSE SubSeq(log, (CHOOSE i \in at : TRUE) + 1, Len(log))

(* resolveSessionReplay: what follows the cursor, or a snapshot. *)
Replay(after, snapshot) ==
  LET at == {i \in DOMAIN log : log[i].id = after}
  IN IF after = 0 THEN <<snapshot>>
     ELSE IF at # {} THEN SubSeq(log, (CHOOSE i \in at : TRUE) + 1, Len(log))
     ELSE <<[snapshot EXCEPT !.type = "reset"]>>

(* ensureSnapshot, and the tab is registered as the replay is written. *)
Connect(after) ==
  /\ ~stream.open
  /\ revision' = IF snap.known THEN revision ELSE revision + 1
  /\ snap' = IF snap.known THEN snap
             ELSE [known |-> TRUE, rev |-> revision + 1, threads |-> Rows.threads, active |-> Rows.active]
  /\ LET replay == Replay(after, Event("snapshot", {}, snap'))
     IN /\ stream' = [open |-> TRUE, queue |-> replay]
        /\ last' = IF replay # <<>> /\ replay[1].id = last + 1 THEN last + 1 ELSE last
  /\ UNCHANGED <<db, log, call, owed, eleft>>

StreamEnds ==
  /\ stream.open /\ Spend("faults")
  /\ stream' = [open |-> FALSE, queue |-> <<>>]
  /\ UNCHANGED <<db, snap, revision, log, last, call, owed>>

Expire ==
  /\ log # <<>> /\ Spend("expiries")
  /\ log' = Tail(log)
  /\ UNCHANGED <<db, snap, revision, last, call, stream, owed>>

Restart ==
  /\ Spend("restarts")
  /\ snap' = [snap EXCEPT !.known = FALSE]
  /\ revision' = IF log = <<>> THEN 0 ELSE Max({log[i].rev : i \in DOMAIN log})
  /\ call' = [c \in Calls |-> IF call[c].pc \in {"idle", "answered", "missing", "failed"} THEN call[c]
                              ELSE IF call[c].mine THEN [call[c] EXCEPT !.pc = "failed"] ELSE NoCall]
  /\ stream' = [open |-> FALSE, queue |-> <<>>]
  /\ UNCHANGED <<db, log, last, owed>>

(* A call of D1 fails, before or after the commit. *)
CallFails(c) ==
  /\ call[c].pc \in {"commit", "build", "read", "set", "publish"} /\ Spend("faults")
  /\ Refused(c, "failed")
  /\ UNCHANGED <<db, snap, revision, log, last, stream, owed>>

CallSteps(c) == Commit(c) \/ Build(c) \/ ReadRows(c) \/ SetSnapshot(c) \/ Publish(c)
SessionSteps == \/ \E c \in Calls : CallSteps(c) \/ AskOther(c) \/ CallFails(c)
                \/ StreamEnds \/ Expire \/ Restart

(* A tab that is connected misses no broadcast: each one since its last    *)
(* snapshot is on its way, once and in order, or a newer snapshot is.      *)
NothingMissed ==
  stream.open =>
    /\ \A id \in owed : \E i \in DOMAIN stream.queue :
         \/ stream.queue[i].id = id
         \/ stream.queue[i].id > id /\ stream.queue[i].type \in {"snapshot", "reset"}
    /\ \A i \in DOMAIN stream.queue :
         /\ stream.queue[i].id \in owed \/ stream.queue[i].type \in {"snapshot", "reset"}
         /\ \A j \in 1..(i - 1) : stream.queue[j].id < stream.queue[i].id
===============================================================================
