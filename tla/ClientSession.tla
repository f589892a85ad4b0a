----------------------------- MODULE ClientSession -----------------------------
(***************************************************************************)
(* One browser tab: the session it shows, the connection its chat uses,    *)
(* and the deletions it shows before the server has confirmed them. It     *)
(* learns of changes twice, from the answers to its own requests and from  *)
(* the event stream, and either may be late.                               *)
(***************************************************************************)
EXTENDS SessionEvents

VARIABLES
  view,     \* the session shown; revision 0 is none
  conn,     \* the thread the chat is connected to
  fresh,    \* localNewSession
  deleting, \* deletingThreadIds and deleteRollbacks: what to restore, by thread
  cursor,   \* the id of the last event received, 0 for none
  resumes,  \* the stream's effect has it still
  due       \* reads that are scheduled

tabVars == <<view, conn, fresh, deleting, cursor, resumes, due>>
svars == <<evars, tabVars>>

NoDelete == [under |-> FALSE, wasActive |-> FALSE, conn |-> None, fresh |-> FALSE]

TabInit ==
  /\ view = [rev |-> 0, threads |-> {}, active |-> None]
  /\ conn = None /\ fresh = FALSE
  /\ deleting = [t \in Threads |-> NoDelete]
  /\ cursor = 0 /\ resumes = FALSE
  /\ due = {"get"}

Hidden == {t \in Threads : deleting[t].under}
RowsKept == UNCHANGED <<db, snap, revision, log, last, owed>>
StreamKept == UNCHANGED <<stream, cursor, resumes>>
Closed(c) == call' = [call EXCEPT ![c] = NoCall]

(* useSessionEventStream: the stream lasts as long as the connection, and  *)
(* the next one begins without a cursor.                                   *)
StreamFollows ==
  /\ stream' = IF conn' = None THEN [open |-> FALSE, queue |-> <<>>] ELSE stream
  /\ resumes' = (resumes /\ conn' # None)
  /\ UNCHANGED cursor

(* removeThreadsFromSession, enterLocalNewSession, mergeSession *)
Without(s, gone) ==
  [s EXCEPT !.threads = @ \ gone, !.active = IF @ \in gone THEN None ELSE @]
Blank(s) == [s EXCEPT !.active = None]
Merge(s, partial, gone) ==
  [rev |-> s.rev, active |-> s.active,
   threads |-> IF ~partial \/ s.active = None THEN s.threads
               ELSE s.threads \cup (view.threads \ gone)]

-----------------------------------------------------------------------------
(* Requests.                                                               *)

(* Scheduled reads, and those for a new token. *)
Read(c) ==
  /\ \/ /\ \E what \in due : Asked(c, what, None, TRUE) /\ due' = due \ {what}
        /\ UNCHANGED eleft
     \/ /\ due = {} /\ conn # None
        /\ Asked(c, "get", None, TRUE) /\ Spend("mine")
        /\ UNCHANGED due
  /\ RowsKept /\ StreamKept /\ UNCHANGED <<view, conn, fresh, deleting>>

(* The thread is shown as active at once. *)
ActivateThread(c, t) ==
  /\ t \in view.threads /\ Spend("mine")
  /\ Asked(c, "activate", t, TRUE)
  /\ view' = [view EXCEPT !.active = t]
  /\ RowsKept /\ StreamKept /\ UNCHANGED <<conn, fresh, deleting, due>>

ArchiveThread(c, t) ==
  /\ t \in view.threads /\ Spend("mine")
  /\ Asked(c, "archive", t, TRUE)
  /\ RowsKept /\ StreamKept /\ UNCHANGED tabVars

(* The tab goes blank, and stages a thread for the first message. *)
StartNewSession(c) ==
  /\ view.rev > 0 /\ Spend("mine")
  /\ \E t \in Threads : db.status[t] = "none" /\ Asked(c, "create", t, TRUE)
  /\ view' = Blank(view) /\ fresh' = TRUE /\ conn' = None
  /\ RowsKept /\ StreamFollows /\ UNCHANGED <<deleting, due>>

DeleteThread(c, t) ==
  /\ t \in view.threads /\ ~deleting[t].under /\ Spend("mine")
  /\ Asked(c, "delete", t, TRUE)
  /\ deleting' = [deleting EXCEPT ![t] = [under |-> TRUE, wasActive |-> view.active = t,
                                          conn |-> conn, fresh |-> fresh]]
  /\ view' = Without(view, {t})
  /\ conn' = IF view.active = t THEN None ELSE conn
  /\ fresh' = (fresh \/ view.active = t)
  /\ RowsKept /\ StreamFollows /\ UNCHANGED due

-----------------------------------------------------------------------------
(* Answers.                                                                *)

\* Mutant: an answer is shown as it is.
ApplySessionMutant(c, keepConn, keepFresh) ==
  LET answer == [rev |-> call[c].rev, threads |-> call[c].threads, active |-> call[c].active]
      shown == IF keepFresh THEN Blank(answer) ELSE answer
  IN /\ conn' = shown.active
     /\ view' = Merge(shown, call[c].partial, {})
     /\ fresh' = (fresh /\ (shown.active = None \/ keepFresh))

(* applySession. An answer that is partial is merged, others replace what  *)
(* is shown, whatever its revision. *)
ApplySession(c, keepConn, keepFresh) ==
  LET answer == Without([rev |-> call[c].rev, threads |-> call[c].threads, active |-> call[c].active], Hidden)
      shown == IF keepFresh THEN Blank(answer) ELSE answer
  IN /\ conn' = IF keepConn /\ conn = shown.active THEN conn ELSE shown.active
     /\ view' = Merge(shown, call[c].partial, {})
     /\ fresh' = (fresh /\ (shown.active = None \/ keepFresh))

Answered(c) ==
  /\ call[c].pc = "answered" /\ call[c].does \notin {"delete", "reconcile"}
  /\ ApplySession(c, call[c].does = "refresh", fresh /\ call[c].does \in {"get", "refresh"})
  /\ due' = IF call[c].does = "activate" THEN due \cup {"refresh"} ELSE due
  /\ Closed(c)
  /\ RowsKept /\ StreamFollows /\ UNCHANGED <<deleting, eleft>>

(* Nothing is taken back: what was shown at once stays. *)
Failed(c) ==
  /\ call[c].pc \in {"missing", "failed"} /\ call[c].does \notin {"delete", "reconcile"}
  /\ Closed(c)
  /\ RowsKept /\ StreamKept /\ UNCHANGED <<tabVars, eleft>>

Deleted(c) ==
  /\ call[c].pc = "answered" /\ call[c].does = "delete"
  /\ ApplySession(c, FALSE, FALSE)
  /\ deleting' = [deleting EXCEPT ![call[c].thread] = NoDelete]
  /\ due' = due \cup {"refresh"}
  /\ Closed(c)
  /\ RowsKept /\ StreamFollows /\ UNCHANGED eleft

\* Mutant: a deletion that the server has not found stays under way.
DeleteMissingMutant(c) ==
  /\ call[c].pc = "missing" /\ call[c].does = "delete"
  /\ due' = due \cup {"refresh"}
  /\ Closed(c)
  /\ RowsKept /\ StreamKept /\ UNCHANGED <<view, conn, fresh, deleting, eleft>>

DeleteMissing(c) ==
  /\ call[c].pc = "missing" /\ call[c].does = "delete"
  /\ deleting' = [deleting EXCEPT ![call[c].thread] = NoDelete]
  /\ due' = due \cup {"refresh"}
  /\ Closed(c)
  /\ RowsKept /\ StreamKept /\ UNCHANGED <<view, conn, fresh, eleft>>

(* A deletion that failed may have happened: the tab reads the session.    *)
DeleteFailed(c) ==
  /\ call[c].pc = "failed" /\ call[c].does = "delete"
  /\ call' = [call EXCEPT ![c] = [NoCall EXCEPT !.pc = "build", !.does = "reconcile", !.mine = TRUE,
                                                !.thread = call[c].thread]]
  /\ RowsKept /\ StreamKept /\ UNCHANGED <<tabVars, eleft>>

Reconciled(c) ==
  /\ call[c].pc = "answered" /\ call[c].does = "reconcile"
  /\ call[c].thread \notin call[c].threads
  /\ ApplySession(c, FALSE, FALSE)
  /\ deleting' = [deleting EXCEPT ![call[c].thread] = NoDelete]
  /\ Closed(c)
  /\ RowsKept /\ StreamFollows /\ UNCHANGED <<due, eleft>>

(* restoreOptimisticDelete *)
RollBack(c) ==
  /\ call[c].does = "reconcile"
  /\ \/ call[c].pc = "failed"
     \/ call[c].pc = "answered" /\ call[c].thread \in call[c].threads
  /\ LET t == call[c].thread
     IN /\ view' = [view EXCEPT !.threads = @ \cup {t}, !.active = IF deleting[t].wasActive THEN t ELSE @]
        /\ conn' = IF deleting[t].wasActive THEN deleting[t].conn ELSE conn
        /\ fresh' = IF deleting[t].wasActive THEN deleting[t].fresh ELSE fresh
        /\ deleting' = [deleting EXCEPT ![t] = NoDelete]
  /\ due' = due \cup {"refresh"}
  /\ Closed(c)
  /\ RowsKept /\ StreamFollows /\ UNCHANGED eleft

-----------------------------------------------------------------------------
(* Events.                                                                 *)

Reconnect ==
  /\ conn # None
  /\ Connect(IF resumes THEN cursor ELSE 0)
  /\ UNCHANGED <<tabVars, eleft>>

Settled(e) == IF e.type \in {"snapshot", "reset"} THEN {id \in owed : id > e.id} ELSE owed \ {e.id}

(* applySessionEvent: an event of an older revision is ignored. A change   *)
(* of the active thread asks for a connection to it, and an event without  *)
(* one gives the connection up; the handler learns of either from React's  *)
(* updater of the session, which may run only after the handler looked.    *)
ReceiveEvent ==
  /\ stream.open /\ stream.queue # <<>>
  /\ LET e == Head(stream.queue)
         whole == e.type \in {"snapshot", "reset", "refreshed"}
         shown == Without(IF whole /\ fresh THEN Blank([rev |-> e.rev, threads |-> e.threads, active |-> e.active])
                          ELSE [rev |-> e.rev, threads |-> e.threads, active |-> e.active], Hidden)
     IN /\ owed' = Settled(e)
        /\ \/ /\ e.type = "run" \/ e.rev < view.rev
              /\ UNCHANGED <<view, conn, due>>
           \/ /\ e.type # "run" /\ e.rev >= view.rev
              /\ view' = Merge(shown, ~whole, e.gone)
              /\ \/ UNCHANGED <<conn, due>>
                 \/ /\ ~whole /\ shown.active \notin {None, conn}
                    /\ due' = due \cup {"get"} /\ UNCHANGED conn
                 \/ shown.active = None /\ conn' = None /\ UNCHANGED due
        /\ stream' = IF conn' = None THEN [open |-> FALSE, queue |-> <<>>] ELSE [stream EXCEPT !.queue = Tail(@)]
        /\ resumes' = (conn' # None)
        /\ cursor' = e.id
  /\ UNCHANGED <<db, snap, revision, log, last, call, fresh, deleting, eleft>>

-----------------------------------------------------------------------------
TabSteps(c) ==
  \/ Read(c) \/ Answered(c) \/ Failed(c) \/ Deleted(c) \/ DeleteMissing(c) \/ DeleteFailed(c)
  \/ Reconciled(c) \/ RollBack(c)

TabNext ==
  \/ SessionSteps /\ UNCHANGED tabVars
  \/ \E c \in Calls :
       \/ TabSteps(c) \/ StartNewSession(c)
       \/ \E t \in Threads : ActivateThread(c, t) \/ ArchiveThread(c, t) \/ DeleteThread(c, t)
  \/ Reconnect \/ ReceiveEvent

TabSpec == EventInit /\ TabInit /\ [][TabNext]_svars

(* While a deletion is under way no answer and no event brings the thread  *)
(* back, in the list or as the active one.                                 *)
DeletingStaysHidden == view.threads \cap Hidden = {} /\ view.active \notin Hidden

(* A deletion comes to an end, and then the thread is gone on the server   *)
(* too or the tab shows it again.                                          *)
DeletionResolves ==
  \A t \in Threads :
    deleting[t].under ~> ~deleting[t].under /\ (db.status[t] = "gone" \/ t \in view.threads)

===============================================================================
