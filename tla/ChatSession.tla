----------------------------- MODULE ChatSession -----------------------------
(***************************************************************************)
(* The session's Durable Object: it creates, stages, activates and changes *)
(* threads, hands a thread to another agent, and dispatches a client's     *)
(* turn to the thread, once for each clientTurnId. Requests interleave     *)
(* wherever one awaits D1 or another object, and a restart ends them all.  *)
(***************************************************************************)
EXTENDS ChatState

Known(agent) == IF snap.known THEN snap.agent ELSE agent

(* buildSnapshot: the session's thread, if it is still shown, and its agent. *)
Built(t, agent) ==
  IF t # None /\ Live(t) THEN [known |-> TRUE, thread |-> t, agent |-> thread[t].agent]
  ELSE [known |-> TRUE, thread |-> None, agent |-> agent]

Begin(c, next) == call[c].pc = "idle" /\ call' = [call EXCEPT ![c] = next]
Goto(c, pc) == call' = [call EXCEPT ![c].pc = pc]
Return(c) == call' = [call EXCEPT ![c] = IdleCall]
Request(what) == [IdleCall EXCEPT !.does = what, !.agent = session.preferred]
Dispatching(u) == \E c \in Calls : call[c].does = "materialize" /\ call[c].turn = u

-----------------------------------------------------------------------------
(* A client's turn. A request that finds the same turn under way waits for *)
(* that one's answer.                                                      *)
MaterializeTurn(c, u) ==
  /\ ~Dispatching(u) /\ Spend("turns")
  /\ LET known == [Request("materialize") EXCEPT !.turn = u]
     IN Begin(c, CASE receipt[u].status = "accepted" -> [known EXCEPT !.pc = "get"]
                   [] receipt[u].status = "dispatching" ->
                        [known EXCEPT !.pc = "resume", !.thread = receipt[u].thread, !.agent = receipt[u].agent]
                   [] OTHER -> [known EXCEPT !.pc = "find"])
  /\ UNCHANGED <<thread, session, run, snap, receipt, outbox, threadVars, stream, spoken>>

GetSession(c) ==
  /\ Spend("threads")
  /\ Begin(c, [Request("get") EXCEPT !.pc = "get"])
  /\ UNCHANGED <<thread, session, run, snap, receipt, outbox, threadVars, stream, spoken>>

CreateThread(c) ==
  /\ Spend("threads")
  /\ Begin(c, [Request("create") EXCEPT !.pc = "find"])
  /\ UNCHANGED <<thread, session, run, snap, receipt, outbox, threadVars, stream, spoken>>

StageThread(c) ==
  /\ Spend("threads")
  /\ Begin(c, [Request("stage") EXCEPT !.pc = "find"])
  /\ UNCHANGED <<thread, session, run, snap, receipt, outbox, threadVars, stream, spoken>>

Load(c) ==
  /\ call[c].pc = "get"
  /\ snap' = IF snap.known /\ call[c].does = "materialize" THEN snap
             ELSE Built(session.active, Known(session.agent))
  /\ Return(c)
  /\ UNCHANGED <<thread, session, run, receipt, outbox, threadVars, stream, spoken, cleft>>

Draft(t) == t # None /\ thread[t].status = "draft"
ReusableDraft == IF Draft(snap.thread) THEN snap.thread ELSE session.active

(* The draft the session shows, or the one it remembers, is used again.    *)
FindDraft(c) ==
  /\ call[c].pc = "find"
  /\ LET reuse == call[c].does # "create" /\ Draft(ReusableDraft)
     IN call' = [call EXCEPT
          ![c].thread = IF reuse THEN ReusableDraft ELSE None,
          ![c].agent = IF reuse THEN thread[ReusableDraft].agent ELSE Known(session.agent),
          ![c].pc = IF ~reuse THEN "insert" ELSE IF call[c].does = "stage" THEN "show" ELSE "promote"]
  /\ UNCHANGED <<thread, session, run, snap, receipt, outbox, threadVars, stream, spoken, cleft>>

DropDraft(c) ==
  /\ call[c].pc = "find" /\ call[c].does # "create" /\ Draft(ReusableDraft)
  /\ thread' = [thread EXCEPT ![ReusableDraft].status = "deleted"]
  /\ UNCHANGED <<session, run, sessionVars, threadVars, stream, spoken, cleft>>

(* The row and the session's active thread in one batch. *)
InsertThread(c) ==
  /\ call[c].pc = "insert"
  /\ \E t \in Threads :
       /\ thread[t].status = "none" /\ t = CHOOSE x \in Threads : thread[x].status = "none"
       /\ thread' = [thread EXCEPT ![t] = [status |-> IF call[c].does = "stage" THEN "draft" ELSE "active",
                                           agent |-> call[c].agent]]
       /\ session' = [session EXCEPT !.active = t]
       /\ call' = [call EXCEPT ![c].thread = t,
                               ![c].pc = IF call[c].does = "materialize" THEN "record" ELSE "show"]
  /\ UNCHANGED <<run, snap, receipt, outbox, threadVars, stream, spoken, cleft>>

PromoteRead(c) ==
  /\ call[c].pc = "promote"
  /\ IF Draft(call[c].thread) THEN Goto(c, "promoted") ELSE Return(c)
  /\ UNCHANGED <<thread, session, run, snap, receipt, outbox, threadVars, stream, spoken, cleft>>

(* The row is taken for promoted whatever the update changed. *)
PromoteWrite(c) ==
  /\ call[c].pc = "promoted"
  /\ thread' = IF Draft(call[c].thread) THEN [thread EXCEPT ![call[c].thread].status = "active"] ELSE thread
  /\ Goto(c, "record")
  /\ UNCHANGED <<session, run, snap, receipt, outbox, threadVars, stream, spoken, cleft>>

\* Mutant: the receipt is only written once the turn is accepted.
RecordTurnMutant(c) ==
  /\ call[c].pc = "record"
  /\ snap' = [known |-> TRUE, thread |-> call[c].thread, agent |-> call[c].agent]
  /\ Goto(c, "send")
  /\ UNCHANGED <<thread, session, run, receipt, outbox, threadVars, stream, spoken, cleft>>

(* The receipt is durable before the turn is sent. *)
RecordTurn(c) ==
  /\ call[c].pc = "record"
  /\ snap' = [known |-> TRUE, thread |-> call[c].thread, agent |-> call[c].agent]
  /\ receipt' = [receipt EXCEPT ![call[c].turn] =
                   [status |-> "dispatching", thread |-> call[c].thread, agent |-> call[c].agent]]
  /\ Goto(c, "send")
  /\ UNCHANGED <<thread, session, run, outbox, threadVars, stream, spoken, cleft>>

ResumeTurn(c) ==
  /\ call[c].pc = "resume"
  /\ IF thread[call[c].thread].status = "active"
     THEN /\ snap' = Built(call[c].thread, call[c].agent)
          /\ call' = [call EXCEPT ![c].pc = "send", ![c].status = "again"]
     ELSE Return(c) /\ UNCHANGED snap
  /\ UNCHANGED <<thread, session, run, receipt, outbox, threadVars, stream, spoken, cleft>>

(* A submission carries a token for the thread and its agent. *)
Submit(c) ==
  /\ call[c].pc = "send"
  /\ outbox' = outbox \cup {[turn |-> call[c].turn, thread |-> call[c].thread, agent |-> call[c].agent,
                             again |-> call[c].status = "again", checked |-> FALSE]}
  /\ Goto(c, "wait")
  /\ UNCHANGED <<thread, session, run, snap, receipt, threadVars, stream, spoken, cleft>>

\* Mutant: a refusal counts as accepted.
AnswerMutant(m, heard) ==
  /\ outbox' = outbox \ {m}
  /\ call' = [c \in Calls |-> IF call[c].pc = "wait" /\ call[c].turn = m.turn
                              THEN [call[c] EXCEPT !.pc = "accepted"] ELSE call[c]]

(* The thread's answer, if the request is still there to hear it. *)
Answer(m, heard) ==
  /\ outbox' = outbox \ {m}
  /\ call' = [c \in Calls |-> IF call[c].pc = "wait" /\ call[c].turn = m.turn
                              THEN IF heard = "ok" THEN [call[c] EXCEPT !.pc = "accepted"] ELSE IdleCall
                              ELSE call[c]]

AcceptTurn(c) ==
  /\ call[c].pc = "accepted"
  /\ receipt' = [receipt EXCEPT ![call[c].turn] =
                   [status |-> "accepted", thread |-> call[c].thread, agent |-> call[c].agent]]
  /\ Return(c)
  /\ UNCHANGED <<thread, session, run, snap, outbox, threadVars, stream, spoken, cleft>>

-----------------------------------------------------------------------------
(* Changing a thread.                                                      *)

Ends(c) == call[c].does = "update" /\ call[c].status \in {"archived", "deleted"}

UpdateThread(c, t) ==
  /\ thread[t].status \notin {"none", "deleted"} /\ Spend("threads")
  /\ \/ \E status \in {"active", "archived", "deleted"} :
          Begin(c, [Request("update") EXCEPT !.pc = "persist", !.thread = t, !.status = status])
     \/ Begin(c, [Request("rename") EXCEPT !.pc = "persist", !.thread = t, !.status = thread[t].status])
  /\ UNCHANGED <<thread, session, run, snap, receipt, outbox, threadVars, stream, spoken>>

(* One batch: the runs of a thread that ends are cancelled, and the row    *)
(* gets the status asked for, or for a new title the one that was read.    *)
PersistThread(c) ==
  /\ call[c].pc = "persist"
  /\ thread' = [thread EXCEPT ![call[c].thread].status = call[c].status]
  /\ run' = [r \in Runs |-> IF Ends(c) /\ run[r].status = "running" /\ run[r].thread = call[c].thread
                            THEN [run[r] EXCEPT !.status = "cancelled"] ELSE run[r]]
  /\ Goto(c, IF Ends(c) THEN "abort" ELSE "latest")
  /\ UNCHANGED <<session, snap, receipt, outbox, threadVars, stream, spoken, cleft>>

(* The thread's object drops its turn; a run the batch did not see is then *)
(* left running. The call is best effort.                                  *)
AbortResponse(c) ==
  /\ call[c].pc = "abort"
  /\ LET t == call[c].thread
     IN \/ /\ busy' = [busy EXCEPT ![t] = Free]
           /\ chat' = [chat EXCEPT ![t].aborted = chat[t].pc # "idle"]
           /\ UNCHANGED cleft
        \/ Spend("faults") /\ UNCHANGED <<busy, chat>>
  /\ Goto(c, "latest")
  /\ UNCHANGED <<thread, session, run, snap, receipt, outbox, messages, ending, stream, spoken>>

(* The thread that was active gives way to another one, or to none. *)
FindFallback(c) ==
  /\ call[c].pc = "latest"
  /\ LET t == call[c].thread
         others == {x \in Threads \ {t} : thread[x].status = "active"}
     IN IF ~(Ends(c) /\ session.active = t)
        THEN call' = [call EXCEPT ![c].pc = "show", ![c].thread = None]
        ELSE \/ /\ others = {}
                /\ call' = [call EXCEPT ![c].pc = "touch", ![c].thread = None]
             \/ \E x \in others :
                  call' = [call EXCEPT ![c].pc = "touch", ![c].thread = x, ![c].agent = thread[x].agent]
  /\ UNCHANGED <<thread, session, run, snap, receipt, outbox, threadVars, stream, spoken, cleft>>

ActivateThread(c, t) ==
  /\ thread[t].status = "active" /\ Spend("threads")
  /\ Begin(c, [Request("activate") EXCEPT !.pc = "touch", !.thread = t, !.agent = thread[t].agent])
  /\ UNCHANGED <<thread, session, run, snap, receipt, outbox, threadVars, stream, spoken>>

TouchSession(c) ==
  /\ call[c].pc = "touch"
  /\ session' = [session EXCEPT !.active = call[c].thread,
                                !.preferred = IF call[c].thread = None THEN @ ELSE call[c].agent]
  /\ Goto(c, "show")
  /\ UNCHANGED <<thread, run, snap, receipt, outbox, threadVars, stream, spoken, cleft>>

(* The snapshot shows the row the request holds, or the session's thread.  *)
ShowThread(c) ==
  /\ call[c].pc = "show"
  /\ snap' = IF call[c].thread # None
             THEN [known |-> TRUE, thread |-> call[c].thread, agent |-> call[c].agent]
             ELSE Built(session.active, call[c].agent)
  /\ Return(c)
  /\ UNCHANGED <<thread, session, run, receipt, outbox, threadVars, stream, spoken, cleft>>

-----------------------------------------------------------------------------
(* Handing over to another agent.                                          *)

SwitchAgent(c, t, a) ==
  /\ thread[t].status = "active" /\ Spend("threads")
  /\ Begin(c, [Request("switch") EXCEPT !.pc = IF thread[t].agent = a THEN "show" ELSE "check",
                                        !.thread = t, !.agent = a])
  /\ UNCHANGED <<thread, session, run, snap, receipt, outbox, threadVars, stream, spoken>>

CheckRunning(c) ==
  /\ call[c].pc = "check"
  /\ IF RunningOn(call[c].thread)
     THEN Return(c) /\ UNCHANGED session
     ELSE Goto(c, "handoff") /\ session' = [session EXCEPT !.preferred = call[c].agent]
  /\ UNCHANGED <<thread, run, snap, receipt, outbox, threadVars, stream, spoken, cleft>>

Handoff(c) ==
  /\ call[c].pc = "handoff"
  /\ thread' = [thread EXCEPT ![call[c].thread].agent = call[c].agent]
  /\ session' = [session EXCEPT !.active = call[c].thread, !.agent = call[c].agent]
  /\ Goto(c, "show")
  /\ UNCHANGED <<run, snap, receipt, outbox, threadVars, stream, spoken, cleft>>

SwitchForNewThread(c, a) ==
  /\ Spend("threads")
  /\ session' = [active |-> None, agent |-> a, preferred |-> a]
  /\ Begin(c, [Request("switch") EXCEPT !.pc = "show", !.agent = a])
  /\ UNCHANGED <<thread, run, snap, receipt, outbox, threadVars, stream, spoken>>

-----------------------------------------------------------------------------
(* A call of D1 or of a thread fails, or the object restarts. *)
CallFails(c) ==
  /\ call[c].pc # "idle" /\ Spend("faults")
  /\ Return(c)
  /\ UNCHANGED <<thread, session, run, snap, receipt, outbox, threadVars, stream, spoken>>

SessionRestart ==
  /\ Crash
  /\ call' = [c \in Calls |-> IdleCall]
  /\ snap' = NoSnapshot
  /\ UNCHANGED <<thread, session, run, receipt, outbox, threadVars, stream, spoken>>

SessionNext ==
  \/ \E c \in Calls :
       \/ GetSession(c) \/ CreateThread(c) \/ StageThread(c) \/ Load(c)
       \/ FindDraft(c) \/ DropDraft(c) \/ InsertThread(c) \/ PromoteRead(c) \/ PromoteWrite(c)
       \/ RecordTurn(c) \/ ResumeTurn(c) \/ Submit(c) \/ AcceptTurn(c)
       \/ PersistThread(c) \/ AbortResponse(c) \/ FindFallback(c) \/ TouchSession(c) \/ ShowThread(c)
       \/ CheckRunning(c) \/ Handoff(c) \/ CallFails(c)
       \/ \E u \in Turns : MaterializeTurn(c, u)
       \/ \E t \in Threads : UpdateThread(c, t) \/ ActivateThread(c, t)
       \/ \E t \in Threads, a \in Agents : SwitchAgent(c, t, a)
       \/ \E a \in Agents : SwitchForNewThread(c, a)
  \/ SessionRestart
===============================================================================
