------------------------------- MODULE ChatRuns -------------------------------
(***************************************************************************)
(* The two runtimes that answer a message: the Durable Object of a thread, *)
(* which the session and the client's WebSocket send turns to, and the     *)
(* simple chat behind the LangGraph facade. Both mirror their run in D1.   *)
(* The chat library (external) runs one turn of a thread at a time; a turn *)
(* it aborts ends without any callback.                                    *)
(***************************************************************************)
EXTENDS ChatSession

ClaimsHold(t, a) == Live(t) /\ thread[t].agent = a

(* A submission whose claims hold goes on; its thread may change meanwhile. *)
VerifySubmit(m) ==
  /\ ~m.checked
  /\ IF ClaimsHold(m.thread, m.agent)
     THEN outbox' = (outbox \ {m}) \cup {[m EXCEPT !.checked = TRUE]} /\ UNCHANGED call
     ELSE Answer(m, "error")
  /\ UNCHANGED <<thread, session, run, snap, receipt, threadVars, stream, spoken, cleft>>

AlreadyTaken(m) == messages[m.thread][m.turn] > 0 \/ busy[m.thread].turn = m.turn

TakeTurn(m) ==
  /\ m.checked
  /\ IF AlreadyTaken(m) THEN Answer(m, "ok") /\ UNCHANGED <<messages, busy>>
     ELSE IF busy[m.thread] # Free THEN Answer(m, "error") /\ UNCHANGED <<messages, busy>>
     ELSE /\ messages' = [messages EXCEPT ![m.thread][m.turn] = @ + 1]
          /\ busy' = [busy EXCEPT ![m.thread] = [turn |-> m.turn, agent |-> m.agent, begun |-> FALSE]]
          /\ Answer(m, "ok")
  /\ UNCHANGED <<thread, session, run, snap, receipt, chat, ending, stream, spoken, cleft>>

BeginTurn(t) ==
  /\ busy[t] # Free /\ ~busy[t].begun /\ chat[t].pc = "idle"
  /\ chat' = [chat EXCEPT ![t] = [IdleChat EXCEPT !.pc = "verify", !.agent = busy[t].agent]]
  /\ busy' = [busy EXCEPT ![t].begun = TRUE]
  /\ UNCHANGED <<thread, session, run, sessionVars, messages, ending, stream, spoken, cleft>>

(* A message typed into an open connection, whose token may be old. *)
TypeMessage(t, a) ==
  /\ thread[t].status # "none" /\ chat[t].pc = "idle" /\ Spend("typed")
  /\ chat' = [chat EXCEPT ![t] = [IdleChat EXCEPT !.pc = "verify", !.agent = a]]
  /\ UNCHANGED <<thread, session, run, sessionVars, messages, busy, ending, stream, spoken>>

EndChat(t) ==
  /\ chat' = [chat EXCEPT ![t] = IdleChat]
  /\ busy' = IF busy[t].begun THEN [busy EXCEPT ![t] = Free] ELSE busy

VerifyClaims(t) ==
  /\ chat[t].pc = "verify"
  /\ IF ClaimsHold(t, chat[t].agent)
     THEN chat' = [chat EXCEPT ![t].pc = "promote"] /\ UNCHANGED busy
     ELSE EndChat(t)
  /\ UNCHANGED <<thread, session, run, sessionVars, messages, ending, stream, spoken, cleft>>

PromoteDraft(t) ==
  /\ chat[t].pc = "promote"
  /\ thread' = IF Draft(t) THEN [thread EXCEPT ![t].status = "active"] ELSE thread
  /\ chat' = [chat EXCEPT ![t].pc = "start"]
  /\ UNCHANGED <<session, run, sessionVars, messages, busy, ending, stream, spoken, cleft>>

(* The user presses Stop: the library aborts the turn's signal.            *)
StopResponse(t) ==
  /\ chat[t].pc # "idle" /\ ~chat[t].aborted /\ Spend("typed")
  /\ chat' = [chat EXCEPT ![t].aborted = TRUE]
  /\ UNCHANGED <<thread, session, run, sessionVars, messages, busy, ending, stream, spoken>>

(* The run-start batch; the insert fails while another run is running, and *)
(* a batch that throws has inserted a run or not.                          *)
StartRun(t) ==
  /\ chat[t].pc = "start"
  /\ \/ /\ RunningOn(t)
        /\ EndChat(t)
        /\ UNCHANGED run
     \/ \E r \in Runs :
          /\ Claims(r, t, FALSE)
          /\ chat' = [chat EXCEPT ![t].pc = "stream", ![t].run = r]
          /\ UNCHANGED busy
  /\ UNCHANGED <<thread, session, sessionVars, messages, ending, stream, spoken, cleft>>

StartFails(t) ==
  /\ chat[t].pc = "start" /\ Spend("faults")
  /\ UNCHANGED run \/ \E r \in Runs : Claims(r, t, TRUE)
  /\ EndChat(t)
  /\ UNCHANGED <<thread, session, sessionVars, messages, ending, stream, spoken>>

(* onFinish: the library is done with the turn, the mirror is still to be  *)
(* written.                                                                *)
FinishStream(t) ==
  /\ chat[t].pc = "stream" /\ ~chat[t].aborted
  /\ ending' = [ending EXCEPT ![chat[t].run] = "complete"]
  /\ EndChat(t)
  /\ UNCHANGED <<thread, session, run, sessionVars, messages, stream, spoken, cleft>>

\* Mutant: the failure is announced, the run's row is not updated.
FailAgentRunMutant(t) ==
  /\ chat[t].pc = "stream" /\ Spend("faults")
  /\ EndChat(t)
  /\ UNCHANGED <<thread, session, run, sessionVars, messages, ending, stream, spoken>>

(* The tools or the stream fail. Should the write of the failure fail too, *)
(* nothing writes it again: the turn is marked terminal before it.         *)
FailAgentRun(t) ==
  /\ chat[t].pc = "stream"
  /\ \/ Faults(1) /\ Settles(chat[t].run, "failed")
     \/ Faults(2) /\ Leave(chat[t].run)
  /\ EndChat(t)
  /\ UNCHANGED <<thread, session, sessionVars, messages, ending, stream, spoken>>

(* An aborted stream calls neither onFinish nor onError, and no onAbort is *)
(* given: the run is left, unless an archive has cancelled it.             *)
AbortStream(t) ==
  /\ chat[t].pc = "stream" /\ chat[t].aborted
  /\ Leave(chat[t].run)
  /\ EndChat(t)
  /\ UNCHANGED <<thread, session, sessionVars, messages, ending, stream, spoken, cleft>>

\* Mutant: a run that was cancelled meanwhile is completed.
CompleteRunMutant(r) ==
  /\ ending[r] = "complete"
  /\ run' = [run EXCEPT ![r].status = "completed"]
  /\ ending' = [ending EXCEPT ![r] = "store"]
  /\ UNCHANGED <<thread, session, sessionVars, messages, busy, chat, stream, spoken, cleft>>

CompleteRun(r) ==
  /\ ending[r] = "complete"
  /\ Settles(r, "completed")
  /\ ending' = [ending EXCEPT ![r] = IF run[r].status = "running" THEN "store" ELSE "none"]
  /\ UNCHANGED <<thread, session, sessionVars, messages, busy, chat, stream, spoken, cleft>>

CompleteFails(r) ==
  /\ ending[r] # "none" /\ Spend("faults")
  /\ ending' = [ending EXCEPT ![r] = "none"]
  /\ Leave(r)
  /\ UNCHANGED <<thread, session, sessionVars, messages, busy, chat, stream, spoken>>

StoreOutput(r) ==
  /\ ending[r] = "store"
  /\ spoken' = spoken \cup {r}
  /\ ending' = [ending EXCEPT ![r] = "none"]
  /\ UNCHANGED <<thread, session, run, sessionVars, messages, busy, chat, stream, cleft>>

(* The object restarts: its messages stay, its turn and callbacks do not.  *)
ThreadRestart(t) ==
  /\ \/ busy[t] # Free \/ chat[t].pc # "idle"
     \/ \E r \in Runs : ending[r] # "none" /\ run[r].thread = t
     \/ \E m \in outbox : m.thread = t /\ m.checked
  /\ Crash
  /\ busy' = [busy EXCEPT ![t] = Free]
  /\ chat' = [chat EXCEPT ![t] = IdleChat]
  /\ ending' = [r \in Runs |-> IF run[r].thread = t THEN "none" ELSE ending[r]]
  /\ LET lost == {m \in outbox : m.thread = t /\ m.checked}
     IN /\ outbox' = outbox \ lost
        /\ call' = [c \in Calls |-> IF call[c].pc = "wait" /\ \E m \in lost : m.turn = call[c].turn
                                    THEN IdleCall ELSE call[c]]
  /\ UNCHANGED <<thread, session, run, snap, receipt, messages, stream, spoken>>

-----------------------------------------------------------------------------
(* The simple chat.                                                        *)

StreamGoto(q, pc) == stream' = [stream EXCEPT ![q].pc = pc]
StreamEnds(q) == stream' = [stream EXCEPT ![q] = IdleStream]

SimpleCreate(q) ==
  /\ stream[q].pc = "idle" /\ Spend("streams")
  /\ \E t \in Threads :
       /\ thread[t].status = "none" /\ t = CHOOSE x \in Threads : thread[x].status = "none"
       /\ thread' = [thread EXCEPT ![t] = [status |-> "active", agent |-> session.preferred]]
       /\ stream' = [stream EXCEPT ![q] = [IdleStream EXCEPT !.pc = "created", !.thread = t]]
  /\ UNCHANGED <<session, run, sessionVars, threadVars, spoken>>

SimpleTouch(q) ==
  /\ stream[q].pc \in {"created", "asked"}
  /\ session' = [session EXCEPT !.active = stream[q].thread]
  /\ IF stream[q].pc = "created" THEN StreamEnds(q) ELSE StreamGoto(q, "policy")
  /\ UNCHANGED <<thread, run, sessionVars, threadVars, spoken, cleft>>

(* Any thread of the user is answered in, whatever its status. *)
SimpleAsk(q, t) ==
  /\ stream[q].pc = "idle" /\ thread[t].status # "none" /\ Spend("streams")
  /\ stream' = [stream EXCEPT ![q] = [IdleStream EXCEPT !.pc = "asked", !.thread = t]]
  /\ UNCHANGED <<thread, session, run, sessionVars, threadVars, spoken>>

(* evaluateChatRunPolicy: no second run, and no execute mode. *)
PolicyBlocks(q, mode) == RunningOn(stream[q].thread) \/ mode = "execute"

SimplePolicy(q) ==
  /\ stream[q].pc = "policy"
  /\ \E mode \in {"ask", "execute"} :
       IF PolicyBlocks(q, mode) THEN StreamEnds(q) ELSE StreamGoto(q, "claim")
  /\ UNCHANGED <<thread, session, run, sessionVars, threadVars, spoken, cleft>>

SimpleClaim(q) ==
  /\ stream[q].pc = "claim"
  /\ \/ RunningOn(stream[q].thread) /\ StreamEnds(q) /\ UNCHANGED run
     \/ \E r \in Runs :
          /\ Claims(r, stream[q].thread, FALSE)
          /\ stream' = [stream EXCEPT ![q].pc = "claimed", ![q].run = r]
  /\ UNCHANGED <<thread, session, sessionVars, threadVars, spoken, cleft>>

SimpleClaimFails(q) ==
  /\ stream[q].pc = "claim" /\ Spend("faults")
  /\ UNCHANGED run \/ \E r \in Runs : Claims(r, stream[q].thread, TRUE)
  /\ StreamEnds(q)
  /\ UNCHANGED <<thread, session, sessionVars, threadVars, spoken>>

(* The input is stored in the thread, outside of every try.                *)
SimpleStore(q) ==
  /\ stream[q].pc = "claimed"
  /\ StreamGoto(q, "provider")
  /\ UNCHANGED <<thread, session, run, sessionVars, threadVars, spoken, cleft>>

SimpleStoreFails(q) ==
  /\ stream[q].pc = "claimed" /\ Spend("faults")
  /\ Leave(stream[q].run)
  /\ StreamEnds(q)
  /\ UNCHANGED <<thread, session, sessionVars, threadVars, spoken>>

(* The assistant is unknown, the key is missing, or the provider fails;    *)
(* the write of the failure may fail too.                                  *)
SimpleFail(q) ==
  /\ stream[q].pc = "provider"
  /\ \/ Faults(1) /\ Settles(stream[q].run, "failed")
     \/ Faults(2) /\ Leave(stream[q].run)
  /\ StreamEnds(q)
  /\ UNCHANGED <<thread, session, sessionVars, threadVars, spoken>>

SimpleComplete(q) ==
  /\ stream[q].pc = "provider"
  /\ Settles(stream[q].run, "completed")
  /\ IF run[stream[q].run].status = "running" THEN StreamGoto(q, "output") ELSE StreamEnds(q)
  /\ UNCHANGED <<thread, session, sessionVars, threadVars, spoken, cleft>>

SimpleOutput(q) ==
  /\ stream[q].pc = "output"
  /\ \/ spoken' = spoken \cup {stream[q].run} /\ UNCHANGED cleft
     \/ Spend("faults") /\ UNCHANGED spoken
  /\ StreamEnds(q)
  /\ UNCHANGED <<thread, session, run, sessionVars, threadVars>>

StreamLost(q) ==
  /\ stream[q].pc # "idle" /\ Crash
  /\ StreamEnds(q)
  /\ UNCHANGED <<thread, session, run, sessionVars, threadVars, spoken>>

-----------------------------------------------------------------------------
ThreadSteps(t) ==
  BeginTurn(t) \/ VerifyClaims(t) \/ PromoteDraft(t) \/ StartRun(t) \/ FinishStream(t) \/ AbortStream(t)
ThreadFaults(t) == StartFails(t) \/ FailAgentRun(t)
RunSteps(r) == CompleteRun(r) \/ StoreOutput(r)
StreamSteps(q) ==
  SimpleTouch(q) \/ SimplePolicy(q) \/ SimpleClaim(q) \/ SimpleStore(q) \/ SimpleComplete(q) \/ SimpleOutput(q)
StreamFaults(q) == SimpleClaimFails(q) \/ SimpleStoreFails(q) \/ SimpleFail(q)

ChatNext ==
  \/ SessionNext
  \/ \E m \in outbox : VerifySubmit(m) \/ TakeTurn(m)
  \/ \E t \in Threads :
       ThreadSteps(t) \/ ThreadFaults(t) \/ StopResponse(t) \/ ThreadRestart(t)
       \/ \E a \in Agents : TypeMessage(t, a)
  \/ \E r \in Runs : RunSteps(r) \/ CompleteFails(r)
  \/ \E q \in Streams :
       \/ StreamSteps(q) \/ SimpleCreate(q) \/ StreamFaults(q) \/ StreamLost(q)
       \/ \E t \in Threads : SimpleAsk(q, t)

ChatSpec == ChatInit /\ [][ChatNext]_cvars

(* A handler that is not lost runs on; nobody need type or ask. *)
ChatFairness ==
  /\ \A t \in Threads : WF_cvars(ThreadSteps(t))
  /\ \A r \in Runs : WF_cvars(RunSteps(r))
  /\ \A q \in Streams : WF_cvars(StreamSteps(q))

-----------------------------------------------------------------------------
(* A turn the client sends is taken into a thread once: however often it   *)
(* is retried, whichever invocation is lost on the way, and however late a *)
(* submission arrives ("A crash or retry cannot start a second model       *)
(* run").                                                                  *)
TurnTakenOnce ==
  \A u \in Turns, t \in Threads :
    messages[t][u] > 0 => messages[t][u] = 1 /\ \A s \in Threads \ {t} : messages[s][u] = 0

(* A turn the receipts call accepted is in its thread's messages. *)
AcceptedIsTaken ==
  \A u \in Turns : receipt[u].status = "accepted" => messages[receipt[u].thread][u] = 1

(* A run settles once. One that was cancelled with its thread, or failed,  *)
(* is never completed by the answer that arrives afterwards, and nothing   *)
(* of it is stored or announced.                                           *)
RunSettlesOnce ==
  [][/\ \A r \in Runs : run[r].status \in {"completed", "failed", "cancelled"} => run'[r].status = run[r].status
     /\ \A r \in spoken' \ spoken : run[r].status = "completed"]_cvars

(* A run ends, or whoever was to settle it has given up on it: the user    *)
(* stopped the response, or the turn was aborted by an archive or a        *)
(* deletion that found no run yet; the answer of its insert, its input's,  *)
(* its completion's or its failure's write failed; or an invocation was    *)
(* lost. Nothing else leaves a run running, which would block its thread   *)
(* (idx_chat_runs_one_running).                                            *)
RunsEnd == \A r \in Runs : run[r].status = "running" ~> run[r].status # "running" \/ run[r].left \/ ~cleft.whole
===============================================================================
