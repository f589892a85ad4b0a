------------------------------- MODULE MCClient --------------------------------
(***************************************************************************)
(* A tab of the web client: its session view, and its connection to a      *)
(* thread; and the turns of the mobile client. The three share no state,   *)
(* so each initial state runs one of them.                                 *)
(***************************************************************************)
EXTENDS ClientSession, ClientTurns, ChatConnection

VARIABLE running

E(mine, others, faults, restarts, expiries) ==
  [mine |-> mine, others |-> others, faults |-> faults, restarts |-> restarts, expiries |-> expiries]
MCEventBudgets == {E(2, 0, 0, 0, 0), E(1, 1, 0, 0, 0), E(1, 0, 1, 0, 1), E(0, 1, 1, 0, 1), E(1, 0, 0, 1, 0)}

T(typed, faults, kills, leaves) == [typed |-> typed, faults |-> faults, kills |-> kills, leaves |-> leaves]
MCTurnBudgets == {T(2, 0, 0, 0), T(1, 1, 1, 0), T(1, 0, 0, 1), T(1, 0, 1, 1)}

K(mine, others, faults) == [mine |-> mine, others |-> others, faults |-> faults]
MCLinkBudgets == {K(1, 0, 0), K(0, 2, 0), K(0, 1, 1)}

vars == <<svars, turnVars, linkVars, running>>

Runs(name) == running = name /\ UNCHANGED running

MCInit ==
  /\ EventInit /\ TabInit /\ TurnInit /\ LinkInit
  /\ running \in {"tab", "turns", "link"}
  /\ running = "tab" \/ eleft = (CHOOSE b \in EventBudgets : TRUE)
  /\ running = "turns" \/ tleft = T(1, 1, 1, 0)
  /\ running = "link" \/ (kleft = K(1, 0, 0) /\ shot.thread = NoChat)

MCNext ==
  \/ Runs("tab") /\ TabNext /\ UNCHANGED <<turnVars, linkVars>>
  \/ Runs("turns") /\ TurnNext /\ UNCHANGED <<svars, linkVars>>
  \/ Runs("link") /\ LinkStep /\ UNCHANGED <<svars, turnVars>>

(* The server and the handlers of the part that runs do not stop while     *)
(* something is left to do, and tokens age.                                *)
MCFairness ==
  /\ \A c \in Calls :
       /\ WF_svars(running = "tab" /\ CallSteps(c) /\ UNCHANGED tabVars)
       /\ WF_svars(running = "tab" /\ TabSteps(c))
  /\ WF_linkVars(running = "link" /\ LinkProgress)
  /\ WF_linkVars(running = "link" /\ Tick)

MCSpec == MCInit /\ [][MCNext]_vars /\ MCFairness
===============================================================================
