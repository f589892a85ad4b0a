------------------------------ MODULE ClientTurns ------------------------------
(***************************************************************************)
(* The chat of the mobile app. A turn is put into the app's database before *)
(* it is sent, and is taken out when the server has accepted it; what is    *)
(* found there when a chat is opened is sent again under the same id. Every *)
(* opening makes a controller, and what an earlier one began goes on. The   *)
(* server accepts a turn id once however often it arrives: ChatSession. What *)
(* the database holds for the user is deleted when the app gives up the     *)
(* user's authority: at the end of a session, and at a switch of workspace. *)
(***************************************************************************)
EXTENDS Naturals

CONSTANTS
  Turns,       \* client turn ids, each with its text
  Submits,     \* concurrent calls that submit a turn
  NoTurn,
  MaxOpens,    \* bound: controllers a process makes
  TurnBudgets  \* bounds: turns typed, calls that fail, processes killed, times the authority is given up

ASSUME TurnAssumption ==
  /\ NoTurn \notin Turns /\ MaxOpens \in Nat
  /\ TurnBudgets \subseteq [typed : Nat, faults : Nat, kills : Nat, leaves : Nat]

VARIABLES
  stored,   \* the row of pending_turn
  ctl,      \* the controller in use, 0 while the app is closed
  active,   \* the turn each controller waits for
  sub,      \* the calls that submit
  accepted, \* turns the server has accepted
  ended,    \* those of them whose run has ended
  authority, \* the user's authority: held, being given up, or none without a session
  tleft     \* what is left of the bounds

turnVars == <<stored, ctl, active, sub, accepted, ended, authority, tleft>>

NoSubmit == [pc |-> "idle", turn |-> NoTurn, gen |-> 0]

TurnInit ==
  /\ stored = NoTurn /\ ctl = 0
  /\ active = [g \in 1..MaxOpens |-> NoTurn]
  /\ sub = [s \in Submits |-> NoSubmit]
  /\ accepted = {} /\ ended = {} /\ authority = "held"
  /\ tleft \in TurnBudgets

UseUp(what) == tleft[what] > 0 /\ tleft' = [tleft EXCEPT ![what] = @ - 1]
Goes(s, pc) == sub' = [sub EXCEPT ![s].pc = pc]
Free(s) == sub[s].pc = "idle" /\ s = CHOOSE r \in Submits : sub[r].pc = "idle"
Returns(s) == sub' = [sub EXCEPT ![s] = NoSubmit]

-----------------------------------------------------------------------------
(* The chat.                                                               *)

(* connectCurrentThread: at the start, and whenever another chat is chosen.*)
(* One that is under way when the session ends goes on.                    *)
OpenChat(s) ==
  /\ ctl < MaxOpens /\ Free(s)
  /\ ctl > 0 \/ authority # "none"
  /\ ctl' = ctl + 1
  /\ active' = IF ctl = 0 THEN active ELSE [active EXCEPT ![ctl] = NoTurn]
  /\ sub' = [sub EXCEPT ![s] = [pc |-> "queued", turn |-> NoTurn, gen |-> ctl + 1]]
  /\ UNCHANGED <<stored, accepted, ended, authority, tleft>>

(* submit refuses a turn at its call, while the controller waits for one.  *)
Submit(s, t, g) ==
  sub' = [sub EXCEPT ![s] = IF active[g] = NoTurn THEN [pc |-> "get", turn |-> t, gen |-> g] ELSE NoSubmit]

ReadQueued(s) ==
  /\ sub[s].pc = "queued"
  /\ IF stored = NoTurn THEN Returns(s) ELSE Submit(s, stored, sub[s].gen)
  /\ UNCHANGED <<stored, ctl, active, accepted, ended, authority, tleft>>

(* The adapter's run. The composer lets one go at a time; a turn that      *)
(* waits already is sent again by its text only.                           *)
Type(s, t) ==
  /\ ctl > 0 /\ authority # "none" /\ Free(s) /\ t \notin accepted /\ UseUp("typed")
  /\ \A r \in Submits : sub[r].pc # "connect"
  /\ stored \in {NoTurn, t}
  /\ sub' = [sub EXCEPT ![s] = [pc |-> "connect", turn |-> t, gen |-> 0]]
  /\ UNCHANGED <<stored, ctl, active, accepted, ended, authority>>

TypedConnects(s) ==
  /\ sub[s].pc = "connect"
  /\ Submit(s, sub[s].turn, ctl)
  /\ UNCHANGED <<stored, ctl, active, accepted, ended, authority, tleft>>

TypedFails(s) ==
  /\ sub[s].pc = "connect" /\ UseUp("faults")
  /\ Returns(s)
  /\ UNCHANGED <<stored, ctl, active, accepted, ended, authority>>

-----------------------------------------------------------------------------
(* submit.                                                                 *)

Send(s) ==
  /\ Goes(s, "sent")
  /\ active' = [active EXCEPT ![sub[s].gen] = sub[s].turn]

SubmitGet(s) ==
  /\ sub[s].pc = "get"
  /\ \/ /\ stored = sub[s].turn /\ Send(s)
     \/ /\ stored = NoTurn /\ Goes(s, "put") /\ UNCHANGED active
     \/ /\ stored \notin {NoTurn, sub[s].turn} /\ Returns(s) /\ UNCHANGED active
  /\ UNCHANGED <<stored, ctl, accepted, ended, authority, tleft>>

SubmitPut(s) ==
  /\ sub[s].pc = "put"
  /\ stored' = sub[s].turn
  /\ Send(s)
  /\ UNCHANGED <<ctl, accepted, ended, authority, tleft>>

ServerAccepts(s) ==
  /\ sub[s].pc = "sent"
  /\ accepted' = accepted \cup {sub[s].turn}
  /\ Goes(s, "answered")
  /\ UNCHANGED <<stored, ctl, active, ended, authority, tleft>>

(* The request, or only its answer, is lost. *)
SendLost(s) ==
  /\ sub[s].pc = "sent" /\ UseUp("faults")
  /\ accepted' \in {accepted, accepted \cup {sub[s].turn}}
  /\ Goes(s, "failed")
  /\ UNCHANGED <<stored, ctl, active, ended, authority>>

(* An answer nobody waits for any more leaves the turn stored. *)
SendAnswered(s) ==
  /\ sub[s].pc = "answered"
  /\ IF active[sub[s].gen] = NoTurn THEN Returns(s) ELSE Goes(s, "clear")
  /\ UNCHANGED <<stored, ctl, active, accepted, ended, authority, tleft>>

\* Mutant: the row is deleted whatever turn it holds.
ClearPendingMutant(s) ==
  /\ sub[s].pc = "clear"
  /\ stored' = NoTurn
  /\ Returns(s)
  /\ UNCHANGED <<ctl, active, accepted, ended, authority, tleft>>

ClearPending(s) ==
  /\ sub[s].pc = "clear"
  /\ stored' = IF stored = sub[s].turn THEN NoTurn ELSE stored
  /\ Returns(s)
  /\ UNCHANGED <<ctl, active, accepted, ended, authority, tleft>>

(* The failure gives up whatever turn the controller waits for by then.    *)
SendFailed(s) ==
  /\ sub[s].pc = "failed"
  /\ active' = [active EXCEPT ![sub[s].gen] = NoTurn]
  /\ Returns(s)
  /\ UNCHANGED <<stored, ctl, accepted, ended, authority, tleft>>

(* The run ends, which may be before the answer to the send: the event     *)
(* settles the turn of the controller in use, or is missed.                *)
RunEnds(t) ==
  /\ t \in accepted \ ended
  /\ ended' = ended \cup {t}
  /\ \/ UNCHANGED active
     \/ ctl > 0 /\ active[ctl] = t /\ active' = [active EXCEPT ![ctl] = NoTurn]
  /\ UNCHANGED <<stored, ctl, sub, accepted, authority, tleft>>

(* The user cancels, or three minutes have passed. *)
GivesUp ==
  /\ ctl > 0 /\ active[ctl] # NoTurn
  /\ active' = [active EXCEPT ![ctl] = NoTurn]
  /\ UNCHANGED <<stored, ctl, sub, accepted, ended, authority, tleft>>

-----------------------------------------------------------------------------
(* The user's authority.                                                   *)

(* clearLocalAuthority deletes the row, whatever turn it holds: at the    *)
(* sign-out, a token refresh that fails, a session that cannot be read and *)
(* a switch of workspace. A sign-out deletes twice. A deletion may fail.   *)
GivesUpAuthority ==
  /\ \/ authority = "held" /\ UseUp("leaves")
     \/ authority = "leaving" /\ UNCHANGED tleft
  /\ stored' \in {NoTurn, stored}
  /\ authority' = "leaving"
  /\ UNCHANGED <<ctl, active, sub, accepted, ended>>

(* The session has ended and the chat leaves the screen; what its calls    *)
(* began goes on.                                                          *)
SessionEnds ==
  /\ authority = "leaving"
  /\ authority' = "none"
  /\ active' = IF ctl = 0 THEN active ELSE [active EXCEPT ![ctl] = NoTurn]
  /\ UNCHANGED <<stored, ctl, sub, accepted, ended, tleft>>

(* The other workspace is active. *)
WorkspaceSwitched ==
  /\ authority = "leaving"
  /\ authority' = "held"
  /\ UNCHANGED <<stored, ctl, active, sub, accepted, ended, tleft>>

(* A process that started without a session deletes the row as well.       *)
SignIn ==
  /\ authority = "none"
  /\ authority' = "held"
  /\ stored' \in IF ctl = 0 THEN {NoTurn, stored} ELSE {stored}
  /\ UNCHANGED <<ctl, active, sub, accepted, ended, tleft>>

(* The process ends; what is on the network arrives all the same. The next *)
(* one finds a session, or none, as far as it had been given up.           *)
Killed ==
  /\ ctl > 0 /\ UseUp("kills")
  /\ \E arrived \in SUBSET {sub[s].turn : s \in {r \in Submits : sub[r].pc = "sent"}} :
       accepted' = accepted \cup arrived
  /\ ctl' = 0
  /\ active' = [g \in 1..MaxOpens |-> NoTurn]
  /\ sub' = [s \in Submits |-> NoSubmit]
  /\ authority' \in IF authority = "leaving" THEN {"held", "none"} ELSE {authority}
  /\ UNCHANGED <<stored, ended>>

TurnNext ==
  \/ \E s \in Submits :
       \/ OpenChat(s) \/ ReadQueued(s) \/ TypedConnects(s) \/ TypedFails(s) \/ SubmitGet(s) \/ SubmitPut(s)
       \/ ServerAccepts(s) \/ SendLost(s) \/ SendAnswered(s) \/ ClearPending(s) \/ SendFailed(s)
       \/ \E t \in Turns : Type(s, t)
  \/ \E t \in Turns : RunEnds(t)
  \/ GivesUp \/ Killed
  \/ GivesUpAuthority \/ SessionEnds \/ WorkspaceSwitched \/ SignIn

TurnSpec == TurnInit /\ [][TurnNext]_turnVars

(* As long as the app holds the user's authority, a turn is deleted from   *)
(* the database only after the server accepted it, whichever calls,        *)
(* controllers and processes have handled it. Giving the authority up      *)
(* deletes the turn unsent; and of two calls that both read the row empty, *)
(* the later put replaces the other's turn, which is not a deletion.       *)
StoreKeepsTurn ==
  [][stored # NoTurn /\ stored' = NoTurn /\ authority = "held" /\ authority' = "held"
       => stored \in accepted]_turnVars
===============================================================================
