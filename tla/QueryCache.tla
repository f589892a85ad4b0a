------------------------------- MODULE QueryCache -------------------------------
(***************************************************************************)
(* The query cache that the screens of the web and of the mobile client    *)
(* share. A query is kept under a key that starts with a workspace; a      *)
(* mutation that succeeds, and an event of the session, invalidate keys; a *)
(* query that is shown and whose key is invalidated is read again.         *)
(***************************************************************************)
EXTENDS Naturals, FiniteSets

CONSTANTS
  Workspaces,
  CacheBudgets \* bound: what the user does, what others do, reads that fail

VARIABLES
  truth,    \* the control plane: how often each resource of a workspace changed
  resolved, \* the workspace the control plane resolves for this user
  cached,   \* the data of each query: of which workspace, how new, marked as stale
  read,     \* the reads of the queries under way
  screen,   \* the resources that are shown
  follows,  \* the workspace whose session's events arrive
  news,     \* the event on its way, and the versions it is about
  mutation, \* the mutation under way
  busyAction, \* of the history panel
  selected, \* how new the run is that is selected in the history panel
  own,      \* history: how new what is shown must become for the user's own changes
  lost,     \* history: the resources a read of which failed
  qleft     \* what is left of the budget

cacheVars == <<truth, resolved, cached, read, screen, follows, news, mutation, busyAction, selected, own, lost, qleft>>

Resources == {"runs", "run", "actions", "approvals", "archived"}
NoData == [of |-> "none", ver |-> 0, stale |-> FALSE]
NoRead == [pc |-> "none", of |-> "none", ver |-> 0]
NoNews == [type |-> "none", vers |-> [r \in Resources |-> 0]]
NoMutation == [pc |-> "none", kind |-> "none", vers |-> [r \in Resources |-> 0]]
Zero == [r \in Resources |-> 0]
Screens == {{"runs", "run", "actions"}, {"approvals"}, {"archived"}}

CacheInit ==
  /\ truth = [w \in Workspaces |-> [r \in Resources |-> 1]]
  /\ resolved \in Workspaces /\ follows = resolved
  /\ cached = [r \in Resources |-> NoData] /\ read = [r \in Resources |-> NoRead]
  /\ screen = {} /\ news = NoNews /\ mutation = NoMutation /\ busyAction = "none" /\ selected = 0
  /\ own = Zero /\ lost = {}
  /\ qleft \in CacheBudgets

Spends(what) == qleft[what] > 0 /\ qleft' = [qleft EXCEPT ![what] = @ - 1]

-----------------------------------------------------------------------------
(* Keys.                                                                   *)

(* tenantId: the hooks of the screens name no workspace and so share the   *)
(* key of the current one; only the listing of archived threads names the  *)
(* workspace of the session. *)
KeyOf(r) == IF r = "archived" THEN follows ELSE "__current__"

\* What the control plane changes with each mutation and announces with
\* each event.
Touches(kind) ==
  CASE kind = "run" -> {"runs", "run"}
    [] kind = "approval" -> {"approvals", "runs", "run", "actions"}
    [] kind = "proposal" -> {"actions", "approvals", "runs"}
    [] kind = "thread" -> {"archived"}

\* Mutant: a decision about an approval does not reach the action ledger.
InvalidationsMutant(kind) ==
  CASE kind = "run" -> {"runs", "run"}
    [] kind = "approval" -> {"approvals", "runs", "run"}
    [] kind = "proposal" -> {"actions", "approvals", "runs"}
    [] kind = "thread" -> {"archived"}

(* The keys that the mutation hooks invalidate. *)
Invalidations(kind) ==
  CASE kind = "run" -> {"runs", "run"}
    [] kind = "approval" -> {"approvals", "runs", "run", "actions"}
    [] kind = "proposal" -> {"actions", "approvals", "runs"}
    [] kind = "thread" -> {"archived"}

(* workbenchSessionEventInvalidations, by the event's type. *)
EventInvalidations(type) ==
  CASE type = "run" -> {"runs"}
    [] type = "approval" -> {"approvals", "runs", "run", "actions"}
    [] type = "proposal" -> {"actions", "approvals", "runs", "run"}
    [] type = "thread" -> {"archived"}

(* Invalidating marks the data as stale; a query that is shown is read     *)
(* again, and a read under way is given up. *)
Reading(r) == [NoRead EXCEPT !.pc = "sent"]
InvalidateKeys(keys) ==
  /\ cached' = [r \in Resources |-> IF r \in keys /\ cached[r] # NoData THEN [cached[r] EXCEPT !.stale = TRUE] ELSE cached[r]]
  /\ read' = [r \in Resources |-> IF r \in keys \cap screen THEN Reading(r) ELSE read[r]]

-----------------------------------------------------------------------------
(* The control plane.                                                      *)

Bump(w, kind) == [truth EXCEPT ![w] = [r \in Resources |-> IF r \in Touches(kind) THEN @[r] + 1 ELSE @[r]]]

(* A run goes on, or someone else decides; the session broadcasts it. *)
OthersAct ==
  /\ Spends("others") /\ news.type = "none"
  /\ \E w \in Workspaces, kind \in {"run", "approval", "proposal", "thread"} :
       /\ truth' = Bump(w, kind)
       /\ news' = IF w = follows THEN [type |-> kind, vers |-> truth'[w]] ELSE news
  /\ UNCHANGED <<resolved, cached, read, screen, follows, mutation, busyAction, selected, own, lost>>

ReadResource(r) ==
  /\ read[r].pc = "sent"
  /\ read' = [read EXCEPT ![r] = [pc |-> "answered", of |-> resolved, ver |-> truth[resolved][r]]]
  /\ UNCHANGED <<truth, resolved, cached, screen, follows, news, mutation, busyAction, selected, own, lost, qleft>>

ReadShown(r) ==
  /\ read[r].pc = "answered"
  /\ cached' = [cached EXCEPT ![r] = [of |-> read[r].of, ver |-> read[r].ver, stale |-> FALSE]]
  /\ read' = [read EXCEPT ![r] = NoRead]
  /\ UNCHANGED <<truth, resolved, screen, follows, news, mutation, busyAction, selected, own, lost, qleft>>

ReadFails(r) ==
  /\ read[r].pc # "none" /\ Spends("faults")
  /\ read' = [read EXCEPT ![r] = NoRead] /\ lost' = lost \cup {r}
  /\ UNCHANGED <<truth, resolved, cached, screen, follows, news, mutation, busyAction, selected, own>>

-----------------------------------------------------------------------------
(* The screens.                                                            *)

(* A screen opens: what it shows is read if there is no data or it is      *)
(* stale; the history panel reads it anyway (loadHistory) and selects the  *)
(* newest run. *)
OpenScreen ==
  /\ screen = {} /\ Spends("asks")
  /\ \E s \in Screens :
       /\ screen' = s
       /\ read' = [r \in Resources |-> IF r \in s /\ ("runs" \in s \/ cached[r] = NoData \/ cached[r].stale)
                                       THEN Reading(r) ELSE NoRead]
       /\ selected' = IF "runs" \in s THEN cached["runs"].ver ELSE selected
  /\ UNCHANGED <<truth, resolved, cached, follows, news, mutation, busyAction, own, lost>>

\* A read nobody waits for any more is given up.
CloseScreen ==
  /\ screen # {} /\ screen' = {} /\ read' = [r \in Resources |-> NoRead]
  /\ own' = Zero /\ lost' = {}
  /\ UNCHANGED <<truth, resolved, cached, follows, news, mutation, busyAction, selected, qleft>>

(* The user takes another run, while the panel has one to show. *)
InspectRun ==
  /\ "runs" \in screen /\ selected # cached["runs"].ver /\ Spends("asks")
  /\ selected' = cached["runs"].ver
  /\ UNCHANGED <<truth, resolved, cached, read, screen, follows, news, mutation, busyAction, own, lost>>

(* performRunAction, decideApproval, performProposalAction; the screens of *)
(* the mobile client call the same hooks. *)
Mutate ==
  /\ mutation.pc = "none" /\ busyAction = "none" /\ Spends("asks")
  /\ \E kind \in {"run", "approval", "proposal", "thread"} :
       /\ screen \cap Touches(kind) # {}
       /\ mutation' = [NoMutation EXCEPT !.pc = "sent", !.kind = kind]
       /\ busyAction' = IF "runs" \in screen THEN kind ELSE busyAction
  /\ UNCHANGED <<truth, resolved, cached, read, screen, follows, news, selected, own, lost>>

MutationRuns ==
  /\ mutation.pc = "sent" /\ mutation.kind # "switch"
  /\ truth' = Bump(resolved, mutation.kind)
  /\ mutation' = [mutation EXCEPT !.pc = "answered", !.vers = truth'[resolved]]
  /\ UNCHANGED <<resolved, cached, read, screen, follows, news, busyAction, selected, own, lost, qleft>>

Newer(old, vers, kind) == [r \in Resources |-> IF r \in Touches(kind) \cap screen THEN vers[r] ELSE old[r]]

(* useTenantMutation: its success invalidates. *)
MutationAnswered ==
  /\ mutation.pc = "answered" /\ mutation.kind # "switch"
  /\ InvalidateKeys(Invalidations(mutation.kind))
  /\ own' = Newer(own, mutation.vers, mutation.kind) /\ lost' = {}
  /\ mutation' = NoMutation /\ busyAction' = "none"
  /\ UNCHANGED <<truth, resolved, screen, follows, news, selected, qleft>>

MutationFails ==
  /\ mutation.pc \in {"sent", "answered"} /\ mutation.kind # "switch" /\ Spends("faults")
  /\ mutation' = NoMutation /\ busyAction' = "none"
  /\ UNCHANGED <<truth, resolved, cached, read, screen, follows, news, selected, own, lost>>

(* An event invalidates the keys of the workspace whose session it comes   *)
(* from. *)
EventArrives ==
  /\ news.type # "none"
  /\ InvalidateKeys({r \in EventInvalidations(news.type) : KeyOf(r) = follows})
  /\ lost' = {} /\ news' = NoNews
  /\ UNCHANGED <<truth, resolved, screen, follows, mutation, busyAction, selected, own, qleft>>

-----------------------------------------------------------------------------
(* useActivateWorkspace: reads are given up and the caches of all          *)
(* workspaces are cleared before the switch is asked for.                  *)

SwitchTo ==
  /\ mutation.pc = "none" /\ Spends("asks")
  /\ mutation' = [NoMutation EXCEPT !.pc = "sent", !.kind = "switch"]
  /\ cached' = [r \in Resources |-> NoData] /\ read' = [r \in Resources |-> NoRead]
  /\ UNCHANGED <<truth, resolved, screen, follows, news, busyAction, selected, own, lost>>

Switched ==
  /\ mutation.pc = "sent" /\ mutation.kind = "switch"
  /\ \E w \in Workspaces \ {resolved} : resolved' = w
  /\ mutation' = NoMutation
  /\ own' = Zero /\ lost' = {}
  /\ UNCHANGED <<truth, cached, read, screen, follows, news, busyAction, selected, qleft>>

(* The client connects to the session of the workspace it now has. *)
StreamFollows ==
  /\ follows # resolved /\ mutation.pc = "none"
  /\ follows' = resolved /\ news' = NoNews
  /\ cached' = [cached EXCEPT !["archived"] = NoData] /\ read' = [read EXCEPT !["archived"] = IF "archived" \in screen THEN Reading("archived") ELSE NoRead]
  /\ own' = Zero /\ lost' = {}
  /\ UNCHANGED <<truth, resolved, screen, mutation, busyAction, selected, qleft>>

Answering(r) == ReadResource(r) \/ ReadShown(r)

CacheNext ==
  \/ OthersAct \/ OpenScreen \/ CloseScreen \/ InspectRun \/ Mutate \/ MutationRuns \/ MutationAnswered
  \/ MutationFails \/ EventArrives \/ SwitchTo \/ Switched \/ StreamFollows
  \/ \E r \in Resources : Answering(r) \/ ReadFails(r)

(* Reads and mutations are answered, and events arrive. *)
CacheFairness ==
  /\ WF_cacheVars(\E r \in Resources : Answering(r))
  /\ WF_cacheVars(MutationRuns) /\ WF_cacheVars(MutationAnswered) /\ WF_cacheVars(EventArrives)

-----------------------------------------------------------------------------
Shows(r, ver) == r \notin screen \/ r \in lost \/ cached[r].ver >= ver \/ mutation.kind = "switch"

(* What the user has changed comes to be shown wherever the open screen    *)
(* shows it, also when a read was under way that missed the change, unless *)
(* the read fails or the workspace is switched.                            *)
OwnChangeIsShown == []<>(\A r \in Resources : Shows(r, own[r]))
================================================================================
