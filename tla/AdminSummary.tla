------------------------------ MODULE AdminSummary ------------------------------
(***************************************************************************)
(* The summary a tab shows of its workspace. The control plane builds it   *)
(* with several reads, one after the other, and stamps it at the end; the  *)
(* tab asks for it when something happened, a request at a time or, when   *)
(* it is forced to, several at once.                                       *)
(***************************************************************************)
EXTENDS Naturals, FiniteSets

CONSTANTS
  Refreshes,    \* slots of requests under way
  None,
  MaxAttempts,  \* maximumCatchUpAttempts
  SummaryBudgets \* bound: how often each of these happens in a behaviour:
                 \* changes of the workspace, steps of its trace, requests
                 \* to refresh, losses of an answer, of access or of the view

VARIABLES
  facts,    \* how many changes the workspace has seen
  serverClock, \* the control plane's clock
  trace,    \* runtime_traces and runtime_spans of the latest trace
  request,  \* the tab's requests, by slot
  number,   \* latestRequestSequence
  shown,    \* snapshot
  inFlight, \* the request others join, None if there is none
  pending,  \* pendingRefreshInput, kept while the timer runs
  detail,   \* pendingDetail of the tab's events
  prefer,   \* projectionPreference
  cool,     \* the last summary is younger than automatedRefreshCooldownMs
  uleft     \* what is left of the budget

serverVars == <<facts, serverClock, trace>>
tabState == <<request, number, shown, inFlight, pending, detail, prefer, cool>>
summaryVars == <<serverVars, tabState, uleft>>

Spans == {"authz", "provider"}
NoInput == [min |-> 0, attempt |-> 0, drawer |-> FALSE, force |-> FALSE, kept |-> FALSE]
Parts == {"workspace", "chat"}
Nothing == [p \in Parts |-> 0]
NoRequest == [pc |-> "none", no |-> 0, of |-> NoInput, left |-> Parts, sees |-> Nothing, traced |-> "none", at |-> 0]
NotShown == [at |-> 0, sees |-> Nothing, traced |-> "none", loading |-> FALSE, sync |-> "idle"]

SummaryInit ==
  /\ facts = 0 /\ serverClock = 1
  /\ trace = [status |-> "none", spans |-> {}, read |-> {}, finishing |-> FALSE, bottleneck |-> "none"]
  /\ request = [r \in Refreshes |-> NoRequest]
  /\ number = 0 /\ shown = NotShown
  /\ inFlight = None /\ pending = NoInput /\ detail = NoInput
  /\ prefer = "compact" /\ cool = FALSE
  /\ uleft \in SummaryBudgets

Take(what) == uleft[what] > 0 /\ uleft' = [uleft EXCEPT ![what] = @ - 1]

-----------------------------------------------------------------------------
(* The workspace.                                                          *)

(* Something happens in the workspace, in the millisecond of the last or   *)
(* in a later one. *)
Happens ==
  /\ Take("facts")
  /\ facts' = facts + 1
  /\ serverClock' \in {serverClock, serverClock + 1}
  /\ UNCHANGED <<trace, tabState>>

(* startTrace. A trace whose id is used again keeps what it has. *)
StartTrace ==
  /\ Take("traces")
  /\ trace' = [trace EXCEPT !.status = IF @ = "none" THEN "running" ELSE @]
  /\ UNCHANGED <<facts, serverClock, tabState>>

(* recordSpan, also for a trace that has finished. *)
RecordSpan(s) ==
  /\ trace.status # "none" /\ s \notin trace.spans /\ Take("traces")
  /\ trace' = [trace EXCEPT !.spans = @ \cup {s}]
  /\ UNCHANGED <<facts, serverClock, tabState>>

(* finishTrace reads the spans, then writes what it found in them. *)
ReadSpans ==
  /\ trace.status = "running" /\ ~trace.finishing
  /\ trace' = [trace EXCEPT !.read = @ \cup trace.spans, !.finishing = TRUE]
  /\ UNCHANGED <<facts, serverClock, tabState, uleft>>

\* The longest span that is not a phase; the authorization is one.
Bottleneck(spans) ==
  IF "provider" \in spans THEN "provider" ELSE IF spans = {} THEN "none" ELSE "authz"

FinishTrace ==
  /\ trace.finishing
  /\ trace' = [trace EXCEPT !.status = "finished", !.finishing = FALSE, !.bottleneck = Bottleneck(trace.read)]
  /\ UNCHANGED <<facts, serverClock, tabState, uleft>>

-----------------------------------------------------------------------------
(* The control plane builds a summary.                                     *)

(* The rows of the workspace with its events, and the state of its chat,   *)
(* are read at the same time; when both are there, the errors. *)
ReadPart(r, part) ==
  /\ request[r].pc = "sent" /\ part \in request[r].left
  /\ request' = [request EXCEPT ![r].pc = IF request[r].left = {part} THEN "errors" ELSE "sent",
                                ![r].left = @ \ {part}, ![r].sees[part] = facts]
  /\ UNCHANGED <<serverVars, number, shown, inFlight, pending, detail, prefer, cool, uleft>>

ReadWorkspace(r) == ReadPart(r, "workspace")
ReadChat(r) == ReadPart(r, "chat")

ReadErrors(r) ==
  /\ request[r].pc = "errors"
  /\ request' = [request EXCEPT ![r].pc = IF request[r].of.drawer THEN "drawer" ELSE "stamp"]
  /\ UNCHANGED <<serverVars, number, shown, inFlight, pending, detail, prefer, cool, uleft>>

ReadDrawer(r) ==
  /\ request[r].pc = "drawer"
  /\ request' = [request EXCEPT ![r].pc = "stamp", ![r].traced = trace.status]
  /\ UNCHANGED <<serverVars, number, shown, inFlight, pending, detail, prefer, cool, uleft>>

(* generatedAt is taken after the reads. *)
Stamp(r) ==
  /\ request[r].pc = "stamp"
  /\ request' = [request EXCEPT ![r].pc = "answered", ![r].at = serverClock]
  /\ UNCHANGED <<serverVars, number, shown, inFlight, pending, detail, prefer, cool, uleft>>

AnswerLost(r) ==
  /\ request[r].pc \in {"sent", "stamp"} /\ Take("faults")
  /\ request' = [request EXCEPT ![r].pc = "failed"]
  /\ UNCHANGED <<serverVars, number, shown, inFlight, pending, detail, prefer, cool>>

-----------------------------------------------------------------------------
(* The tab.                                                                *)

Later(a, b) == IF b > a THEN b ELSE a

(* mergeRefreshInput *)
MergeInput(old, new) ==
  IF ~old.kept THEN [new EXCEPT !.kept = TRUE]
  ELSE [min |-> Later(old.min, new.min), drawer |-> new.drawer, force |-> old.force \/ new.force, kept |-> TRUE,
        attempt |-> IF new.min > old.min THEN new.attempt
                    ELSE IF old.min > new.min THEN old.attempt ELSE Later(old.attempt, new.attempt)]

(* refreshAdminSummary: joins the request under way, or waits for the      *)
(* cooldown, or sends one. *)
Joins(input) ==
  ~input.force /\ inFlight # None /\ request[inFlight].of.drawer = input.drawer

SendRequest(input) ==
  /\ \E r \in Refreshes :
       /\ request[r].pc = "none"
       /\ request' = [request EXCEPT ![r] = [NoRequest EXCEPT !.pc = "sent", !.no = number + 1, !.of = input]]
       /\ inFlight' = IF input.force THEN inFlight ELSE r
  /\ number' = number + 1
  /\ shown' = [shown EXCEPT !.loading = TRUE]

Refresh(input) ==
  \/ /\ Joins(input)
     /\ UNCHANGED <<request, number, shown, inFlight>>
  \/ /\ ~Joins(input) /\ (input.force \/ ~(cool /\ shown.at > 0))
     /\ SendRequest(input)

Waits(input) == ~input.force /\ ~Joins(input) /\ cool /\ shown.at > 0

(* A component asks directly: when it is mounted, when the drawer opens,   *)
(* when the user clicks. *)
AskSummary(input) ==
  /\ Take("asks")
  /\ IF Waits(input)
     THEN pending' = MergeInput(pending, input) /\ UNCHANGED <<request, number, shown, inFlight>>
     ELSE Refresh(input) /\ UNCHANGED pending
  /\ UNCHANGED <<serverVars, detail, cool>>

Mounted == AskSummary([NoInput EXCEPT !.drawer = prefer = "drawer"]) /\ UNCHANGED prefer
OpenDrawer == prefer' = "drawer" /\ AskSummary([NoInput EXCEPT !.drawer = TRUE])
(* The button forces a request of its own. *)
RefreshNow ==
  /\ Take("asks")
  /\ SendRequest([NoInput EXCEPT !.force = TRUE, !.min = serverClock, !.drawer = prefer = "drawer"])
  /\ UNCHANGED <<serverVars, pending, detail, prefer, cool>>

CloseDrawer ==
  /\ prefer = "drawer" /\ prefer' = "compact"
  /\ UNCHANGED <<serverVars, request, number, shown, inFlight, pending, detail, cool, uleft>>

(* requestWorkbenchSummaryRefresh: the tab notes what it has heard of. *)
Note ==
  /\ Take("asks")
  /\ detail' = [detail EXCEPT !.min = Later(@, serverClock), !.kept = TRUE]
  /\ UNCHANGED <<serverVars, request, number, shown, inFlight, pending, prefer, cool>>

(* A quarter of a second later it schedules a refresh. *)
Dispatch ==
  /\ detail.kept /\ detail' = NoInput
  /\ pending' = MergeInput(pending, [detail EXCEPT !.drawer = prefer = "drawer"])
  /\ UNCHANGED <<serverVars, request, number, shown, inFlight, prefer, cool, uleft>>

(* scheduleAdminSummaryRefresh: the timer fires; if a summary has come     *)
(* since it was set, it is set again. *)
TimerFires ==
  /\ pending.kept /\ ~Waits(pending)
  /\ Refresh(pending) /\ pending' = NoInput
  /\ UNCHANGED <<serverVars, detail, prefer, cool, uleft>>

CoolsDown ==
  /\ cool /\ cool' = FALSE
  /\ UNCHANGED <<serverVars, request, number, shown, inFlight, pending, detail, prefer, uleft>>

CaughtUp(r) == request[r].at >= request[r].of.min

\* Mutant: an answer is shown whichever request was the last.
LatestMutant(r) == TRUE
Latest(r) == request[r].no = number

Left(r) == IF inFlight = r THEN None ELSE inFlight

(* An answer is shown if no request was made after it; one that is too old *)
(* is asked for again, within the window of ten seconds. *)
Answers(r) ==
  /\ request[r].pc = "answered"
  /\ \E again \in {~CaughtUp(r) /\ request[r].of.attempt < MaxAttempts, FALSE} :
       /\ shown' = IF ~Latest(r) THEN shown
                   ELSE [at |-> request[r].at, sees |-> request[r].sees, traced |-> request[r].traced, loading |-> FALSE,
                         sync |-> IF CaughtUp(r) THEN "idle" ELSE IF again THEN "catching_up" ELSE "exhausted"]
       /\ cool' = (cool \/ Latest(r))
       /\ pending' = IF ~again THEN pending
                     ELSE MergeInput(pending, [request[r].of EXCEPT !.force = FALSE, !.attempt = @ + 1])
  /\ request' = [request EXCEPT ![r] = NoRequest]
  /\ inFlight' = Left(r)
  /\ UNCHANGED <<serverVars, number, detail, prefer, uleft>>

AnswerFailed(r) ==
  /\ request[r].pc = "failed"
  /\ shown' = IF Latest(r) THEN [shown EXCEPT !.loading = FALSE] ELSE shown
  /\ request' = [request EXCEPT ![r] = NoRequest]
  /\ inFlight' = Left(r)
  /\ UNCHANGED <<serverVars, number, pending, detail, prefer, cool, uleft>>

(* clearAdminSummaryResource, when the user has no access any more. *)
Clear ==
  /\ Take("faults")
  /\ shown' = NotShown /\ number' = number + 1
  /\ inFlight' = None /\ pending' = NoInput /\ cool' = FALSE
  /\ UNCHANGED <<serverVars, request, detail, prefer>>

(* The last component that shows the summary is unmounted. *)
Unmounted ==
  /\ pending.kept /\ pending' = NoInput /\ Take("faults")
  /\ UNCHANGED <<serverVars, request, number, shown, inFlight, detail, prefer, cool>>

SummaryNext ==
  \/ Happens \/ StartTrace \/ ReadSpans \/ FinishTrace
  \/ \E s \in Spans : RecordSpan(s)
  \/ Mounted \/ OpenDrawer \/ RefreshNow \/ CloseDrawer \/ Note \/ Dispatch
  \/ TimerFires \/ CoolsDown \/ Clear \/ Unmounted
  \/ \E r \in Refreshes : \/ ReadWorkspace(r) \/ ReadChat(r) \/ ReadErrors(r) \/ ReadDrawer(r) \/ Stamp(r) \/ AnswerLost(r)
                         \/ Answers(r) \/ AnswerFailed(r)

-----------------------------------------------------------------------------
(* However the answers overtake each other, what the tab shows never gets  *)
(* older: an activity or a message it has shown does not disappear again,  *)
(* nor is a finished trace shown as running, until the summary is cleared. *)
SummaryNeverGoesBack ==
  [][ (shown.at > 0 /\ shown'.at > 0) =>
        /\ shown'.at >= shown.at
        /\ \A p \in Parts : shown'.sees[p] >= shown.sees[p]
        /\ shown.traced = "finished" => shown'.traced # "running" ]_summaryVars
================================================================================
