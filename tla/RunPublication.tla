---------------------------- MODULE RunPublication ----------------------------
(***************************************************************************)
(* The workflow runs of an agent pack: the request that executes one in    *)
(* the control plane, the signed runner that executes its tools elsewhere, *)
(* and the callbacks by which the runner reports progress and stages       *)
(* artifacts.  A staged artifact is shown by no view; finishing the run    *)
(* publishes it.  A user's cancellation, a trigger's disabling, an expired  *)
(* lease, the deletion of the workspace and a callback that reports the    *)
(* end all end a run while its workflow, its runner and other callbacks    *)
(* are still under way, and take its publication authority away.           *)
(*                                                                         *)
(* Each guarded batch is one step; between two statements of a request     *)
(* everything else may happen.                                             *)
(***************************************************************************)
EXTENDS Naturals, FiniteSets

CONSTANTS
  PackRuns,    \* the requests to run a workflow, each with the run it may start
  MaxToolCalls, MaxConcurrentRuns, \* the pack's resource limits
  PubBudgets,  \* how many tool calls, ends from outside, lost answers and writes are explored
  NoRun

ASSUME PublicationAssumption ==
  /\ MaxToolCalls \in Nat \ {0} /\ MaxConcurrentRuns \in Nat /\ NoRun \notin PackRuns
  /\ PubBudgets \subseteq [calls : Nat, ends : Nat, lost : Nat, writes : Nat]

Calls1 == 1 .. MaxToolCalls

VARIABLES
  prun,     \* control_runs
  endedBy,  \* which of the writers below ended the run: history, no code reads it
  toolRow,  \* control_tool_calls, by run and number of the call
  file,     \* control_artifacts the runner staged, by run and call
  report,   \* the artifacts a finished workflow returned, published at once
  kept,     \* the managed state of the agent: its version and who wrote it
  flow,     \* the requests
  runner,   \* the invocations of the runner
  post,     \* the callbacks of each invocation
  ran,      \* the invocations whose tool has been executed
  pleft

pvars == <<prun, endedBy, toolRow, file, report, kept, flow, runner, post, ran, pleft>>
requestVars == <<prun, endedBy, report, kept, flow>>
runnerVars == <<runner, post, ran>>

RunActive == {"running"}
Ended == {"completed", "failed"}
IdleFlow == [at |-> "idle", n |-> 0, ok |-> TRUE, seen |-> 0, source |-> "user", retryOf |-> NoRun,
             lineage |-> NoRun]
NoPost == [event |-> "none", at |-> "none"]

PublicationInit ==
  /\ prun = [r \in PackRuns |-> "none"]
  /\ endedBy = [r \in PackRuns |-> "none"]
  /\ toolRow = [r \in PackRuns |-> [c \in Calls1 |-> "none"]]
  /\ file = [r \in PackRuns |-> [c \in Calls1 |-> "none"]]
  /\ report = [r \in PackRuns |-> FALSE]
  /\ kept = [version |-> 0, by |-> NoRun]
  /\ flow = [r \in PackRuns |-> IdleFlow]
  /\ runner = [r \in PackRuns |-> [c \in Calls1 |-> "idle"]]
  /\ post = [r \in PackRuns |-> [c \in Calls1 |-> NoPost]]
  /\ ran = {}
  /\ pleft \in PubBudgets

FlowTo(r, at) == flow' = [flow EXCEPT ![r].at = at]
Use(kind) == pleft[kind] > 0 /\ pleft' = [pleft EXCEPT ![kind] = @ - 1]
AtFlow(r, at) == flow[r].at = at

-----------------------------------------------------------------------------
(* The request *)

\* A user, or a trigger's dispatch: refused before anything is written when the
\* pack, the input or a tool's policy does not allow it.
SubmitWorkflow(r) ==
  /\ AtFlow(r, "idle")
  /\ \E source \in {"user", "trigger"} :
       flow' = [flow EXCEPT ![r] = [@ EXCEPT !.at = "counting", !.source = source]]
  /\ UNCHANGED <<prun, endedBy, toolRow, file, report, kept, runnerVars, pleft>>

SubmitRetry(r) ==
  /\ AtFlow(r, "idle")
  /\ \E old \in PackRuns \ {r} :
       /\ prun[old] \in {"failed", "cancelled"}
       /\ flow' = [flow EXCEPT ![r] = [@ EXCEPT !.at = "counting", !.retryOf = old]]
  /\ UNCHANGED <<prun, endedBy, toolRow, file, report, kept, runnerVars, pleft>>

\* The concurrency limit compares a count of the rows as they are now ...
CountRuns(r) ==
  /\ AtFlow(r, "counting")
  /\ FlowTo(r, IF Cardinality({x \in PackRuns : prun[x] \in RunActive}) >= MaxConcurrentRuns
               THEN "over" ELSE "starting")
  /\ UNCHANGED <<prun, endedBy, toolRow, file, report, kept, runnerVars, pleft>>

\* ... and the run is inserted later, without comparing again.
InsertRun(r) ==
  /\ AtFlow(r, "starting")
  /\ prun' = [prun EXCEPT ![r] = "running"]
  /\ FlowTo(r, "working")
  /\ UNCHANGED <<endedBy, toolRow, file, report, kept, runnerVars, pleft>>

\* The workflow invokes a tool: inline, or by a signed request to the runner.
\* Past maxToolCallsPerRun the call fails without a trace.
InvokeInline(r) ==
  /\ AtFlow(r, "working") /\ flow[r].n < MaxToolCalls /\ Use("calls")
  /\ \E ok \in BOOLEAN :
       flow' = [flow EXCEPT ![r] = [@ EXCEPT !.n = flow[r].n + 1, !.at = "recording", !.ok = ok]]
  /\ UNCHANGED <<prun, endedBy, toolRow, file, report, kept, runnerVars>>

InvokeRunner(r) ==
  /\ AtFlow(r, "working") /\ flow[r].n < MaxToolCalls /\ Use("calls")
  /\ flow' = [flow EXCEPT ![r] = [@ EXCEPT !.n = flow[r].n + 1, !.at = "calling"]]
  /\ runner' = [runner EXCEPT ![r][flow[r].n + 1] = "invoked"]
  /\ UNCHANGED <<prun, endedBy, toolRow, file, report, kept, post, ran>>

\* invokeFlyToolRunner: the runner's answer, or a failed fetch while the
\* runner goes on.
HearRunner(r) ==
  LET c == flow[r].n IN
  /\ AtFlow(r, "calling") /\ runner[r][c] \in {"ok", "bad"}
  /\ flow' = [flow EXCEPT ![r] = [@ EXCEPT !.at = "recording", !.ok = runner[r][c] = "ok"]]
  /\ UNCHANGED <<prun, endedBy, toolRow, file, report, kept, runnerVars, pleft>>

LoseRunner(r) ==
  /\ AtFlow(r, "calling")
  /\ flow' = [flow EXCEPT ![r] = [@ EXCEPT !.at = "recording", !.ok = FALSE]]
  /\ Use("lost")
  /\ UNCHANGED <<prun, endedBy, toolRow, file, report, kept, runnerVars>>

RecordToolCall(r) ==
  /\ AtFlow(r, "recording")
  /\ toolRow' = IF prun[r] \in RunActive
                THEN [toolRow EXCEPT ![r][flow[r].n] = IF flow[r].ok THEN "completed" ELSE "failed"]
                ELSE toolRow
  /\ FlowTo(r, "working")
  /\ UNCHANGED <<prun, endedBy, file, report, kept, runnerVars, pleft>>

\* managedState.upsert: read the version, then write if it is still the same;
\* a conflict fails the workflow.  Neither looks at the run.
ReadState(r) ==
  /\ AtFlow(r, "working") /\ Use("writes")
  /\ flow' = [flow EXCEPT ![r] = [@ EXCEPT !.at = "writing", !.seen = kept.version]]
  /\ UNCHANGED <<prun, endedBy, toolRow, file, report, kept, runnerVars>>

WriteState(r) ==
  /\ AtFlow(r, "writing")
  /\ IF kept.version = flow[r].seen
     THEN /\ kept' = [version |-> kept.version + 1, by |-> r]
          /\ FlowTo(r, "working")
     ELSE /\ flow' = [flow EXCEPT ![r] = [@ EXCEPT !.at = "finishing", !.ok = FALSE]]
          /\ UNCHANGED kept
  /\ UNCHANGED <<prun, endedBy, toolRow, file, report, runnerVars, pleft>>

WorkflowReturns(r) ==
  /\ AtFlow(r, "working")
  /\ \E ok \in BOOLEAN : flow' = [flow EXCEPT ![r] = [@ EXCEPT !.at = "finishing", !.ok = ok]]
  /\ UNCHANGED <<prun, endedBy, toolRow, file, report, kept, runnerVars, pleft>>

\* Mutant: publishing without asking whether the run is still active.
PublishMutant(r) == [file EXCEPT ![r] = [c \in Calls1 |-> IF @[c] = "staged" THEN "published" ELSE @[c]]]

Publish(r) ==
  IF prun[r] \in RunActive
  THEN [file EXCEPT ![r] = [c \in Calls1 |-> IF @[c] = "staged" THEN "published" ELSE @[c]]]
  ELSE file

Reported(r) == report[r] \/ (prun[r] \in RunActive /\ flow[r].ok)

Concluded(r) ==
  IF prun[r] \notin RunActive THEN prun[r] ELSE IF flow[r].ok THEN "completed" ELSE "failed"

\* finishPackWorkflowRun, one batch: what the runner staged is published even
\* when the workflow failed, what the workflow returned only when it did not.
\* Without authority the output is discarded and the answer names no run.
FinishRun(r) ==
  /\ AtFlow(r, "finishing")
  /\ file' = Publish(r)
  /\ report' = [report EXCEPT ![r] = Reported(r)]
  /\ prun' = [prun EXCEPT ![r] = Concluded(r)]
  /\ endedBy' = [endedBy EXCEPT ![r] = IF prun[r] \in RunActive THEN "workflow" ELSE @]
  /\ FlowTo(r, IF prun[r] \in RunActive /\ flow[r].retryOf # NoRun THEN "retried" ELSE "over")
  /\ UNCHANGED <<toolRow, kept, runnerVars, pleft>>

\* A retry learns its run from the answer, and only then names what it retries.
RecordLineage(r) ==
  /\ AtFlow(r, "retried")
  /\ flow' = [flow EXCEPT ![r] = [@ EXCEPT !.at = "over", !.lineage = flow[r].retryOf]]
  /\ UNCHANGED <<prun, endedBy, toolRow, file, report, kept, runnerVars, pleft>>

-----------------------------------------------------------------------------
(* Ending a run from outside.  Only the user's cancellation clears away    *)
(* what the runner has staged.                                             *)

CancelledRows(r) == [c \in Calls1 |-> IF toolRow[r][c] = "running" THEN "cancelled" ELSE toolRow[r][c]]

CloseRun(r, status, by) ==
  /\ prun[r] \in RunActive
  /\ prun' = [prun EXCEPT ![r] = status]
  /\ endedBy' = [endedBy EXCEPT ![r] = by]

CancelRun(r) ==
  /\ CloseRun(r, "cancelled", "user") /\ Use("ends")
  /\ toolRow' = [toolRow EXCEPT ![r] = CancelledRows(r)]
  /\ file' = [file EXCEPT ![r] = [c \in Calls1 |-> IF @[c] = "staged" THEN "none" ELSE @[c]]]
  /\ UNCHANGED <<report, kept, flow, runnerVars>>

\* Disabling a trigger cancels its runs ...
CancelTriggered(r) ==
  /\ flow[r].source = "trigger" /\ CloseRun(r, "cancelled", "trigger") /\ Use("ends")
  /\ UNCHANGED <<toolRow, file, report, kept, flow, runnerVars>>

\* ... and the recovery of a dispatch whose lease has expired fails its run:
\* either leaves tool rows and staged artifacts as they are.
RecoverLease(r) ==
  /\ flow[r].source = "trigger" /\ CloseRun(r, "failed", "lease") /\ Use("ends")
  /\ UNCHANGED <<toolRow, file, report, kept, flow, runnerVars>>

\* Deleting the workspace cancels every active run and its tool rows; the
\* workspace, with what was staged in it, may yet be recovered.
QuarantineRuns ==
  LET active == {r \in PackRuns : prun[r] \in RunActive} IN
  /\ active # {} /\ Use("ends")
  /\ prun' = [r \in PackRuns |-> IF r \in active THEN "cancelled" ELSE prun[r]]
  /\ endedBy' = [r \in PackRuns |-> IF r \in active THEN "quarantine" ELSE endedBy[r]]
  /\ toolRow' = [r \in PackRuns |-> CancelledRows(r)]
  /\ UNCHANGED <<file, report, kept, flow, runnerVars>>

-----------------------------------------------------------------------------
(* The runner *)

RunnerTo(r, c, at) == runner' = [runner EXCEPT ![r][c] = at]
Posts(r, c, event) == post' = [post EXCEPT ![r][c] = [event |-> event, at |-> "sent"]]
Asking == {"starting", "filing"}
EndEvents == {"run.completed", "run.failed"}

\* The signature is verified and the envelope matched with the compiled
\* contract ...
RefuseInvocation(r, c) ==
  /\ runner[r][c] = "invoked" /\ RunnerTo(r, c, "bad")
  /\ UNCHANGED <<requestVars, toolRow, file, post, ran, pleft>>

\* ... and the tool waits until the control plane has accepted that it starts.
BeginInvocation(r, c) ==
  /\ runner[r][c] = "invoked" /\ RunnerTo(r, c, "starting") /\ Posts(r, c, "run.progress")
  /\ UNCHANGED <<requestVars, toolRow, file, ran, pleft>>

HearCallback(r, c) ==
  /\ runner[r][c] \in Asking /\ post[r][c].at \in {"applied", "refused"}
  /\ RunnerTo(r, c, IF post[r][c].at = "refused" THEN "bad"
                    ELSE IF runner[r][c] = "starting" THEN "executing" ELSE "ok")
  /\ UNCHANGED <<requestVars, toolRow, file, post, ran, pleft>>

\* The fetch throws: the runner gives up, its request may still be handled.
LoseCallback(r, c) ==
  /\ runner[r][c] \in Asking /\ Use("lost")
  /\ RunnerTo(r, c, "bad")
  /\ UNCHANGED <<requestVars, toolRow, file, post, ran>>

ExecuteTool(r, c) ==
  /\ runner[r][c] = "executing"
  /\ ran' = ran \union {<<r, c>>}
  /\ \/ \E at \in {"ok", "bad"} : RunnerTo(r, c, at) /\ UNCHANGED post
     \/ RunnerTo(r, c, "filing") /\ Posts(r, c, "artifact.created")
  /\ UNCHANGED <<requestVars, toolRow, file, pleft>>

\* A signed runner may also report that the run has ended; the repository's own
\* runner leaves that to the workflow.
ReportEnd(r, c) ==
  /\ runner[r][c] = "executing" /\ Use("ends")
  /\ ran' = ran \union {<<r, c>>}
  /\ RunnerTo(r, c, "filing")
  /\ \E event \in EndEvents : Posts(r, c, event)
  /\ UNCHANGED <<requestVars, toolRow, file>>

-----------------------------------------------------------------------------
(* The callback handler: the run is read, then one batch whose every       *)
(* statement asks again whether the run is active.                         *)

PostTo(r, c, at) == post' = [post EXCEPT ![r][c].at = at]

\* Not signed, signed more than five minutes ago, or its nonce is used up.
RejectCallback(r, c) ==
  /\ post[r][c].at = "sent" /\ PostTo(r, c, "refused")
  /\ UNCHANGED <<requestVars, toolRow, file, runner, ran, pleft>>

ReadCallbackRun(r, c) ==
  /\ post[r][c].at = "sent"
  /\ PostTo(r, c, IF prun[r] \in RunActive THEN "read" ELSE "refused")
  /\ UNCHANGED <<requestVars, toolRow, file, runner, ran, pleft>>

Applied(r) == IF prun[r] \in RunActive THEN "applied" ELSE "refused"

StatusOf(event) ==
  CASE event = "run.completed" -> "completed" [] event = "run.failed" -> "failed" [] OTHER -> "running"

\* Whatever it reports, a callback may carry an artifact, which is staged; one
\* that reports the end closes the run and publishes nothing.
ApplyCallback(r, c) ==
  LET event == post[r][c].event IN
  /\ post[r][c].at = "read"
  /\ PostTo(r, c, Applied(r))
  /\ IF prun[r] \in RunActive
     THEN /\ toolRow' = [toolRow EXCEPT ![r][c] = StatusOf(event)]
          /\ \/ event # "artifact.created" /\ UNCHANGED file
             \/ event # "run.progress" /\ file' = [file EXCEPT ![r][c] = "staged"]
          /\ IF event \in EndEvents THEN CloseRun(r, StatusOf(event), "callback")
                                   ELSE UNCHANGED <<prun, endedBy>>
     ELSE UNCHANGED <<prun, endedBy, toolRow, file>>
  /\ UNCHANGED <<report, kept, flow, runner, ran, pleft>>

-----------------------------------------------------------------------------
WorkflowStep(r) ==
  \/ SubmitWorkflow(r) \/ SubmitRetry(r) \/ CountRuns(r) \/ InsertRun(r) \/ InvokeInline(r) \/ InvokeRunner(r)
  \/ HearRunner(r) \/ LoseRunner(r) \/ RecordToolCall(r) \/ ReadState(r) \/ WriteState(r)
  \/ WorkflowReturns(r) \/ FinishRun(r) \/ RecordLineage(r)

PublicationNext ==
  \/ QuarantineRuns
  \/ \E r \in PackRuns :
    \/ WorkflowStep(r) \/ CancelRun(r) \/ CancelTriggered(r) \/ RecoverLease(r)
    \/ \E c \in Calls1 :
         RefuseInvocation(r, c) \/ BeginInvocation(r, c) \/ HearCallback(r, c)
         \/ LoseCallback(r, c) \/ ExecuteTool(r, c) \/ ReportEnd(r, c)
         \/ RejectCallback(r, c) \/ ReadCallbackRun(r, c) \/ ApplyCallback(r, c)

\* What every view lists of a run's artifacts.
ShownArtifacts(r) == {c \in Calls1 : file[r][c] = "published"}

-----------------------------------------------------------------------------
(* Only the workflow of a run publishes anything of it: a report belongs   *)
(* to a run that its workflow completed, and no artifact shows of a run    *)
(* that a user, a trigger, an expired lease, a deletion or a callback has  *)
(* ended, whichever request, runner or callback of it is still under way.  *)
(* A run ended by its workflow or by its user leaves nothing staged behind *)
(* either (runtime-run-lifecycle.ts, finishPackWorkflowRun;                *)
(* docs/agent-runtime-kit.md, "Cancellation permanently revokes            *)
(* publication authority"); the other four ends may leave staged           *)
(* artifacts, which the first two clauses keep from ever being shown.      *)
PublicationFollowsRun ==
  \A r \in PackRuns :
    /\ report[r] => prun[r] = "completed" /\ endedBy[r] = "workflow"
    /\ ShownArtifacts(r) # {} => endedBy[r] = "workflow"
    /\ endedBy[r] \in {"workflow", "user"} => \A c \in Calls1 : file[r][c] # "staged"

===============================================================================
