------------------------------ MODULE ToolAccess ------------------------------
(***************************************************************************)
(* When a runtime tool may run: the policy row of each tool, the decision  *)
(* that is taken from it and recorded, the approval that holds a run back, *)
(* and the run that executes the tool at last. The statements of a call    *)
(* are steps of their own, so that calls overtake each other.              *)
(*                                                                         *)
(* One user with one agent: policy rows, runs and approvals belong to      *)
(* both. The approvals of external actions are those of ActionAuthority.   *)
(***************************************************************************)
EXTENDS Naturals, Sequences

CONSTANTS
  Tools,
  ToolRuns,       \* runs that may be started
  ToolCalls,      \* calls served at a time
  NoTool,
  Catalog,        \* the compiled policy of each tool
  AccessBudgets   \* bounds: calls, edits, turns of the role, lost calls, hours

PolicyRows == [on : BOOLEAN, approval : BOOLEAN, visible : BOOLEAN, dry : BOOLEAN, limit : Nat]

ASSUME ToolAccessAssumption ==
  /\ NoTool \notin Tools /\ Catalog \in [Tools -> PolicyRows]
  /\ AccessBudgets \subseteq [calls : Nat, edits : Nat, roles : Nat, lost : Nat, hours : Nat]

VARIABLES
  stored,      \* tools whose policy row is inserted
  policy,      \* the policy rows; the compiled policy while there is no row
  standing,    \* the user's standing in the workspace
  allowed,     \* decisions to allow that were recorded within the hour
  shunned,     \* tools remembered as no candidates for the model
  toolRun,     \* the status of each run
  approval,    \* the status of each run's approval request
  toolOf,      \* the tool that request is for
  noted,       \* runs whose tool call is recorded
  effects,     \* how often each run executed its tool
  call,        \* the calls being served
  aleft        \* what is left of the bounds

accessVars == <<stored, policy, standing, allowed, shunned, toolRun, approval, toolOf, noted, effects,
                call, aleft>>

policyRows == <<stored, policy>>
held == <<toolRun, approval, toolOf>>
outcome == <<noted, effects>>

NotRead == [on |-> FALSE, approval |-> FALSE, visible |-> FALSE, dry |-> FALSE, limit |-> 0]
NoCallYet == [pc |-> "idle", op |-> "none", tool |-> NoTool, surface |-> "admin_list", todo |-> {},
              standing |-> "none", row |-> NotRead, edit |-> "none", verdict |-> "none", run |-> NoTool]

AccessInit ==
  /\ stored = {} /\ policy = Catalog /\ standing = "admin"
  /\ allowed = [t \in Tools |-> 0] /\ shunned = {}
  /\ toolRun = [x \in ToolRuns |-> "none"] /\ approval = [x \in ToolRuns |-> "none"]
  /\ toolOf = [x \in ToolRuns |-> NoTool]
  /\ noted = {} /\ effects = [x \in ToolRuns |-> 0]
  /\ call = [c \in ToolCalls |-> NoCallYet]
  /\ aleft \in AccessBudgets

ActiveRun(x) == toolRun[x] \in {"queued", "running", "waiting", "interrupted"}

At(c, op, pc) == call[c].op = op /\ call[c].pc = pc
GoTo(c, pc) == [call EXCEPT ![c].pc = pc]
Over(c) == [call EXCEPT ![c] = NoCallYet]
Stop(c) == call' = Over(c)

(***************************************************************************)
(* A call begins with its user's membership.                               *)
(***************************************************************************)
Called(op, pc) == [NoCallYet EXCEPT !.op = op, !.pc = pc, !.standing = standing]
Edits == {"on", "off", "approval", "free", "hidden", "shown"}
AskEdit(p) == [Called("edit", "look") EXCEPT !.tool = p[1], !.edit = p[2]]

(* resolveToolSummaries: every tool is judged for the surface. *)
ListTools(s) == [Called("list", "pick") EXCEPT !.todo = Tools, !.surface = s]

Requested ==
  {[Called("run", "look") EXCEPT !.tool = t, !.surface = "admin_run"] : t \in Tools} \cup
  {[Called("model", "candidate") EXCEPT !.tool = t, !.surface = "model_exposure"] : t \in Tools} \cup
  {[Called("approve", "open") EXCEPT !.run = x, !.surface = "admin_resume"] : x \in ToolRuns} \cup
  {[Called("deny", "open") EXCEPT !.run = x] : x \in ToolRuns} \cup
  {AskEdit(p) : p \in Tools \X Edits} \cup
  {[Called("workflow", "pick") EXCEPT !.todo = Tools, !.surface = "workflow"]} \cup
  {ListTools(s) : s \in {"admin_list", "model_exposure"}}

(* Calls and runs are alike: the next one takes the first that is free.    *)
FreeCall(c) == c = CHOOSE d \in ToolCalls : call[d].pc = "idle"
NewRun(x) == toolRun[x] = "none" /\ x = CHOOSE y \in ToolRuns : toolRun[y] = "none"

BeginCall(c) ==
  /\ call[c].pc = "idle" /\ FreeCall(c) /\ aleft.calls > 0
  /\ \E q \in Requested :
       /\ q.op = "edit" => aleft.edits > 0
       /\ call' = [call EXCEPT ![c] = q]
       /\ aleft' = [aleft EXCEPT !.calls = @ - 1, !.edits = IF q.op = "edit" THEN @ - 1 ELSE @]
  /\ UNCHANGED <<policyRows, standing, allowed, shunned, held, outcome>>

(***************************************************************************)
(* The policy: read the row, insert it if there is none, decide.           *)
(***************************************************************************)
(* What refuses a call on a surface, the first that holds; nothing allows  *)
(* it. seen is the number of allowed calls counted for the limit.          *)
OverLimit(q, seen) == q.row.limit <= seen

Refusals(q, seen) ==
  LET model == q.surface \in {"model_exposure", "model_tool_call"}
      admin == ~model /\ q.surface # "workflow"
  IN << <<q.standing = "disabled", "inactive_membership">>,
        <<~q.row.on, "tool_disabled">>,
        <<~q.row.dry, "unsupported_execution_mode">>,
        <<model /\ q.row.approval, "approval_required">>,
        <<model /\ ~q.row.visible, "model_exposure_blocked">>,
        <<admin /\ q.standing # "admin", "admin_required">>,
        <<~model /\ q.surface # "admin_resume" /\ q.row.approval, "approval_required">>,
        <<~model /\ OverLimit(q, seen), "rate_limit_exceeded">> >>

Verdict(q, seen) ==
  LET hits == SelectSeq(Refusals(q, seen), LAMBDA h : h[1])
  IN IF hits = <<>> THEN "allowed" ELSE Head(hits)[2]

Look(c) ==
  /\ call[c].pc = "look"
  /\ call' = [call EXCEPT ![c].row = policy[call[c].tool], ![c].pc = "judge"]
  /\ UNCHANGED <<policyRows, standing, allowed, shunned, held, outcome>>

(* A model's tool is judged twice, for its exposure and for its call; only *)
(* decisions about calls are recorded. An edit writes what it made of the  *)
(* row it read.                                                            *)
Judge(c) ==
  LET q == call[c]
      admits == q.op = "edit" /\ q.standing = "admin"
      verdict == Verdict(q, allowed[q.tool])
  IN /\ q.pc = "judge"
     /\ stored' = stored \cup {q.tool}
     /\ call' = [call EXCEPT
          ![c].verdict = verdict,
          ![c].row = IF admits THEN @ ELSE NotRead,
          ![c].pc = IF admits THEN "write"
                    ELSE IF q.op = "list" THEN "pick"
                    ELSE IF q.surface = "model_exposure" THEN "exposed"
                    ELSE "record"]
     /\ UNCHANGED <<policy, standing, allowed, shunned, held, outcome>>

RecordDecision(c) ==
  LET q == call[c]
      next == IF q.op = "edit" THEN "end"
              ELSE IF q.verdict = "allowed" THEN
                (IF q.op = "workflow" THEN "pick" ELSE IF q.op = "approve" THEN "commit" ELSE "start")
              ELSE IF q.op = "run" /\ q.verdict = "approval_required" THEN "hold"
              ELSE IF q.op = "model" THEN "exposed" ELSE "end"
  IN /\ q.pc = "record"
     /\ allowed' = [allowed EXCEPT ![q.tool] = IF q.verdict = "allowed" THEN @ + 1 ELSE @]
     /\ call' = [call EXCEPT ![c].pc = next, ![c].verdict = IF q.op = "model" THEN "allowed" ELSE @]
     /\ UNCHANGED <<policyRows, standing, shunned, held, outcome>>

End(c) ==
  /\ call[c].pc = "end" /\ Stop(c)
  /\ UNCHANGED <<policyRows, standing, allowed, shunned, held, outcome>>

(* A workflow asks for each of its tools, a list shows each of them.       *)
Pick(c) ==
  /\ call[c].pc = "pick"
  /\ \/ call[c].todo = {} /\ Stop(c)
     \/ \E t \in call[c].todo :
          call' = [call EXCEPT ![c].tool = t, ![c].todo = @ \ {t}, ![c].pc = "look"]
  /\ UNCHANGED <<policyRows, standing, allowed, shunned, held, outcome>>

(***************************************************************************)
(* Editing a tool's policy.                                                *)
(***************************************************************************)
Edited(row, e) ==
  [row EXCEPT !.on = IF e \in {"on", "off"} THEN e = "on" ELSE @,
              !.approval = IF e \in {"approval", "free"} THEN e = "approval" ELSE @,
              !.visible = IF e \in {"hidden", "shown"} THEN e = "shown" ELSE @]

WriteEdit(c) ==
  LET q == call[c]
  IN /\ q.pc = "write"
     /\ policy' = [policy EXCEPT ![q.tool] = Edited(q.row, q.edit)]
     /\ call' = [call EXCEPT ![c] = ListTools(NoCallYet.surface)]
     /\ UNCHANGED <<stored, standing, allowed, shunned, held, outcome>>

(***************************************************************************)
(* A tool for the model. What is no candidate is remembered for a while;   *)
(* the membership read at the exposure also judges the calls, as many as   *)
(* the model makes.                                                        *)
(***************************************************************************)
Candidate(t) == policy[t].on /\ policy[t].visible /\ ~policy[t].approval

OfferCandidate(c) ==
  LET t == call[c].tool
      offered == t \notin shunned /\ Candidate(t)
  IN /\ call[c].pc = "candidate"
     /\ shunned' = IF offered THEN shunned ELSE shunned \cup {t}
     /\ call' = [call EXCEPT ![c].pc = IF offered THEN "look" ELSE "end", ![c].standing = standing]
     /\ UNCHANGED <<policyRows, standing, allowed, held, outcome>>

UseExposed(c) ==
  /\ call[c].pc = "exposed"
  /\ \/ /\ call[c].verdict = "allowed"
        /\ call' = [call EXCEPT ![c].surface = "model_tool_call", ![c].pc = "look"]
     \/ call' = GoTo(c, "end")
  /\ UNCHANGED <<policyRows, standing, allowed, shunned, held, outcome>>

(***************************************************************************)
(* Approvals.                                                              *)
(***************************************************************************)
(* One batch inserts the run, interrupted, and the request; not when the   *)
(* tool's input does not fit its schema.                                   *)
Hold(c) ==
  /\ call[c].pc = "hold" /\ Stop(c)
  /\ \/ \E x \in ToolRuns :
          /\ NewRun(x)
          /\ toolRun' = [toolRun EXCEPT ![x] = "interrupted"]
          /\ approval' = [approval EXCEPT ![x] = "requested"]
          /\ toolOf' = [toolOf EXCEPT ![x] = call[c].tool]
     \/ UNCHANGED held
  /\ UNCHANGED <<policyRows, standing, allowed, shunned, outcome>>

OpenApproval(c) ==
  LET q == call[c]
  IN /\ q.pc = "open"
     /\ \/ /\ q.standing = "admin" /\ approval[q.run] = "requested"
           /\ \/ /\ q.op = "deny"
                 /\ call' = GoTo(c, "commit")
              \/ /\ q.op = "approve"
                 /\ call' = [call EXCEPT ![c].tool = toolOf[q.run], ![c].pc = "look"]
        \/ ~(q.standing = "admin" /\ approval[q.run] = "requested") /\ Stop(c)
     /\ UNCHANGED <<policyRows, standing, allowed, shunned, held, outcome>>

(* Mutant: the update of the run does not ask whether it is interrupted.   *)
ResumableMutant(x) == TRUE

(* The batch of approveApprovalAndResumeRun: the run is resumed while it   *)
(* is interrupted, and the call goes on if it was resumed.                 *)
Resumable(x) == toolRun[x] = "interrupted"

ApproveCommit(c) ==
  LET x == call[c].run
  IN /\ At(c, "approve", "commit")
     /\ approval' = [approval EXCEPT
          ![x] = IF @ = "requested" /\ toolRun[x] = "interrupted" THEN "approved" ELSE @]
     /\ toolRun' = [toolRun EXCEPT ![x] = IF Resumable(x) THEN "running" ELSE @]
     /\ call' = GoTo(c, IF Resumable(x) THEN "execute" ELSE "end")
     /\ UNCHANGED <<policyRows, standing, allowed, shunned, toolOf, outcome>>

DenyCommit(c) ==
  LET x == call[c].run
  IN /\ At(c, "deny", "commit") /\ Stop(c)
     /\ approval' = [approval EXCEPT
          ![x] = IF @ = "requested" /\ toolRun[x] = "interrupted" THEN "denied" ELSE @]
     /\ toolRun' = [toolRun EXCEPT ![x] = IF @ = "interrupted" THEN "cancelled" ELSE @]
     /\ UNCHANGED <<policyRows, standing, allowed, shunned, toolOf, outcome>>

(***************************************************************************)
(* The run.                                                                *)
(***************************************************************************)
Start(c) ==
  /\ call[c].pc = "start"
  /\ \E x \in ToolRuns :
       /\ NewRun(x)
       /\ toolRun' = [toolRun EXCEPT ![x] = "running"]
       /\ call' = [call EXCEPT ![c].run = x, ![c].pc = "execute"]
  /\ UNCHANGED <<policyRows, standing, allowed, shunned, approval, toolOf, outcome>>

(* Without an effect when the input does not fit or the runner refuses; a  *)
(* failure may follow an effect.                                           *)
Execute(c) ==
  LET x == call[c].run
  IN /\ call[c].pc = "execute"
     /\ \E done \in {0, 1} : effects' = [effects EXCEPT ![x] = @ + done]
     /\ \E v \in {"completed", "failed"} : call' = [call EXCEPT ![c].pc = "note", ![c].verdict = v]
     /\ UNCHANGED <<policyRows, standing, allowed, shunned, held, noted>>

NoteToolCall(c) ==
  LET x == call[c].run
  IN /\ call[c].pc = "note"
     /\ noted' = IF ActiveRun(x) THEN noted \cup {x} ELSE noted
     /\ call' = GoTo(c, "finish")
     /\ UNCHANGED <<policyRows, standing, allowed, shunned, held, effects>>

(* A model goes on with its turn, and may use the tool again.              *)
AfterRun(op) == IF op = "model" THEN "exposed" ELSE "end"

FinishToolRun(c) ==
  LET x == call[c].run
  IN /\ call[c].pc = "finish"
     /\ toolRun' = [toolRun EXCEPT ![x] = IF ActiveRun(x) THEN call[c].verdict ELSE @]
     /\ call' = [call EXCEPT ![c].pc = AfterRun(call[c].op),
                             ![c].verdict = "allowed"]
     /\ UNCHANGED <<policyRows, standing, allowed, shunned, approval, toolOf, outcome>>

(* The request of a held run stays requested when the run is cancelled.    *)
CancelToolRun(x) ==
  /\ aleft.calls > 0 /\ standing # "disabled" /\ ActiveRun(x)
  /\ toolRun' = [toolRun EXCEPT ![x] = "cancelled"]
  /\ aleft' = [aleft EXCEPT !.calls = @ - 1]
  /\ UNCHANGED <<policyRows, standing, allowed, shunned, approval, toolOf, outcome, call>>

(***************************************************************************)
(* Time, other administrators, and calls that are lost.                    *)
(***************************************************************************)
Forget(t) ==
  /\ t \in shunned
  /\ shunned' = shunned \ {t}
  /\ UNCHANGED <<policyRows, standing, allowed, held, outcome, call, aleft>>

HourPasses ==
  /\ aleft.hours > 0 /\ \E t \in Tools : allowed[t] > 0
  /\ allowed' = [t \in Tools |-> 0]
  /\ aleft' = [aleft EXCEPT !.hours = @ - 1]
  /\ UNCHANGED <<policyRows, standing, shunned, held, outcome, call>>

StandingChanges ==
  /\ aleft.roles > 0
  /\ standing' \in {"admin", "member", "disabled"} \ {standing}
  /\ aleft' = [aleft EXCEPT !.roles = @ - 1]
  /\ UNCHANGED <<policyRows, allowed, shunned, held, outcome, call>>

LoseCall(c) ==
  /\ call[c].pc # "idle" /\ aleft.lost > 0 /\ Stop(c)
  /\ aleft' = [aleft EXCEPT !.lost = @ - 1]
  /\ UNCHANGED <<policyRows, standing, allowed, shunned, held, outcome>>

CallStep(c) ==
  \/ Look(c) \/ Judge(c) \/ RecordDecision(c) \/ End(c) \/ Pick(c) \/ WriteEdit(c)
  \/ OfferCandidate(c) \/ UseExposed(c) \/ Hold(c) \/ OpenApproval(c)
  \/ ApproveCommit(c) \/ DenyCommit(c)
  \/ Start(c) \/ Execute(c) \/ NoteToolCall(c) \/ FinishToolRun(c)

AccessNext ==
  \/ \E c \in ToolCalls : BeginCall(c) \/ LoseCall(c)
  \/ \E c \in ToolCalls : CallStep(c) /\ UNCHANGED aleft
  \/ \E x \in ToolRuns : CancelToolRun(x)
  \/ \E t \in Tools : Forget(t)
  \/ HourPasses \/ StandingChanges

(***************************************************************************)
(* Properties.                                                             *)
(***************************************************************************)
(* However often a held run is approved, denied or cancelled, and by       *)
(* however many requests at once: a run executes its tool at most once,    *)
(* and one that was held only after its approval (tool-approvals.ts).      *)
HeldToolRunsOnce ==
  \A x \in ToolRuns : effects[x] <= 1 /\ (effects[x] > 0 => approval[x] \in {"none", "approved"})
===============================================================================
