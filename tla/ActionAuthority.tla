-------------------------- MODULE ActionAuthority --------------------------
(***************************************************************************)
(* The action authority of the control plane: how a proposed external      *)
(* mutation is approved, claimed, handed to its provider, recorded, and    *)
(* reconciled or withdrawn (cloudflare/control-plane/src/action-authority- *)
(* *.ts with tool-approvals.ts, run-control.ts and workspace-data-         *)
(* deletion.ts, which write the same rows).                                *)
(*                                                                         *)
(* Every handler is a Worker invocation. It is suspended at each await, so *)
(* an action here is one D1 statement or one D1 batch (a transaction), and *)
(* what a handler read before is kept in job[h] and may be stale when it   *)
(* is used. An invocation can be lost at any await (Crash).                *)
(*                                                                         *)
(* A request for execution inserts an approval, a run and an intent        *)
(* together; they are one identifier here, and the intent, which is        *)
(* written with the run by the same statements, is left out.               *)
(***************************************************************************)
EXTENDS Naturals, SequencesExt

CONSTANTS
  Proposals,          \* stored proposals, one per (tool, idempotency key)
  Approvals,          \* approval requests, each with its run
  Handlers,           \* concurrent Worker invocations
  Switches,           \* kill-switch scopes
  Covers,             \* Covers[p]: the scopes that fence proposal p
  WorkspaceSwitches,  \* the scope a workspace deletion enables
  None,
  MaxReviews,         \* bound: inconclusive reconciliations recorded per proposal
  MayCrash,           \* whether invocations are lost
  MayQuarantine       \* whether the workspace can be deleted

ASSUME ConstantsAssumption ==
  /\ None \notin Proposals \cup Approvals \cup Switches
  /\ Covers \in [Proposals -> SUBSET Switches]
  /\ WorkspaceSwitches \subseteq Switches
  /\ MaxReviews \in Nat
  /\ MayCrash \in BOOLEAN
  /\ MayQuarantine \in BOOLEAN

VARIABLES
  status,      \* control_action_proposals.status, "none" before the insert
  approvalOf,  \* its approval_request_id (and run_id)
  version,     \* its version
  ledger,      \* control_action_ledger: the statuses appended for the proposal
  approval,    \* control_approval_requests.status, "none" before the insert
  subject,     \* the actionProposalId in the approval's data
  run,         \* control_runs.status of the approval's run
  enabled,     \* the enabled control_kill_switches
  workspace,   \* workspaces.status
  provider,    \* what became of the call at the provider
  dispatches,  \* how often dispatchAction was called
  pc, job      \* where each handler is, and what it has read

proposalRow == <<status, approvalOf, version>>
approvalRow == <<approval, subject, run>>
controls == <<enabled, workspace>>
external == <<provider, dispatches>>
local == <<pc, job>>
vars == <<proposalRow, ledger, approvalRow, controls, external, local>>

-----------------------------------------------------------------------------
Pending == {"proposed", "approval_requested", "approved"}
Terminal == {"executed", "failed", "reconciled", "cancelled"}
Statuses == {"none", "executing", "outcome_unknown"} \cup Pending \cup Terminal
Answers == {"executed", "failed", "outcome_unknown", "reconciled"}
Entries == {"proposed", "blocked", "approved", "executing", "executed", "failed",
            "outcome_unknown", "reconciled", "cancelled", "reviewed"}
ApprovalStatuses == {"none", "requested", "approved", "denied", "cancelled"}
ActiveRun == {"interrupted", "running"}
TerminalRun == {"completed", "failed", "cancelled"}

\* Where a handler can be suspended.
Labels ==
  {"idle", "request_preflight", "request_commit", "approve_row", "approve_commit",
   "execute_row", "execute_preflight", "execute_claim", "dispatch", "await",
   "publish", "revoke", "finish", "deny_commit", "deny_cancel", "kill_commit",
   "reconcile_call", "reconcile_commit", "quarantine_commit"}

Jobs ==
  [proposal : Proposals \cup {None}, approval : Approvals \cup {None}, version : Nat,
   answer : Answers \cup {"reviewed", None}, switch : Switches \cup {None},
   affected : SUBSET (Proposals \X (Approvals \cup {None}))]

NoJob == [proposal |-> None, approval |-> None, version |-> 0, answer |-> None,
          switch |-> None, affected |-> {}]

TypeOK ==
  /\ status \in [Proposals -> Statuses]
  /\ approvalOf \in [Proposals -> Approvals \cup {None}]
  /\ version \in [Proposals -> Nat]
  /\ ledger \in [Proposals -> Seq(Entries)]
  /\ approval \in [Approvals -> ApprovalStatuses]
  /\ subject \in [Approvals -> Proposals \cup {None}]
  /\ run \in [Approvals -> {"none"} \cup ActiveRun \cup TerminalRun]
  /\ enabled \in SUBSET Switches
  /\ workspace \in {"active", "quarantined"}
  /\ provider \in [Proposals -> {"none", "called", "accepted", "rejected"}]
  /\ dispatches \in [Proposals -> Nat]
  /\ pc \in [Handlers -> Labels]
  /\ job \in [Handlers -> Jobs]

Init ==
  /\ status = [p \in Proposals |-> "none"]
  /\ approvalOf = [p \in Proposals |-> None]
  /\ version = [p \in Proposals |-> 0]
  /\ ledger = [p \in Proposals |-> <<>>]
  /\ approval = [a \in Approvals |-> "none"]
  /\ subject = [a \in Approvals |-> None]
  /\ run = [a \in Approvals |-> "none"]
  /\ enabled = {}
  /\ workspace = "active"
  /\ provider = [p \in Proposals |-> "none"]
  /\ dispatches = [p \in Proposals |-> 0]
  /\ pc = [h \in Handlers |-> "idle"]
  /\ job = [h \in Handlers |-> NoJob]

-----------------------------------------------------------------------------
(* Steps of a handler.                                                     *)

\* A request is routed only while its workspace is active.
Begin(h, label, j) ==
  /\ pc[h] = "idle"
  /\ workspace = "active"
  /\ pc' = [pc EXCEPT ![h] = label]
  /\ job' = [job EXCEPT ![h] = j]

Goto(h, label) == pc' = [pc EXCEPT ![h] = label] /\ UNCHANGED job

GotoWith(h, label, j) ==
  /\ pc' = [pc EXCEPT ![h] = label]
  /\ job' = [job EXCEPT ![h] = j]

End(h) == GotoWith(h, "idle", NoJob)

\* The ledger names a wait for approval "blocked" and copies every other status.
EntryFor(s) == IF s = "approval_requested" THEN "blocked" ELSE s

\* The proposals in S take status s: a version bump and a ledger entry each.
MoveAll(S, s) ==
  /\ status' = [p \in Proposals |-> IF p \in S THEN s ELSE status[p]]
  /\ version' = [p \in Proposals |-> IF p \in S THEN version[p] + 1 ELSE version[p]]
  /\ ledger' = [p \in Proposals |->
                  IF p \in S THEN Append(ledger[p], EntryFor(s)) ELSE ledger[p]]

Move(p, s) ==
  /\ status' = [status EXCEPT ![p] = s]
  /\ version' = [version EXCEPT ![p] = @ + 1]
  /\ ledger' = [ledger EXCEPT ![p] = Append(@, EntryFor(s))]

Stay == UNCHANGED <<status, version, ledger>>

-----------------------------------------------------------------------------
(* Proposing, and asking for execution.                                    *)

\* The insert does nothing when the idempotency key is taken.
Propose(p) ==
  /\ workspace = "active"
  /\ status[p] = "none"
  /\ Move(p, "proposed")
  /\ UNCHANGED <<approvalOf, approvalRow, controls, external, local>>

\* The preflight's kill-switch query. Its other gates (feature flag, retention,
\* permission, connection, policy) may refuse at any time: see Refuse.
Unfenced(p) == Covers[p] \cap enabled = {}

\* Bound of the model: a request starts only if an approval is left for it.
ApprovalLeft ==
  Cardinality({g \in Handlers : pc[g] \in {"request_preflight", "request_commit"}})
    < Cardinality({a \in Approvals : approval[a] = "none"})

RequestRead(h, p) ==
  /\ ApprovalLeft
  /\ status[p] = "proposed"
  /\ Begin(h, "request_preflight", [NoJob EXCEPT !.proposal = p])
  /\ UNCHANGED <<proposalRow, ledger, approvalRow, controls, external>>

RequestPreflight(h) ==
  /\ pc[h] = "request_preflight"
  /\ Unfenced(job[h].proposal)
  /\ Goto(h, "request_commit")
  /\ UNCHANGED <<proposalRow, ledger, approvalRow, controls, external>>

\* The proposal's update is guarded; the three inserts are not.
RequestCommit(h, a) ==
  LET p == job[h].proposal IN
  /\ pc[h] = "request_commit"
  /\ approval[a] = "none"
  /\ approval' = [approval EXCEPT ![a] = "requested"]
  /\ subject' = [subject EXCEPT ![a] = p]
  /\ run' = [run EXCEPT ![a] = "interrupted"]
  /\ IF status[p] = "proposed"
       THEN Move(p, "approval_requested") /\ approvalOf' = [approvalOf EXCEPT ![p] = a]
       ELSE Stay /\ UNCHANGED approvalOf
  /\ End(h)
  /\ UNCHANGED <<controls, external>>

-----------------------------------------------------------------------------
(* Approving.                                                              *)

ApproveRead(h, a) ==
  /\ approval[a] = "requested"
  /\ Begin(h, "approve_row", [NoJob EXCEPT !.approval = a, !.proposal = subject[a]])
  /\ UNCHANGED <<proposalRow, ledger, approvalRow, controls, external>>

\* Mutant: the approval is not compared.
AwaitsAny(p, a) == status[p] = "approval_requested"

Awaits(p, a) == status[p] = "approval_requested" /\ approvalOf[p] = a

ApproveRow(h) ==
  /\ pc[h] = "approve_row"
  /\ IF Awaits(job[h].proposal, job[h].approval) THEN Goto(h, "approve_commit") ELSE End(h)
  /\ UNCHANGED <<proposalRow, ledger, approvalRow, controls, external>>

\* Each update is guarded by its own row; only the proposal's decides.
ApproveCommit(h) ==
  LET p == job[h].proposal
      a == job[h].approval IN
  /\ pc[h] = "approve_commit"
  /\ approval' = [approval EXCEPT ![a] = IF @ = "requested" THEN "approved" ELSE @]
  /\ run' = [run EXCEPT ![a] = IF @ = "interrupted" THEN "running" ELSE @]
  /\ IF status[p] = "approval_requested"
       THEN Move(p, "approved") /\ Goto(h, "execute_row")
       ELSE Stay /\ End(h)
  /\ UNCHANGED <<approvalOf, subject, controls, external>>

-----------------------------------------------------------------------------
(* Executing. An approver goes on to execute; a tool or workflow may also   *)
(* call ActionPort.execute, and then no handler finishes the run.          *)

PortExecute(h, p) ==
  /\ status[p] = "approved"
  /\ Begin(h, "execute_preflight", [NoJob EXCEPT !.proposal = p, !.version = version[p]])
  /\ UNCHANGED <<proposalRow, ledger, approvalRow, controls, external>>

ExecuteRow(h) ==
  LET p == job[h].proposal IN
  /\ pc[h] = "execute_row"
  /\ IF status[p] = "approved"
       THEN GotoWith(h, "execute_preflight", [job[h] EXCEPT !.version = version[p]])
       ELSE End(h)
  /\ UNCHANGED <<proposalRow, ledger, approvalRow, controls, external>>

ExecutePreflight(h) ==
  /\ pc[h] = "execute_preflight"
  /\ Unfenced(job[h].proposal)
  /\ Goto(h, "execute_claim")
  /\ UNCHANGED <<proposalRow, ledger, approvalRow, controls, external>>

\* Mutant: the update is not guarded.
ClaimableWithoutCas(h) == status[job[h].proposal] # "none"

\* The compare-and-set that admits one executor.
Claimable(h) ==
  LET p == job[h].proposal IN status[p] = "approved" /\ version[p] = job[h].version

ExecuteClaim(h) ==
  /\ pc[h] = "execute_claim"
  /\ IF Claimable(h)
       THEN Move(job[h].proposal, "executing") /\ Goto(h, "dispatch")
       ELSE Stay /\ End(h)
  /\ UNCHANGED <<approvalOf, approvalRow, controls, external>>

Dispatch(h) ==
  LET p == job[h].proposal IN
  /\ pc[h] = "dispatch"
  /\ dispatches' = [dispatches EXCEPT ![p] = @ + 1]
  /\ provider' = [provider EXCEPT ![p] = "called"]
  /\ Goto(h, "await")
  /\ UNCHANGED <<proposalRow, ledger, approvalRow, controls>>

\* The provider, or the path to it, decides on its own time: the call is not
\* aborted when the handler stops waiting.
ProviderDecides(p) ==
  /\ provider[p] = "called"
  /\ \E verdict \in {"accepted", "rejected"} : provider' = [provider EXCEPT ![p] = verdict]
  /\ UNCHANGED <<proposalRow, ledger, approvalRow, controls, dispatches, local>>

\* What the race of the call with its timeout can yield. A success is the
\* executor's word for an accepted mutation. A timeout, or an executor that says
\* so, is outcome_unknown. Any other throw, and a runner that answers not-ok, is
\* "failed", whatever the provider has done.
CanAnswer(p, answer) ==
  answer \in {"executed", "reconciled"} => provider[p] = "accepted"

Answered(h, answer) ==
  /\ pc[h] = "await"
  /\ CanAnswer(job[h].proposal, answer)
  /\ GotoWith(h, "publish", [job[h] EXCEPT !.answer = answer])
  /\ UNCHANGED <<proposalRow, ledger, approvalRow, controls, external>>

\* An approver closes its run after executing; the port's caller only returns.
AfterExecution(h, answer) ==
  IF job[h].approval # None
    THEN GotoWith(h, "finish", [job[h] EXCEPT !.answer = answer])
    ELSE End(h)

\* A result is published only under a run that is still running.
Publishable(p) == status[p] = "executing" /\ run[approvalOf[p]] = "running"

Publish(h) ==
  LET p == job[h].proposal IN
  /\ pc[h] = "publish"
  /\ IF Publishable(p)
       THEN Move(p, job[h].answer) /\ AfterExecution(h, job[h].answer)
       ELSE Stay /\ Goto(h, "revoke")
  /\ UNCHANGED <<approvalOf, approvalRow, controls, external>>

\* Mutant: the run guard of the publication is repeated.
RevocableInRun(p) == status[p] = "executing" /\ run[approvalOf[p]] = "running"

Revocable(p) == status[p] = "executing"

\* Publication authority was lost: the outcome is unknown, whatever the answer.
Revoke(h) ==
  LET p == job[h].proposal IN
  /\ pc[h] = "revoke"
  /\ IF Revocable(p) THEN Move(p, "outcome_unknown") ELSE Stay
  /\ AfterExecution(h, "outcome_unknown")
  /\ UNCHANGED <<approvalOf, approvalRow, controls, external>>

\* Mutant: an unknown outcome counts as success.
RunResultOfAnswer(answer) == IF answer = "failed" THEN "failed" ELSE "completed"

RunResult(answer) == IF answer \in {"executed", "reconciled"} THEN "completed" ELSE "failed"

FinishRun(h) ==
  /\ pc[h] = "finish"
  /\ run' = [run EXCEPT ![job[h].approval] =
               IF @ = "running" THEN RunResult(job[h].answer) ELSE @]
  /\ End(h)
  /\ UNCHANGED <<proposalRow, ledger, approval, subject, controls, external>>

\* A gate of the preflight or the policy throws, or the reconciler does: the
\* request ends and nothing is written back.
Refuse(h) ==
  /\ pc[h] \in {"request_preflight", "execute_preflight", "reconcile_call"}
  /\ End(h)
  /\ UNCHANGED <<proposalRow, ledger, approvalRow, controls, external>>

-----------------------------------------------------------------------------
(* Denying and cancelling.                                                 *)

DenyRead(h, a) ==
  /\ approval[a] = "requested"
  /\ Begin(h, "deny_commit", [NoJob EXCEPT !.approval = a, !.proposal = subject[a]])
  /\ UNCHANGED <<proposalRow, ledger, approvalRow, controls, external>>

\* One batch denies the approval and cancels its run, both while the run waits.
DenyCommit(h) ==
  LET a == job[h].approval IN
  /\ pc[h] = "deny_commit"
  /\ IF run[a] = "interrupted"
       THEN /\ approval' = [approval EXCEPT ![a] = IF @ = "requested" THEN "denied" ELSE @]
            /\ run' = [run EXCEPT ![a] = "cancelled"]
            /\ Goto(h, "deny_cancel")
       ELSE UNCHANGED <<approval, run>> /\ End(h)
  /\ UNCHANGED <<proposalRow, ledger, subject, controls, external>>

Deniable(p) == status[p] = "approval_requested"

\* A later batch withdraws the proposal, whichever approval it waits for.
DenyCancel(h) ==
  LET p == job[h].proposal IN
  /\ pc[h] = "deny_cancel"
  /\ IF Deniable(p) THEN Move(p, "cancelled") ELSE Stay
  /\ End(h)
  /\ UNCHANGED <<approvalOf, approvalRow, controls, external>>

\* The user's cancel button. Its batch repeats the guard of its read, so it is
\* one step; it touches neither the approval nor the proposal.
CancelRun(a) ==
  /\ workspace = "active"
  /\ run[a] \in ActiveRun
  /\ run' = [run EXCEPT ![a] = "cancelled"]
  /\ UNCHANGED <<proposalRow, ledger, approval, subject, controls, external, local>>

-----------------------------------------------------------------------------
(* Kill switches.                                                          *)

\* Enabling a switch first selects the proposals it will withdraw, with the
\* approval each has at that moment.
KillRead(h, s) ==
  /\ Begin(h, "kill_commit",
           [NoJob EXCEPT !.switch = s,
              !.affected = {<<p, approvalOf[p]>> :
                              p \in {q \in Proposals : status[q] \in Pending /\ s \in Covers[q]}}])
  /\ UNCHANGED <<proposalRow, ledger, approvalRow, controls, external>>

\* Mutant: the selection is trusted.
KillableUnchecked(p) == status[p] # "none"

Killable(p) == status[p] \in Pending

KillCommit(h) ==
  LET affected == job[h].affected
      proposals == {p \in Proposals : \E a \in Approvals \cup {None} : <<p, a>> \in affected}
      approvals == {a \in Approvals : \E p \in Proposals : <<p, a>> \in affected} IN
  /\ pc[h] = "kill_commit"
  /\ enabled' = enabled \cup {job[h].switch}
  /\ MoveAll({p \in proposals : Killable(p)}, "cancelled")
  /\ approval' = [a \in Approvals |->
       IF a \in approvals /\ approval[a] = "requested" THEN "cancelled" ELSE approval[a]]
  /\ run' = [a \in Approvals |->
       IF a \in approvals /\ run[a] = "interrupted" THEN "cancelled" ELSE run[a]]
  /\ End(h)
  /\ UNCHANGED <<approvalOf, subject, workspace, external>>

\* Disabling selects nothing.
KillRelease(s) ==
  /\ workspace = "active"
  /\ s \in enabled
  /\ enabled' = enabled \ {s}
  /\ UNCHANGED <<proposalRow, ledger, approvalRow, workspace, external, local>>

-----------------------------------------------------------------------------
(* Reconciling an unknown outcome.                                         *)

ReconcileRead(h, p) ==
  /\ status[p] = "outcome_unknown"
  /\ Begin(h, "reconcile_call", [NoJob EXCEPT !.proposal = p])
  /\ UNCHANGED <<proposalRow, ledger, approvalRow, controls, external>>

Reviews(p) == Cardinality({i \in DOMAIN ledger[p] : ledger[p][i] = "reviewed"})

\* The binding settles the outcome once the provider has decided, or reports
\* that it cannot tell (recorded at most MaxReviews times in the model).
ReconcileCall(h, answer) ==
  LET p == job[h].proposal IN
  /\ pc[h] = "reconcile_call"
  /\ \/ answer = "reconciled" /\ provider[p] \in {"accepted", "rejected"}
     \/ answer = "reviewed" /\ Reviews(p) < MaxReviews
  /\ GotoWith(h, "reconcile_commit", [job[h] EXCEPT !.answer = answer])
  /\ UNCHANGED <<proposalRow, ledger, approvalRow, controls, external>>

Reviewable(p) == status[p] = "outcome_unknown"

ReconcileCommit(h) ==
  LET p == job[h].proposal IN
  /\ pc[h] = "reconcile_commit"
  /\ IF job[h].answer = "reviewed"
       THEN /\ ledger' = [ledger EXCEPT ![p] =
                            IF Reviewable(p) THEN Append(@, "reviewed") ELSE @]
            /\ UNCHANGED <<status, version>>
       ELSE IF status[p] = "outcome_unknown" THEN Move(p, "reconciled") ELSE Stay
  /\ End(h)
  /\ UNCHANGED <<approvalOf, approvalRow, controls, external>>

-----------------------------------------------------------------------------
(* Deleting the workspace, and losing an invocation.                       *)

QuarantineRead(h) ==
  /\ MayQuarantine
  /\ Begin(h, "quarantine_commit", NoJob)
  /\ UNCHANGED <<proposalRow, ledger, approvalRow, controls, external>>

\* Only the workspace row and the kill switch depend on winning the transition;
\* the withdrawals do not.
QuarantineCommit(h) ==
  LET won == workspace = "active" IN
  /\ pc[h] = "quarantine_commit"
  /\ workspace' = "quarantined"
  /\ enabled' = IF won THEN enabled \cup WorkspaceSwitches ELSE enabled
  /\ MoveAll({p \in Proposals : status[p] \in Pending \cup {"executing"}}, "cancelled")
  /\ approval' = [a \in Approvals |->
       IF approval[a] = "requested" THEN "cancelled" ELSE approval[a]]
  /\ run' = [a \in Approvals |-> IF run[a] \in ActiveRun THEN "cancelled" ELSE run[a]]
  /\ End(h)
  /\ UNCHANGED <<approvalOf, subject, external>>

Crash(h) ==
  /\ MayCrash
  /\ pc[h] # "idle"
  /\ End(h)
  /\ UNCHANGED <<proposalRow, ledger, approvalRow, controls, external>>

-----------------------------------------------------------------------------
\* The steps that continue what handler h has begun.
Continue(h) ==
  \/ RequestPreflight(h) \/ \E a \in Approvals : RequestCommit(h, a)
  \/ ApproveRow(h) \/ ApproveCommit(h)
  \/ ExecuteRow(h) \/ ExecutePreflight(h) \/ ExecuteClaim(h) \/ Dispatch(h)
  \/ \E answer \in Answers : Answered(h, answer)
  \/ Publish(h) \/ Revoke(h) \/ FinishRun(h)
  \/ DenyCommit(h) \/ DenyCancel(h)
  \/ KillCommit(h)
  \/ \E answer \in {"reconciled", "reviewed"} : ReconcileCall(h, answer)
  \/ ReconcileCommit(h)
  \/ QuarantineCommit(h)
  \/ Refuse(h)

\* The requests that start a handler.
Start(h) ==
  \/ \E p \in Proposals : RequestRead(h, p) \/ PortExecute(h, p) \/ ReconcileRead(h, p)
  \/ \E a \in Approvals : ApproveRead(h, a) \/ DenyRead(h, a)
  \/ \E s \in Switches : KillRead(h, s)
  \/ QuarantineRead(h)

Next ==
  \/ \E h \in Handlers : Start(h) \/ Continue(h) \/ Crash(h)
  \/ \E p \in Proposals : Propose(p) \/ ProviderDecides(p)
  \/ \E a \in Approvals : CancelRun(a)
  \/ \E s \in Switches : KillRelease(s)

Spec == Init /\ [][Next]_vars

\* The runtime keeps running a handler it has started: its statements return,
\* and its call to the provider returns or times out.
FairSpec == Spec /\ \A h \in Handlers : WF_vars(Continue(h))

-----------------------------------------------------------------------------
(* Safety.                                                                 *)

\* A mutation is handed to its provider at most once, however many approvers,
\* port callers and retries race for it (the compare-and-set of the claim).
DispatchAtMostOnce == \A p \in Proposals : dispatches[p] <= 1

Recorded(p, entry) == Contains(ledger[p], entry)

\* The newest ledger entry tells the proposal's status: the guards of every
\* append agree with the guards of the update in the same batch. Only an
\* inconclusive review is recorded without a change, while the outcome is unknown.
LedgerTellsStatus ==
  \A p \in Proposals : status[p] # "none" =>
    /\ ledger[p] # <<>>
    /\ \/ Last(ledger[p]) = EntryFor(status[p])
       \/ Last(ledger[p]) = "reviewed" /\ status[p] = "outcome_unknown"

\* A run and its proposal tell the same story, although they are closed by
\* different batches: a completed run belongs to a mutation recorded as done, and
\* a failed one never to a mutation recorded as executed or still undecided.
RunOutcomeAgrees ==
  \A a \in Approvals :
    /\ run[a] = "completed" => status[subject[a]] \in {"executed", "reconciled"}
    /\ run[a] = "failed" => status[subject[a]] \in {"failed", "outcome_unknown", "reconciled"}

\* Duplicate requests leave approvals the proposal does not wait for; approving
\* one of them authorizes nothing.
OnlyNamedApprovalAuthorizes ==
  \A a \in Approvals : approval[a] = "approved" => approvalOf[subject[a]] = a

\* Withdrawing a proposal (a denial, a kill switch) never hits one whose mutation
\* was already handed over.
CancelledNeverDispatched ==
  \A p \in Proposals : status[p] = "cancelled" => dispatches[p] = 0

\* What a step may never do.
Closed ==
  /\ \A p \in Proposals :
       /\ status[p] \in Terminal => status'[p] = status[p]
       /\ status[p] = "outcome_unknown" => status'[p] \in {"outcome_unknown", "reconciled"}
  /\ \A a \in Approvals :
       /\ run[a] \in TerminalRun => run'[a] = run[a]
       /\ approval[a] \notin {"none", "requested"} => approval'[a] = approval[a]

\* Terminal proposals, terminal runs and decided approvals never change, and an
\* unknown outcome is only ever reconciled (docs/capability-model.md:83), although
\* eight handlers write these rows.
NothingReopens == [][Closed]_vars

\* What the ledger and the calls tell of the right to call the provider.
Effect ==
  [p \in Proposals |->
     IF dispatches[p] > 0 THEN "dispatched"
     ELSE IF Recorded(p, "executing") THEN "authorized" ELSE "none"]

Lifecycle == INSTANCE ActionLifecycle WITH effect <- Effect

\* The authority implements the lifecycle it promises: each statement, batch and
\* call of the handlers is one step of ActionLifecycle, or none.
ImplementsLifecycle == Lifecycle!Spec

-----------------------------------------------------------------------------
(* Liveness.                                                               *)

\* While no invocation is lost, an execution that was started is settled.
ExecutionSettles ==
  \A p \in Proposals : status[p] = "executing" ~> status[p] # "executing"

-----------------------------------------------------------------------------
(* The inductive invariant behind DispatchAtMostOnce and ImplementsLifecycle. *)

\* Labels under which a handler holds a proposal, an approval, or the execution.
ProposalLabels == Labels \ {"idle", "finish", "kill_commit", "quarantine_commit"}
ApprovalLabels ==
  {"approve_row", "approve_commit", "execute_row", "deny_commit", "deny_cancel", "finish"}
ExecutorLabels == {"dispatch", "await", "publish", "revoke"}

\* Statuses of a proposal that was never claimed.
Unclaimed == {"none"} \cup Pending

\* A suspended handler has what its next step uses.
Fits(label, j) ==
  /\ label \in ProposalLabels => j.proposal \in Proposals
  /\ label \in ApprovalLabels => j.approval \in Approvals
  /\ label \in {"publish", "finish"} => j.answer \in Answers
  /\ label = "reconcile_commit" => j.answer \in {"reconciled", "reviewed"}
  /\ label = "kill_commit" => j.switch \in Switches

JobInv == \A h \in Handlers : Fits(pc[h], job[h])

\* An approval and its run are inserted together, for a proposal.
SubjectInv ==
  \A a \in Approvals :
    /\ approval[a] # "none" => subject[a] \in Proposals
    /\ approval[a] = "none" => run[a] = "none"

\* An unclaimed proposal has no executor and no call; the executor that has not
\* called yet is the only one that could have.
ClaimInv ==
  /\ \A p \in Proposals : status[p] \in Unclaimed =>
       dispatches[p] = 0 /\ ~Recorded(p, "executing")
  /\ \A h \in Handlers : pc[h] \in ExecutorLabels =>
       /\ status[job[h].proposal] \notin Unclaimed
       /\ Recorded(job[h].proposal, "executing")
       /\ dispatches[job[h].proposal] = IF pc[h] = "dispatch" THEN 0 ELSE 1

\* A claimed proposal has at most one executor.
ExecutorInv ==
  \A g, h \in Handlers :
    g # h /\ pc[g] \in ExecutorLabels /\ pc[h] \in ExecutorLabels =>
      job[g].proposal # job[h].proposal

IndInv ==
  /\ TypeOK
  /\ JobInv
  /\ SubjectInv
  /\ ClaimInv
  /\ ExecutorInv
  /\ DispatchAtMostOnce
=============================================================================
