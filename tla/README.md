# Verification of assistant-mk1

TLA+ specifications of assistant-mk1: the Cloudflare control plane, its Durable
Objects and cron, the runner's callbacks, and the clients that show and change
what they keep. TLC checks the specifications on small instances; TLAPS proves
their safety properties for every instance.

The control plane's handlers share one D1 database, are suspended at every
`await`, can be lost at any of them, and are started concurrently by requests,
callbacks, queues and a cron. Nearly every rule of the system is kept by the
`WHERE` clause of some statement, or by the order of two calls to stores that no
transaction covers. These modules say what those clauses and orders achieve
together.

Paths are relative to the repository; `control-plane/` stands for
`cloudflare/control-plane/src/`.

## 1. Inventory

| Component | State it keeps | Operations | What is hard | What makes it correct |
|---|---|---|---|---|
| Action authority (`action-authority-*.ts`) | `control_action_proposals`, `control_action_ledger`, `control_kill_switches` | propose, request, approve and execute, publish, revoke, deny, kill, reconcile | several approvers and port callers; a provider call that outlives its handler; withdrawal between read and write | one dispatch at most, only after approval; terminal is terminal; withdrawn means not handed over |
| Tool policy, approvals, execution (`tool-*.ts`, `model-tools.ts`) | permissions, decisions, `control_approval_requests`, tool runs | evaluate, hold, approve, deny, resume, finish | two deciders of one held run; policy read before a batch | a held run executes once, after its approval |
| Runs (`run-control.ts`, `runtime-*.ts`, `workflow-callbacks.ts`) | `control_runs`, `control_workflow_intents`, `control_tool_calls`, `control_artifacts` | start, progress, finish, cancel, retry, publish | seven writers of one status; late, repeated, reordered callbacks | terminal runs stay; only the workflow that ended a run shows its output |
| Trigger dispatch (`trigger-*.ts`, `triggers.ts`) | `control_trigger_dispatches` | receive, lease, read, start, settle, recover, replay | leases that expire under a live handler; recovery that read the row before | concurrency bound; one live run; every dispatch settles |
| Trigger schedule (`trigger-schedule*.ts`) | `control_triggers.next_trigger_at` | create, edit, pause, scan, coalesce, dispatch | overlapping ticks; edits between read and batch | every due occurrence dispatched once |
| Workspace deletion (`workspace-data-deletion.ts`, `-jobs.ts`) | `workspaces.status`, `control_data_jobs`, receipts | quarantine, recover, purge in phases, fail, retry | stores without a transaction; stale workers | what can be recovered is whole; a receipt means erasure |
| Workspace export (`workspace-data-export-*.ts`) | write fence, staging rows, pins, archive | fence, freeze, copy, pin, release, assemble, publish | a lease that runs out under a worker; recovery of a fence | the archive was true at one moment; the fence lifts |
| Artifacts and retention (`artifact-lifecycle.ts`) | `control_artifacts`, R2 objects | upload, expire, sweep | object and row are two stores | no row without object, no object left by a purge |
| Notifications (`notification-delivery.ts`) | devices, deliveries, the queue | register, revoke, enqueue, push, receipt, sweep | redelivery; insert and send are two steps | the ledger is true; an active device can be reached |
| Operator alerts (`operator-alerts.ts`) | `control_operator_alerts` | raise, deliver, acknowledge, resolve, retry | overlapping ticks | delivered stays delivered; open ones settle |
| Connections (`connection-*.ts`, `credential-vault.ts`) | connections, OAuth states, capabilities, vault | authorize, exchange, refresh, revoke, redeem | vault, provider and row are three stores | a state or a capability is spent once |
| Membership (`authz*.ts`, `workspace*.ts`, `agents.ts`) | users, memberships, workspaces, agents, preferences | sign in, create, switch, change members and agents | the last owner; first sign-ins at once | an owner remains |
| Chat (`session-agent*.ts`, `thread-chat-agent.ts`, `chat-*.ts`, `cloudflare-chat-runtime.ts`) | threads, receipts, runs; one Durable Object per session and per thread | create, stage, archive, hand off, take a turn, answer | a turn crosses two objects and D1; restarts | a turn is taken once; a run settles once and ends |
| Session events (`session-agent-stream.ts`, `chat-session-state.ts`) | revision, kept events, cursors | broadcast, replay, hydrate | events, answers and reconnects in any order | a connected tab misses nothing |
| Web client (`components/workbench/*`, `provider.tsx`, `packages/workbench-react`) | session view, token, query cache, panels, summary | load, poll, mutate, renew, invalidate | answers out of order, two tabs | own changes show; nothing goes back |
| Mobile client (`apps/mobile`) | a stored turn, the user's session | store, send, retry, clear; sign out, switch workspace | several controllers and processes; a session that ends under a send | the turn stays until the server has it or the user's authority is given up |
| Events, traces, summary (`control-plane-events.ts`, `runtime-traces.ts`, `admin-summary.ts`) | the event feed, traces | append, stream, sweep, read | rowids, sweeps, several reads for one view | the feed skips nothing |
| Facade and signing, SDK, packs and compiler, scripts | none that the others read | | | not modelled |

How they interact. Everything above the chat writes the same D1 rows:

* the **action authority** closes the run that waits for its approval; deleting a
  workspace withdraws proposals, approvals and runs in one batch;
* a **dispatch** is leased by a tick, a request or a replay, executed by the code
  that users' runs go through, and closed by whichever comes first of the finish,
  the callback, a cancellation, the settlement, the recovery, and the disabling
  of the trigger;
* the **export's fence** aborts every write of its workspace, and the deletion
  waits for it;
* the **session object** sends turns to **thread objects** and tells every tab by
  events what it committed; **tabs** learn of it twice, from answers and events;
* the **cron** starts the scheduler, the sweeps, the data jobs and the deliveries
  at once, and one tick may overlap the next.

## 2. Modules

| Module | Models |
|---|---|
| `ActionLifecycle` | abstract specification: what the authority promises of a mutation |
| `ActionAuthority` | the authority's handlers, statement by statement; implements `ActionLifecycle` |
| `TriggerDispatch` | a dispatch and its runs, from receipt to settlement, recovery and replay |
| `TriggerSchedule` | which occurrences are due, coalesced and dispatched |
| `RunPublication` | a workflow run, its runner, callbacks, tool rows, artifacts, cancellation, retry |
| `ToolAccess` | the policy row, decisions, held runs, approval and execution of runtime tools |
| `Membership` | sign-in, workspaces, members, agents, preferences |
| `WorkspaceState`, `WorkspaceDeletion`, `WorkspaceExport`, `ArtifactStore` | the shared rows and stores; quarantine and purge; the export under its fence; uploads and sweeps |
| `WorkspaceRetention` | composes the four: the cron's workers, leases, failures |
| `WorkspaceLifecycle` | abstract specification: what a deletion promises the workspace's owner; `WorkspaceRetention` implements it |
| `CredentialVault` | the versioned vault, used by the next two |
| `NotificationDelivery`, `ConnectionBroker` | devices, outbox, queue, pushes and receipts; one connection with its OAuth states and capabilities |
| `OperatorAlerts` | alerts and their delivery by overlapping ticks |
| `ChatState`, `ChatSession`, `ChatRuns` | the chat's rows and objects; the session's object; the two runtimes that answer. Each extends the one before |
| `SessionEvents`, `ClientSession` | the event stream; one tab that follows it (extends `SessionEvents`) |
| `ChatConnection`, `ClientTurns` | the token of a tab's chat; the stored turn of the mobile client |
| `WorkspacePanel`, `AutomationsPanel`, `QueryCache`, `AdminSummary`, `EventFeed` | what the workbench's screens keep, each with the server that answers it |
| `MC...` | instances, budgets, and the disjoint union of parts that share no state |
| `..._proofs` | theorems (section 5) |

### Conventions

* One action is one D1 statement or one `DB.batch` (a transaction), or one call to
  the outside: a vault, a provider, a queue, an object store, another Durable
  Object. A handler is suspended between two actions; its slot (`pc[h]`, `proc[w]`,
  `op[q]`, `call[c]`, `req[r]`, ...) says where it is and holds what it read
  before, which may be stale when it is used.
* A compare-and-set is an action with `IF guard THEN change ELSE nothing`. Operators
  marked "Mutant" that stand before a definition are that definition with a
  plausible mistake; they are used only to see that a property notices.
* A row that is not there has status `"none"`. A row's identifier is the model value
  itself. Rows that the same statements always write are one (a run with its
  intent). An artifact, a token, a message is a value or a version, not its content.
* There is no clock where time only ends something: a lease, a retention period, a
  token's life ends in an action of its own, at any time once it can. The schedule
  and the chat's token have a clock, because they compute with it.
* A budget (`...Budgets`, `aleft`, `nleft`, ...) bounds how many requests, failing
  calls, lost invocations and so on a behaviour has. Every budget is a constant; the
  theorems hold for any.

### Where the code is

| Code | Actions |
|---|---|
| `createActionPort.propose`, `handleRequestActionExecution` | `Propose`, `RequestRead`, `RequestPreflight`, `RequestCommit` |
| `handleApproveToolApproval`, `approveAndExecuteActionApproval` | `ApproveRead`, `ApproveRow`, `ApproveCommit`, `FinishRun` |
| `executeActionProposal`, `createActionPort.execute` | `PortExecute`, `ExecuteRow`, `ExecutePreflight`, `ExecuteClaim`, `Dispatch`, `Answered`, `Publish`, `Revoke` |
| `handleDenyToolApproval`, `handleUpdateKillSwitch`, `reconcileActionProposal` | `DenyRead`, `DenyCommit`, `DenyCancel`; `KillRead`, `KillCommit`, `KillRelease`; `ReconcileRead`, `ReconcileCall`, `ReconcileCommit` |
| `handleCreateTriggerDispatch`, `handleTriggerWebhookIngress` | `Receive` |
| `leasePendingTriggerDispatches`, `executeLeasedTriggerDispatch` | `Select`, `Lease`, `Read`, `Execute`, `Admit`, `Start`, `Finish`, `Settle`, `Throw` |
| `runTriggerSchedulerTick`, `handleReplayTriggerDispatch`, `handleUpdateTrigger` | `Tick`, `RecoverSelect`, `RecoverRow`, `InsertDue`; `Replay`; `UpdateTrigger` (and in `TriggerSchedule`) |
| `applyWorkflowCallbackPayload`, `handleCancelExecutionRun` | `Progress`, `Callback`, `CancelRun` (and, of `RunPublication`, `ApplyCallback`, `ReportEnd`, `RejectCallback`, `CancelRun`, with `RecoverLease` and `QuarantineRuns` for what else ends a run) |
| `evaluateToolPolicy`, `tool-policy-admin.ts`, `model-tools.ts`, `tool-approvals.ts` | `Look`, `Judge`, `RecordDecision`, `WriteEdit`, `OfferCandidate`, `UseExposed`, `Hold`, `OpenApproval`, `ApproveCommit`, `DenyCommit`, `Start`, `Execute`, `FinishToolRun` |
| `authz.ts`, `workspaces.ts`, `workspace-members.ts`, `agents.ts` | `Begin`, `Bootstrap`, `Seed`, `Prefer`, `Settle`, `Resolve` and one read and one write per handler |
| `handleRequestWorkspaceDeletion`, `handleRecoverWorkspace`, the retries | `DeletionRead`, `DeletionCommit`, `DeletionRevoke`, `RecoveryRead`, `RecoveryCommit`, `RetryPurge` |
| `processDataLifecycleJobs`, `runPurgeJob`, `runExportJob` | `SelectJob`, `CheckQuiescence`, `ClaimJob`, `CallFails`, `RecordFailure`, the steps of `WorkspaceDeletion` and `WorkspaceExport` |
| `notification-delivery.ts`, `operator-alerts.ts`, `connection-broker-*.ts` | one action per await of each handler, consumer and tick |
| `session-agent*.ts`, `thread-chat-agent.ts`, `cloudflare-chat-runtime.ts` | one action per await of each request of `ChatSession`; turns, completion, failure and the facade's stream in `ChatRuns` |
| `provider.tsx`, `chat-session-state.ts`, `apps/mobile`, `packages/*` | a request is asked, served and answered in three actions; events arrive in one of their own; `GivesUpAuthority`, `SessionEnds`, `WorkspaceSwitched`, `SignIn` for the mobile session |

`PROJECT.json` lists, for every definition, the lines it models.

## 3. Runs

| Run | Instance | States | Shows |
|---|---|---|---|
| `authority_full` | 3 invocations, 1 proposal, 2 approvals, losses, deletion | symmetry | one dispatch; nothing terminal reopens |
| `authority_live` | 2 invocations, none lost | | withdrawn is not handed over, the named approval alone authorizes, runs agree, `ActionLifecycle` is implemented, a claimed execution settles |
| `trigger_full` | 2 dispatches for 1 place, a request, the cron, a loss, throws, deletion | symmetry | concurrency bound; a dispatch tells its run's outcome |
| `trigger_live` | 1 dispatch, same incidents | | one live run; every dispatch settles |
| `retention_live` | 1 purge, 1 export, 1 worker, 3 faults, 1 loss, 1 manual retry | 259 086 | what is recovered is whole, a receipt means erasure, a failed purge is retryable; purge settles, fence lifts |
| `retention_export` | 1 export, 2 workers, 1 fault, 1 loss, 2 writes, 1 sweep, 1 overlapping tick | 1 133 850 (symmetry) | an archive is a cut |
| `service_delivery` | 1 device and event, 2 consumers, 2 clients; 1 alert, 2 ticks; 2 calls, 1 state, 1 capability | 212 385 | ledger, tokens, single use; queued, delivered and alerts |
| `chat` | 2 threads, turns, agents, runs, requests, streams | 225 513 | a turn is taken once and is there when accepted; runs settle once, and end unless a stop, a failed call or a loss leaves one |
| `client` | 2 threads, 2 calls; 2 turns, 3 submits; 2 chats with tokens | 409 765 | nothing missed, deletions, the stored turn, renewal |
| `control_plane` | 2 users, 2 workspaces, 2 requests; 2 tools, 2 runs, 2 calls; 2 workflow runs; 2 timers, 2 ticks, 3 ticks of time | 2 705 293 (symmetry) | an owner remains, a held run executes once, only a run's own workflow shows its output, each occurrence once |
| `workbench` | 2 calls and tabs and workspaces, 2 refreshes, 4 events | | exports, own changes, the summary and the feed as a client sees them |
| `starved_schedule` | 2 timers, 1 tick, time 5 | | finding (section 4) |

`service_delivery`, `client`, `control_plane` and `workbench` each run several
components that share no state: every initial state lets one of them move, with
one of its budgets.

### Bounds and why they are enough

* **Actors.** Every race in the code is between a statement of one handler and what
  another changed since the first one read. Two actors show each pair; three in
  `authority_full` let two race while a third changes what both have read.
* **Rows.** Statements touch one row, or the rows of one owner. Two rows are used
  where rows compete (dispatches for a place, approvals for a proposal, threads for
  being active, tools free and guarded).
* **Budgets.** One lost invocation and one to three failing calls per behaviour,
  combined as the MC modules' budget sets say, because a component's incidents act
  on the same few states; the combinations with both at their maximum were run once
  with larger bounds where they fit (for instance the inductive invariants of
  section 5).
* `ApprovalLeft`, `RunLeft` (authority, dispatch): a request starts only while an
  unused row is left for everyone about to take one, so that none is stuck for want
  of a model value. `MaxReviews = 1`, `MaxAttempts = 2`, `MaxLeases = 2`,
  `PackLimit = 2`: a first try and one more.
* `MaxTime = 3..5`, `MaxCoalesced = 2`, `DueLimit = 1..2` (schedule) stand for
  ever, 10 000 and 25; intervals are 1 and 2 ticks.
* `MaxOverlaps = 1`: an overlapping tick of the data jobs, only while no other
  incident has been used up; it spends every bound at once (`StartTick`), so that an
  overlap is the only incident of its behaviour.
* `LeaseOutlivesWorker = TRUE`, `LeaseOutlivesRefresh = TRUE`: no lease of fifteen
  (ten) minutes, or of thirty seconds, runs out under a worker (a refresh) that is
  still alive. What happens otherwise is described in section 4. The theorems of
  `ServiceDelivery_proofs` and, in `WorkspaceRetention_proofs`, `RecoveryIsSafe`,
  `ReceiptIsTrue` and `DeletionKeepsPromise` hold either way; `FailureIsRetryable` and
  `ArchiveIsACut` name it as their hypothesis, because they are false without it.
* Symmetry is used only in runs without liveness. `CHECK_DEADLOCK FALSE` stands where
  behaviours end: a deleted workspace routes nothing, and budgets run out.

### Fairness

* `ActionAuthority`, `TriggerDispatch`: an invocation that was started keeps being
  run, its statements return, and a provider's call returns or times out (the code
  races it with a timer); the cron keeps ticking; a lease that is not renewed runs
  out. Nothing is assumed of users, providers or operators.
* `WorkspaceRetention`: weak fairness of each worker's steps, of revocations and of
  the end of an execution, and that leases run out; strong fairness of taking up an
  expired fence, because every tick of the cron begins with it (`recoverExpiredExportFences`)
  while the worker may be busy in between.
* `NotificationDelivery`, `OperatorAlerts`: the queue hands over what it has, a
  consumer goes on, the cron repeats its sweep.
* `ChatRuns`: an object's turn and the steps of completing a run go on. The restart
  of an object and the failing calls are counted in their budgets; nothing is assumed
  of the user, who may stop a response or not.
* `ClientSession`, `ChatConnection`, `WorkspacePanel`, `QueryCache`: a request is
  answered or fails, timers fire, events arrive. The token's liveness assumes that a
  request is over within one tick (15 s, against 60 s of skew).
* `WorkspaceDeletion`'s recovery period ends only when no request, upload or
  invocation of before it is under way and no export is left over: nothing is that
  slow in thirty days.

## 4. Findings

**A trigger paused too long stops the whole schedule** (`starved_schedule`,
`DueIsDispatched`). `coalesceDueOccurrence` throws when more than 10 000 occurrences
were missed, and `dispatchDueTriggers` does not catch it: the tick ends before the
other due triggers and before the pending dispatches. Pausing and enabling leaves
`next_trigger_at` as it was (`triggers.ts:380`), so a one-minute monitor enabled after
seven days is the first row of every later tick.

The models also reach the following states. No property forbids them; where a
document says otherwise it is named.

*Action authority.*
A denial is two batches; an approver between them finds the approval denied and the
run cancelled, which stops nothing, and the proposal still `approval_requested`: the
mutation is handed over (`tool-approvals.ts:657`; `docs/agent-runtime-kit.md:100`).
Deleting a workspace records an accepted mutation as cancelled
(`workspace-data-deletion.ts:142`; `docs/run-lifecycle.md:146`); this is why
`CancelledNeverDispatched` is proved for a workspace that is active, or is never
deleted. An invocation lost between claim and publication leaves `executing` for ever
(`action-authority-execution.ts:188`; `docs/agent-runtime-kit.md:102`), and every
export waits for it. A kill switch enabled between an executor's preflight and its
claim does not fence it (`:175`; `docs/capability-model.md:57`). A provider call that
throws is recorded as failed although the provider may have accepted it (`:231`). A
preflight refused after the approval leaves the proposal approved and its run running
(`action-authority-handlers.ts:330`). The guards of the ledger's inserts compare
`updated_at` in milliseconds (`action-authority-core.ts:106`). Quarantine leaves
revoking credentials to a request that may be lost, then to the cron.

*Tools.* Limits and pack concurrency are counted, then a row inserted
(`runtime-workflows.ts:172`); two requests pass together. A model's own tool calls
record no decision that a limit counts. The policy is evaluated before the approving
batch, the membership at exposure. Two edits of a policy row lose one (a kill switch
among them); the switch is a row per user and agent. An invocation lost after the
approval leaves the run running, a cancelled run its approval `requested`.

*Runs.* A late progress callback overwrites a tool row that is finished; a failed run
publishes what it staged (`docs/agent-runtime-kit.md:83-84`); the workflow of a
cancelled run still writes managed state; a user's run whose worker dies stays
running; the timeout only aborts a signal; a callback reads and then overwrites
`data_json`. A run that lease recovery, the disabling of its trigger, the deletion of
its workspace or a callback `run.completed` or `run.failed` ended keeps its staged
artifacts, which are never shown (`trigger-recovery.ts:45`, `workflow-callbacks.ts:542`):
the workflow of a run that a callback completed finds it ended and discards what it
returns afterwards. Only the workflow itself and the user's cancellation leave nothing
staged, and `PublicationFollowsRun` claims it of no one else.

*Triggers.* The batch that fails a run releases the lease that guards the insertion
of the alert (`runtime-run-lifecycle.ts:532`; `docs/unattended-operations.md:114`). The
recovery fails the run it selected and the dispatch it finds, so a run started in
between stays behind a failed dispatch (`trigger-recovery.ts:45`;
`docs/unattended-operations.md:87`). A replay of an attempt that never started a run
forgets the lineage (`triggers.ts:682`; `docs/unattended-operations.md:92`).

*Workspace data.* With two overlapping ticks, `recoverExpiredExportFences` takes up a
fence in `releasing` whose lease is live and clears the staging rows while the first
worker assembles: an empty archive is published (`workspace-data-jobs.ts:230`;
`plans/003:106`). A crash between failing a purge job and its batch leaves the
workspace `purging` (`workspace-data-jobs.ts:333,369`; `plans/004:90`), and one between
deleting a fence and requeueing its job resumes an old capture. A purge that ends while
a fence's lease has run out deletes the job's row and leaves the fence's, which no tick
finds any more, since the recovery of fences joins the two (`:227`); the workspace is
gone by then. The chat's sweep lifts
an export's freeze and purges fresh messages (`artifact-lifecycle.ts:555`). A lease
that runs out under a worker lets a stale purge delete rows of a failed workspace,
which is why `FailedPurgeIsRetryable` is checked and proved with leases that outlive
workers only. The deletion cancels runs even when its own compare-and-set loses. The vault
checks versions when it deletes, so a version that drifted makes a revocation fail for
ever.

*Notifications.* The send phase ignores `sent`, so a redelivered message pushes twice;
`failed` and `expired` overwrite `delivered`; a loss between the row and the queue
strands the delivery until the sweep expires it, and so does the queue when lost
consumers or failures of D1 have used up a message's deliveries; one (device, event type, target)
suppresses a later event. A token found invalid is deleted before the row is disabled
(`notification-delivery.ts:266`; `docs/mobile-frontends.md:214`).

*Connections.* A health check writes back a stale status and resurrects a revoked
connection (`connection-broker-connections.ts:207-233`). A refresh reads the row before
it claims the lease (`docs/agent-packs.md:170-171`). Completing an authorization
updates unconditionally; revoking keeps OAuth states and the lease.

*Membership.* A workspace created by an admin has no owner; two first sign-ins at once
both become owner; a loss between the steps of creating a workspace leaves it without
members; switching back is refused where `docs/cloudflare-control-plane.md:81` allows
it (`authz.ts:736`).

*Chat.* A completed run rewrites `upstream_json` and erases the history of handoffs. A
loss between creating a thread and its receipt makes another empty thread. A receipt
`accepted` whose lifecycle was not published is never published later. A run that
is left `running` blocks its thread (`idx_chat_runs_one_running`, `schema.sql:917`), and
no sweep ends it. An object that dies in a turn leaves it so, and so does the user's
own Stop, which aborts the stream, and with it both handlers that would settle the run
(`assistant-ui/thread.tsx:422`, `thread-chat-agent.ts:642`); an abort by an archive or a
deletion that found no run yet; the insert of the run when only its answer is lost; a
failed write of the completion or of the failure itself (`thread-chat-agent.ts:814`,
`cloudflare-chat-runtime.ts:763,817,1077`); and, in the simple chat, the storing of the
input, which stands outside every `try` (`:716`). `RunsEnd` says that this list is
complete. Completion goes
through `waitUntil`, so the next message may meet the unique index. A programmatic
turn whose object dies before `saveMessages` is never answered. A handoff may commit
under a run that started after its check; `active_thread_id` may name an archived
thread; a rename writes back an old status; revisions start again after a restart and
an older snapshot can overwrite a newer one (`chat-session-state.ts:290`;
`docs/frontend-integration.md:162-164`).

*Clients.* A failed token refresh is not retried before the next expiry; a tab whose
connection was cleared hears nothing until it loads again; staging bumps the revision
without an event. In the workspace panel an older poll overwrites a newly created
export, one `busyId` serves two members, and a member or policy is saved from the row
that was shown. In the automations panel a draft keeps the first input while the
version is refreshed, so saving overwrites another tab's; the audit row of an update
that loses by one version is still inserted (`docs/data-and-state.md:26`). In the query
cache the key `__current__` is refilled with the old workspace's data, events
invalidate only the workspace id's keys (`docs/frontend-integration.md:147-152`), and
React keeps only the last of two events. The summary joins a request under way and
drops its `minimumGeneratedAt` (`plans/001:96`), and is stamped after it was read. The
event feed's rowids are used again after a sweep of the newest rows, and a
`Last-Event-ID` that was swept starts at the newest event. A session event tells
its handler what to refresh through React's updater of the session; where that runs
after the handler has looked, the refresh is skipped and the renewal timer restores the
connection (`provider.tsx:602,637`).

*The phone.* Two submits overwrite the one stored turn (`mobile-store.ts:67`), and a turn
cancelled before its answer is sent again. `docs/mobile-frontends.md:197` says that one
pending turn survives restarts; it does as long as the user's session does.
`clearLocalAuthority` (`mobile-store.ts:138`) deletes the row whatever its state, at a
sign-out, a token refresh that fails (offline too, at a start with an expired token),
a start without a session, a session that cannot be read, and a switch of workspace
(`settings.tsx:43`). A call that had read the row empty may store its turn after that, and
it waits there for the next session. `StoreKeepsTurn` therefore speaks of the time in
which the authority is held.

## 5. Proofs

Every safety property that a passing run checks, invariant or action property, is
proved. The theorems hold for every value of the constants: any number of rows,
handlers, requests and budgets (finite or not where no counting is involved), from
the named assumptions of the modules and, for two of them, the timing assumption
they name. TLC evaluates these assumptions in the runs. Each
inductive invariant was first checked by TLC on the instance of its run, or on a
smaller one.

| Module | Theorem | Says |
|---|---|---|
| `ActionAuthority_proofs` | `TypeSafety`, `Inductive` | types; `IndInv` |
| | `OneDispatch` | a mutation is handed over at most once |
| | `NoReopening` | terminal proposals, runs and decided approvals never change |
| | `LedgerTold` | the newest entry tells the status |
| | `Refinement` | `Spec` implements `ActionLifecycle` |
| | `AccountKept` | `AccountInv` |
| | `NamedApproval` | an approved approval is the one its proposal names |
| | `RunOutcome` | a run closed with a result fits its proposal |
| | `WithdrawnNotDispatched`, `NeverDispatchedCancelled` | a withdrawn proposal is not handed over, while the workspace is active, and always if none is deleted |
| `TriggerDispatch_proofs` | `TypeSafety`, `Inductive`, `Bounded`, `Quiet`, `Outcome`, `CurrentAttempt`, `OneRun`, `Transitions`, `TerminalStays`, `Exclusive` | types, the bound, a disabled trigger is quiet, outcomes agree, one run, and three action properties |
| `ControlPlane_proofs` | `MembershipSound`, `OwnersRemain` | a workspace keeps an owner |
| | `PublicationAuthority` | what shows of a run its own workflow ended; the workflow and the user leave nothing staged |
| | `HeldRunsOnce` | a held run executes once, after its approval |
| | `OccurrencesAccounted` | every time a trigger has passed is in exactly one dispatch, and nothing else is |
| `ServiceDelivery_proofs` | `LedgerTrue`, `TokenReadable` | a delivery's status is true; an active device's token can be read |
| | `DeliveredKept` | a delivered alert stays delivered |
| | `UsedOnce` | an OAuth state and a capability are spent once |
| `Chat_proofs` | `ChatInv`, `TurnOnce`, `AcceptedTaken`, `SettlesOnce` | a turn is taken once, is there when accepted, and a run settles once |
| `Client_proofs` | `EventsComplete`, `DeletingHidden`, `StoreKeeps` | a connected tab misses nothing; deletions stay hidden; an unaccepted turn stays while the authority is held |
| `Workbench_proofs` | `FeedIsComplete` | a reader of the feed has every event of its workspace up to its last one |
| | `SummaryOnlyAdvances` | no part of the summary a tab shows gets older, whatever overtakes what |
| `WorkspaceRetention_proofs` | `TypeCorrect`, `RecoveryIsSafe`, `ReceiptIsTrue` | types; what can be recovered is whole; a receipt means erasure |
| | `FailureIsRetryable` | a workspace marked as failed has a failed purge to retry, if leases outlive workers |
| | `ArchiveIsACut` | a published archive is of one moment, after at most one incident, if leases outlive workers and `OverlapsCount` |
| | `DeletionKeepsPromise` | `Spec` implements `WorkspaceLifecycle` |

### The arguments

Nearly every invariant is of one kind: *what a suspended handler knows stays true, or
its next statement has a guard that notices*. None of the safety properties is
inductive without it.

* **One dispatch.** Two handlers about to call for one proposal satisfy the property
  and break it next. A claim is a compare-and-set, so one handler is past it
  (`ExecutorInv`); before it nobody has called (`ClaimInv`); and who is past it has the
  proposal in hand (`JobInv`, `SubjectInv`). The refinement takes every action to an
  abstract one or a stutter and rests on the same facts.
* **Approvals, runs and withdrawals** (`AccountInv`). The approval that a handler
  holds is its proposal's; one found to be the named one stays it; a handler that
  closes a run knows with which result its proposal was published; nobody but the
  executor ends an execution whose run goes on.
* **Dispatches.** Twenty actions write the rows in seven ways (`StepEffect`): a row is
  inserted, taken, started, renewed, lapsed, closed, or left alone. What is true of
  the rows is proved once per effect; `OutcomeInv`, `BoundInv` and `LiveInv` are of the
  rows, `CarryInv` and `SeenInv` of what handlers remember of leases.
* **Owners.** Nobody is a member before the creator has joined, who joins is unique,
  and a handler that writes a membership has seen one; the statement that demotes or
  disables counts the other owners itself (`MembershipInv`).
* **Held runs.** A run held back has no effects and no executor; its one executor
  comes from the one batch that approved it or from the call that started it
  (`AccessInv`). **Publication**: a run is inserted once, whoever
  ends it is recorded with the end, only the workflow's own end shows anything, and
  nothing is staged after an end (`PublicationInv`).
* **Notifications.** A consumer about to record an accepted push has it in `pushed`
  (`LedgerInv`). For tokens (`TokensOK`): every reference to a vault object is held for
  one device, none is newer than the object, and a token stored but not yet recorded
  is newer than every known reference, so that a version check refuses the stale ones.
* **Alerts, connections.** A row that was never raised is not delivered
  (`AlertInv`). A state is worked on by one invocation between claim and exchange, a
  capability between claim and request, and a row that was there never comes back as
  unclaimed (`BrokerInv`).
* **Chat.** A turn has one dispatcher, a receipt before every submission, and whatever
  reached a thread was recorded for it (`TurnsInv`); an answer is stored only for a run
  that its own invocation found running and completed (`RunsInv`).
* **Clients.** `EventsInv`: kept and coming events are in the order of their ids, what
  the tab is owed is newer than its cursor and is kept, or older than all that is kept,
  and a whole session comes only at the head. `HiddenInv`: everything the tab takes
  over goes without the threads being deleted. `StoreInv`: a call that may clear the
  row has the server's answer for its own turn.
* **Purge.** `PastRecovery`: a worker deletes only where recovery is impossible, since
  both compare the row's version. `ErasureInv`: when the recovery period is over no
  upload or export is under way (`QuietWhenDue`); a stale transition cannot fire
  (`ReadBefore`); what a cursor records was done (`ThreadInv`, `DoneLate`, `EmptyStore`);
  and while no call has failed, every object has a row, an upload or a worker that
  accounts for it, so the purge finds them all (`KnownArtifact`, `KnownArchives`). TLC
  also checked it with two workers whose leases run out (1.4 million states) and with
  both first artifacts (4.4 million).
* **Deletion's promise.** `WorkspaceLifecycle` has neither jobs nor workers; the
  workspace counts as whole while its rows and its thread are there. Most actions are
  stutters. A worker that starts the purge read a row that was due and is unchanged
  (`ReadBefore`), so its transition is `Begin`; a recovery finds the workspace whole
  (`RecoveredIntact`); a worker that is behind another one still destroys only where
  no recovery is possible (`PastRecovery`), so it is `Destroy`; and the batch that
  inserts a receipt is the first that does (`ReceiptInv`), so it is `Certify`. TLC
  checked the mapping on the instance of `retention_live` and with two purges, two
  workers and leases that run out.
* **Failed purges** (`PurgeInv`). One purge job may still be claimed (`OneLive`), and
  none in a workspace that is active, failed or gone; from the end of the recovery
  period on, one worker at most is at a purge, and it holds the job's lease until it
  has recorded that the job failed (`Holds`, `OneAtWork`). A worker that a recovery
  overtook is still there, at a cancelled job, until the period ends. Hence the batch
  that marks the workspace finds the job failed. With a lease that runs out, a second
  worker takes the job up again, and one of them marks the workspace while the other
  holds the job.
* **Archives** (`CutInv`). As long as at most one incident happened, one invocation is
  at work; where it stands says which phase and status its job has, that the fence is
  its own and live, and what its copies are worth (`AtExport`). What a phase records
  must hold without the worker too, for a crash may leave it to the next one: messages
  that were staged are still those of the moment, because the thread is frozen or,
  when a sweep thawed it, because the fence kept the rows as they were (`Current`);
  from the second page on, the copies are a cut (`Captured`). While no call failed,
  whatever an export holds, a worker works on (`Attended`), so a fence that is found
  is its own or an incident has happened. `OverlapsCount` says that two overlapping
  invocations cost two incidents, which `StartTick` takes from the bounds; the
  instance satisfies it.
* **Schedule** (`ScheduleInv`). Times are on the grid of their trigger's interval;
  occurrences are apart and cover what lies before the next time (`Accounted`); what
  a tick has read was due, and if the trigger has moved on since, the occurrence has
  its dispatch (`RowIsTrue`). The arithmetic of a symbolic interval is kept in a few
  lemmas on products. The property says that two different dispatches of a trigger
  never cover the same time, whatever their times are.
* **Event feed** (`FeedInv`). Rows have the order of the ids (`Sorted`); what an open
  stream has sent leaves nothing out up to its cursor, and the cursor is at most at the
  last row, or the reader waits in vain (`CursorIsTrue`; section 4). A page is the set
  of rows with fewer than the limit between the cursor and themselves, so that nothing
  need be sorted (`PageHasNoGap`).
* **Summary** (`SummaryInv`). Requests have different numbers, and what the latest of
  them has read so far is not older than the summary that is shown (`Newer`); only the
  answer of the latest is shown. The workspace's part and the chat's are read at the
  same time, in either order, and each advances by itself.

### What is only model-checked

Liveness: `ExecutionSettles`, `DispatchSettles`, `PurgeSettles`, `FenceLifts`,
`QueuedSettles`, `AlertSettles`, `RunsEnd`, `DeletionResolves`, `ConnectionRenews`,
`ExportShownReady`, `OwnChangeIsShown`. Fairness and `ENABLED` are beyond the prover.
The violation of `DueIsDispatched` is TLC's.

`AutomationsPanel` is explored without a property of its own: its run shows that every
step of it can happen, and it is where the divergences that section 4 names for that
panel (the kept draft, the audit row of an update that lost) were read off.

## 6. Not modelled, and the plan

Not modelled: wording, layout, the parsing of requests, signatures and their
verification, encryption, cron expressions and time zones, the archive's format, the
registry of dynamic capabilities, notification preferences, the compare-and-set of
managed state by version, the path of an explicit local agent in `authz.ts`, the
identity provider, the AI library and the providers (external), the SDK's types, packs
and their compiler, and scripts. They keep no state that the properties above are
about, or are one nondeterministic outcome of an action.

Next: an abstract specification of the session (revisions and views) that
`ChatSession` and `SessionEvents` implement, and one of a dispatch for
`TriggerDispatch`.
