-------------------------- MODULE TriggerDispatch --------------------------
(***************************************************************************)
(* Unattended execution in the control plane: how a trigger's dispatch is  *)
(* inserted, leased, run, settled, recovered and replayed                  *)
(* (cloudflare/control-plane/src/trigger*.ts with runtime-workflows.ts,    *)
(* runtime-run-lifecycle.ts, workflow-callbacks.ts, run-control.ts and     *)
(* workspace-data-deletion.ts, which write the same rows).                 *)
(*                                                                         *)
(* A handler is a Worker invocation (a request, or a tick of the cron). It *)
(* is suspended at each await, so an action here is one D1 statement or    *)
(* one D1 batch, and what it read before is kept in job[h].                *)
(*                                                                         *)
(* There is no clock. A lease that is not renewed expires at some time     *)
(* (Expire), and each grant or renewal gives the row another lease, counted*)
(* by lease[d]: a guard that compares lease_expires_at with a time taken   *)
(* when the lease was seen expired holds as long as the row still has that *)
(* lease. The intent, written with its run, is left out. All triggers and  *)
(* runs belong to one agent.                                               *)
(***************************************************************************)
EXTENDS Naturals, FiniteSets

CONSTANTS
  Triggers,
  Dispatches,     \* dispatch rows, one per (trigger, idempotency key)
  TriggerOf,      \* TriggerOf[d]: the trigger of dispatch d
  Runs,           \* bound: the runs that can be started
  Requests,       \* concurrent invocations for requests
  Crons,          \* concurrent invocations for ticks of the cron
  None,
  MaxConcurrent,  \* control_triggers.max_concurrent_runs
  PackLimit,      \* the pack's resourceLimits.maxConcurrentRuns
  MaxAttempts,    \* bound: replays stop at this attempt
  MaxLeases,      \* bound: renewals stop at this lease
  MaxCrashes,     \* bound: invocations that are lost
  MayThrow,       \* whether a statement fails while a run is being worked on
  MayQuarantine   \* whether the workspace can be deleted

Workers == Requests \cup Crons

ASSUME ConstantsAssumption ==
  /\ None \notin Dispatches \cup Runs \cup Workers
  /\ TriggerOf \in [Dispatches -> Triggers]
  /\ MaxConcurrent \in Nat \ {0}
  /\ {PackLimit, MaxAttempts, MaxLeases, MaxCrashes} \subseteq Nat
  /\ {MayThrow, MayQuarantine} \subseteq BOOLEAN

VARIABLES
  trigger,    \* control_triggers.status
  status,     \* control_trigger_dispatches.status, "none" before the insert
  attempt,    \* its attempt_count
  runId,      \* its run_id
  previous,   \* its previous_run_id
  owner,      \* its lease_owner
  lease,      \* how many leases it has been given
  expired,    \* the dispatches whose lease has expired
  run,        \* control_runs.status, "none" before the insert
  origin,     \* the dispatch and attempt named in the run's data
  alerted,    \* the dispatches with an operator alert
  crashes,
  pc, job     \* where each handler is, and what it has read

dispatchRow == <<status, attempt, runId, previous, owner, lease, expired>>
runRow == <<run, origin>>
rest == <<alerted, crashes>>
local == <<pc, job>>
vars == <<trigger, dispatchRow, runRow, rest, local>>

-----------------------------------------------------------------------------
Active == {"leased", "running"}
DispatchStatuses == {"none", "pending", "completed", "failed", "cancelled"} \cup Active
TerminalRun == {"completed", "failed", "cancelled"}

Labels ==
  {"idle", "recover_select", "recover", "select", "lease", "read", "execute",
   "admit", "start", "work", "settle"}

Items == [dispatch : Dispatches, attempt : Nat]
Rows == [dispatch : Dispatches, run : Runs \cup {None}, lease : Nat]
Jobs ==
  [todo : SUBSET Dispatches, items : SUBSET Items, rows : SUBSET Rows,
   current : Dispatches \cup {None}, attempt : Nat, run : Runs \cup {None}, live : BOOLEAN]

NoJob ==
  [todo |-> {}, items |-> {}, rows |-> {}, current |-> None, attempt |-> 0,
   run |-> None, live |-> FALSE]

TypeOK ==
  /\ trigger \in [Triggers -> {"enabled", "paused", "disabled"}]
  /\ status \in [Dispatches -> DispatchStatuses]
  /\ attempt \in [Dispatches -> Nat]
  /\ runId \in [Dispatches -> Runs \cup {None}]
  /\ previous \in [Dispatches -> Runs \cup {None}]
  /\ owner \in [Dispatches -> Workers \cup {None}]
  /\ lease \in [Dispatches -> Nat]
  /\ expired \in SUBSET Dispatches
  /\ run \in [Runs -> {"none", "running"} \cup TerminalRun]
  /\ origin \in [Runs -> Items \cup {None}]
  /\ alerted \in SUBSET Dispatches
  /\ crashes \in Nat
  /\ pc \in [Workers -> Labels]
  /\ job \in [Workers -> Jobs]
  /\ \A h \in Workers :
       /\ pc[h] \in {"read", "settle"} => job[h].current # None
       /\ pc[h] = "work" => job[h].run # None

Init ==
  /\ trigger = [t \in Triggers |-> "enabled"]
  /\ status = [d \in Dispatches |-> "none"]
  /\ attempt = [d \in Dispatches |-> 0]
  /\ runId = [d \in Dispatches |-> None]
  /\ previous = [d \in Dispatches |-> None]
  /\ owner = [d \in Dispatches |-> None]
  /\ lease = [d \in Dispatches |-> 0]
  /\ expired = {}
  /\ run = [r \in Runs |-> "none"]
  /\ origin = [r \in Runs |-> None]
  /\ alerted = {}
  /\ crashes = 0
  /\ pc = [h \in Workers |-> "idle"]
  /\ job = [h \in Workers |-> NoJob]

-----------------------------------------------------------------------------
(* Steps of a handler, and what statements do to a dispatch.               *)

GotoWith(h, label, j) ==
  /\ pc' = [pc EXCEPT ![h] = label]
  /\ job' = [job EXCEPT ![h] = j]

Goto(h, label) == pc' = [pc EXCEPT ![h] = label] /\ UNCHANGED job

Begin(h, label, j) == pc[h] = "idle" /\ GotoWith(h, label, j)

\* First everything is leased, then what was leased is executed in turn.
Resume(h, todo, items) ==
  IF todo # {} THEN GotoWith(h, "lease", [NoJob EXCEPT !.todo = todo, !.items = items])
  ELSE IF items # {} THEN GotoWith(h, "execute", [NoJob EXCEPT !.items = items])
  ELSE GotoWith(h, "idle", NoJob)

NextItem(h) == Resume(h, {}, job[h].items)

Enabled(d) == trigger[TriggerOf[d]] = "enabled"

Insert(d) ==
  /\ status[d] = "none"
  /\ Enabled(d)
  /\ status' = [status EXCEPT ![d] = "pending"]
  /\ UNCHANGED <<attempt, runId, previous, owner, lease, expired>>

ActiveOf(t) == {d \in Dispatches : TriggerOf[d] = t /\ status[d] \in Active}
LiveRuns == {r \in Runs : run[r] = "running"}

\* Mutant: only the dispatches are counted.
RoomWithoutRuns(t) == Cardinality(ActiveOf(t)) < MaxConcurrent

\* Mutant: the dispatches are not counted.
RoomWithoutDispatches(t) == Cardinality(LiveRuns) < MaxConcurrent

\* The trigger's active dispatches and the agent's active runs are both counted.
Room(t) ==
  /\ Cardinality(ActiveOf(t)) < MaxConcurrent
  /\ Cardinality(LiveRuns) < MaxConcurrent

\* Handler h takes a new lease on d, for a new attempt.
Grant(h, d) ==
  /\ status' = [status EXCEPT ![d] = "leased"]
  /\ attempt' = [attempt EXCEPT ![d] = @ + 1]
  /\ owner' = [owner EXCEPT ![d] = h]
  /\ lease' = [lease EXCEPT ![d] = @ + 1]
  /\ expired' = expired \ {d}

\* The dispatches in S take terminal status s and give up their leases.
Release(S, s) ==
  /\ status' = [d \in Dispatches |-> IF d \in S THEN s ELSE status[d]]
  /\ owner' = [d \in Dispatches |-> IF d \in S THEN None ELSE owner[d]]
  /\ expired' = expired \ S
  /\ UNCHANGED <<attempt, runId, previous, lease>>

-----------------------------------------------------------------------------
(* Receiving and leasing.                                                  *)

\* A manual dispatch or a webhook call: the insert does nothing when the
\* idempotency key is taken, and then the request goes no further.
Receive(h, d) ==
  /\ h \in Requests
  /\ Begin(h, "select", [NoJob EXCEPT !.todo = {d}])
  /\ Insert(d)
  /\ UNCHANGED <<trigger, runRow, rest>>

Leasable(d) == status[d] = "pending" /\ Enabled(d) /\ Room(TriggerOf[d])

Select(h) ==
  /\ \/ pc[h] = "select"
     \/ pc[h] = "recover" /\ job[h].rows = {}
  /\ Resume(h, {d \in job[h].todo : status[d] = "pending" /\ Enabled(d)}, {})
  /\ UNCHANGED <<trigger, dispatchRow, runRow, rest>>

\* A compare-and-set per candidate.
Lease(h, d) ==
  /\ pc[h] = "lease"
  /\ d \in job[h].todo
  /\ IF Leasable(d)
       THEN /\ Grant(h, d)
            /\ UNCHANGED <<runId, previous>>
            /\ GotoWith(h, "read", [job[h] EXCEPT !.todo = @ \ {d}, !.current = d])
       ELSE /\ UNCHANGED dispatchRow
            /\ Resume(h, job[h].todo \ {d}, job[h].items)
  /\ UNCHANGED <<trigger, runRow, rest>>

\* The row is read back with its trigger. Without an enabled trigger it is left
\* leased, and its lease will expire.
Read(h) ==
  LET d == job[h].current
      item == [dispatch |-> d, attempt |-> attempt[d]]
      held == status[d] = "leased" /\ owner[d] = h /\ Enabled(d) IN
  /\ pc[h] = "read"
  /\ Resume(h, job[h].todo, IF held THEN job[h].items \cup {item} ELSE job[h].items)
  /\ UNCHANGED <<trigger, dispatchRow, runRow, rest>>

-----------------------------------------------------------------------------
(* Executing.                                                              *)

Execute(h, item) ==
  /\ pc[h] = "execute"
  /\ item \in job[h].items
  /\ GotoWith(h, "admit", [job[h] EXCEPT !.items = @ \ {item},
                             !.current = item.dispatch, !.attempt = item.attempt])
  /\ UNCHANGED <<trigger, dispatchRow, runRow, rest>>

\* A user runs a workflow, or retries a run: the same code without a dispatch.
UserRun(h) ==
  /\ h \in Requests
  /\ Begin(h, "admit", NoJob)
  /\ UNCHANGED <<trigger, dispatchRow, runRow, rest>>

\* Bound of the model: a run is left for everyone who is about to start one.
RunLeft ==
  Cardinality({g \in Workers : pc[g] = "start"})
    < Cardinality({r \in Runs : run[r] = "none"})

\* The pack's limit is read here and not checked again. The time the lease will
\* be compared with is taken before the batch that starts the run.
Admit(h) ==
  /\ pc[h] = "admit"
  /\ RunLeft
  /\ Cardinality(LiveRuns) < PackLimit
  /\ GotoWith(h, "start", [job[h] EXCEPT !.live = job[h].current \notin expired])
  /\ UNCHANGED <<trigger, dispatchRow, runRow, rest>>

\* A failed execution settles its dispatch; a user's only returns.
Abandon(h) == IF job[h].current # None THEN Goto(h, "settle") ELSE NextItem(h)

\* The binding, the pack, the input, a tool's authorization or the limit refuses.
Refuse(h) ==
  /\ pc[h] = "admit"
  /\ Abandon(h)
  /\ UNCHANGED <<trigger, dispatchRow, runRow, rest>>

Startable(h) ==
  LET d == job[h].current IN
  status[d] = "leased" /\ owner[d] = h /\ runId[d] = None /\ job[h].live

\* The insert of the run depends on the update of the dispatch in its batch.
Start(h, r) ==
  LET d == job[h].current IN
  /\ pc[h] = "start"
  /\ run[r] = "none"
  /\ IF d = None \/ Startable(h)
       THEN /\ run' = [run EXCEPT ![r] = "running"]
            /\ GotoWith(h, "work", [job[h] EXCEPT !.run = r, !.live = FALSE])
       ELSE UNCHANGED run /\ NextItem(h)
  /\ IF d # None /\ Startable(h)
       THEN /\ status' = [status EXCEPT ![d] = "running"]
            /\ runId' = [runId EXCEPT ![d] = r]
            /\ origin' = [origin EXCEPT ![r] = [dispatch |-> d, attempt |-> job[h].attempt]]
       ELSE UNCHANGED <<status, runId, origin>>
  /\ UNCHANGED <<trigger, attempt, previous, owner, lease, expired, rest>>

\* Mutant: a terminal run is finished again.
UnfinishedAlways(r) == run[r] # "none"

Unfinished(r) == run[r] = "running"

\* The run, and with it the dispatch that is running it, take the result.
Conclude(r, result) ==
  /\ run' = [run EXCEPT ![r] = result]
  /\ Release({d \in Dispatches : status[d] = "running" /\ runId[d] = r}, result)

Finish(h, result) ==
  LET r == job[h].run IN
  /\ pc[h] = "work"
  /\ IF Unfinished(r) THEN Conclude(r, result) ELSE UNCHANGED <<run, dispatchRow>>
  /\ IF Unfinished(r) /\ result = "completed" THEN NextItem(h) ELSE Abandon(h)
  /\ UNCHANGED <<trigger, origin, rest>>

\* A statement fails: the run is left as it is.
Throw(h) ==
  /\ MayThrow
  /\ pc[h] \in {"start", "work"}
  /\ Abandon(h)
  /\ UNCHANGED <<trigger, dispatchRow, runRow, rest>>

\* Only the attempt that failed is settled, not a later one.
Settleable(h) ==
  LET d == job[h].current IN
  status[d] \in Active /\ owner[d] = h /\ attempt[d] = job[h].attempt

Settle(h) ==
  /\ pc[h] = "settle"
  /\ IF Settleable(h)
       THEN Release({job[h].current}, "failed") /\ alerted' = alerted \cup {job[h].current}
       ELSE UNCHANGED <<dispatchRow, alerted>>
  /\ NextItem(h)
  /\ UNCHANGED <<trigger, runRow, crashes>>

-----------------------------------------------------------------------------
(* Callbacks of the runner.                                                *)

\* Progress renews the lease of the dispatch, expired or not.
Progress(r) ==
  LET renewed == {d \in Dispatches : status[d] = "running" /\ runId[d] = r} IN
  /\ Unfinished(r)
  /\ \A d \in renewed : lease[d] < MaxLeases
  /\ lease' = [d \in Dispatches |-> IF d \in renewed THEN lease[d] + 1 ELSE lease[d]]
  /\ expired' = expired \ renewed
  /\ UNCHANGED <<trigger, status, attempt, runId, previous, owner, runRow, rest, local>>

\* The runner reports the end of the run, whatever its handler does.
Callback(r, result) ==
  /\ Unfinished(r)
  /\ Conclude(r, result)
  /\ UNCHANGED <<trigger, origin, rest, local>>

-----------------------------------------------------------------------------
(* Recovery, and replay.                                                   *)

Expire(d) ==
  /\ status[d] \in Active
  /\ expired' = expired \cup {d}
  /\ UNCHANGED <<trigger, status, attempt, runId, previous, owner, lease, runRow, rest, local>>

\* The cron looks for expired leases, then for due triggers, then for what is
\* pending (Select).
Tick(h) ==
  /\ h \in Crons
  /\ Begin(h, "recover_select", [NoJob EXCEPT !.todo = Dispatches])
  /\ UNCHANGED <<trigger, dispatchRow, runRow, rest>>

RecoverSelect(h) ==
  /\ pc[h] = "recover_select"
  /\ GotoWith(h, "recover",
       [job[h] EXCEPT !.rows = {[dispatch |-> d, run |-> runId[d], lease |-> lease[d]] :
                                  d \in {e \in expired : status[e] \in Active}}])
  /\ UNCHANGED <<trigger, dispatchRow, runRow, rest>>

\* Mutant: a dispatch that has not started its run is not recovered.
OverdueRunning(row) ==
  status[row.dispatch] = "running" /\ lease[row.dispatch] = row.lease

\* The dispatch still has the lease that was seen expired.
Overdue(row) == status[row.dispatch] \in Active /\ lease[row.dispatch] = row.lease

\* One batch per row. The run that the row had when it was selected is failed
\* whether or not the lease has been renewed since.
RecoverRow(h, row) ==
  /\ pc[h] = "recover"
  /\ row \in job[h].rows
  /\ run' = IF row.run # None /\ Unfinished(row.run)
              THEN [run EXCEPT ![row.run] = "failed"] ELSE run
  /\ IF Overdue(row)
       THEN Release({row.dispatch}, "failed") /\ alerted' = alerted \cup {row.dispatch}
       ELSE UNCHANGED <<dispatchRow, alerted>>
  /\ GotoWith(h, "recover", [job[h] EXCEPT !.rows = @ \ {row}])
  /\ UNCHANGED <<trigger, origin, crashes>>

\* A due schedule or monitor inserts its occurrence.
InsertDue(h, d) ==
  /\ pc[h] = "recover"
  /\ job[h].rows = {}
  /\ Insert(d)
  /\ UNCHANGED <<trigger, runRow, rest, local>>

Replayable(d) == status[d] \in {"failed", "cancelled"} /\ Enabled(d) /\ Room(TriggerOf[d])

\* An admin replays a dispatch: it is leased at once, without passing pending.
Replay(h, d) ==
  /\ attempt[d] < MaxAttempts
  /\ Replayable(d)
  /\ h \in Requests
  /\ Begin(h, "read", [NoJob EXCEPT !.current = d])
  /\ Grant(h, d)
  /\ previous' = [previous EXCEPT ![d] = runId[d]]
  /\ runId' = [runId EXCEPT ![d] = None]
  /\ UNCHANGED <<trigger, runRow, rest>>

-----------------------------------------------------------------------------
(* Cancelling, disabling, deleting, and losing an invocation.              *)

\* The user's cancel button. The run was active when it was read, which may be
\* long ago; the dispatch is cancelled if the run is cancelled by now.
CancelRun(r) ==
  LET cancelled == run[r] \in {"running", "cancelled"} IN
  /\ run[r] # "none"
  /\ run' = IF Unfinished(r) THEN [run EXCEPT ![r] = "cancelled"] ELSE run
  /\ Release({d \in Dispatches : cancelled /\ status[d] \in Active /\ runId[d] = r}, "cancelled")
  /\ UNCHANGED <<trigger, origin, rest, local>>

Withdrawn(t) ==
  {d \in Dispatches : TriggerOf[d] = t /\ status[d] \in {"pending"} \cup Active}

\* A disabled trigger stays disabled.
UpdateTrigger(t, s) ==
  /\ trigger[t] \notin {"disabled", s}
  /\ trigger' = [trigger EXCEPT ![t] = s]
  /\ IF s = "disabled"
       THEN /\ run' = [r \in Runs |->
                         IF Unfinished(r) /\ \E d \in ActiveOf(t) : runId[d] = r
                           THEN "cancelled" ELSE run[r]]
            /\ Release(Withdrawn(t), "cancelled")
       ELSE UNCHANGED <<run, dispatchRow>>
  /\ UNCHANGED <<origin, rest, local>>

\* Deleting the workspace pauses its triggers and cancels its runs, and leaves
\* the dispatches as they are. Requests that were routed before go on, and the
\* deletion may be taken back, so no other step waits for the workspace.
Quarantine ==
  /\ MayQuarantine
  /\ trigger' = [t \in Triggers |-> IF trigger[t] = "enabled" THEN "paused" ELSE trigger[t]]
  /\ run' = [r \in Runs |-> IF Unfinished(r) THEN "cancelled" ELSE run[r]]
  /\ UNCHANGED <<dispatchRow, origin, rest, local>>

Crash(h) ==
  /\ crashes < MaxCrashes
  /\ pc[h] # "idle"
  /\ crashes' = crashes + 1
  /\ GotoWith(h, "idle", NoJob)
  /\ UNCHANGED <<trigger, dispatchRow, runRow, alerted>>

-----------------------------------------------------------------------------
Continue(h) ==
  \/ Select(h) \/ Read(h) \/ Admit(h) \/ Refuse(h) \/ Settle(h) \/ RecoverSelect(h)
  \/ \E d \in Dispatches : Lease(h, d) \/ InsertDue(h, d)
  \/ \E item \in job[h].items : Execute(h, item)
  \/ \E row \in job[h].rows : RecoverRow(h, row)
  \/ \E r \in Runs : Start(h, r)
  \/ \E result \in {"completed", "failed"} : Finish(h, result)

Next ==
  \/ \E h \in Workers :
       \/ Continue(h) \/ Tick(h) \/ UserRun(h) \/ Throw(h) \/ Crash(h)
       \/ \E d \in Dispatches : Receive(h, d) \/ Replay(h, d)
  \/ \E r \in Runs :
       \/ Progress(r) \/ CancelRun(r)
       \/ \E result \in {"completed", "failed"} : Callback(r, result)
  \/ \E d \in Dispatches : Expire(d)
  \/ \E t \in Triggers : \E s \in {"enabled", "paused", "disabled"} : UpdateTrigger(t, s)
  \/ Quarantine

Spec == Init /\ [][Next]_vars

\* The runtime keeps running an invocation it has started, the cron keeps
\* ticking, and time passes.
FairSpec ==
  /\ Spec
  /\ \A h \in Workers : WF_vars(Continue(h)) /\ WF_vars(Tick(h))
  /\ \A d \in Dispatches : WF_vars(Expire(d))

-----------------------------------------------------------------------------
(* Safety.                                                                 *)

\* However many ticks, requests and replays lease at once, a trigger never has
\* more active dispatches than it allows.
ConcurrencyBound == \A t \in Triggers : Cardinality(ActiveOf(t)) <= MaxConcurrent

\* A disabled trigger leaves nothing waiting or under way, and no request that
\* read it enabled can add to it.
DisabledQuiet ==
  \A d \in Dispatches : trigger[TriggerOf[d]] = "disabled" =>
    status[d] \notin {"pending"} \cup Active

\* A dispatch that succeeded has a run that succeeded, and a cancelled dispatch
\* has none that is still running or has succeeded, although seven writers close
\* them, of which four close both.
OutcomeFollowsRun ==
  \A d \in Dispatches :
    /\ status[d] = "completed" => runId[d] # None /\ run[runId[d]] = "completed"
    /\ status[d] = "cancelled" /\ runId[d] # None => run[runId[d]] \in {"cancelled", "failed"}

\* The run that a dispatch names was started by its current attempt: a handler
\* whose lease was lost, recovered and replayed meanwhile cannot start the run of
\* the next attempt.
RunOfAttempt ==
  \A d \in Dispatches : runId[d] # None =>
    origin[runId[d]] = [dispatch |-> d, attempt |-> attempt[d]]

\* While one run is allowed, a dispatch never has two runs under way, not even when
\* an earlier attempt left its run running (docs/unattended-operations.md:111).
OneLiveRun ==
  \A r, s \in LiveRuns : r # s /\ origin[r] # None /\ origin[s] # None =>
    origin[r].dispatch # origin[s].dispatch

\* The table of trigger-transitions.ts, which no statement reads.
DispatchTransitions ==
  [none |-> {"pending"}, pending |-> {"leased", "cancelled"},
   leased |-> {"running", "failed", "cancelled"},
   running |-> {"completed", "failed", "cancelled"}, completed |-> {},
   failed |-> {"leased"}, cancelled |-> {"leased"}]

\* Every statement that writes a dispatch keeps to that table, also when the row
\* has changed since its handler read it.
TransitionsAllowed ==
  [][\A d \in Dispatches :
       status'[d] = status[d] \/ status'[d] \in DispatchTransitions[status[d]]]_vars

\* A lease that has not expired is exclusive: until then the dispatch fails only
\* with its own run or because its own handler gives it up, whatever a late
\* handler of an earlier attempt or a tick that saw an earlier lease expire does.
LeaseExclusive ==
  [][\A d \in Dispatches \ expired : status[d] \in Active /\ status'[d] = "failed" =>
       \/ runId[d] # None /\ run'[runId[d]] = "failed"
       \/ pc[owner[d]] = "settle" /\ job[owner[d]].current = d]_vars

\* A terminal run never changes: not by a late result, a callback after it was
\* cancelled, or a recovery that selected it before it ended.
TerminalRunsStay ==
  [][\A r \in Runs : run[r] \in TerminalRun => run'[r] = run[r]]_vars

-----------------------------------------------------------------------------
(* Liveness.                                                               *)

\* An active dispatch is settled, although its invocation may be lost and its
\* trigger paused (docs/unattended-operations.md:113).
DispatchSettles ==
  \A d \in Dispatches : status[d] \in Active ~> status[d] \notin Active

=============================================================================
