---------------------------- MODULE WorkspaceState ----------------------------
(***************************************************************************)
(* The state that workspace deletion, workspace export and artifact        *)
(* retention share: the rows of one workspace in D1, its chat thread (a    *)
(* Durable Object), its objects in R2, and the cron workers and requests   *)
(* that read them in one statement and write them in a later one.          *)
(*                                                                         *)
(* Time is not a number: a lease, a recovery period or a retention period  *)
(* ends in an action of its own.                                           *)
(***************************************************************************)
EXTENDS Naturals, FiniteSets

CONSTANTS
  Purges,       \* ids of the purge jobs that deletion requests create
  Exports,      \* ids of the export jobs
  Workers,      \* concurrent invocations of processDataLifecycleJobs
  None,         \* no job
  MaxFaults,    \* bound on outside calls that fail or throw
  MaxCrashes,   \* bound on invocations that vanish
  MaxRetries,   \* bound on manual retries of a failed purge
  MaxWrites,    \* bound on writes to the tenant's rows and messages
  MaxSweeps,    \* bound on retention sweeps
  MaxOverlaps,  \* bound on invocations that start while another is at work
  FirstArtifact, \* the statuses the artifact's row may have at first
  LeaseOutlivesWorker  \* no lease runs out under an invocation that still runs

Artifact == "artifact"

ASSUME WorkspaceAssumption ==
  /\ Purges \cap Exports = {}
  /\ None \notin Purges \cup Exports /\ Artifact \notin Exports
  /\ {MaxFaults, MaxCrashes, MaxRetries, MaxWrites, MaxSweeps, MaxOverlaps} \subseteq Nat
  /\ FirstArtifact \subseteq {"none", "live"}
  /\ LeaseOutlivesWorker \in BOOLEAN

VARIABLES
  ws,       \* the workspaces row
  due,      \* its purge_after has passed
  job,      \* control_data_jobs
  fence,    \* control_workspace_write_fences
  rows,     \* the tenant's other rows: "present" or "purged"
  d1,       \* version of those rows
  thread,   \* the thread's Durable Object: messages and lifecycle fence
  cuts,     \* history: the pairs <<d1, messages>> that held at some moment
  staged,   \* control_data_export_rows of each export
  pins,     \* exports with the artifact in control_data_export_objects
  art,      \* the artifact's row
  obj,      \* R2: the objects that exist
  creds,    \* an unrevoked connection or device is left
  alert,    \* the data_lifecycle_job_failed alert of each job
  receipts, \* control_deletion_receipts
  busy,     \* runs, chat runs or proposals are executing
  pc,       \* where each worker is between two of its calls
  back,     \* where its releaseExportFence returns to
  proc,     \* the job row it read, and the archive it has built
  req,      \* the pending deletion request and the pending recovery
  store,    \* the pending artifact upload, sweep and retention change
  bound     \* what is left of the bounds

wsVars == <<ws, due, alert, receipts, creds, busy>>
dataVars == <<rows, d1, cuts>>
exportVars == <<fence, thread, staged, pins>>
storeVars == <<art, obj, store>>
workerVars == <<pc, back, proc>>
vars == <<ws, due, job, fence, rows, d1, thread, cuts, staged, pins, art, obj,
          creds, alert, receipts, busy, pc, back, proc, req, store, bound>>

Jobs == Purges \cup Exports

PurgePhases == <<"started", "credentials_revoked", "durable_objects_purged", "objects_deleted">>
ExportPhases == {"awaiting_quiescence", "fenced", "do_frozen", "d1_materialized",
                 "r2_pinned", "released", "assembling"}
Phases == {PurgePhases[i] : i \in 1..4} \cup ExportPhases

JobStatuses == {"none", "queued", "running", "completed", "failed", "cancelled", "expired"}

NoFence == [job |-> None, status |-> "none", live |-> FALSE]

(* What an export has copied: two pages of rows, read one after the other, *)
(* the thread's messages, and whether the artifact's row was among them.   *)
NotStaged == [page1 |-> None, page2 |-> None, messages |-> None, art |-> FALSE]

NoJobRow == [status |-> "none", phase |-> "started", attempts |-> 0, leased |-> FALSE,
             stored |-> FALSE, archive |-> NotStaged]

(* What a worker has read: the job's row, the workspace's version or the   *)
(* thread's messages, and the entries of the archive.                      *)
Unread == [job |-> None, attempts |-> 0, phase |-> "started", v |-> 0, got |-> NotStaged]

WorkerPcs == {"idle", "polled", "claim", "check", "transition", "act", "mark", "acquire", "begin",
              "freeze", "frozen", "copy", "copied", "pin", "releasing", "unfreeze", "unfence",
              "record", "assemble", "gather", "put", "publish", "unput", "clear", "requeue",
              "throw", "exhausted"}

(* Recovery of an expired fence has no claim on the job; it works on it. *)
Recovering(w) == back[w] = "requeue"

At(w, at) == pc[w] = at

Bounds == [faults |-> MaxFaults, crashes |-> MaxCrashes, retries |-> MaxRetries,
           writes |-> MaxWrites, sweeps |-> MaxSweeps, overlaps |-> MaxOverlaps]

(* The cron starts an invocation every minute, whether or not the last one  *)
(* has ended. In the model an overlap is the only incident of a behaviour. *)
StartTick(w) ==
  /\ At(w, "idle")
  /\ IF \A v \in Workers : At(v, "idle")
     THEN UNCHANGED bound
     ELSE /\ bound.overlaps > 0 /\ bound = Bounds
          /\ bound' = [b \in DOMAIN bound |-> 0]

(* The export_fence_* triggers of the schema: while a fence is active and  *)
(* its lease has not run out, a write to a tenant's row aborts.            *)
Fenced == fence.status = "active" /\ fence.live

Running(j) == job[j].status = "running"

Working(j) == \E w \in Workers : proc[w].job = j /\ pc[w] \notin {"polled", "claim"} /\ ~Recovering(w)

Goto(w, at) == pc' = [pc EXCEPT ![w] = at] /\ UNCHANGED <<back, proc>>
Return(w) ==
  /\ pc' = [pc EXCEPT ![w] = "idle"]
  /\ back' = [back EXCEPT ![w] = "record"]
  /\ proc' = [proc EXCEPT ![w] = Unread]
ReleaseAnd(w, at) ==
  /\ pc' = [pc EXCEPT ![w] = "releasing"]
  /\ back' = [back EXCEPT ![w] = at]
  /\ UNCHANGED proc

WorkspaceInit ==
  /\ ws = [status |-> "active", v |-> 0]
  /\ due = FALSE
  /\ job = [j \in Jobs |-> NoJobRow]
  /\ fence = NoFence
  /\ rows = "present"
  /\ d1 = 0
  /\ thread = [messages |-> 0, frozen |-> None, purged |-> FALSE, stale |-> FALSE]
  /\ cuts = {<<0, 0>>}
  /\ staged = [e \in Exports |-> NotStaged]
  /\ pins = {}
  /\ art \in [status : FirstArtifact, expired : {FALSE}]
  /\ obj = IF art.status = "live" THEN {Artifact} ELSE {}
  /\ creds = TRUE
  /\ alert = [j \in Jobs |-> "none"]
  /\ receipts = 0
  /\ busy \in BOOLEAN
  /\ pc = [w \in Workers |-> "idle"]
  /\ back = [w \in Workers |-> "record"]
  /\ proc = [w \in Workers |-> Unread]
  /\ req = [deletion |-> [pc |-> "idle", v |-> 0], recovery |-> [pc |-> "idle", v |-> 0]]
  /\ store = [upload |-> "idle", sweep |-> "idle", chatSweep |-> "idle", expiring |-> None]
  /\ bound = Bounds
===============================================================================
