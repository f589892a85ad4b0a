--------------------------- MODULE WorkspaceRetention ---------------------------
(***************************************************************************)
(* Deletion, export and retention of one workspace, driven by the cron's   *)
(* workers: processDataLifecycleJobs claims a job under a lease, runs it,  *)
(* and records how it failed. A worker acts on the row it selected, which  *)
(* other workers and requests may have changed since.                      *)
(***************************************************************************)
EXTENDS WorkspaceDeletion, WorkspaceExport, ArtifactStore

(* The workspace in use *)

WriteRows ==
  /\ ws.status = "active" /\ rows = "present" /\ ~Fenced /\ bound.writes > 0
  /\ d1' = d1 + 1
  /\ cuts' = cuts \cup {<<d1', thread.messages>>}
  /\ bound' = [bound EXCEPT !.writes = @ - 1]
  /\ UNCHANGED <<wsVars, job, workerVars, req, rows, exportVars, storeVars>>

(* A chat turn: the thread's object refuses it while it is frozen.         *)
WriteMessage ==
  /\ ws.status = "active" /\ thread.frozen = None /\ ~thread.purged /\ bound.writes > 0
  /\ thread' = [thread EXCEPT !.messages = @ + 1, !.stale = FALSE]
  /\ cuts' = cuts \cup {<<d1, thread'.messages>>}
  /\ bound' = [bound EXCEPT !.writes = @ - 1]
  /\ UNCHANGED <<wsVars, job, workerVars, req, rows, d1, fence, staged, pins, storeVars>>

ExecutionEnds ==
  /\ busy /\ busy' = FALSE
  /\ UNCHANGED <<ws, due, alert, receipts, creds, job, workerVars, req, dataVars, exportVars, storeVars, bound>>

-------------------------------------------------------------------------------
(* processDataLifecycleJobs *)

Selectable(j) ==
  job[j].status \in {"queued", "running"} /\ ~job[j].leased /\ (j \in Exports \/ due)

SelectJob(w, j) ==
  /\ StartTick(w) /\ Selectable(j)
  /\ pc' = [pc EXCEPT ![w] = "polled"]
  /\ proc' = [proc EXCEPT ![w] = [Unread EXCEPT !.job = j, !.attempts = job[j].attempts,
                                               !.phase = job[j].phase]]
  /\ UNCHANGED back
  /\ UNCHANGED <<wsVars, job, req, dataVars, exportVars, storeVars>>

(* workspaceHasActiveExecution: an export waits until nothing executes.    *)
CheckQuiescence(w, j) ==
  /\ At(w, "polled") /\ proc[w].job = j
  /\ IF j \in Exports /\ busy
     THEN Return(w)
     ELSE Goto(w, "claim")
  /\ UNCHANGED <<wsVars, job, req, dataVars, exportVars, storeVars, bound>>

MayClaim(j) == job[j].status \in {"queued", "running"} /\ ~job[j].leased

Least(m, n) == IF m < n THEN m ELSE n

(* claimJob. The attempts are counted up to three, where they matter.      *)
ClaimJob(w, j) ==
  /\ At(w, "claim") /\ proc[w].job = j
  /\ IF MayClaim(j)
     THEN /\ job' = [job EXCEPT ![j].status = "running", ![j].leased = TRUE,
                                ![j].attempts = Least(@ + 1, 3)]
          /\ Goto(w, IF j \in Purges THEN "check"
                     ELSE IF proc[w].phase \in {"awaiting_quiescence", "fenced", "do_frozen", "d1_materialized"}
                     THEN "acquire" ELSE ResumeAt(proc[w].phase))
     ELSE Return(w) /\ UNCHANGED job
  /\ UNCHANGED <<wsVars, req, dataVars, exportVars, storeVars, bound>>

(* A call to the vault, the thread's object or R2 fails.                   *)
CallFails(w) ==
  /\ pc[w] \in {"act", "freeze", "copied", "gather", "put"}
  /\ bound.faults > 0
  /\ bound' = [bound EXCEPT !.faults = @ - 1]
  /\ Goto(w, "throw")
  /\ UNCHANGED <<wsVars, job, req, dataVars, exportVars, storeVars>>

(* The catch clause: the job is queued again or, after the third attempt,  *)
(* failed. Whether it is the third is told by the row that was selected.   *)
Retryable(w) == proc[w].attempts + 1 < 3

RecordFailure(w, j) ==
  /\ At(w, "throw") /\ proc[w].job = j
  /\ job' = IF Running(j)
            THEN [job EXCEPT ![j].status = IF Retryable(w) THEN "queued" ELSE "failed", ![j].leased = FALSE]
            ELSE job
  /\ IF Retryable(w) THEN Return(w)
     ELSE IF j \in Purges THEN Goto(w, "exhausted") ELSE ReleaseAnd(w, "exhausted")
  /\ UNCHANGED <<wsVars, req, dataVars, exportVars, storeVars, bound>>

-------------------------------------------------------------------------------
(* Crashes and leases *)

WorkerCrash(w) ==
  /\ pc[w] # "idle" /\ bound.crashes > 0
  /\ Return(w)
  /\ bound' = [bound EXCEPT !.crashes = @ - 1]
  /\ UNCHANGED <<wsVars, job, req, dataVars, exportVars, storeVars>>

RequestCrash ==
  /\ req.deletion.pc = "revoke" /\ bound.crashes > 0
  /\ req' = [req EXCEPT !.deletion.pc = "idle"]
  /\ bound' = [bound EXCEPT !.crashes = @ - 1]
  /\ UNCHANGED <<wsVars, job, workerVars, dataVars, exportVars, storeVars>>

(* The fifteen minutes of a job's lease, the ten of the fence's.           *)
JobLeaseExpires(j) ==
  /\ job[j].leased
  /\ LeaseOutlivesWorker => ~Working(j)
  /\ job' = [job EXCEPT ![j].leased = FALSE]
  /\ UNCHANGED <<wsVars, workerVars, req, dataVars, exportVars, storeVars, bound>>

FenceLeaseExpires(e) ==
  /\ fence.job = e /\ fence.live
  /\ LeaseOutlivesWorker => ~Working(e)
  /\ fence' = [fence EXCEPT !.live = FALSE]
  /\ UNCHANGED <<wsVars, job, workerVars, req, dataVars, thread, staged, pins, storeVars, bound>>

WorkerStep(w) ==
  \/ \E j \in Jobs : SelectJob(w, j) \/ CheckQuiescence(w, j) \/ ClaimJob(w, j) \/ RecordFailure(w, j)
  \/ \E p \in Purges : PurgeStep(w, p)
  \/ \E e \in Exports : ExportStep(w, e)

Next ==
  \/ \E w \in Workers : WorkerStep(w) \/ CallFails(w) \/ WorkerCrash(w)
  \/ DeletionStep
  \/ ExpiryStep
  \/ StoreStep
  \/ WriteRows \/ WriteMessage \/ ExecutionEnds \/ RequestCrash
  \/ \E j \in Jobs : JobLeaseExpires(j)
  \/ \E e \in Exports : FenceLeaseExpires(e)

Spec == WorkspaceInit /\ [][Next]_vars

-------------------------------------------------------------------------------
(* Properties *)

Stages == [page1 : Nat \cup {None}, page2 : Nat \cup {None}, messages : Nat \cup {None}, art : BOOLEAN]

(* Every variable has a value of its kind, and a fence has a job.          *)
TypeOK ==
  /\ ws \in [status : {"active", "quarantined", "purging", "failed", "gone"}, v : Nat]
  /\ due \in BOOLEAN /\ creds \in BOOLEAN /\ busy \in BOOLEAN
  /\ job \in [Jobs -> [status : JobStatuses, phase : Phases, attempts : 0..3, leased : BOOLEAN,
                       stored : BOOLEAN, archive : Stages]]
  /\ fence \in [job : Exports \cup {None}, status : {"none", "active", "releasing"}, live : BOOLEAN]
  /\ fence.job = None <=> fence.status = "none"
  /\ rows \in {"present", "purged"} /\ d1 \in Nat
  /\ thread \in [messages : Nat, frozen : Exports \cup {None}, purged : BOOLEAN, stale : BOOLEAN]
  /\ cuts \subseteq Nat \X Nat
  /\ staged \in [Exports -> Stages]
  /\ pins \subseteq Exports
  /\ art \in [status : {"none", "live", "deleted", "purged"}, expired : BOOLEAN]
  /\ obj \subseteq Exports \cup {Artifact}
  /\ alert \in [Jobs -> {"none", "open", "acknowledged"}]
  /\ receipts \in Nat
  /\ pc \in [Workers -> WorkerPcs]
  /\ back \in [Workers -> {"record", "throw", "requeue", "exhausted"}]
  /\ proc \in [Workers -> [job : Jobs \cup {None}, attempts : 0..3, phase : Phases, v : Nat, got : Stages]]
  /\ req \in [deletion : [pc : {"idle", "read", "revoke"}, v : Nat],
              recovery : [pc : {"idle", "read"}, v : Nat]]
  /\ store \in [upload : {"idle", "put", "refused"}, sweep : {"idle", "selected", "deleted"},
                chatSweep : {"idle", "selected", "purged"}, expiring : Exports \cup {None}]
  /\ bound \in [faults : Nat, crashes : Nat, retries : Nat, writes : Nat, sweeps : Nat, overlaps : Nat]

Failures == (MaxFaults - bound.faults) + (MaxCrashes - bound.crashes)

(* A workspace in use, one that was recovered included, has lost nothing   *)
(* to a purge: no step of a purge happens before the recovery has become   *)
(* impossible. Recovery and purge read the row in one statement and write  *)
(* it in another, with a job between them that two workers may hold.       *)
RecoveredIntact ==
  ws.status \in {"active", "quarantined"} => rows = "present" /\ ~thread.purged /\ receipts = 0

(* A deletion receipt means what it says: it is written once, and then the *)
(* rows, the thread, the credentials and, unless a call failed or an       *)
(* invocation vanished on the way, every object of the workspace are gone. *)
ReceiptCertifiesErasure ==
  /\ receipts <= 1
  /\ receipts = 1 => /\ ws.status = "gone" /\ rows = "purged" /\ thread.purged /\ ~creds
                     /\ Failures = 0 => obj = {}

(* A workspace marked as failed can be retried: its purge job is still     *)
(* there and has failed, and the owner's retry finds it.                   *)
FailedPurgeIsRetryable ==
  ws.status = "failed" => \E p \in Purges : job[p].status = "failed"

(* An archive that was published holds what the workspace held at one      *)
(* moment: its pages of rows agree with each other and with the messages.  *)
(* It may fail only after two incidents (a failed call, a vanished         *)
(* invocation, a retention sweep), a lease that ran out under its worker,  *)
(* or an overlap of two invocations (which spends every bound at once).     *)
PublishedIsACut(e) ==
  job[e].status = "completed" =>
    /\ job[e].archive.page1 = job[e].archive.page2
    /\ <<job[e].archive.page1, job[e].archive.messages>> \in cuts

ExportIsACut ==
  Failures + (MaxSweeps - bound.sweeps) <= 1 => \A e \in Exports : PublishedIsACut(e)

(* A purge that started ends, in a receipt or in a failure that shows, if  *)
(* no invocation vanishes.                                                 *)
PurgeSettles ==
  (ws.status = "purging") ~> (ws.status \in {"gone", "failed"} \/ bound.crashes < MaxCrashes)

(* A fence does not stay: whatever becomes of its export, writes to the    *)
(* workspace and turns of its thread are possible again. Only a purge that *)
(* ends while the lease has run out leaves the fence's row behind: it      *)
(* deletes the job's row, without which no tick finds the fence.           *)
FenceLifts ==
  (fence.job # None \/ thread.frozen # None)
    ~> (thread.frozen = None /\ (fence.job = None \/ ws.status = "gone"))

(* The cron runs every minute; each tick starts with the fences, and the   *)
(* leases run out. Outside calls fail a bounded number of times.           *)
Fairness ==
  /\ \A w \in Workers : WF_vars(WorkerStep(w))
  /\ \A w \in Workers, e \in Exports : SF_vars(RecoverFence(w, e))
  /\ WF_vars(RetryRevocation) /\ WF_vars(DeletionRevoke) /\ WF_vars(ExecutionEnds)
  /\ \A j \in Jobs : WF_vars(JobLeaseExpires(j))
  /\ \A e \in Exports : WF_vars(FenceLeaseExpires(e))

LiveSpec == Spec /\ Fairness
===============================================================================
