--------------------------- MODULE WorkspaceDeletion ---------------------------
(***************************************************************************)
(* The deletion of a workspace: the owner's request quarantines it, the    *)
(* owner may recover it for thirty days, and then a purge job deletes what *)
(* it holds in four phases, each recorded in the job's cursor, so that a   *)
(* later invocation resumes where the last one stopped.                    *)
(***************************************************************************)
EXTENDS WorkspaceState, Sequences

PurgeIdx(phase) == CHOOSE i \in 1..4 : PurgePhases[i] = phase

-------------------------------------------------------------------------------
(* The owner's request *)

(* handleRequestWorkspaceDeletion up to its batch: the workspace must be   *)
(* active and no export may be under way.                                  *)
DeletionRead ==
  /\ req.deletion.pc = "idle"
  /\ ws.status = "active"
  /\ \A e \in Exports : job[e].status \notin {"queued", "running"}
  /\ \E p \in Purges : job[p].status = "none"
  /\ req' = [req EXCEPT !.deletion = [pc |-> "read", v |-> ws.v]]
  /\ UNCHANGED <<wsVars, job, workerVars, dataVars, exportVars, storeVars, bound>>

(* The batch. Its first statement compares updated_at; the statements that *)
(* cancel runs and proposals do not look at its outcome (a chat run is not *)
(* among them), the one that inserts the purge job does. An active fence   *)
(* aborts the whole batch.                                                 *)
DeletionCommit ==
  /\ req.deletion.pc = "read"
  /\ IF Fenced
     THEN /\ req' = [req EXCEPT !.deletion.pc = "idle"]
          /\ UNCHANGED <<ws, job, due, busy>>
     ELSE /\ busy' \in {busy, FALSE}
          /\ IF ws.status = "active" /\ ws.v = req.deletion.v
             THEN /\ ws' = [status |-> "quarantined", v |-> ws.v + 1]
                  /\ due' = FALSE
                  /\ \E p \in {q \in Purges : job[q].status = "none"} :
                       job' = [job EXCEPT ![p] = [NoJobRow EXCEPT !.status = "queued"]]
                  /\ req' = [req EXCEPT !.deletion.pc = "revoke"]
             ELSE /\ req' = [req EXCEPT !.deletion.pc = "idle"]
                  /\ UNCHANGED <<ws, job, due>>
  /\ UNCHANGED <<alert, receipts, creds, workerVars, dataVars, exportVars, storeVars, bound>>

(* Connections and devices are revoked after the batch, in calls that can  *)
(* fail; the request answers either way, or its invocation vanishes.       *)
DeletionRevoke ==
  /\ req.deletion.pc = "revoke"
  /\ req' = [req EXCEPT !.deletion.pc = "idle"]
  /\ \/ creds' = FALSE /\ UNCHANGED bound
     \/ /\ bound.faults > 0
        /\ bound' = [bound EXCEPT !.faults = @ - 1]
        /\ UNCHANGED creds
  /\ UNCHANGED <<ws, due, alert, receipts, busy, job, workerVars, dataVars, exportVars, storeVars>>

(* retryQuarantinedCredentialRevocations, on every tick of the cron.       *)
RetryRevocation ==
  /\ ws.status = "quarantined" /\ creds
  /\ \/ creds' = FALSE /\ UNCHANGED bound
     \/ /\ bound.faults > 0
        /\ bound' = [bound EXCEPT !.faults = @ - 1]
        /\ UNCHANGED creds
  /\ UNCHANGED <<ws, due, alert, receipts, busy, job, workerVars, req, dataVars, exportVars, storeVars>>

-------------------------------------------------------------------------------
(* Recovery by the owner *)

(* The row is read and the connections are revoked once more before the    *)
(* batch; a revocation that fails refuses the recovery. Devices are not    *)
(* revoked here, and may be what is left.                                  *)
RecoveryRead ==
  /\ req.recovery.pc = "idle"
  /\ ws.status = "quarantined" /\ ~due
  /\ req' = [req EXCEPT !.recovery = [pc |-> "read", v |-> ws.v]]
  /\ creds' \in {creds, FALSE}
  /\ UNCHANGED <<ws, due, alert, receipts, busy, job, workerVars, dataVars, exportVars, storeVars, bound>>

\* A recovery that forgets to compare updated_at and takes a purge that has started.
RecoverableMutant == ws.status \in {"quarantined", "purging"}
Recoverable == ws.status = "quarantined" /\ ws.v = req.recovery.v

RecoveryCommit ==
  /\ req.recovery.pc = "read"
  /\ req' = [req EXCEPT !.recovery.pc = "idle"]
  /\ IF Recoverable /\ ~Fenced
     THEN /\ ws' = [status |-> "active", v |-> ws.v + 1]
          /\ due' = FALSE
          /\ job' = [j \in Jobs |->
                       IF j \in Purges /\ job[j].status \in {"queued", "running"}
                       THEN [job[j] EXCEPT !.status = "cancelled"] ELSE job[j]]
     ELSE UNCHANGED <<ws, due, job>>
  /\ UNCHANGED <<alert, receipts, creds, busy, workerVars, dataVars, exportVars, storeVars, bound>>

(* Thirty days pass. No request, upload or invocation is that slow, and    *)
(* an export that is left over was taken up again long before.             *)
RecoveryPeriodEnds ==
  /\ ws.status = "quarantined" /\ ~due
  /\ req.deletion.pc = "idle"
  /\ store.upload = "idle"
  /\ \A e \in Exports : job[e].status \notin {"queued", "running"}
  /\ \A j \in Jobs : ~Working(j)
  /\ due' = TRUE
  /\ UNCHANGED <<ws, alert, receipts, creds, busy, job, workerVars, req, dataVars, exportVars, storeVars, bound>>

-------------------------------------------------------------------------------
(* Manual retry of a failed purge: queueFailedWorkspacePurge *)

\* A retry that queues the job and forgets the workspace.
RetryPurgeMutant(p, byOperator) ==
  /\ bound.retries > 0
  /\ ws.status = "failed" /\ job[p].status = "failed" /\ ~Fenced
  /\ job' = [job EXCEPT ![p].status = "queued", ![p].leased = FALSE]
  /\ bound' = [bound EXCEPT !.retries = @ - 1]
  /\ UNCHANGED <<wsVars, workerVars, req, dataVars, exportVars, storeVars>>

(* The owner needs no alert, a platform operator an open one. The cursor   *)
(* and the attempts of the job stay, its alert is acknowledged.            *)
QueueFailedPurge(p, needsAlert) ==
  /\ ws.status = "failed" /\ job[p].status = "failed"
  /\ needsAlert => alert[p] = "open"
  /\ ~Fenced
  /\ ws' = [status |-> "purging", v |-> ws.v + 1]
  /\ job' = [job EXCEPT ![p].status = "queued", ![p].leased = FALSE]
  /\ alert' = [alert EXCEPT ![p] = IF @ = "open" THEN "acknowledged" ELSE @]

RetryPurge(p, byOperator) ==
  /\ bound.retries > 0
  /\ QueueFailedPurge(p, byOperator)
  /\ bound' = [bound EXCEPT !.retries = @ - 1]
  /\ UNCHANGED <<due, receipts, creds, busy, workerVars, req, dataVars, exportVars, storeVars>>

-------------------------------------------------------------------------------
(* The purge, in a worker: purgeWorkspace *)

Worker(w, p, at) == pc[w] = at /\ proc[w].job = p

PurgeDue == ws.status \in {"quarantined", "purging"} /\ due

PurgeCheck(w, p) ==
  /\ Worker(w, p, "check")
  /\ pc' = [pc EXCEPT ![w] = IF ~PurgeDue THEN "throw"
                            ELSE IF ws.status = "purging" THEN "act" ELSE "transition"]
  /\ proc' = [proc EXCEPT ![w].v = ws.v]
  /\ UNCHANGED back
  /\ UNCHANGED <<wsVars, job, req, dataVars, exportVars, storeVars, bound>>

MayStartPurge(w, p) == ws.status = "quarantined" /\ ws.v = proc[w].v /\ Running(p)

PurgeTransition(w, p) ==
  /\ Worker(w, p, "transition")
  /\ IF MayStartPurge(w, p) /\ ~Fenced
     THEN /\ ws' = [status |-> "purging", v |-> ws.v + 1]
          /\ Goto(w, "act")
     ELSE Goto(w, "throw") /\ UNCHANGED ws
  /\ UNCHANGED <<due, alert, receipts, creds, busy, job, req, dataVars, exportVars, storeVars, bound>>

\* Only the keys of artifacts.
StoredKeysMutant == IF art.status = "live" THEN {Artifact} ELSE {}

(* The keys the purge finds in R2: of live artifacts and of stored exports. *)
StoredKeys == (IF art.status = "live" THEN {Artifact} ELSE {})
              \cup {e \in Exports : job[e].stored}

(* The outside call of the phase the cursor has not reached yet.           *)
PurgeCredentials(w, p) ==
  /\ Worker(w, p, "act") /\ proc[w].phase = "started"
  /\ creds' = FALSE
  /\ Goto(w, "mark")
  /\ UNCHANGED <<ws, due, alert, receipts, busy, job, req, dataVars, exportVars, storeVars, bound>>

PurgeThread(w, p) ==
  /\ Worker(w, p, "act") /\ proc[w].phase = "credentials_revoked"
  /\ thread' = [thread EXCEPT !.purged = TRUE, !.frozen = None]
  /\ Goto(w, "mark")
  /\ UNCHANGED <<wsVars, job, req, dataVars, fence, staged, pins, storeVars, bound>>

PurgeObjects(w, p) ==
  /\ Worker(w, p, "act") /\ proc[w].phase = "durable_objects_purged"
  /\ obj' = obj \ StoredKeys
  /\ Goto(w, "mark")
  /\ UNCHANGED <<wsVars, job, req, dataVars, exportVars, art, store, bound>>

(* checkpoint: the cursor is written while the job is still running.       *)
PurgeCheckpoint(w, p) ==
  /\ Worker(w, p, "mark")
  /\ IF Running(p)
     THEN LET next == PurgePhases[PurgeIdx(proc[w].phase) + 1] IN
          /\ job' = [job EXCEPT ![p].phase = next]
          /\ pc' = [pc EXCEPT ![w] = "act"]
          /\ proc' = [proc EXCEPT ![w].phase = next]
          /\ UNCHANGED back
     ELSE Goto(w, "throw") /\ UNCHANGED job
  /\ UNCHANGED <<wsVars, req, dataVars, exportVars, storeVars, bound>>

(* The last batch. It deletes the tenant's rows and jobs whatever the      *)
(* workspace's status is; the receipt and the workspaces row depend on it. *)
PurgeRows(w, p) ==
  /\ Worker(w, p, "act") /\ proc[w].phase = "objects_deleted"
  /\ IF Fenced
     THEN /\ Goto(w, "throw")
          /\ UNCHANGED <<ws, due, rows, job, alert, receipts, creds, art, busy>>
     ELSE /\ rows' = "purged"
          /\ art' = [art EXCEPT !.status = IF @ = "none" THEN @ ELSE "purged"]
          /\ job' = [j \in Jobs |-> NoJobRow]
          /\ alert' = [j \in Jobs |-> "none"]
          /\ creds' = FALSE /\ busy' = FALSE /\ due' = due
          /\ receipts' = IF ws.status = "purging" THEN receipts + 1 ELSE receipts
          /\ ws' = IF ws.status = "purging" THEN [status |-> "gone", v |-> ws.v] ELSE ws
          /\ Return(w)
  /\ UNCHANGED <<req, d1, cuts, exportVars, obj, store, bound>>

\* A failure that is only recorded in the job.
PurgeExhaustedMutant(w, p) ==
  /\ Worker(w, p, "exhausted")
  /\ Return(w)
  /\ UNCHANGED <<wsVars, job, req, dataVars, exportVars, storeVars, bound>>

(* The second batch of a purge that exhausted its attempts: the workspace  *)
(* fails if it is purging, and an alert is raised unless the job has one   *)
(* already (INSERT OR IGNORE on the deduplication key). A fence aborts it, *)
(* and the exception ends the invocation.                                  *)
PurgeExhausted(w, p) ==
  /\ Worker(w, p, "exhausted")
  /\ IF Fenced
     THEN UNCHANGED <<ws, alert>>
     ELSE /\ ws' = IF ws.status = "purging" THEN [status |-> "failed", v |-> ws.v + 1] ELSE ws
          /\ alert' = [alert EXCEPT ![p] = IF @ = "none" /\ rows = "present" THEN "open" ELSE @]
  /\ Return(w)
  /\ UNCHANGED <<due, receipts, creds, busy, job, req, dataVars, exportVars, storeVars, bound>>

PurgeStep(w, p) ==
  \/ PurgeCheck(w, p) \/ PurgeTransition(w, p)
  \/ PurgeCredentials(w, p) \/ PurgeThread(w, p) \/ PurgeObjects(w, p)
  \/ PurgeCheckpoint(w, p) \/ PurgeRows(w, p) \/ PurgeExhausted(w, p)

DeletionStep ==
  \/ DeletionRead \/ DeletionCommit \/ DeletionRevoke \/ RetryRevocation
  \/ RecoveryRead \/ RecoveryCommit \/ RecoveryPeriodEnds
  \/ \E p \in Purges, byOperator \in BOOLEAN : RetryPurge(p, byOperator)
===============================================================================
