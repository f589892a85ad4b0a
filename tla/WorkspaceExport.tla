---------------------------- MODULE WorkspaceExport ----------------------------
(***************************************************************************)
(* The export of a workspace: a fence stops writes to its rows, its thread *)
(* is frozen, the rows are copied into a staging table, the objects they   *)
(* name are pinned, the fence is released, and an archive is assembled     *)
(* from what was staged. The cursor in the job's row says how far the      *)
(* capture came, so that a later invocation resumes there.                 *)
(***************************************************************************)
EXTENDS WorkspaceState

Exporter(w, e, at) == pc[w] = at /\ proc[w].job = e

(* Where captureExportSnapshot and runExportJob resume, by phase.          *)
Resume == [awaiting_quiescence |-> "begin", fenced |-> "freeze", do_frozen |-> "copy",
           d1_materialized |-> "pin", r2_pinned |-> "releasing", released |-> "assemble",
           assembling |-> "gather"]

ResumeAt(phase) == IF phase \in ExportPhases THEN Resume[phase] ELSE "gather"

(* handleCreateWorkspaceExport: an administrator's membership is all it    *)
(* asks for.                                                               *)
CreateExport(e) ==
  /\ ws.status = "active" /\ job[e].status = "none"
  /\ job' = [job EXCEPT ![e] = [NoJobRow EXCEPT !.status = "queued", !.phase = "awaiting_quiescence"]]
  /\ UNCHANGED <<wsVars, workerVars, req, dataVars, exportVars, storeVars, bound>>

MayAcquire(e) == fence.job \in {None, e} \/ ~fence.live

(* acquireExportFence: the upsert, and the query that it won.              *)
AcquireFence(w, e) ==
  /\ Exporter(w, e, "acquire")
  /\ IF MayAcquire(e)
     THEN fence' = [job |-> e, status |-> "active", live |-> TRUE] /\ Goto(w, ResumeAt(proc[w].phase))
     ELSE Goto(w, "throw") /\ UNCHANGED fence
  /\ UNCHANGED <<wsVars, job, req, dataVars, thread, staged, pins, storeVars, bound>>

(* updateExportSnapshotCursor: it asks only that the job is running. If it *)
(* is not, captureExportSnapshot releases the fence and throws.            *)
Cursor(w, e, phase, at) ==
  IF Running(e)
  THEN job' = [job EXCEPT ![e].phase = phase] /\ Goto(w, at)
  ELSE ReleaseAnd(w, "throw") /\ UNCHANGED job

(* clearExportSnapshot and the first cursor.                               *)
BeginCapture(w, e) ==
  /\ Exporter(w, e, "begin")
  /\ staged' = [staged EXCEPT ![e] = NotStaged]
  /\ pins' = pins \ {e}
  /\ Cursor(w, e, "fenced", "freeze")
  /\ UNCHANGED <<wsVars, req, dataVars, fence, thread, storeVars, bound>>

\* A capture that reads the messages and does not freeze the thread.
FreezeThreadMutant(w, e) ==
  /\ Exporter(w, e, "freeze")
  /\ pc' = [pc EXCEPT ![w] = "frozen"]
  /\ proc' = [proc EXCEPT ![w].v = thread.messages]
  /\ UNCHANGED <<back, wsVars, job, req, dataVars, exportVars, storeVars, bound>>

(* lifecycle-freeze in the thread's object, which answers its messages.    *)
FreezeThread(w, e) ==
  /\ Exporter(w, e, "freeze")
  /\ IF thread.frozen \in {None, e}
     THEN /\ thread' = [thread EXCEPT !.frozen = e]
          /\ pc' = [pc EXCEPT ![w] = "frozen"]
          /\ proc' = [proc EXCEPT ![w].v = thread.messages]
          /\ UNCHANGED back
     ELSE Goto(w, "throw") /\ UNCHANGED thread
  /\ UNCHANGED <<wsVars, job, req, dataVars, fence, staged, pins, storeVars, bound>>

StageMessages(w, e) ==
  /\ Exporter(w, e, "frozen")
  /\ staged' = [staged EXCEPT ![e].messages = proc[w].v]
  /\ Cursor(w, e, "do_frozen", "copy")
  /\ UNCHANGED <<wsVars, req, dataVars, fence, thread, pins, storeVars, bound>>

(* The first page of rows, and renewExportFence: the lease is extended if  *)
(* the fence is still this job's, also when it had run out.                *)
CopyRows(w, e) ==
  /\ Exporter(w, e, "copy")
  /\ staged' = [staged EXCEPT ![e].page1 = d1, ![e].page2 = None]
  /\ IF fence.job = e /\ fence.status = "active"
     THEN fence' = [fence EXCEPT !.live = TRUE] /\ Goto(w, "copied")
     ELSE Goto(w, "throw") /\ UNCHANGED fence
  /\ UNCHANGED <<wsVars, job, req, dataVars, thread, pins, storeVars, bound>>

(* The other pages, among them the artifact's row, and the cursor.         *)
CopyOtherRows(w, e) ==
  /\ Exporter(w, e, "copied")
  /\ staged' = [staged EXCEPT ![e].page2 = d1, ![e].art = (art.status = "live")]
  /\ IF fence.job = e /\ fence.status = "active"
     THEN fence' = [fence EXCEPT !.live = TRUE] /\ Cursor(w, e, "d1_materialized", "pin")
     ELSE Goto(w, "throw") /\ UNCHANGED <<fence, job>>
  /\ UNCHANGED <<wsVars, req, dataVars, thread, pins, storeVars, bound>>

(* The objects that the staged artifact rows name are pinned.              *)
PinObjects(w, e) ==
  /\ Exporter(w, e, "pin")
  /\ pins' = IF staged[e].art THEN pins \cup {e} ELSE pins \ {e}
  /\ IF Running(e)
     THEN /\ job' = [job EXCEPT ![e].phase = "r2_pinned"]
          /\ ReleaseAnd(w, "record")
     ELSE ReleaseAnd(w, "throw") /\ UNCHANGED job
  /\ UNCHANGED <<wsVars, req, dataVars, fence, thread, staged, storeVars, bound>>

-------------------------------------------------------------------------------
(* releaseExportFence: marked as releasing, the thread unfrozen, deleted.  *)
(* It does nothing if the fence is another job's.                          *)

ReleaseFence(w, e) ==
  /\ Exporter(w, e, "releasing")
  /\ IF fence.job = e
     THEN fence' = [fence EXCEPT !.status = "releasing"] /\ Goto(w, "unfreeze")
     ELSE Goto(w, back[w]) /\ UNCHANGED fence
  /\ UNCHANGED <<wsVars, job, req, dataVars, thread, staged, pins, storeVars, bound>>

(* An object that does not answer ends the release: an export throws, the  *)
(* recovery of the fence raises an alert and goes on, and a terminal       *)
(* failure or a revoked publication ignores it.                            *)
UnfreezeThread(w, e) ==
  /\ Exporter(w, e, "unfreeze")
  /\ \/ /\ thread' = [thread EXCEPT !.frozen = IF @ = e THEN None ELSE @]
        /\ Goto(w, "unfence") /\ UNCHANGED bound
     \/ /\ bound.faults > 0
        /\ bound' = [bound EXCEPT !.faults = @ - 1]
        /\ IF Recovering(w) THEN Return(w)
           ELSE Goto(w, IF back[w] = "record" THEN "throw" ELSE back[w])
        /\ UNCHANGED thread
  /\ UNCHANGED <<wsVars, job, req, dataVars, fence, staged, pins, storeVars>>

DeleteFence(w, e) ==
  /\ Exporter(w, e, "unfence")
  /\ fence' = IF fence.job = e THEN NoFence ELSE fence
  /\ Goto(w, back[w])
  /\ UNCHANGED <<wsVars, job, req, dataVars, thread, staged, pins, storeVars, bound>>

-------------------------------------------------------------------------------
(* Assembly and publication: runExportJob after the capture *)

(* recordExportFenceReleased.                                              *)
RecordReleased(w, e) ==
  /\ Exporter(w, e, "record")
  /\ Cursor(w, e, "released", "assemble")
  /\ UNCHANGED <<wsVars, req, dataVars, exportVars, storeVars, bound>>

(* The row is read again: the capture must be over, by whoever ended it.   *)
BeginAssembly(w, e) ==
  /\ Exporter(w, e, "assemble")
  /\ IF job[e].phase = "released" /\ Running(e)
     THEN job' = [job EXCEPT ![e].phase = "assembling"] /\ Goto(w, "gather")
     ELSE Goto(w, IF job[e].phase = "assembling" THEN "gather" ELSE "throw") /\ UNCHANGED job
  /\ UNCHANGED <<wsVars, req, dataVars, exportVars, storeVars, bound>>

(* The staged rows and the pinned objects; a missing object throws.        *)
GatherEntries(w, e) ==
  /\ Exporter(w, e, "gather")
  /\ pc' = [pc EXCEPT ![w] =
       IF job[e].phase = "assembling" /\ (e \in pins => Artifact \in obj) THEN "put" ELSE "throw"]
  /\ proc' = [proc EXCEPT ![w].got = staged[e]]
  /\ UNCHANGED <<back, wsVars, job, req, dataVars, exportVars, storeVars, bound>>

PutArchive(w, e) ==
  /\ Exporter(w, e, "put")
  /\ obj' = obj \cup {e}
  /\ Goto(w, "publish")
  /\ UNCHANGED <<wsVars, job, req, dataVars, exportVars, art, store, bound>>

(* The batch that completes the job if it is still running.                *)
PublishArchive(w, e) ==
  /\ Exporter(w, e, "publish")
  /\ IF Running(e)
     THEN /\ job' = [job EXCEPT ![e].status = "completed", ![e].leased = FALSE, ![e].stored = TRUE,
                                ![e].archive = proc[w].got]
          /\ Goto(w, "clear")
     ELSE Goto(w, "unput") /\ UNCHANGED job
  /\ UNCHANGED <<wsVars, req, dataVars, exportVars, storeVars, bound>>

(* A revoked publication deletes its object; a deletion that fails is      *)
(* ignored.                                                                *)
DeleteArchive(w, e) ==
  /\ Exporter(w, e, "unput")
  /\ \/ obj' = obj \ {e} /\ UNCHANGED bound
     \/ bound.faults > 0 /\ bound' = [bound EXCEPT !.faults = @ - 1] /\ UNCHANGED obj
  /\ Goto(w, "throw")
  /\ UNCHANGED <<wsVars, job, req, dataVars, exportVars, art, store>>

ClearSnapshot(w, e) ==
  /\ Exporter(w, e, "clear")
  /\ staged' = [staged EXCEPT ![e] = NotStaged]
  /\ pins' = pins \ {e}
  /\ Return(w)
  /\ UNCHANGED <<wsVars, job, req, dataVars, fence, thread, storeVars, bound>>

-------------------------------------------------------------------------------
(* recoverExpiredExportFences, at the start of every tick *)

\* Only fences whose lease ran out.
MayRecoverMutant == fence.status = "active" /\ ~fence.live
\* A fence in the middle of its release counts as expired.
MayRecover == (fence.status = "active" /\ ~fence.live) \/ fence.status = "releasing"

\* The query joins the fence with its job's row.
RecoverFence(w, e) ==
  /\ StartTick(w) /\ fence.job = e /\ MayRecover /\ job[e].status # "none"
  /\ pc' = [pc EXCEPT ![w] = "releasing"]
  /\ back' = [back EXCEPT ![w] = "requeue"]
  /\ proc' = [proc EXCEPT ![w].job = e]
  /\ UNCHANGED <<wsVars, job, req, dataVars, exportVars, storeVars>>

(* The snapshot is cleared and the job starts again from the beginning.    *)
RequeueExport(w, e) ==
  /\ Exporter(w, e, "requeue")
  /\ staged' = [staged EXCEPT ![e] = NotStaged]
  /\ pins' = pins \ {e}
  /\ job' = [job EXCEPT ![e] =
       IF @.status \in {"queued", "running"}
       THEN [@ EXCEPT !.status = "queued", !.phase = "awaiting_quiescence", !.leased = FALSE] ELSE @]
  /\ Return(w)
  /\ UNCHANGED <<wsVars, req, dataVars, fence, thread, storeVars, bound>>

(* The second half of a terminal failure: clearExportSnapshot, and the     *)
(* batch with the alert, which an active fence would abort.                *)
ExportExhausted(w, e) ==
  /\ Exporter(w, e, "exhausted")
  /\ staged' = [staged EXCEPT ![e] = NotStaged]
  /\ pins' = pins \ {e}
  /\ alert' = [alert EXCEPT ![e] = IF @ = "none" /\ ~Fenced THEN "open" ELSE @]
  /\ Return(w)
  /\ UNCHANGED <<ws, due, receipts, creds, busy, job, req, dataVars, fence, thread, storeVars, bound>>

(* expireDataExports: the object first, then the row.                      *)
ExpireObject(e) ==
  /\ store.expiring = None
  /\ job[e].status = "completed"
  /\ obj' = obj \ {e}
  /\ store' = [store EXCEPT !.expiring = e]
  /\ UNCHANGED <<wsVars, job, workerVars, req, dataVars, exportVars, art, bound>>

ExpireRow(e) ==
  /\ store.expiring = e
  /\ store' = [store EXCEPT !.expiring = None]
  /\ job' = [job EXCEPT ![e] = IF @.status = "completed"
                               THEN [@ EXCEPT !.status = "expired", !.stored = FALSE] ELSE @]
  /\ UNCHANGED <<wsVars, workerVars, req, dataVars, exportVars, art, obj, bound>>

ExportStep(w, e) ==
  \/ AcquireFence(w, e) \/ BeginCapture(w, e) \/ FreezeThread(w, e) \/ StageMessages(w, e)
  \/ CopyRows(w, e) \/ CopyOtherRows(w, e) \/ PinObjects(w, e)
  \/ ReleaseFence(w, e) \/ UnfreezeThread(w, e) \/ DeleteFence(w, e)
  \/ RecordReleased(w, e) \/ BeginAssembly(w, e) \/ GatherEntries(w, e)
  \/ PutArchive(w, e) \/ PublishArchive(w, e) \/ DeleteArchive(w, e) \/ ClearSnapshot(w, e)
  \/ RecoverFence(w, e) \/ RequeueExport(w, e) \/ ExportExhausted(w, e)

ExpiryStep == \E e \in Exports : CreateExport(e) \/ ExpireObject(e) \/ ExpireRow(e)
===============================================================================
