----------------------------- MODULE ArtifactStore -----------------------------
(***************************************************************************)
(* Artifacts and retention: an artifact's content is an object in R2, its  *)
(* row is in D1, and no transaction covers both. An upload writes the      *)
(* object first; the retention sweep deletes it first.                     *)
(***************************************************************************)
EXTENDS WorkspaceState

(* createArtifactBlob: the object is put before the row is inserted.       *)
UploadObject ==
  /\ store.upload = "idle" /\ art.status = "none" /\ ws.status = "active"
  /\ obj' = obj \cup {Artifact}
  /\ store' = [store EXCEPT !.upload = "put"]
  /\ UNCHANGED <<wsVars, job, workerVars, req, dataVars, exportVars, art, bound>>

(* The insert, unless the quota is exhausted or a fence aborts it.         *)
InsertArtifact ==
  /\ store.upload = "put"
  /\ \/ /\ ~Fenced
        /\ art' = [status |-> "live", expired |-> FALSE]
        /\ store' = [store EXCEPT !.upload = "idle"]
     \/ store' = [store EXCEPT !.upload = "refused"] /\ UNCHANGED art
  /\ UNCHANGED <<wsVars, job, workerVars, req, dataVars, exportVars, obj, bound>>

(* The object of a refused insert is deleted; if that fails, it stays.     *)
DeleteRefused ==
  /\ store.upload = "refused"
  /\ \/ obj' = obj \ {Artifact} /\ UNCHANGED bound
     \/ bound.faults > 0 /\ bound' = [bound EXCEPT !.faults = @ - 1] /\ UNCHANGED obj
  /\ store' = [store EXCEPT !.upload = "idle"]
  /\ UNCHANGED <<wsVars, job, workerVars, req, dataVars, exportVars, art>>

(* The invocation of an upload vanishes with its object put.               *)
UploadCrash ==
  /\ store.upload # "idle" /\ bound.crashes > 0
  /\ store' = [store EXCEPT !.upload = "idle"]
  /\ bound' = [bound EXCEPT !.crashes = @ - 1]
  /\ UNCHANGED <<wsVars, job, workerVars, req, dataVars, exportVars, art, obj>>

-------------------------------------------------------------------------------
(* Retention *)

ArtifactExpires ==
  /\ art.status = "live" /\ ~art.expired
  /\ art' = [art EXCEPT !.expired = TRUE]
  /\ UNCHANGED <<wsVars, job, workerVars, req, dataVars, exportVars, obj, store, bound>>

(* handleUpdateRetentionPolicy: a longer period gives an expired artifact  *)
(* a new expiry, a shorter one expires it.                                 *)
UpdateRetentionPolicy ==
  /\ ws.status = "active" /\ ~Fenced /\ bound.writes > 0
  /\ art.status = "live"
  /\ art' = [art EXCEPT !.expired = ~@]
  /\ bound' = [bound EXCEPT !.writes = @ - 1]
  /\ UNCHANGED <<wsVars, job, workerVars, req, dataVars, exportVars, obj, store>>

Sweepable == art.status = "live" /\ art.expired /\ pins = {}

(* sweepExpiredArtifacts: the rows are selected, then for each the object  *)
(* is deleted and the row is turned into a tombstone.                      *)
SweepSelect ==
  /\ store.sweep = "idle" /\ Sweepable /\ bound.sweeps > 0
  /\ store' = [store EXCEPT !.sweep = "selected"]
  /\ bound' = [bound EXCEPT !.sweeps = @ - 1]
  /\ UNCHANGED <<wsVars, job, workerVars, req, dataVars, exportVars, art, obj>>

SweepObject ==
  /\ store.sweep = "selected"
  /\ \/ /\ obj' = obj \ {Artifact}
        /\ store' = [store EXCEPT !.sweep = "deleted"]
        /\ UNCHANGED bound
     \/ /\ bound.faults > 0
        /\ bound' = [bound EXCEPT !.faults = @ - 1]
        /\ store' = [store EXCEPT !.sweep = "idle"]
        /\ UNCHANGED obj
  /\ UNCHANGED <<wsVars, job, workerVars, req, dataVars, exportVars, art>>

SweepRow ==
  /\ store.sweep = "deleted"
  /\ store' = [store EXCEPT !.sweep = "idle"]
  /\ art' = IF art.status = "live" /\ art.expired /\ ~Fenced THEN [art EXCEPT !.status = "deleted"] ELSE art
  /\ UNCHANGED <<wsVars, job, workerVars, req, dataVars, exportVars, obj, bound>>

(* sweepExpiredOperationalData: one batch, which a fence aborts.           *)
SweepOperationalData ==
  /\ rows = "present" /\ ~Fenced /\ bound.sweeps > 0
  /\ d1' = d1 + 1
  /\ cuts' = cuts \cup {<<d1', thread.messages>>}
  /\ bound' = [bound EXCEPT !.sweeps = @ - 1]
  /\ UNCHANGED <<wsVars, job, workerVars, req, rows, exportVars, storeVars>>

ThreadGoesStale ==
  /\ ~thread.stale /\ ~thread.purged /\ thread.messages > 0 /\ bound.sweeps > 0
  /\ thread' = [thread EXCEPT !.stale = TRUE]
  /\ UNCHANGED <<wsVars, job, workerVars, req, dataVars, fence, staged, pins, storeVars, bound>>

(* sweepExpiredChatMessages: the thread is selected by its last_seen_at;   *)
(* its object is told to purge, whatever it holds by then, and forgets an  *)
(* export's freeze; the row is marked if last_seen_at has not changed.     *)
ChatSweepSelect ==
  /\ store.chatSweep = "idle" /\ thread.stale /\ rows = "present" /\ bound.sweeps > 0
  /\ store' = [store EXCEPT !.chatSweep = "selected"]
  /\ bound' = [bound EXCEPT !.sweeps = @ - 1]
  /\ UNCHANGED <<wsVars, job, workerVars, req, dataVars, exportVars, art, obj>>

ChatSweepPurge ==
  /\ store.chatSweep = "selected"
  /\ thread' = [thread EXCEPT !.messages = @ + 1, !.frozen = None]
  /\ cuts' = cuts \cup {<<d1, thread'.messages>>}
  /\ store' = [store EXCEPT !.chatSweep = "purged"]
  /\ UNCHANGED <<wsVars, job, workerVars, req, rows, d1, fence, staged, pins, art, obj, bound>>

ChatSweepMark ==
  /\ store.chatSweep = "purged"
  /\ store' = [store EXCEPT !.chatSweep = "idle"]
  /\ thread' = IF Fenced THEN thread ELSE [thread EXCEPT !.stale = FALSE]
  /\ UNCHANGED <<wsVars, job, workerVars, req, dataVars, fence, staged, pins, art, obj, bound>>

StoreStep ==
  \/ UploadObject \/ InsertArtifact \/ DeleteRefused \/ UploadCrash
  \/ ArtifactExpires \/ UpdateRetentionPolicy
  \/ SweepSelect \/ SweepObject \/ SweepRow \/ SweepOperationalData
  \/ ThreadGoesStale \/ ChatSweepSelect \/ ChatSweepPurge \/ ChatSweepMark
===============================================================================
