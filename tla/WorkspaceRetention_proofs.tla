----------------------- MODULE WorkspaceRetention_proofs -----------------------
(***************************************************************************)
(* For every number of jobs, workers and incidents, and whatever leases    *)
(* run out under their workers: a workspace that is in use, or that can    *)
(* still be recovered, has lost nothing to a purge, and a receipt means    *)
(* that the rows, the thread, the credentials and, if nothing failed on    *)
(* the way, every object are gone. Where no lease runs out under a worker, *)
(* a workspace that is marked as failed can be retried, and an archive     *)
(* that was published holds what the workspace held at one moment.         *)
(***************************************************************************)
EXTENDS WorkspaceRetention, TLAPS

(* TypeOK, one part for each variable or two.                              *)
Backs == {"record", "throw", "requeue", "exhausted"}
TPc == pc \in [Workers -> WorkerPcs] /\ back \in [Workers -> Backs]
TThread ==
  thread \in [messages : Nat, frozen : Exports \cup {None}, purged : BOOLEAN, stale : BOOLEAN]
JobRows == [status : JobStatuses, phase : Phases, attempts : 0..3, leased : BOOLEAN,
            stored : BOOLEAN, archive : Stages]
ProcRows == [job : Jobs \cup {None}, attempts : 0..3, phase : Phases, v : Nat, got : Stages]

TWs == ws \in [status : {"active", "quarantined", "purging", "failed", "gone"}, v : Nat]
TFlags == /\ due \in BOOLEAN /\ creds \in BOOLEAN /\ busy \in BOOLEAN /\ receipts \in Nat
          /\ alert \in [Jobs -> {"none", "open", "acknowledged"}]
TJob == job \in [Jobs -> JobRows]
TFence == /\ fence \in [job : Exports \cup {None}, status : {"none", "active", "releasing"}, live : BOOLEAN]
          /\ fence.job = None <=> fence.status = "none"
TData == rows \in {"present", "purged"} /\ d1 \in Nat /\ cuts \subseteq Nat \X Nat
TStaged == staged \in [Exports -> Stages] /\ pins \subseteq Exports
TArt == /\ art \in [status : {"none", "live", "deleted", "purged"}, expired : BOOLEAN]
        /\ obj \subseteq Exports \cup {Artifact}
TProc == proc \in [Workers -> ProcRows]
TReq == req \in [deletion : [pc : {"idle", "read", "revoke"}, v : Nat],
                 recovery : [pc : {"idle", "read"}, v : Nat]]
TStore == store \in [upload : {"idle", "put", "refused"}, sweep : {"idle", "selected", "deleted"},
                     chatSweep : {"idle", "selected", "purged"}, expiring : Exports \cup {None}]
TBound == bound \in [faults : Nat, crashes : Nat, retries : Nat, writes : Nat, sweeps : Nat, overlaps : Nat]

Types == /\ TWs /\ TFlags /\ TJob /\ TFence /\ TData /\ TThread
         /\ TStaged /\ TArt /\ TPc /\ TProc /\ TReq /\ TStore /\ TBound

(* A worker deletes or checkpoints only where the workspace has left the   *)
(* states from which it could be recovered; none of the later states leads *)
(* back to them. This is what makes RecoveredIntact inductive.             *)
PastRecovery ==
  \A w \in Workers : pc[w] \in {"act", "mark"} => ws.status \in {"purging", "failed", "gone"}

Inv == RecoveredIntact /\ PastRecovery

(* A checkpoint follows the outside call of one of the first three phases. *)
MarksInOrder ==
  \A w \in Workers :
    pc[w] = "mark" => proc[w].phase \in {"started", "credentials_revoked", "durable_objects_purged"}

(* The purge has begun, and no recovery can follow.                        *)
Late == ws.status \in {"purging", "failed", "gone"}

(* An export between putting its archive and recording or revoking it.     *)
Putting(e) == \E w \in Workers : pc[w] \in {"publish", "unput"} /\ proc[w].job = e

(* Once the recovery period is over, no upload and no export is under way. *)
QuietWhenDue ==
  (Late \/ (ws.status = "quarantined" /\ due)) =>
    /\ store.upload = "idle"
    /\ \A e \in Exports : job[e].status \notin {"queued", "running"} /\ ~Working(e)

(* A worker about to start the purge read a version that was due, or one   *)
(* that is no longer the row's.                                            *)
ReadBefore ==
  \A w \in Workers : pc[w] = "transition" =>
    (proc[w].v <= ws.v /\ (proc[w].v = ws.v => (due \/ ws.status # "quarantined")))

RecoversOnly ==
  \A w \in Workers : Recovering(w) => pc[w] \in {"releasing", "unfreeze", "unfence", "requeue"}

BoundLe == bound.faults <= MaxFaults /\ bound.crashes <= MaxCrashes

(* No call has failed and no invocation has vanished.                      *)
Calm == bound.faults = MaxFaults /\ bound.crashes = MaxCrashes

(* The thread has been purged, or the objects deleted: a cursor says so,   *)
(* in the job's row or as a worker read it, or a worker is about to say it.*)
ThreadPhases == {"durable_objects_purged", "objects_deleted"}

ThreadDone ==
  \/ \E p \in Purges : job[p].phase \in ThreadPhases
  \/ \E w \in Workers : proc[w].job \in Purges /\ proc[w].phase \in ThreadPhases
  \/ \E w \in Workers : pc[w] = "mark" /\ proc[w].phase = "credentials_revoked"

ObjectsDone ==
  \/ \E p \in Purges : job[p].phase = "objects_deleted"
  \/ \E w \in Workers : proc[w].job \in Purges /\ proc[w].phase = "objects_deleted"
  \/ \E w \in Workers : pc[w] = "mark" /\ proc[w].phase = "durable_objects_purged"
  \/ rows = "purged"

ReceiptInv ==
  /\ receipts = IF ws.status = "gone" THEN 1 ELSE 0
  /\ ws.status = "gone" => (rows = "purged" /\ thread.purged /\ ~creds)

(* What is recorded as done was done, and nothing brings it back.          *)
ThreadInv == ThreadDone => thread.purged
DoneLate == ObjectsDone => Late
EmptyStore == (Calm /\ ObjectsDone) => obj = {}

(* While nothing failed, every object has a row, an upload or a worker     *)
(* that accounts for it: the purge finds them all.                         *)
UploadInv ==
  /\ store.upload # "idle" => art.status = "none"
  /\ store.sweep # "idle" => art.status # "none"
  /\ store.sweep = "deleted" => Artifact \notin obj

ExpiringInv ==
  \A e \in Exports : store.expiring = e => (job[e].status \in {"completed", "expired"} \/ rows = "purged")

StoredInv == \A e \in Exports : job[e].stored => job[e].status = "completed"

KnownArtifact == (Calm /\ Artifact \in obj) => (art.status = "live" \/ store.upload # "idle")
KnownArchives ==
  \A e \in Exports : (Calm /\ e \in obj) => ((job[e].stored /\ store.expiring # e) \/ Putting(e))

ErasureInv ==
  /\ MarksInOrder /\ BoundLe /\ QuietWhenDue /\ ReadBefore /\ RecoversOnly /\ ReceiptInv /\ ThreadInv
  /\ UploadInv /\ ExpiringInv /\ StoredInv /\ DoneLate /\ KnownArtifact /\ KnownArchives /\ EmptyStore

IInv == Types /\ Inv /\ ErasureInv

-------------------------------------------------------------------------------
(* Every step keeps the types *)

LEMMA ResumePcs == \A p : ResumeAt(p) \in WorkerPcs \ {"act", "mark"}
  BY DEF ExportPhases, ResumeAt, Resume, WorkerPcs

LEMMA PhasesAre ==
  Phases = {"started", "credentials_revoked", "durable_objects_purged", "objects_deleted"} \cup ExportPhases
  <1>1. {PurgePhases[i] : i \in 1..4} = {"started", "credentials_revoked", "durable_objects_purged", "objects_deleted"}
    BY DEF PurgePhases
  <1>2. QED
    BY <1>1 DEF Phases

LEMMA NextPhase ==
  /\ PurgePhases[PurgeIdx("started") + 1] = "credentials_revoked"
  /\ PurgePhases[PurgeIdx("credentials_revoked") + 1] = "durable_objects_purged"
  /\ PurgePhases[PurgeIdx("durable_objects_purged") + 1] = "objects_deleted"
  <1>1. PurgeIdx("started") = 1
    BY DEF PurgeIdx, PurgePhases
  <1>2. PurgeIdx("credentials_revoked") = 2
    BY DEF PurgeIdx, PurgePhases
  <1>3. PurgeIdx("durable_objects_purged") = 3
    BY DEF PurgeIdx, PurgePhases
  <1>4. QED
    BY <1>1, <1>2, <1>3 DEF PurgePhases

LEMMA PhaseFacts ==
  /\ "started" \in Phases /\ "credentials_revoked" \in Phases /\ "durable_objects_purged" \in Phases
  /\ "objects_deleted" \in Phases /\ "awaiting_quiescence" \in Phases /\ "fenced" \in Phases
  /\ "do_frozen" \in Phases /\ "d1_materialized" \in Phases /\ "r2_pinned" \in Phases
  /\ "released" \in Phases /\ "assembling" \in Phases
  BY PhasesAre DEF ExportPhases

LEMMA StatusFacts ==
  /\ "none" \in JobStatuses /\ "queued" \in JobStatuses /\ "running" \in JobStatuses
  /\ "completed" \in JobStatuses /\ "failed" \in JobStatuses /\ "cancelled" \in JobStatuses
  /\ "expired" \in JobStatuses
  BY DEF JobStatuses

LEMMA PcFacts ==
  /\ "idle" \in WorkerPcs /\ "polled" \in WorkerPcs /\ "claim" \in WorkerPcs /\ "check" \in WorkerPcs
  /\ "transition" \in WorkerPcs /\ "act" \in WorkerPcs /\ "mark" \in WorkerPcs /\ "acquire" \in WorkerPcs
  /\ "begin" \in WorkerPcs /\ "freeze" \in WorkerPcs /\ "frozen" \in WorkerPcs /\ "copy" \in WorkerPcs
  /\ "copied" \in WorkerPcs /\ "pin" \in WorkerPcs /\ "releasing" \in WorkerPcs /\ "unfreeze" \in WorkerPcs
  /\ "unfence" \in WorkerPcs /\ "record" \in WorkerPcs /\ "assemble" \in WorkerPcs /\ "gather" \in WorkerPcs
  /\ "put" \in WorkerPcs /\ "publish" \in WorkerPcs /\ "unput" \in WorkerPcs /\ "clear" \in WorkerPcs
  /\ "requeue" \in WorkerPcs /\ "throw" \in WorkerPcs /\ "exhausted" \in WorkerPcs
  BY DEF WorkerPcs

LEMMA RowFacts ==
  /\ NotStaged \in Stages
  /\ NoJobRow \in JobRows
  /\ Unread \in ProcRows
  /\ Purges \subseteq Jobs /\ Exports \subseteq Jobs
  BY PhaseFacts, StatusFacts DEF NotStaged, Stages, NoJobRow, Unread, JobRows, ProcRows, Jobs

LEMMA DeletionReadTypes ==
  ASSUME Types, MarksInOrder, DeletionRead
  PROVE  Types'
<1>1. TReq'
  BY DEF Types, TReq, TWs, DeletionRead, wsVars, dataVars, exportVars, storeVars, workerVars
<1>2. QED
  BY <1>1 DEF Types, TWs, TFlags, TJob, TFence, TData, TThread, TStaged, TArt, TPc, TProc, TStore, TBound, DeletionRead, wsVars, dataVars, exportVars, storeVars, workerVars

LEMMA DeletionCommitTypes ==
  ASSUME Types, MarksInOrder, DeletionCommit
  PROVE  Types'
<1>1. TWs'
  <2>1. ws.v + 1 \in Nat
    BY DEF Types, TWs
  <2>2. CASE UNCHANGED ws
    BY <2>2 DEF Types, TWs
  <2>3. CASE ws' = [status |-> "quarantined", v |-> ws.v + 1]
    BY <2>1, <2>3 DEF TWs
  <2>4. QED
    BY <2>2, <2>3 DEF DeletionCommit
<1>2. TFlags'
  <2>1. busy' \in BOOLEAN /\ due' \in BOOLEAN
    BY DEF Types, TFlags, DeletionCommit
  <2>2. UNCHANGED <<creds, receipts, alert>>
    BY DEF DeletionCommit
  <2>3. QED
    BY <2>1, <2>2 DEF Types, TFlags
<1>3. TJob'
  <2>1. [NoJobRow EXCEPT !.status = "queued"] \in JobRows
    BY RowFacts, StatusFacts DEF JobRows
  <2>2. CASE UNCHANGED job
    BY <2>2 DEF Types, TJob
  <2>3. CASE ~Fenced /\ ws.status = "active" /\ ws.v = req.deletion.v
    <3>1. PICK p \in {q \in Purges : job[q].status = "none"} : job' = [job EXCEPT ![p] = [NoJobRow EXCEPT !.status = "queued"]]
      BY <2>3 DEF DeletionCommit
    <3>2. PICK r \in JobRows : r = [NoJobRow EXCEPT !.status = "queued"]
      BY <2>1
    <3>3. job' = [job EXCEPT ![p] = r]
      BY <3>1, <3>2
    <3>4. QED
      BY <3>3 DEF Types, TJob
  <2>4. CASE Fenced \/ ws.status # "active" \/ ws.v # req.deletion.v
    <3>1. job' = job
      BY <2>4 DEF DeletionCommit
    <3>2. QED
      BY <3>1, <2>2
  <2>5. QED
    BY <2>3, <2>4
<1>4. TReq'
  <2>1. CASE req' = [req EXCEPT !.deletion.pc = "idle"]
    BY <2>1 DEF Types, TReq
  <2>2. CASE req' = [req EXCEPT !.deletion.pc = "revoke"]
    BY <2>2 DEF Types, TReq
  <2>3. QED
    BY <2>1, <2>2 DEF DeletionCommit
<1>5. QED
  BY <1>1, <1>2, <1>3, <1>4 DEF Types, TFence, TData, TThread, TStaged, TArt, TPc, TProc, TStore, TBound, DeletionCommit, dataVars, exportVars, storeVars, workerVars

LEMMA DeletionRevokeTypes ==
  ASSUME Types, MarksInOrder, DeletionRevoke
  PROVE  Types'
<1>1. TFlags'
  BY RowFacts DEF Types, TFlags, DeletionRevoke, dataVars, exportVars, storeVars, workerVars
<1>2. TReq'
  BY DEF Types, TReq, TWs, DeletionRevoke, dataVars, exportVars, storeVars, workerVars
<1>3. TBound'
  BY DEF Types, TBound, DeletionRevoke, dataVars, exportVars, storeVars, workerVars
<1>4. QED
  BY <1>1, <1>2, <1>3 DEF Types, TWs, TJob, TFence, TData, TThread, TStaged, TArt, TPc, TProc, TStore, DeletionRevoke, dataVars, exportVars, storeVars, workerVars

LEMMA RetryRevocationTypes ==
  ASSUME Types, MarksInOrder, RetryRevocation
  PROVE  Types'
<1>1. TFlags'
  BY RowFacts DEF Types, TFlags, RetryRevocation, dataVars, exportVars, storeVars, workerVars
<1>2. TBound'
  <2>1. CASE UNCHANGED bound
    BY <2>1 DEF Types, TBound
  <2>2. CASE bound.faults > 0 /\ bound' = [bound EXCEPT !.faults = @ - 1]
    BY <2>2 DEF Types, TBound
  <2>3. QED
    BY <2>1, <2>2 DEF RetryRevocation
<1>3. QED
  BY <1>1, <1>2 DEF Types, TWs, TJob, TFence, TData, TThread, TStaged, TArt, TPc, TProc, TReq, TStore, RetryRevocation, dataVars, exportVars, storeVars, workerVars

LEMMA RecoveryReadTypes ==
  ASSUME Types, MarksInOrder, RecoveryRead
  PROVE  Types'
<1>1. TFlags'
  BY RowFacts DEF Types, TFlags, RecoveryRead, dataVars, exportVars, storeVars, workerVars
<1>2. TReq'
  BY DEF Types, TReq, TWs, RecoveryRead, dataVars, exportVars, storeVars, workerVars
<1>3. QED
  BY <1>1, <1>2 DEF Types, TWs, TJob, TFence, TData, TThread, TStaged, TArt, TPc, TProc, TStore, TBound, RecoveryRead, dataVars, exportVars, storeVars, workerVars

LEMMA RecoveryCommitTypes ==
  ASSUME Types, MarksInOrder, RecoveryCommit
  PROVE  Types'
<1>1. TWs'
  BY DEF Types, TWs, RecoveryCommit, Recoverable, Fenced, dataVars, exportVars, storeVars, workerVars
<1>2. TFlags'
  BY RowFacts DEF Types, TFlags, RecoveryCommit, Recoverable, Fenced, dataVars, exportVars, storeVars, workerVars
<1>3. TJob'
  BY RowFacts, PhaseFacts, StatusFacts DEF Types, TJob, TProc, RecoveryCommit, Recoverable, Fenced, dataVars, exportVars, storeVars, workerVars, JobRows, ProcRows
<1>4. TReq'
  BY DEF Types, TReq, TWs, RecoveryCommit, Recoverable, Fenced, dataVars, exportVars, storeVars, workerVars
<1>5. QED
  BY <1>1, <1>2, <1>3, <1>4 DEF Types, TFence, TData, TThread, TStaged, TArt, TPc, TProc, TStore, TBound, RecoveryCommit, dataVars, exportVars, storeVars, workerVars

LEMMA RecoveryPeriodEndsTypes ==
  ASSUME Types, MarksInOrder, RecoveryPeriodEnds
  PROVE  Types'
<1>1. TFlags'
  BY RowFacts DEF Types, TFlags, RecoveryPeriodEnds, dataVars, exportVars, storeVars, workerVars
<1>2. QED
  BY <1>1 DEF Types, TWs, TJob, TFence, TData, TThread, TStaged, TArt, TPc, TProc, TReq, TStore, TBound, RecoveryPeriodEnds, dataVars, exportVars, storeVars, workerVars

LEMMA RetryPurgeTypes ==
  ASSUME NEW p \in Purges, NEW b \in BOOLEAN, Types, MarksInOrder, RetryPurge(p, b)
  PROVE  Types'
<1>1. TWs'
  BY DEF Types, TWs, RetryPurge, QueueFailedPurge, Fenced, dataVars, exportVars, storeVars, workerVars
<1>2. TFlags'
  BY RowFacts DEF Types, TFlags, RetryPurge, QueueFailedPurge, Fenced, dataVars, exportVars, storeVars, workerVars
<1>3. TJob'
  BY RowFacts, PhaseFacts, StatusFacts DEF Types, TJob, TProc, RetryPurge, QueueFailedPurge, Fenced, dataVars, exportVars, storeVars, workerVars, JobRows, ProcRows
<1>4. TBound'
  BY DEF Types, TBound, RetryPurge, QueueFailedPurge, Fenced, dataVars, exportVars, storeVars, workerVars
<1>5. QED
  BY <1>1, <1>2, <1>3, <1>4 DEF Types, TFence, TData, TThread, TStaged, TArt, TPc, TProc, TReq, TStore, RetryPurge, QueueFailedPurge, dataVars, exportVars, storeVars, workerVars

LEMMA PurgeCheckTypes ==
  ASSUME NEW w \in Workers, NEW p \in Purges, Types, MarksInOrder, PurgeCheck(w, p)
  PROVE  Types'
<1>1. TPc'
  BY PcFacts, ResumePcs DEF Types, TPc, PurgeCheck, Worker, PurgeDue, wsVars, dataVars, exportVars, storeVars, Backs
<1>2. TProc'
  BY RowFacts, PhaseFacts DEF Types, TProc, TJob, TWs, TThread, TStaged, PurgeCheck, Worker, PurgeDue, wsVars, dataVars, exportVars, storeVars, JobRows, ProcRows
<1>3. QED
  BY <1>1, <1>2 DEF Types, TWs, TFlags, TJob, TFence, TData, TThread, TStaged, TArt, TReq, TStore, TBound, PurgeCheck, wsVars, dataVars, exportVars, storeVars

LEMMA PurgeTransitionTypes ==
  ASSUME NEW w \in Workers, NEW p \in Purges, Types, MarksInOrder, PurgeTransition(w, p)
  PROVE  Types'
<1>1. TWs'
  BY DEF Types, TWs, PurgeTransition, Goto, Worker, MayStartPurge, Fenced, dataVars, exportVars, storeVars
<1>2. TPc'
  BY PcFacts, ResumePcs DEF Types, TPc, PurgeTransition, Goto, Worker, MayStartPurge, Fenced, dataVars, exportVars, storeVars, Backs
<1>3. TProc'
  BY DEF Types, TProc, PurgeTransition, Goto, dataVars, exportVars, storeVars
<1>4. QED
  BY <1>1, <1>2, <1>3 DEF Types, TFlags, TJob, TFence, TData, TThread, TStaged, TArt, TReq, TStore, TBound, PurgeTransition, dataVars, exportVars, storeVars

LEMMA PurgeCredentialsTypes ==
  ASSUME NEW w \in Workers, NEW p \in Purges, Types, MarksInOrder, PurgeCredentials(w, p)
  PROVE  Types'
<1>1. TFlags'
  BY RowFacts DEF Types, TFlags, PurgeCredentials, Goto, Worker, dataVars, exportVars, storeVars
<1>2. TPc'
  BY PcFacts, ResumePcs DEF Types, TPc, PurgeCredentials, Goto, Worker, dataVars, exportVars, storeVars, Backs
<1>3. TProc'
  BY RowFacts, PhaseFacts DEF Types, TProc, TJob, TWs, TThread, TStaged, PurgeCredentials, Goto, Worker, dataVars, exportVars, storeVars, JobRows, ProcRows
<1>4. QED
  BY <1>1, <1>2, <1>3 DEF Types, TWs, TJob, TFence, TData, TThread, TStaged, TArt, TReq, TStore, TBound, PurgeCredentials, dataVars, exportVars, storeVars

LEMMA PurgeThreadTypes ==
  ASSUME NEW w \in Workers, NEW p \in Purges, Types, MarksInOrder, PurgeThread(w, p)
  PROVE  Types'
<1>1. TThread'
  BY DEF Types, TThread, PurgeThread, Goto, Worker, wsVars, dataVars, storeVars
<1>2. TPc'
  BY PcFacts, ResumePcs DEF Types, TPc, PurgeThread, Goto, Worker, wsVars, dataVars, storeVars, Backs
<1>3. TProc'
  BY RowFacts, PhaseFacts DEF Types, TProc, TJob, TWs, TThread, TStaged, PurgeThread, Goto, Worker, wsVars, dataVars, storeVars, JobRows, ProcRows
<1>4. QED
  BY <1>1, <1>2, <1>3 DEF Types, TWs, TFlags, TJob, TFence, TData, TStaged, TArt, TReq, TStore, TBound, PurgeThread, wsVars, dataVars, storeVars

LEMMA PurgeObjectsTypes ==
  ASSUME NEW w \in Workers, NEW p \in Purges, Types, MarksInOrder, PurgeObjects(w, p)
  PROVE  Types'
<1>1. TArt'
  BY DEF Types, TArt, PurgeObjects, Goto, Worker, StoredKeys, wsVars, dataVars, exportVars
<1>2. TPc'
  BY PcFacts, ResumePcs DEF Types, TPc, PurgeObjects, Goto, Worker, StoredKeys, wsVars, dataVars, exportVars, Backs
<1>3. TProc'
  BY RowFacts, PhaseFacts DEF Types, TProc, TJob, TWs, TThread, TStaged, PurgeObjects, Goto, Worker, StoredKeys, wsVars, dataVars, exportVars, JobRows, ProcRows
<1>4. QED
  BY <1>1, <1>2, <1>3 DEF Types, TWs, TFlags, TJob, TFence, TData, TThread, TStaged, TReq, TStore, TBound, PurgeObjects, wsVars, dataVars, exportVars

LEMMA PurgeCheckpointTypes ==
  ASSUME NEW w \in Workers, NEW p \in Purges, Types, MarksInOrder, PurgeCheckpoint(w, p)
  PROVE  Types'
<1>1. TJob'
  <2>1. PurgePhases[PurgeIdx(proc[w].phase) + 1] \in Phases
    BY PhaseFacts, NextPhase DEF MarksInOrder, PurgeCheckpoint, Worker
  <2>2. PICK next \in Phases : next = PurgePhases[PurgeIdx(proc[w].phase) + 1]
    BY <2>1
  <2>3. job' = job \/ job' = [job EXCEPT ![p].phase = next]
    BY <2>2 DEF PurgeCheckpoint
  <2>4. QED
    BY <2>3 DEF Types, TJob, JobRows
<1>2. TPc'
  BY PcFacts, ResumePcs DEF Types, TPc, PurgeCheckpoint, Goto, Worker, Running, wsVars, dataVars, exportVars, storeVars, Backs
<1>3. TProc'
  <2>1. PurgePhases[PurgeIdx(proc[w].phase) + 1] \in Phases
    BY PhaseFacts, NextPhase DEF MarksInOrder, PurgeCheckpoint, Worker
  <2>2. PICK next \in Phases : next = PurgePhases[PurgeIdx(proc[w].phase) + 1]
    BY <2>1
  <2>3. proc' = proc \/ proc' = [proc EXCEPT ![w].phase = next]
    BY <2>2 DEF PurgeCheckpoint, Goto
  <2>4. QED
    BY <2>3 DEF Types, TProc, ProcRows
<1>4. QED
  BY <1>1, <1>2, <1>3 DEF Types, TWs, TFlags, TFence, TData, TThread, TStaged, TArt, TReq, TStore, TBound, PurgeCheckpoint, wsVars, dataVars, exportVars, storeVars

LEMMA PurgeRowsTypes ==
  ASSUME NEW w \in Workers, NEW p \in Purges, Types, MarksInOrder, PurgeRows(w, p)
  PROVE  Types'
<1>1. TWs'
  BY DEF Types, TWs, PurgeRows, Goto, Return, Worker, Fenced, exportVars
<1>2. TFlags'
  <2>1. receipts + 1 \in Nat
    BY DEF Types, TFlags
  <2>2. CASE UNCHANGED <<due, alert, receipts, creds, busy>>
    BY <2>2 DEF Types, TFlags
  <2>3. CASE ~Fenced
    <3>1. creds' = FALSE /\ busy' = FALSE /\ due' = due /\ receipts' \in {receipts, receipts + 1}
      BY <2>3 DEF PurgeRows
    <3>2. alert' = [j \in Jobs |-> "none"]
      BY <2>3 DEF PurgeRows
    <3>3. QED
      BY <2>1, <3>1, <3>2 DEF Types, TFlags
  <2>4. QED
    BY <2>2, <2>3 DEF PurgeRows
<1>3. TJob'
  BY RowFacts, PhaseFacts, StatusFacts DEF Types, TJob, TProc, PurgeRows, Goto, Return, Worker, Fenced, exportVars, JobRows, ProcRows
<1>4. TData'
  BY DEF Types, TData, TThread, PurgeRows, Goto, Return, Worker, Fenced, exportVars
<1>5. TArt'
  BY DEF Types, TArt, PurgeRows, Goto, Return, Worker, Fenced, exportVars
<1>6. TPc'
  BY PcFacts, ResumePcs DEF Types, TPc, PurgeRows, Goto, Return, Worker, Fenced, exportVars, Backs
<1>7. TProc'
  BY RowFacts, PhaseFacts DEF Types, TProc, TJob, TWs, TThread, TStaged, PurgeRows, Goto, Return, Worker, Fenced, exportVars, JobRows, ProcRows
<1>8. QED
  BY <1>1, <1>2, <1>3, <1>4, <1>5, <1>6, <1>7 DEF Types, TFence, TThread, TStaged, TReq, TStore, TBound, PurgeRows, exportVars

LEMMA PurgeExhaustedTypes ==
  ASSUME NEW w \in Workers, NEW p \in Purges, Types, MarksInOrder, PurgeExhausted(w, p)
  PROVE  Types'
<1>1. TWs'
  BY DEF Types, TWs, PurgeExhausted, Return, Worker, Fenced, dataVars, exportVars, storeVars
<1>2. TFlags'
  BY RowFacts DEF Types, TFlags, PurgeExhausted, Return, Worker, Fenced, dataVars, exportVars, storeVars
<1>3. TPc'
  BY PcFacts, ResumePcs DEF Types, TPc, PurgeExhausted, Return, Worker, Fenced, dataVars, exportVars, storeVars, Backs
<1>4. TProc'
  BY RowFacts, PhaseFacts DEF Types, TProc, TJob, TWs, TThread, TStaged, PurgeExhausted, Return, Worker, Fenced, dataVars, exportVars, storeVars, JobRows, ProcRows
<1>5. QED
  BY <1>1, <1>2, <1>3, <1>4 DEF Types, TJob, TFence, TData, TThread, TStaged, TArt, TReq, TStore, TBound, PurgeExhausted, dataVars, exportVars, storeVars

LEMMA CreateExportTypes ==
  ASSUME NEW e \in Exports, Types, MarksInOrder, CreateExport(e)
  PROVE  Types'
<1>1. TJob'
  BY RowFacts, PhaseFacts, StatusFacts DEF Types, TJob, TProc, CreateExport, wsVars, dataVars, exportVars, storeVars, workerVars, JobRows, ProcRows
<1>2. QED
  BY <1>1 DEF Types, TWs, TFlags, TFence, TData, TThread, TStaged, TArt, TPc, TProc, TReq, TStore, TBound, CreateExport, wsVars, dataVars, exportVars, storeVars, workerVars

LEMMA ExpireObjectTypes ==
  ASSUME NEW e \in Exports, Types, MarksInOrder, ExpireObject(e)
  PROVE  Types'
<1>1. TArt'
  BY DEF Types, TArt, ExpireObject, wsVars, dataVars, exportVars, workerVars
<1>2. TStore'
  BY DEF Types, TStore, ExpireObject, wsVars, dataVars, exportVars, workerVars
<1>3. QED
  BY <1>1, <1>2 DEF Types, TWs, TFlags, TJob, TFence, TData, TThread, TStaged, TPc, TProc, TReq, TBound, ExpireObject, wsVars, dataVars, exportVars, workerVars

LEMMA ExpireRowTypes ==
  ASSUME NEW e \in Exports, Types, MarksInOrder, ExpireRow(e)
  PROVE  Types'
<1>1. TJob'
  BY RowFacts, PhaseFacts, StatusFacts DEF Types, TJob, TProc, ExpireRow, wsVars, dataVars, exportVars, workerVars, JobRows, ProcRows
<1>2. TStore'
  BY DEF Types, TStore, ExpireRow, wsVars, dataVars, exportVars, workerVars
<1>3. QED
  BY <1>1, <1>2 DEF Types, TWs, TFlags, TFence, TData, TThread, TStaged, TArt, TPc, TProc, TReq, TBound, ExpireRow, wsVars, dataVars, exportVars, workerVars

LEMMA AcquireFenceTypes ==
  ASSUME NEW w \in Workers, NEW e \in Exports, Types, MarksInOrder, AcquireFence(w, e)
  PROVE  Types'
<1>1. TFence'
  <2>1. CASE UNCHANGED fence
    BY <2>1 DEF Types, TFence
  <2>2. CASE fence' = [job |-> e, status |-> "active", live |-> TRUE]
    <3>1. fence'.job = e /\ fence'.status = "active" /\ fence'.live = TRUE
      BY <2>2 DEF Types, TFence
    <3>2. fence' \in [job : Exports \cup {None}, status : {"none", "active", "releasing"}, live : BOOLEAN]
      BY <2>2 DEF Types, TFence
    <3>3. e # None
      BY WorkspaceAssumption
    <3>4. QED
      BY <3>1, <3>2, <3>3 DEF TFence
  <2>3. QED
    BY <2>1, <2>2 DEF AcquireFence
<1>2. TPc'
  BY PcFacts, ResumePcs DEF Types, TPc, AcquireFence, Goto, Exporter, MayAcquire, wsVars, dataVars, storeVars, Backs
<1>3. TProc'
  BY RowFacts, PhaseFacts DEF Types, TProc, TJob, TWs, TThread, TStaged, AcquireFence, Goto, Exporter, MayAcquire, wsVars, dataVars, storeVars, JobRows, ProcRows
<1>4. QED
  BY <1>1, <1>2, <1>3 DEF Types, TWs, TFlags, TJob, TData, TThread, TStaged, TArt, TReq, TStore, TBound, AcquireFence, wsVars, dataVars, storeVars

LEMMA BeginCaptureTypes ==
  ASSUME NEW w \in Workers, NEW e \in Exports, Types, MarksInOrder, BeginCapture(w, e)
  PROVE  Types'
<1>1. TJob'
  BY RowFacts, PhaseFacts, StatusFacts DEF Types, TJob, TProc, BeginCapture, Exporter, Cursor, Goto, ReleaseAnd, wsVars, dataVars, storeVars, JobRows, ProcRows
<1>2. TStaged'
  BY RowFacts DEF Types, TStaged, TData, TProc, BeginCapture, Exporter, Cursor, Goto, ReleaseAnd, wsVars, dataVars, storeVars, Stages, ProcRows
<1>3. TPc'
  BY PcFacts, ResumePcs DEF Types, TPc, BeginCapture, Exporter, Cursor, Goto, ReleaseAnd, wsVars, dataVars, storeVars, Backs
<1>4. TProc'
  BY DEF Types, TProc, BeginCapture, Cursor, Goto, ReleaseAnd, wsVars, dataVars, storeVars
<1>5. QED
  BY <1>1, <1>2, <1>3, <1>4 DEF Types, TWs, TFlags, TFence, TData, TThread, TArt, TReq, TStore, TBound, BeginCapture, wsVars, dataVars, storeVars

LEMMA FreezeThreadTypes ==
  ASSUME NEW w \in Workers, NEW e \in Exports, Types, MarksInOrder, FreezeThread(w, e)
  PROVE  Types'
<1>1. TThread'
  BY DEF Types, TThread, FreezeThread, Goto, Exporter, wsVars, dataVars, storeVars
<1>2. TPc'
  BY PcFacts, ResumePcs DEF Types, TPc, FreezeThread, Goto, Exporter, wsVars, dataVars, storeVars, Backs
<1>3. TProc'
  BY RowFacts, PhaseFacts DEF Types, TProc, TJob, TWs, TThread, TStaged, FreezeThread, Goto, Exporter, wsVars, dataVars, storeVars, JobRows, ProcRows
<1>4. QED
  BY <1>1, <1>2, <1>3 DEF Types, TWs, TFlags, TJob, TFence, TData, TStaged, TArt, TReq, TStore, TBound, FreezeThread, wsVars, dataVars, storeVars

LEMMA StageMessagesTypes ==
  ASSUME NEW w \in Workers, NEW e \in Exports, Types, MarksInOrder, StageMessages(w, e)
  PROVE  Types'
<1>1. TJob'
  BY RowFacts, PhaseFacts, StatusFacts DEF Types, TJob, TProc, StageMessages, Exporter, Cursor, Goto, ReleaseAnd, wsVars, dataVars, storeVars, JobRows, ProcRows
<1>2. TStaged'
  BY RowFacts DEF Types, TStaged, TData, TProc, StageMessages, Exporter, Cursor, Goto, ReleaseAnd, wsVars, dataVars, storeVars, Stages, ProcRows
<1>3. TPc'
  BY PcFacts, ResumePcs DEF Types, TPc, StageMessages, Exporter, Cursor, Goto, ReleaseAnd, wsVars, dataVars, storeVars, Backs
<1>4. TProc'
  BY RowFacts, PhaseFacts DEF Types, TProc, TJob, TWs, TThread, TStaged, StageMessages, Exporter, Cursor, Goto, ReleaseAnd, wsVars, dataVars, storeVars, JobRows, ProcRows
<1>5. QED
  BY <1>1, <1>2, <1>3, <1>4 DEF Types, TWs, TFlags, TFence, TData, TThread, TArt, TReq, TStore, TBound, StageMessages, wsVars, dataVars, storeVars

LEMMA CopyRowsTypes ==
  ASSUME NEW w \in Workers, NEW e \in Exports, Types, MarksInOrder, CopyRows(w, e)
  PROVE  Types'
<1>1. TFence'
  <2>1. CASE fence.job = e /\ fence.status = "active"
    <3>1. fence' = [fence EXCEPT !.live = TRUE]
      BY <2>1 DEF CopyRows
    <3>2. QED
      BY <2>1, <3>1, WorkspaceAssumption DEF Types, TFence
  <2>2. CASE fence.job # e \/ fence.status # "active"
    <3>1. fence' = fence
      BY <2>2 DEF CopyRows
    <3>2. QED
      BY <3>1 DEF Types, TFence
  <2>3. QED
    BY <2>1, <2>2
<1>2. TStaged'
  <2>1. PICK a \in Nat : a = d1
    BY DEF Types, TData
  <2>2. staged[e] \in Stages
    BY DEF Types, TStaged
  <2>3. PICK b \in BOOLEAN : b = (art.status = "live")
    OBVIOUS
  <2>4. PICK r : r = [staged[e] EXCEPT !.page1 = a, !.page2 = None]
    OBVIOUS
  <2>5. r \in Stages
    BY <2>2, <2>4 DEF Stages
  <2>6. staged' = [staged EXCEPT ![e] = r]
    BY <2>1, <2>3, <2>4 DEF CopyRows
  <2>7. QED
    BY <2>5, <2>6 DEF Types, TStaged, CopyRows
<1>3. TPc'
  BY PcFacts, ResumePcs DEF Types, TPc, CopyRows, Goto, Exporter, wsVars, dataVars, storeVars, Backs
<1>4. TProc'
  BY DEF Types, TProc, CopyRows, Goto, wsVars, dataVars, storeVars
<1>5. QED
  BY <1>1, <1>2, <1>3, <1>4 DEF Types, TWs, TFlags, TJob, TData, TThread, TArt, TReq, TStore, TBound, CopyRows, wsVars, dataVars, storeVars

LEMMA CopyOtherRowsTypes ==
  ASSUME NEW w \in Workers, NEW e \in Exports, Types, MarksInOrder, CopyOtherRows(w, e)
  PROVE  Types'
<1>1. TJob'
  BY RowFacts, PhaseFacts, StatusFacts DEF Types, TJob, TProc, CopyOtherRows, Goto, Exporter, Cursor, ReleaseAnd, wsVars, dataVars, storeVars, JobRows, ProcRows
<1>2. TFence'
  <2>1. CASE fence.job = e /\ fence.status = "active"
    <3>1. fence' = [fence EXCEPT !.live = TRUE]
      BY <2>1 DEF CopyOtherRows
    <3>2. QED
      BY <2>1, <3>1, WorkspaceAssumption DEF Types, TFence
  <2>2. CASE fence.job # e \/ fence.status # "active"
    <3>1. fence' = fence
      BY <2>2 DEF CopyOtherRows
    <3>2. QED
      BY <3>1 DEF Types, TFence
  <2>3. QED
    BY <2>1, <2>2
<1>3. TStaged'
  <2>1. PICK a \in Nat : a = d1
    BY DEF Types, TData
  <2>2. staged[e] \in Stages
    BY DEF Types, TStaged
  <2>3. PICK b \in BOOLEAN : b = (art.status = "live")
    OBVIOUS
  <2>4. PICK r : r = [staged[e] EXCEPT !.page2 = a, !.art = b]
    OBVIOUS
  <2>5. r \in Stages
    BY <2>2, <2>4 DEF Stages
  <2>6. staged' = [staged EXCEPT ![e] = r]
    BY <2>1, <2>3, <2>4 DEF CopyOtherRows
  <2>7. QED
    BY <2>5, <2>6 DEF Types, TStaged, CopyOtherRows
<1>4. TPc'
  BY PcFacts, ResumePcs DEF Types, TPc, CopyOtherRows, Goto, Exporter, Cursor, ReleaseAnd, wsVars, dataVars, storeVars, Backs
<1>5. TProc'
  BY DEF Types, TProc, CopyOtherRows, Goto, Cursor, ReleaseAnd, wsVars, dataVars, storeVars
<1>6. QED
  BY <1>1, <1>2, <1>3, <1>4, <1>5 DEF Types, TWs, TFlags, TData, TThread, TArt, TReq, TStore, TBound, CopyOtherRows, wsVars, dataVars, storeVars

LEMMA PinObjectsTypes ==
  ASSUME NEW w \in Workers, NEW e \in Exports, Types, MarksInOrder, PinObjects(w, e)
  PROVE  Types'
<1>1. TJob'
  BY RowFacts, PhaseFacts, StatusFacts DEF Types, TJob, TProc, PinObjects, ReleaseAnd, Exporter, Running, wsVars, dataVars, storeVars, JobRows, ProcRows
<1>2. TStaged'
  BY RowFacts DEF Types, TStaged, TData, TProc, PinObjects, ReleaseAnd, Exporter, Running, wsVars, dataVars, storeVars, Stages, ProcRows
<1>3. TPc'
  BY PcFacts, ResumePcs DEF Types, TPc, PinObjects, ReleaseAnd, Exporter, Running, wsVars, dataVars, storeVars, Backs
<1>4. TProc'
  BY DEF Types, TProc, PinObjects, ReleaseAnd, wsVars, dataVars, storeVars
<1>5. QED
  BY <1>1, <1>2, <1>3, <1>4 DEF Types, TWs, TFlags, TFence, TData, TThread, TArt, TReq, TStore, TBound, PinObjects, wsVars, dataVars, storeVars

LEMMA ReleaseFenceTypes ==
  ASSUME NEW w \in Workers, NEW e \in Exports, Types, MarksInOrder, ReleaseFence(w, e)
  PROVE  Types'
<1>1. TFence'
  BY WorkspaceAssumption DEF Types, TFence, ReleaseFence, Goto, Exporter, wsVars, dataVars, storeVars
<1>2. TPc'
  BY PcFacts, ResumePcs DEF Types, TPc, ReleaseFence, Goto, Exporter, wsVars, dataVars, storeVars, Backs
<1>3. TProc'
  BY DEF Types, TProc, ReleaseFence, Goto, wsVars, dataVars, storeVars
<1>4. QED
  BY <1>1, <1>2, <1>3 DEF Types, TWs, TFlags, TJob, TData, TThread, TStaged, TArt, TReq, TStore, TBound, ReleaseFence, wsVars, dataVars, storeVars

LEMMA UnfreezeThreadTypes ==
  ASSUME NEW w \in Workers, NEW e \in Exports, Types, MarksInOrder, UnfreezeThread(w, e)
  PROVE  Types'
<1>1. TThread'
  BY DEF Types, TThread, UnfreezeThread, Goto, Return, Exporter, Recovering, wsVars, dataVars, storeVars
<1>2. TPc'
  BY PcFacts, ResumePcs DEF Types, TPc, UnfreezeThread, Goto, Return, Exporter, Recovering, wsVars, dataVars, storeVars, Backs
<1>3. TProc'
  BY RowFacts, PhaseFacts DEF Types, TProc, TJob, TWs, TThread, TStaged, UnfreezeThread, Goto, Return, Exporter, Recovering, wsVars, dataVars, storeVars, JobRows, ProcRows
<1>4. TBound'
  BY DEF Types, TBound, UnfreezeThread, Goto, Return, Exporter, Recovering, wsVars, dataVars, storeVars
<1>5. QED
  BY <1>1, <1>2, <1>3, <1>4 DEF Types, TWs, TFlags, TJob, TFence, TData, TStaged, TArt, TReq, TStore, UnfreezeThread, wsVars, dataVars, storeVars

LEMMA DeleteFenceTypes ==
  ASSUME NEW w \in Workers, NEW e \in Exports, Types, MarksInOrder, DeleteFence(w, e)
  PROVE  Types'
<1>1. TFence'
  <2>1. CASE fence.job = e
    <3>1. fence' = NoFence
      BY <2>1 DEF DeleteFence
    <3>2. QED
      BY <3>1 DEF TFence, NoFence
  <2>2. CASE fence.job # e
    <3>1. fence' = fence
      BY <2>2 DEF DeleteFence
    <3>2. QED
      BY <3>1 DEF Types, TFence
  <2>3. QED
    BY <2>1, <2>2
<1>2. TPc'
  BY PcFacts, ResumePcs DEF Types, TPc, DeleteFence, Goto, Exporter, wsVars, dataVars, storeVars, Backs
<1>3. TProc'
  BY DEF Types, TProc, DeleteFence, Goto, wsVars, dataVars, storeVars
<1>4. QED
  BY <1>1, <1>2, <1>3 DEF Types, TWs, TFlags, TJob, TData, TThread, TStaged, TArt, TReq, TStore, TBound, DeleteFence, wsVars, dataVars, storeVars

LEMMA RecordReleasedTypes ==
  ASSUME NEW w \in Workers, NEW e \in Exports, Types, MarksInOrder, RecordReleased(w, e)
  PROVE  Types'
<1>1. TJob'
  BY RowFacts, PhaseFacts, StatusFacts DEF Types, TJob, TProc, RecordReleased, Exporter, Cursor, Goto, ReleaseAnd, wsVars, dataVars, exportVars, storeVars, JobRows, ProcRows
<1>2. TPc'
  BY PcFacts, ResumePcs DEF Types, TPc, RecordReleased, Exporter, Cursor, Goto, ReleaseAnd, wsVars, dataVars, exportVars, storeVars, Backs
<1>3. TProc'
  BY DEF Types, TProc, RecordReleased, Cursor, Goto, ReleaseAnd, wsVars, dataVars, exportVars, storeVars
<1>4. QED
  BY <1>1, <1>2, <1>3 DEF Types, TWs, TFlags, TFence, TData, TThread, TStaged, TArt, TReq, TStore, TBound, RecordReleased, wsVars, dataVars, exportVars, storeVars

LEMMA BeginAssemblyTypes ==
  ASSUME NEW w \in Workers, NEW e \in Exports, Types, MarksInOrder, BeginAssembly(w, e)
  PROVE  Types'
<1>1. TJob'
  BY RowFacts, PhaseFacts, StatusFacts DEF Types, TJob, TProc, BeginAssembly, Goto, Exporter, Running, wsVars, dataVars, exportVars, storeVars, JobRows, ProcRows
<1>2. TPc'
  BY PcFacts, ResumePcs DEF Types, TPc, BeginAssembly, Goto, Exporter, Running, wsVars, dataVars, exportVars, storeVars, Backs
<1>3. TProc'
  BY DEF Types, TProc, BeginAssembly, Goto, wsVars, dataVars, exportVars, storeVars
<1>4. QED
  BY <1>1, <1>2, <1>3 DEF Types, TWs, TFlags, TFence, TData, TThread, TStaged, TArt, TReq, TStore, TBound, BeginAssembly, wsVars, dataVars, exportVars, storeVars

LEMMA GatherEntriesTypes ==
  ASSUME NEW w \in Workers, NEW e \in Exports, Types, MarksInOrder, GatherEntries(w, e)
  PROVE  Types'
<1>1. TPc'
  BY PcFacts, ResumePcs DEF Types, TPc, GatherEntries, Exporter, wsVars, dataVars, exportVars, storeVars, Backs
<1>2. TProc'
  BY RowFacts, PhaseFacts DEF Types, TProc, TJob, TWs, TThread, TStaged, GatherEntries, Exporter, wsVars, dataVars, exportVars, storeVars, JobRows, ProcRows
<1>3. QED
  BY <1>1, <1>2 DEF Types, TWs, TFlags, TJob, TFence, TData, TThread, TStaged, TArt, TReq, TStore, TBound, GatherEntries, wsVars, dataVars, exportVars, storeVars

LEMMA PutArchiveTypes ==
  ASSUME NEW w \in Workers, NEW e \in Exports, Types, MarksInOrder, PutArchive(w, e)
  PROVE  Types'
<1>1. TArt'
  BY DEF Types, TArt, PutArchive, Goto, Exporter, wsVars, dataVars, exportVars
<1>2. TPc'
  BY PcFacts, ResumePcs DEF Types, TPc, PutArchive, Goto, Exporter, wsVars, dataVars, exportVars, Backs
<1>3. TProc'
  BY DEF Types, TProc, PutArchive, Goto, wsVars, dataVars, exportVars
<1>4. QED
  BY <1>1, <1>2, <1>3 DEF Types, TWs, TFlags, TJob, TFence, TData, TThread, TStaged, TReq, TStore, TBound, PutArchive, wsVars, dataVars, exportVars

LEMMA PublishArchiveTypes ==
  ASSUME NEW w \in Workers, NEW e \in Exports, Types, MarksInOrder, PublishArchive(w, e)
  PROVE  Types'
<1>1. TJob'
  BY RowFacts, PhaseFacts, StatusFacts DEF Types, TJob, TProc, PublishArchive, Goto, Exporter, Running, wsVars, dataVars, exportVars, storeVars, JobRows, ProcRows
<1>2. TPc'
  BY PcFacts, ResumePcs DEF Types, TPc, PublishArchive, Goto, Exporter, Running, wsVars, dataVars, exportVars, storeVars, Backs
<1>3. TProc'
  BY RowFacts, PhaseFacts DEF Types, TProc, TJob, TWs, TThread, TStaged, PublishArchive, Goto, Exporter, Running, wsVars, dataVars, exportVars, storeVars, JobRows, ProcRows
<1>4. QED
  BY <1>1, <1>2, <1>3 DEF Types, TWs, TFlags, TFence, TData, TThread, TStaged, TArt, TReq, TStore, TBound, PublishArchive, wsVars, dataVars, exportVars, storeVars

LEMMA DeleteArchiveTypes ==
  ASSUME NEW w \in Workers, NEW e \in Exports, Types, MarksInOrder, DeleteArchive(w, e)
  PROVE  Types'
<1>1. TArt'
  BY DEF Types, TArt, DeleteArchive, Goto, Exporter, wsVars, dataVars, exportVars
<1>2. TPc'
  BY PcFacts, ResumePcs DEF Types, TPc, DeleteArchive, Goto, Exporter, wsVars, dataVars, exportVars, Backs
<1>3. TProc'
  BY DEF Types, TProc, DeleteArchive, Goto, wsVars, dataVars, exportVars
<1>4. TBound'
  BY DEF Types, TBound, DeleteArchive, Goto, Exporter, wsVars, dataVars, exportVars
<1>5. QED
  BY <1>1, <1>2, <1>3, <1>4 DEF Types, TWs, TFlags, TJob, TFence, TData, TThread, TStaged, TReq, TStore, DeleteArchive, wsVars, dataVars, exportVars

LEMMA ClearSnapshotTypes ==
  ASSUME NEW w \in Workers, NEW e \in Exports, Types, MarksInOrder, ClearSnapshot(w, e)
  PROVE  Types'
<1>1. TStaged'
  BY RowFacts DEF Types, TStaged, TData, TProc, ClearSnapshot, Return, Exporter, wsVars, dataVars, storeVars, Stages, ProcRows
<1>2. TPc'
  BY PcFacts, ResumePcs DEF Types, TPc, ClearSnapshot, Return, Exporter, wsVars, dataVars, storeVars, Backs
<1>3. TProc'
  BY RowFacts, PhaseFacts DEF Types, TProc, TJob, TWs, TThread, TStaged, ClearSnapshot, Return, Exporter, wsVars, dataVars, storeVars, JobRows, ProcRows
<1>4. QED
  BY <1>1, <1>2, <1>3 DEF Types, TWs, TFlags, TJob, TFence, TData, TThread, TArt, TReq, TStore, TBound, ClearSnapshot, wsVars, dataVars, storeVars

LEMMA RecoverFenceTypes ==
  ASSUME NEW w \in Workers, NEW e \in Exports, Types, MarksInOrder, RecoverFence(w, e)
  PROVE  Types'
<1>1. TPc'
  BY PcFacts, ResumePcs DEF Types, TPc, RecoverFence, StartTick, MayRecover, wsVars, dataVars, exportVars, storeVars, Backs
<1>2. TProc'
  BY RowFacts, PhaseFacts DEF Types, TProc, TJob, TWs, TThread, TStaged, RecoverFence, StartTick, MayRecover, wsVars, dataVars, exportVars, storeVars, JobRows, ProcRows
<1>3. TBound'
  BY DEF Types, TBound, RecoverFence, StartTick, MayRecover, wsVars, dataVars, exportVars, storeVars
<1>4. QED
  BY <1>1, <1>2, <1>3 DEF Types, TWs, TFlags, TJob, TFence, TData, TThread, TStaged, TArt, TReq, TStore, RecoverFence, wsVars, dataVars, exportVars, storeVars

LEMMA RequeueExportTypes ==
  ASSUME NEW w \in Workers, NEW e \in Exports, Types, MarksInOrder, RequeueExport(w, e)
  PROVE  Types'
<1>1. TJob'
  BY RowFacts, PhaseFacts, StatusFacts DEF Types, TJob, TProc, RequeueExport, Return, Exporter, wsVars, dataVars, storeVars, JobRows, ProcRows
<1>2. TStaged'
  BY RowFacts DEF Types, TStaged, TData, TProc, RequeueExport, Return, Exporter, wsVars, dataVars, storeVars, Stages, ProcRows
<1>3. TPc'
  BY PcFacts, ResumePcs DEF Types, TPc, RequeueExport, Return, Exporter, wsVars, dataVars, storeVars, Backs
<1>4. TProc'
  BY RowFacts, PhaseFacts DEF Types, TProc, TJob, TWs, TThread, TStaged, RequeueExport, Return, Exporter, wsVars, dataVars, storeVars, JobRows, ProcRows
<1>5. QED
  BY <1>1, <1>2, <1>3, <1>4 DEF Types, TWs, TFlags, TFence, TData, TThread, TArt, TReq, TStore, TBound, RequeueExport, wsVars, dataVars, storeVars

LEMMA ExportExhaustedTypes ==
  ASSUME NEW w \in Workers, NEW e \in Exports, Types, MarksInOrder, ExportExhausted(w, e)
  PROVE  Types'
<1>1. TFlags'
  BY RowFacts DEF Types, TFlags, ExportExhausted, Return, Exporter, Fenced, dataVars, storeVars
<1>2. TStaged'
  BY RowFacts DEF Types, TStaged, TData, TProc, ExportExhausted, Return, Exporter, Fenced, dataVars, storeVars, Stages, ProcRows
<1>3. TPc'
  BY PcFacts, ResumePcs DEF Types, TPc, ExportExhausted, Return, Exporter, Fenced, dataVars, storeVars, Backs
<1>4. TProc'
  BY RowFacts, PhaseFacts DEF Types, TProc, TJob, TWs, TThread, TStaged, ExportExhausted, Return, Exporter, Fenced, dataVars, storeVars, JobRows, ProcRows
<1>5. QED
  BY <1>1, <1>2, <1>3, <1>4 DEF Types, TWs, TJob, TFence, TData, TThread, TArt, TReq, TStore, TBound, ExportExhausted, dataVars, storeVars

LEMMA UploadObjectTypes ==
  ASSUME Types, MarksInOrder, UploadObject
  PROVE  Types'
<1>1. TArt'
  BY DEF Types, TArt, UploadObject, wsVars, dataVars, exportVars, workerVars
<1>2. TStore'
  BY DEF Types, TStore, UploadObject, wsVars, dataVars, exportVars, workerVars
<1>3. QED
  BY <1>1, <1>2 DEF Types, TWs, TFlags, TJob, TFence, TData, TThread, TStaged, TPc, TProc, TReq, TBound, UploadObject, wsVars, dataVars, exportVars, workerVars

LEMMA InsertArtifactTypes ==
  ASSUME Types, MarksInOrder, InsertArtifact
  PROVE  Types'
<1>1. TArt'
  <2>1. obj' = obj
    BY DEF InsertArtifact
  <2>2. CASE art' = art
    BY <2>1, <2>2 DEF Types, TArt
  <2>3. CASE art' = [status |-> "live", expired |-> FALSE]
    BY <2>1, <2>3 DEF Types, TArt
  <2>4. QED
    BY <2>2, <2>3 DEF InsertArtifact
<1>2. TStore'
  BY DEF Types, TStore, InsertArtifact, Fenced, wsVars, dataVars, exportVars, workerVars
<1>3. QED
  BY <1>1, <1>2 DEF Types, TWs, TFlags, TJob, TFence, TData, TThread, TStaged, TPc, TProc, TReq, TBound, InsertArtifact, wsVars, dataVars, exportVars, workerVars

LEMMA DeleteRefusedTypes ==
  ASSUME Types, MarksInOrder, DeleteRefused
  PROVE  Types'
<1>1. TArt'
  BY DEF Types, TArt, DeleteRefused, wsVars, dataVars, exportVars, workerVars
<1>2. TStore'
  BY DEF Types, TStore, DeleteRefused, wsVars, dataVars, exportVars, workerVars
<1>3. TBound'
  BY DEF Types, TBound, DeleteRefused, wsVars, dataVars, exportVars, workerVars
<1>4. QED
  BY <1>1, <1>2, <1>3 DEF Types, TWs, TFlags, TJob, TFence, TData, TThread, TStaged, TPc, TProc, TReq, DeleteRefused, wsVars, dataVars, exportVars, workerVars

LEMMA UploadCrashTypes ==
  ASSUME Types, MarksInOrder, UploadCrash
  PROVE  Types'
<1>1. TStore'
  BY DEF Types, TStore, UploadCrash, wsVars, dataVars, exportVars, workerVars
<1>2. TBound'
  BY DEF Types, TBound, UploadCrash, wsVars, dataVars, exportVars, workerVars
<1>3. QED
  BY <1>1, <1>2 DEF Types, TWs, TFlags, TJob, TFence, TData, TThread, TStaged, TArt, TPc, TProc, TReq, UploadCrash, wsVars, dataVars, exportVars, workerVars

LEMMA ArtifactExpiresTypes ==
  ASSUME Types, MarksInOrder, ArtifactExpires
  PROVE  Types'
<1>1. TArt'
  BY DEF Types, TArt, ArtifactExpires, wsVars, dataVars, exportVars, workerVars
<1>2. QED
  BY <1>1 DEF Types, TWs, TFlags, TJob, TFence, TData, TThread, TStaged, TPc, TProc, TReq, TStore, TBound, ArtifactExpires, wsVars, dataVars, exportVars, workerVars

LEMMA UpdateRetentionPolicyTypes ==
  ASSUME Types, MarksInOrder, UpdateRetentionPolicy
  PROVE  Types'
<1>1. TArt'
  BY DEF Types, TArt, UpdateRetentionPolicy, Fenced, wsVars, dataVars, exportVars, workerVars
<1>2. TBound'
  BY DEF Types, TBound, UpdateRetentionPolicy, Fenced, wsVars, dataVars, exportVars, workerVars
<1>3. QED
  BY <1>1, <1>2 DEF Types, TWs, TFlags, TJob, TFence, TData, TThread, TStaged, TPc, TProc, TReq, TStore, UpdateRetentionPolicy, wsVars, dataVars, exportVars, workerVars

LEMMA SweepSelectTypes ==
  ASSUME Types, MarksInOrder, SweepSelect
  PROVE  Types'
<1>1. TStore'
  BY DEF Types, TStore, SweepSelect, Sweepable, wsVars, dataVars, exportVars, workerVars
<1>2. TBound'
  BY DEF Types, TBound, SweepSelect, Sweepable, wsVars, dataVars, exportVars, workerVars
<1>3. QED
  BY <1>1, <1>2 DEF Types, TWs, TFlags, TJob, TFence, TData, TThread, TStaged, TArt, TPc, TProc, TReq, SweepSelect, wsVars, dataVars, exportVars, workerVars

LEMMA SweepObjectTypes ==
  ASSUME Types, MarksInOrder, SweepObject
  PROVE  Types'
<1>1. TArt'
  BY DEF Types, TArt, SweepObject, wsVars, dataVars, exportVars, workerVars
<1>2. TStore'
  BY DEF Types, TStore, SweepObject, wsVars, dataVars, exportVars, workerVars
<1>3. TBound'
  BY DEF Types, TBound, SweepObject, wsVars, dataVars, exportVars, workerVars
<1>4. QED
  BY <1>1, <1>2, <1>3 DEF Types, TWs, TFlags, TJob, TFence, TData, TThread, TStaged, TPc, TProc, TReq, SweepObject, wsVars, dataVars, exportVars, workerVars

LEMMA SweepRowTypes ==
  ASSUME Types, MarksInOrder, SweepRow
  PROVE  Types'
<1>1. TArt'
  BY DEF Types, TArt, SweepRow, Fenced, wsVars, dataVars, exportVars, workerVars
<1>2. TStore'
  BY DEF Types, TStore, SweepRow, Fenced, wsVars, dataVars, exportVars, workerVars
<1>3. QED
  BY <1>1, <1>2 DEF Types, TWs, TFlags, TJob, TFence, TData, TThread, TStaged, TPc, TProc, TReq, TBound, SweepRow, wsVars, dataVars, exportVars, workerVars

LEMMA SweepOperationalDataTypes ==
  ASSUME Types, MarksInOrder, SweepOperationalData
  PROVE  Types'
<1>1. TData'
  BY DEF Types, TData, TThread, SweepOperationalData, Fenced, wsVars, exportVars, storeVars, workerVars
<1>2. TBound'
  BY DEF Types, TBound, SweepOperationalData, Fenced, wsVars, exportVars, storeVars, workerVars
<1>3. QED
  BY <1>1, <1>2 DEF Types, TWs, TFlags, TJob, TFence, TThread, TStaged, TArt, TPc, TProc, TReq, TStore, SweepOperationalData, wsVars, exportVars, storeVars, workerVars

LEMMA ThreadGoesStaleTypes ==
  ASSUME Types, MarksInOrder, ThreadGoesStale
  PROVE  Types'
<1>1. TThread'
  BY DEF Types, TThread, ThreadGoesStale, wsVars, dataVars, storeVars, workerVars
<1>2. QED
  BY <1>1 DEF Types, TWs, TFlags, TJob, TFence, TData, TStaged, TArt, TPc, TProc, TReq, TStore, TBound, ThreadGoesStale, wsVars, dataVars, storeVars, workerVars

LEMMA ChatSweepSelectTypes ==
  ASSUME Types, MarksInOrder, ChatSweepSelect
  PROVE  Types'
<1>1. TStore'
  BY DEF Types, TStore, ChatSweepSelect, wsVars, dataVars, exportVars, workerVars
<1>2. TBound'
  BY DEF Types, TBound, ChatSweepSelect, wsVars, dataVars, exportVars, workerVars
<1>3. QED
  BY <1>1, <1>2 DEF Types, TWs, TFlags, TJob, TFence, TData, TThread, TStaged, TArt, TPc, TProc, TReq, ChatSweepSelect, wsVars, dataVars, exportVars, workerVars

LEMMA ChatSweepPurgeTypes ==
  ASSUME Types, MarksInOrder, ChatSweepPurge
  PROVE  Types'
<1>1. TData'
  BY DEF Types, TData, TThread, ChatSweepPurge, wsVars, workerVars
<1>2. TThread'
  <2>1. thread.messages + 1 \in Nat
    BY DEF Types, TThread
  <2>2. PICK n \in Nat : n = thread.messages + 1
    BY <2>1
  <2>3. thread' = [thread EXCEPT !.messages = n, !.frozen = None]
    BY <2>2 DEF ChatSweepPurge
  <2>4. QED
    BY <2>3 DEF Types, TThread
<1>3. TStore'
  BY DEF Types, TStore, ChatSweepPurge, wsVars, workerVars
<1>4. QED
  BY <1>1, <1>2, <1>3 DEF Types, TWs, TFlags, TJob, TFence, TStaged, TArt, TPc, TProc, TReq, TBound, ChatSweepPurge, wsVars, workerVars

LEMMA ChatSweepMarkTypes ==
  ASSUME Types, MarksInOrder, ChatSweepMark
  PROVE  Types'
<1>1. TThread'
  BY DEF Types, TThread, ChatSweepMark, Fenced, wsVars, dataVars, workerVars
<1>2. TStore'
  BY DEF Types, TStore, ChatSweepMark, Fenced, wsVars, dataVars, workerVars
<1>3. QED
  BY <1>1, <1>2 DEF Types, TWs, TFlags, TJob, TFence, TData, TStaged, TArt, TPc, TProc, TReq, TBound, ChatSweepMark, wsVars, dataVars, workerVars

LEMMA WriteRowsTypes ==
  ASSUME Types, MarksInOrder, WriteRows
  PROVE  Types'
<1>1. TData'
  BY DEF Types, TData, TThread, WriteRows, Fenced, wsVars, exportVars, storeVars, workerVars
<1>2. TBound'
  BY DEF Types, TBound, WriteRows, Fenced, wsVars, exportVars, storeVars, workerVars
<1>3. QED
  BY <1>1, <1>2 DEF Types, TWs, TFlags, TJob, TFence, TThread, TStaged, TArt, TPc, TProc, TReq, TStore, WriteRows, wsVars, exportVars, storeVars, workerVars

LEMMA WriteMessageTypes ==
  ASSUME Types, MarksInOrder, WriteMessage
  PROVE  Types'
<1>1. TData'
  BY DEF Types, TData, TThread, WriteMessage, wsVars, storeVars, workerVars
<1>2. TThread'
  <2>1. thread.messages + 1 \in Nat
    BY DEF Types, TThread
  <2>2. PICK n \in Nat : n = thread.messages + 1
    BY <2>1
  <2>3. thread' = [thread EXCEPT !.messages = n, !.stale = FALSE]
    BY <2>2 DEF WriteMessage
  <2>4. QED
    BY <2>3 DEF Types, TThread
<1>3. TBound'
  BY DEF Types, TBound, WriteMessage, wsVars, storeVars, workerVars
<1>4. QED
  BY <1>1, <1>2, <1>3 DEF Types, TWs, TFlags, TJob, TFence, TStaged, TArt, TPc, TProc, TReq, TStore, WriteMessage, wsVars, storeVars, workerVars

LEMMA ExecutionEndsTypes ==
  ASSUME Types, MarksInOrder, ExecutionEnds
  PROVE  Types'
<1>1. TFlags'
  BY RowFacts DEF Types, TFlags, ExecutionEnds, dataVars, exportVars, storeVars, workerVars
<1>2. QED
  BY <1>1 DEF Types, TWs, TJob, TFence, TData, TThread, TStaged, TArt, TPc, TProc, TReq, TStore, TBound, ExecutionEnds, dataVars, exportVars, storeVars, workerVars

LEMMA RequestCrashTypes ==
  ASSUME Types, MarksInOrder, RequestCrash
  PROVE  Types'
<1>1. TReq'
  BY DEF Types, TReq, TWs, RequestCrash, wsVars, dataVars, exportVars, storeVars, workerVars
<1>2. TBound'
  BY DEF Types, TBound, RequestCrash, wsVars, dataVars, exportVars, storeVars, workerVars
<1>3. QED
  BY <1>1, <1>2 DEF Types, TWs, TFlags, TJob, TFence, TData, TThread, TStaged, TArt, TPc, TProc, TStore, RequestCrash, wsVars, dataVars, exportVars, storeVars, workerVars

LEMMA SelectJobTypes ==
  ASSUME NEW w \in Workers, NEW j \in Jobs, Types, MarksInOrder, SelectJob(w, j)
  PROVE  Types'
<1>1. TPc'
  BY PcFacts, ResumePcs DEF Types, TPc, SelectJob, StartTick, Selectable, wsVars, dataVars, exportVars, storeVars, Backs
<1>2. TProc'
  BY RowFacts, PhaseFacts DEF Types, TProc, TJob, TWs, TThread, TStaged, SelectJob, StartTick, Selectable, wsVars, dataVars, exportVars, storeVars, JobRows, ProcRows
<1>3. TBound'
  BY DEF Types, TBound, SelectJob, StartTick, Selectable, wsVars, dataVars, exportVars, storeVars
<1>4. QED
  BY <1>1, <1>2, <1>3 DEF Types, TWs, TFlags, TJob, TFence, TData, TThread, TStaged, TArt, TReq, TStore, SelectJob, wsVars, dataVars, exportVars, storeVars

LEMMA CheckQuiescenceTypes ==
  ASSUME NEW w \in Workers, NEW j \in Jobs, Types, MarksInOrder, CheckQuiescence(w, j)
  PROVE  Types'
<1>1. TPc'
  BY PcFacts, ResumePcs DEF Types, TPc, CheckQuiescence, Goto, Return, At, wsVars, dataVars, exportVars, storeVars, Backs
<1>2. TProc'
  BY RowFacts, PhaseFacts DEF Types, TProc, TJob, TWs, TThread, TStaged, CheckQuiescence, Goto, Return, At, wsVars, dataVars, exportVars, storeVars, JobRows, ProcRows
<1>3. QED
  BY <1>1, <1>2 DEF Types, TWs, TFlags, TJob, TFence, TData, TThread, TStaged, TArt, TReq, TStore, TBound, CheckQuiescence, wsVars, dataVars, exportVars, storeVars

LEMMA ClaimJobTypes ==
  ASSUME NEW w \in Workers, NEW j \in Jobs, Types, MarksInOrder, ClaimJob(w, j)
  PROVE  Types'
<1>1. TJob'
  BY RowFacts, PhaseFacts, StatusFacts DEF Types, TJob, TProc, ClaimJob, Goto, Return, At, MayClaim, Least, wsVars, dataVars, exportVars, storeVars, JobRows, ProcRows
<1>2. TPc'
  BY PcFacts, ResumePcs DEF Types, TPc, ClaimJob, Goto, Return, At, MayClaim, Least, wsVars, dataVars, exportVars, storeVars, Backs
<1>3. TProc'
  BY RowFacts, PhaseFacts DEF Types, TProc, TJob, TWs, TThread, TStaged, ClaimJob, Goto, Return, At, MayClaim, Least, wsVars, dataVars, exportVars, storeVars, JobRows, ProcRows
<1>4. QED
  BY <1>1, <1>2, <1>3 DEF Types, TWs, TFlags, TFence, TData, TThread, TStaged, TArt, TReq, TStore, TBound, ClaimJob, wsVars, dataVars, exportVars, storeVars

LEMMA RecordFailureTypes ==
  ASSUME NEW w \in Workers, NEW j \in Jobs, Types, MarksInOrder, RecordFailure(w, j)
  PROVE  Types'
<1>1. TJob'
  <2>1. PICK s \in JobStatuses : s = IF Retryable(w) THEN "queued" ELSE "failed"
    BY StatusFacts
  <2>2. job' = job \/ job' = [job EXCEPT ![j].status = s, ![j].leased = FALSE]
    BY <2>1 DEF RecordFailure
  <2>3. QED
    BY <2>2 DEF Types, TJob, JobRows
<1>2. TPc'
  BY PcFacts, ResumePcs DEF Types, TPc, RecordFailure, Goto, Return, ReleaseAnd, At, Retryable, Running, wsVars, dataVars, exportVars, storeVars, Backs
<1>3. TProc'
  BY RowFacts, PhaseFacts DEF Types, TProc, TJob, TWs, TThread, TStaged, RecordFailure, Goto, Return, ReleaseAnd, At, Retryable, Running, wsVars, dataVars, exportVars, storeVars, JobRows, ProcRows
<1>4. QED
  BY <1>1, <1>2, <1>3 DEF Types, TWs, TFlags, TFence, TData, TThread, TStaged, TArt, TReq, TStore, TBound, RecordFailure, wsVars, dataVars, exportVars, storeVars

LEMMA CallFailsTypes ==
  ASSUME NEW w \in Workers, Types, MarksInOrder, CallFails(w)
  PROVE  Types'
<1>1. TPc'
  BY PcFacts, ResumePcs DEF Types, TPc, CallFails, Goto, wsVars, dataVars, exportVars, storeVars, Backs
<1>2. TProc'
  BY DEF Types, TProc, CallFails, Goto, wsVars, dataVars, exportVars, storeVars
<1>3. TBound'
  BY DEF Types, TBound, CallFails, Goto, wsVars, dataVars, exportVars, storeVars
<1>4. QED
  BY <1>1, <1>2, <1>3 DEF Types, TWs, TFlags, TJob, TFence, TData, TThread, TStaged, TArt, TReq, TStore, CallFails, wsVars, dataVars, exportVars, storeVars

LEMMA WorkerCrashTypes ==
  ASSUME NEW w \in Workers, Types, MarksInOrder, WorkerCrash(w)
  PROVE  Types'
<1>1. TPc'
  BY PcFacts, ResumePcs DEF Types, TPc, WorkerCrash, Return, wsVars, dataVars, exportVars, storeVars, Backs
<1>2. TProc'
  BY RowFacts, PhaseFacts DEF Types, TProc, TJob, TWs, TThread, TStaged, WorkerCrash, Return, wsVars, dataVars, exportVars, storeVars, JobRows, ProcRows
<1>3. TBound'
  BY DEF Types, TBound, WorkerCrash, Return, wsVars, dataVars, exportVars, storeVars
<1>4. QED
  BY <1>1, <1>2, <1>3 DEF Types, TWs, TFlags, TJob, TFence, TData, TThread, TStaged, TArt, TReq, TStore, WorkerCrash, wsVars, dataVars, exportVars, storeVars

LEMMA JobLeaseExpiresTypes ==
  ASSUME NEW j \in Jobs, Types, MarksInOrder, JobLeaseExpires(j)
  PROVE  Types'
<1>1. TJob'
  BY RowFacts, PhaseFacts, StatusFacts DEF Types, TJob, TProc, JobLeaseExpires, wsVars, dataVars, exportVars, storeVars, workerVars, JobRows, ProcRows
<1>2. QED
  BY <1>1 DEF Types, TWs, TFlags, TFence, TData, TThread, TStaged, TArt, TPc, TProc, TReq, TStore, TBound, JobLeaseExpires, wsVars, dataVars, exportVars, storeVars, workerVars

LEMMA FenceLeaseExpiresTypes ==
  ASSUME NEW e \in Exports, Types, MarksInOrder, FenceLeaseExpires(e)
  PROVE  Types'
<1>1. TFence'
  BY WorkspaceAssumption DEF Types, TFence, FenceLeaseExpires, wsVars, dataVars, storeVars, workerVars
<1>2. QED
  BY <1>1 DEF Types, TWs, TFlags, TJob, TData, TThread, TStaged, TArt, TPc, TProc, TReq, TStore, TBound, FenceLeaseExpires, wsVars, dataVars, storeVars, workerVars

-------------------------------------------------------------------------------
(* No step deletes what can still be recovered *)

LEMMA DeletionCommitKeeps ==
  ASSUME Types, Inv, DeletionCommit
  PROVE  Inv'
<1>1. RecoveredIntact'
  BY DEF Types, Inv, TThread, RecoveredIntact, PastRecovery, TPc, DeletionCommit, Fenced, dataVars, exportVars, storeVars, workerVars
<1>2. PastRecovery'
  BY ResumePcs DEF Types, Inv, TPc, PastRecovery, Backs, DeletionCommit, Fenced, dataVars, exportVars, storeVars, workerVars
<1>3. QED
  BY <1>1, <1>2 DEF Inv

LEMMA RecoveryCommitKeeps ==
  ASSUME Types, Inv, RecoveryCommit
  PROVE  Inv'
<1>1. RecoveredIntact'
  BY DEF Types, Inv, TThread, RecoveredIntact, PastRecovery, TPc, RecoveryCommit, Recoverable, Fenced, dataVars, exportVars, storeVars, workerVars
<1>2. PastRecovery'
  BY ResumePcs DEF Types, Inv, TPc, PastRecovery, Backs, RecoveryCommit, Recoverable, Fenced, dataVars, exportVars, storeVars, workerVars
<1>3. QED
  BY <1>1, <1>2 DEF Inv

LEMMA RetryPurgeKeeps ==
  ASSUME NEW p \in Purges, NEW b \in BOOLEAN, Types, Inv, RetryPurge(p, b)
  PROVE  Inv'
<1>1. RecoveredIntact'
  BY DEF Types, Inv, TThread, RecoveredIntact, PastRecovery, TPc, RetryPurge, QueueFailedPurge, Fenced, dataVars, exportVars, storeVars, workerVars
<1>2. PastRecovery'
  BY ResumePcs DEF Types, Inv, TPc, PastRecovery, Backs, RetryPurge, QueueFailedPurge, Fenced, dataVars, exportVars, storeVars, workerVars
<1>3. QED
  BY <1>1, <1>2 DEF Inv

LEMMA PurgeCheckKeeps ==
  ASSUME NEW w \in Workers, NEW p \in Purges, Types, Inv, PurgeCheck(w, p)
  PROVE  Inv'
<1>1. RecoveredIntact'
  BY DEF Types, Inv, TThread, RecoveredIntact, PastRecovery, TPc, PurgeCheck, Worker, PurgeDue, wsVars, dataVars, exportVars, storeVars
<1>2. PastRecovery'
  BY ResumePcs DEF Types, Inv, TPc, PastRecovery, Backs, PurgeCheck, Worker, PurgeDue, wsVars, dataVars, exportVars, storeVars
<1>3. QED
  BY <1>1, <1>2 DEF Inv

LEMMA PurgeTransitionKeeps ==
  ASSUME NEW w \in Workers, NEW p \in Purges, Types, Inv, PurgeTransition(w, p)
  PROVE  Inv'
<1>1. RecoveredIntact'
  BY DEF Types, Inv, TThread, RecoveredIntact, PastRecovery, TPc, PurgeTransition, Goto, Worker, MayStartPurge, Fenced, dataVars, exportVars, storeVars
<1>2. PastRecovery'
  BY ResumePcs DEF Types, Inv, TPc, PastRecovery, Backs, PurgeTransition, Goto, Worker, MayStartPurge, Fenced, dataVars, exportVars, storeVars
<1>3. QED
  BY <1>1, <1>2 DEF Inv

LEMMA PurgeCredentialsKeeps ==
  ASSUME NEW w \in Workers, NEW p \in Purges, Types, Inv, PurgeCredentials(w, p)
  PROVE  Inv'
<1>1. RecoveredIntact'
  BY DEF Types, Inv, TThread, RecoveredIntact, PastRecovery, TPc, PurgeCredentials, Goto, Worker, dataVars, exportVars, storeVars
<1>2. PastRecovery'
  BY ResumePcs DEF Types, Inv, TPc, PastRecovery, Backs, PurgeCredentials, Goto, Worker, dataVars, exportVars, storeVars
<1>3. QED
  BY <1>1, <1>2 DEF Inv

LEMMA PurgeThreadKeeps ==
  ASSUME NEW w \in Workers, NEW p \in Purges, Types, Inv, PurgeThread(w, p)
  PROVE  Inv'
<1>1. RecoveredIntact'
  BY DEF Types, Inv, TThread, RecoveredIntact, PastRecovery, TPc, PurgeThread, Goto, Worker, wsVars, dataVars, storeVars
<1>2. PastRecovery'
  BY ResumePcs DEF Types, Inv, TPc, PastRecovery, Backs, PurgeThread, Goto, Worker, wsVars, dataVars, storeVars
<1>3. QED
  BY <1>1, <1>2 DEF Inv

LEMMA PurgeObjectsKeeps ==
  ASSUME NEW w \in Workers, NEW p \in Purges, Types, Inv, PurgeObjects(w, p)
  PROVE  Inv'
<1>1. RecoveredIntact'
  BY DEF Types, Inv, TThread, RecoveredIntact, PastRecovery, TPc, PurgeObjects, Goto, Worker, wsVars, dataVars, exportVars
<1>2. PastRecovery'
  BY ResumePcs DEF Types, Inv, TPc, PastRecovery, Backs, PurgeObjects, Goto, Worker, wsVars, dataVars, exportVars
<1>3. QED
  BY <1>1, <1>2 DEF Inv

LEMMA PurgeCheckpointKeeps ==
  ASSUME NEW w \in Workers, NEW p \in Purges, Types, Inv, PurgeCheckpoint(w, p)
  PROVE  Inv'
<1>1. RecoveredIntact'
  BY DEF Types, Inv, TThread, RecoveredIntact, PastRecovery, TPc, PurgeCheckpoint, Goto, Worker, wsVars, dataVars, exportVars, storeVars
<1>2. PastRecovery'
  BY ResumePcs DEF Types, Inv, TPc, PastRecovery, Backs, PurgeCheckpoint, Goto, Worker, wsVars, dataVars, exportVars, storeVars
<1>3. QED
  BY <1>1, <1>2 DEF Inv

LEMMA PurgeRowsKeeps ==
  ASSUME NEW w \in Workers, NEW p \in Purges, Types, Inv, PurgeRows(w, p)
  PROVE  Inv'
<1>1. RecoveredIntact'
  BY DEF Types, Inv, TThread, RecoveredIntact, PastRecovery, TPc, PurgeRows, Goto, Return, Worker, Fenced, exportVars
<1>2. PastRecovery'
  BY ResumePcs DEF Types, Inv, TPc, PastRecovery, Backs, PurgeRows, Goto, Return, Worker, Fenced, exportVars
<1>3. QED
  BY <1>1, <1>2 DEF Inv

LEMMA PurgeExhaustedKeeps ==
  ASSUME NEW w \in Workers, NEW p \in Purges, Types, Inv, PurgeExhausted(w, p)
  PROVE  Inv'
<1>1. RecoveredIntact'
  BY DEF Types, Inv, TThread, RecoveredIntact, PastRecovery, TPc, PurgeExhausted, Return, Worker, Fenced, dataVars, exportVars, storeVars
<1>2. PastRecovery'
  BY ResumePcs DEF Types, Inv, TPc, PastRecovery, Backs, PurgeExhausted, Return, Worker, Fenced, dataVars, exportVars, storeVars
<1>3. QED
  BY <1>1, <1>2 DEF Inv

LEMMA AcquireFenceKeeps ==
  ASSUME NEW w \in Workers, NEW e \in Exports, Types, Inv, AcquireFence(w, e)
  PROVE  Inv'
<1>1. RecoveredIntact'
  BY DEF Types, Inv, TThread, RecoveredIntact, PastRecovery, TPc, AcquireFence, Goto, Exporter, wsVars, dataVars, storeVars
<1>2. PastRecovery'
  BY ResumePcs DEF Types, Inv, TPc, PastRecovery, Backs, AcquireFence, Goto, Exporter, wsVars, dataVars, storeVars
<1>3. QED
  BY <1>1, <1>2 DEF Inv

LEMMA BeginCaptureKeeps ==
  ASSUME NEW w \in Workers, NEW e \in Exports, Types, Inv, BeginCapture(w, e)
  PROVE  Inv'
<1>1. RecoveredIntact'
  BY DEF Types, Inv, TThread, RecoveredIntact, PastRecovery, TPc, BeginCapture, Exporter, Cursor, Goto, ReleaseAnd, wsVars, dataVars, storeVars
<1>2. PastRecovery'
  BY ResumePcs DEF Types, Inv, TPc, PastRecovery, Backs, BeginCapture, Exporter, Cursor, Goto, ReleaseAnd, wsVars, dataVars, storeVars
<1>3. QED
  BY <1>1, <1>2 DEF Inv

LEMMA FreezeThreadKeeps ==
  ASSUME NEW w \in Workers, NEW e \in Exports, Types, Inv, FreezeThread(w, e)
  PROVE  Inv'
<1>1. RecoveredIntact'
  BY DEF Types, Inv, TThread, RecoveredIntact, PastRecovery, TPc, FreezeThread, Goto, Exporter, wsVars, dataVars, storeVars
<1>2. PastRecovery'
  BY ResumePcs DEF Types, Inv, TPc, PastRecovery, Backs, FreezeThread, Goto, Exporter, wsVars, dataVars, storeVars
<1>3. QED
  BY <1>1, <1>2 DEF Inv

LEMMA StageMessagesKeeps ==
  ASSUME NEW w \in Workers, NEW e \in Exports, Types, Inv, StageMessages(w, e)
  PROVE  Inv'
<1>1. RecoveredIntact'
  BY DEF Types, Inv, TThread, RecoveredIntact, PastRecovery, TPc, StageMessages, Exporter, Cursor, Goto, ReleaseAnd, wsVars, dataVars, storeVars
<1>2. PastRecovery'
  BY ResumePcs DEF Types, Inv, TPc, PastRecovery, Backs, StageMessages, Exporter, Cursor, Goto, ReleaseAnd, wsVars, dataVars, storeVars
<1>3. QED
  BY <1>1, <1>2 DEF Inv

LEMMA CopyRowsKeeps ==
  ASSUME NEW w \in Workers, NEW e \in Exports, Types, Inv, CopyRows(w, e)
  PROVE  Inv'
<1>1. RecoveredIntact'
  BY DEF Types, Inv, TThread, RecoveredIntact, PastRecovery, TPc, CopyRows, Goto, Exporter, wsVars, dataVars, storeVars
<1>2. PastRecovery'
  BY ResumePcs DEF Types, Inv, TPc, PastRecovery, Backs, CopyRows, Goto, Exporter, wsVars, dataVars, storeVars
<1>3. QED
  BY <1>1, <1>2 DEF Inv

LEMMA CopyOtherRowsKeeps ==
  ASSUME NEW w \in Workers, NEW e \in Exports, Types, Inv, CopyOtherRows(w, e)
  PROVE  Inv'
<1>1. RecoveredIntact'
  BY DEF Types, Inv, TThread, RecoveredIntact, PastRecovery, TPc, CopyOtherRows, Goto, Exporter, Cursor, ReleaseAnd, wsVars, dataVars, storeVars
<1>2. PastRecovery'
  BY ResumePcs DEF Types, Inv, TPc, PastRecovery, Backs, CopyOtherRows, Goto, Exporter, Cursor, ReleaseAnd, wsVars, dataVars, storeVars
<1>3. QED
  BY <1>1, <1>2 DEF Inv

LEMMA PinObjectsKeeps ==
  ASSUME NEW w \in Workers, NEW e \in Exports, Types, Inv, PinObjects(w, e)
  PROVE  Inv'
<1>1. RecoveredIntact'
  BY DEF Types, Inv, TThread, RecoveredIntact, PastRecovery, TPc, PinObjects, ReleaseAnd, Exporter, wsVars, dataVars, storeVars
<1>2. PastRecovery'
  BY ResumePcs DEF Types, Inv, TPc, PastRecovery, Backs, PinObjects, ReleaseAnd, Exporter, wsVars, dataVars, storeVars
<1>3. QED
  BY <1>1, <1>2 DEF Inv

LEMMA ReleaseFenceKeeps ==
  ASSUME NEW w \in Workers, NEW e \in Exports, Types, Inv, ReleaseFence(w, e)
  PROVE  Inv'
<1>1. RecoveredIntact'
  BY DEF Types, Inv, TThread, RecoveredIntact, PastRecovery, TPc, ReleaseFence, Goto, Exporter, wsVars, dataVars, storeVars
<1>2. PastRecovery'
  BY ResumePcs DEF Types, Inv, TPc, PastRecovery, Backs, ReleaseFence, Goto, Exporter, wsVars, dataVars, storeVars
<1>3. QED
  BY <1>1, <1>2 DEF Inv

LEMMA UnfreezeThreadKeeps ==
  ASSUME NEW w \in Workers, NEW e \in Exports, Types, Inv, UnfreezeThread(w, e)
  PROVE  Inv'
<1>1. RecoveredIntact'
  BY DEF Types, Inv, TThread, RecoveredIntact, PastRecovery, TPc, UnfreezeThread, Goto, Return, Exporter, Recovering, wsVars, dataVars, storeVars
<1>2. PastRecovery'
  BY ResumePcs DEF Types, Inv, TPc, PastRecovery, Backs, UnfreezeThread, Goto, Return, Exporter, Recovering, wsVars, dataVars, storeVars
<1>3. QED
  BY <1>1, <1>2 DEF Inv

LEMMA DeleteFenceKeeps ==
  ASSUME NEW w \in Workers, NEW e \in Exports, Types, Inv, DeleteFence(w, e)
  PROVE  Inv'
<1>1. RecoveredIntact'
  BY DEF Types, Inv, TThread, RecoveredIntact, PastRecovery, TPc, DeleteFence, Goto, Exporter, wsVars, dataVars, storeVars
<1>2. PastRecovery'
  BY ResumePcs DEF Types, Inv, TPc, PastRecovery, Backs, DeleteFence, Goto, Exporter, wsVars, dataVars, storeVars
<1>3. QED
  BY <1>1, <1>2 DEF Inv

LEMMA RecordReleasedKeeps ==
  ASSUME NEW w \in Workers, NEW e \in Exports, Types, Inv, RecordReleased(w, e)
  PROVE  Inv'
<1>1. RecoveredIntact'
  BY DEF Types, Inv, TThread, RecoveredIntact, PastRecovery, TPc, RecordReleased, Exporter, Cursor, Goto, ReleaseAnd, wsVars, dataVars, exportVars, storeVars
<1>2. PastRecovery'
  BY ResumePcs DEF Types, Inv, TPc, PastRecovery, Backs, RecordReleased, Exporter, Cursor, Goto, ReleaseAnd, wsVars, dataVars, exportVars, storeVars
<1>3. QED
  BY <1>1, <1>2 DEF Inv

LEMMA BeginAssemblyKeeps ==
  ASSUME NEW w \in Workers, NEW e \in Exports, Types, Inv, BeginAssembly(w, e)
  PROVE  Inv'
<1>1. RecoveredIntact'
  BY DEF Types, Inv, TThread, RecoveredIntact, PastRecovery, TPc, BeginAssembly, Goto, Exporter, wsVars, dataVars, exportVars, storeVars
<1>2. PastRecovery'
  BY ResumePcs DEF Types, Inv, TPc, PastRecovery, Backs, BeginAssembly, Goto, Exporter, wsVars, dataVars, exportVars, storeVars
<1>3. QED
  BY <1>1, <1>2 DEF Inv

LEMMA GatherEntriesKeeps ==
  ASSUME NEW w \in Workers, NEW e \in Exports, Types, Inv, GatherEntries(w, e)
  PROVE  Inv'
<1>1. RecoveredIntact'
  BY DEF Types, Inv, TThread, RecoveredIntact, PastRecovery, TPc, GatherEntries, Exporter, wsVars, dataVars, exportVars, storeVars
<1>2. PastRecovery'
  BY ResumePcs DEF Types, Inv, TPc, PastRecovery, Backs, GatherEntries, Exporter, wsVars, dataVars, exportVars, storeVars
<1>3. QED
  BY <1>1, <1>2 DEF Inv

LEMMA PutArchiveKeeps ==
  ASSUME NEW w \in Workers, NEW e \in Exports, Types, Inv, PutArchive(w, e)
  PROVE  Inv'
<1>1. RecoveredIntact'
  BY DEF Types, Inv, TThread, RecoveredIntact, PastRecovery, TPc, PutArchive, Goto, Exporter, wsVars, dataVars, exportVars
<1>2. PastRecovery'
  BY ResumePcs DEF Types, Inv, TPc, PastRecovery, Backs, PutArchive, Goto, Exporter, wsVars, dataVars, exportVars
<1>3. QED
  BY <1>1, <1>2 DEF Inv

LEMMA PublishArchiveKeeps ==
  ASSUME NEW w \in Workers, NEW e \in Exports, Types, Inv, PublishArchive(w, e)
  PROVE  Inv'
<1>1. RecoveredIntact'
  BY DEF Types, Inv, TThread, RecoveredIntact, PastRecovery, TPc, PublishArchive, Goto, Exporter, wsVars, dataVars, exportVars, storeVars
<1>2. PastRecovery'
  BY ResumePcs DEF Types, Inv, TPc, PastRecovery, Backs, PublishArchive, Goto, Exporter, wsVars, dataVars, exportVars, storeVars
<1>3. QED
  BY <1>1, <1>2 DEF Inv

LEMMA DeleteArchiveKeeps ==
  ASSUME NEW w \in Workers, NEW e \in Exports, Types, Inv, DeleteArchive(w, e)
  PROVE  Inv'
<1>1. RecoveredIntact'
  BY DEF Types, Inv, TThread, RecoveredIntact, PastRecovery, TPc, DeleteArchive, Goto, Exporter, wsVars, dataVars, exportVars
<1>2. PastRecovery'
  BY ResumePcs DEF Types, Inv, TPc, PastRecovery, Backs, DeleteArchive, Goto, Exporter, wsVars, dataVars, exportVars
<1>3. QED
  BY <1>1, <1>2 DEF Inv

LEMMA ClearSnapshotKeeps ==
  ASSUME NEW w \in Workers, NEW e \in Exports, Types, Inv, ClearSnapshot(w, e)
  PROVE  Inv'
<1>1. RecoveredIntact'
  BY DEF Types, Inv, TThread, RecoveredIntact, PastRecovery, TPc, ClearSnapshot, Return, Exporter, wsVars, dataVars, storeVars
<1>2. PastRecovery'
  BY ResumePcs DEF Types, Inv, TPc, PastRecovery, Backs, ClearSnapshot, Return, Exporter, wsVars, dataVars, storeVars
<1>3. QED
  BY <1>1, <1>2 DEF Inv

LEMMA RecoverFenceKeeps ==
  ASSUME NEW w \in Workers, NEW e \in Exports, Types, Inv, RecoverFence(w, e)
  PROVE  Inv'
<1>1. RecoveredIntact'
  BY DEF Types, Inv, TThread, RecoveredIntact, PastRecovery, TPc, RecoverFence, StartTick, At, wsVars, dataVars, exportVars, storeVars
<1>2. PastRecovery'
  BY ResumePcs DEF Types, Inv, TPc, PastRecovery, Backs, RecoverFence, StartTick, At, wsVars, dataVars, exportVars, storeVars
<1>3. QED
  BY <1>1, <1>2 DEF Inv

LEMMA RequeueExportKeeps ==
  ASSUME NEW w \in Workers, NEW e \in Exports, Types, Inv, RequeueExport(w, e)
  PROVE  Inv'
<1>1. RecoveredIntact'
  BY DEF Types, Inv, TThread, RecoveredIntact, PastRecovery, TPc, RequeueExport, Return, Exporter, wsVars, dataVars, storeVars
<1>2. PastRecovery'
  BY ResumePcs DEF Types, Inv, TPc, PastRecovery, Backs, RequeueExport, Return, Exporter, wsVars, dataVars, storeVars
<1>3. QED
  BY <1>1, <1>2 DEF Inv

LEMMA ExportExhaustedKeeps ==
  ASSUME NEW w \in Workers, NEW e \in Exports, Types, Inv, ExportExhausted(w, e)
  PROVE  Inv'
<1>1. RecoveredIntact'
  BY DEF Types, Inv, TThread, RecoveredIntact, PastRecovery, TPc, ExportExhausted, Return, Exporter, Fenced, dataVars, storeVars
<1>2. PastRecovery'
  BY ResumePcs DEF Types, Inv, TPc, PastRecovery, Backs, ExportExhausted, Return, Exporter, Fenced, dataVars, storeVars
<1>3. QED
  BY <1>1, <1>2 DEF Inv

LEMMA ThreadGoesStaleKeeps ==
  ASSUME Types, Inv, ThreadGoesStale
  PROVE  Inv'
<1>1. RecoveredIntact'
  BY DEF Types, Inv, TThread, RecoveredIntact, PastRecovery, TPc, ThreadGoesStale, wsVars, dataVars, storeVars, workerVars
<1>2. PastRecovery'
  BY ResumePcs DEF Types, Inv, TPc, PastRecovery, Backs, ThreadGoesStale, wsVars, dataVars, storeVars, workerVars
<1>3. QED
  BY <1>1, <1>2 DEF Inv

LEMMA ChatSweepPurgeKeeps ==
  ASSUME Types, Inv, ChatSweepPurge
  PROVE  Inv'
<1>1. RecoveredIntact'
  BY DEF Types, Inv, TThread, RecoveredIntact, PastRecovery, TPc, ChatSweepPurge, wsVars, workerVars
<1>2. PastRecovery'
  BY ResumePcs DEF Types, Inv, TPc, PastRecovery, Backs, ChatSweepPurge, wsVars, workerVars
<1>3. QED
  BY <1>1, <1>2 DEF Inv

LEMMA ChatSweepMarkKeeps ==
  ASSUME Types, Inv, ChatSweepMark
  PROVE  Inv'
<1>1. RecoveredIntact'
  BY DEF Types, Inv, TThread, RecoveredIntact, PastRecovery, TPc, ChatSweepMark, Fenced, wsVars, dataVars, workerVars
<1>2. PastRecovery'
  BY ResumePcs DEF Types, Inv, TPc, PastRecovery, Backs, ChatSweepMark, Fenced, wsVars, dataVars, workerVars
<1>3. QED
  BY <1>1, <1>2 DEF Inv

LEMMA WriteMessageKeeps ==
  ASSUME Types, Inv, WriteMessage
  PROVE  Inv'
<1>1. RecoveredIntact'
  BY DEF Types, Inv, TThread, RecoveredIntact, PastRecovery, TPc, WriteMessage, wsVars, storeVars, workerVars
<1>2. PastRecovery'
  BY ResumePcs DEF Types, Inv, TPc, PastRecovery, Backs, WriteMessage, wsVars, storeVars, workerVars
<1>3. QED
  BY <1>1, <1>2 DEF Inv

LEMMA SelectJobKeeps ==
  ASSUME NEW w \in Workers, NEW j \in Jobs, Types, Inv, SelectJob(w, j)
  PROVE  Inv'
<1>1. RecoveredIntact'
  BY DEF Types, Inv, TThread, RecoveredIntact, PastRecovery, TPc, SelectJob, StartTick, At, wsVars, dataVars, exportVars, storeVars
<1>2. PastRecovery'
  BY ResumePcs DEF Types, Inv, TPc, PastRecovery, Backs, SelectJob, StartTick, At, wsVars, dataVars, exportVars, storeVars
<1>3. QED
  BY <1>1, <1>2 DEF Inv

LEMMA CheckQuiescenceKeeps ==
  ASSUME NEW w \in Workers, NEW j \in Jobs, Types, Inv, CheckQuiescence(w, j)
  PROVE  Inv'
<1>1. RecoveredIntact'
  BY DEF Types, Inv, TThread, RecoveredIntact, PastRecovery, TPc, CheckQuiescence, Goto, Return, At, wsVars, dataVars, exportVars, storeVars
<1>2. PastRecovery'
  BY ResumePcs DEF Types, Inv, TPc, PastRecovery, Backs, CheckQuiescence, Goto, Return, At, wsVars, dataVars, exportVars, storeVars
<1>3. QED
  BY <1>1, <1>2 DEF Inv

LEMMA ClaimJobKeeps ==
  ASSUME NEW w \in Workers, NEW j \in Jobs, Types, Inv, ClaimJob(w, j)
  PROVE  Inv'
<1>1. RecoveredIntact'
  BY DEF Types, Inv, TThread, RecoveredIntact, PastRecovery, TPc, ClaimJob, Goto, Return, At, wsVars, dataVars, exportVars, storeVars
<1>2. PastRecovery'
  BY ResumePcs DEF Types, Inv, TPc, PastRecovery, Backs, ClaimJob, Goto, Return, At, wsVars, dataVars, exportVars, storeVars
<1>3. QED
  BY <1>1, <1>2 DEF Inv

LEMMA RecordFailureKeeps ==
  ASSUME NEW w \in Workers, NEW j \in Jobs, Types, Inv, RecordFailure(w, j)
  PROVE  Inv'
<1>1. RecoveredIntact'
  BY DEF Types, Inv, TThread, RecoveredIntact, PastRecovery, TPc, RecordFailure, Goto, Return, ReleaseAnd, At, wsVars, dataVars, exportVars, storeVars
<1>2. PastRecovery'
  BY ResumePcs DEF Types, Inv, TPc, PastRecovery, Backs, RecordFailure, Goto, Return, ReleaseAnd, At, wsVars, dataVars, exportVars, storeVars
<1>3. QED
  BY <1>1, <1>2 DEF Inv

LEMMA CallFailsKeeps ==
  ASSUME NEW w \in Workers, Types, Inv, CallFails(w)
  PROVE  Inv'
<1>1. RecoveredIntact'
  BY DEF Types, Inv, TThread, RecoveredIntact, PastRecovery, TPc, CallFails, Goto, wsVars, dataVars, exportVars, storeVars
<1>2. PastRecovery'
  BY ResumePcs DEF Types, Inv, TPc, PastRecovery, Backs, CallFails, Goto, wsVars, dataVars, exportVars, storeVars
<1>3. QED
  BY <1>1, <1>2 DEF Inv

LEMMA WorkerCrashKeeps ==
  ASSUME NEW w \in Workers, Types, Inv, WorkerCrash(w)
  PROVE  Inv'
<1>1. RecoveredIntact'
  BY DEF Types, Inv, TThread, RecoveredIntact, PastRecovery, TPc, WorkerCrash, Return, wsVars, dataVars, exportVars, storeVars
<1>2. PastRecovery'
  BY ResumePcs DEF Types, Inv, TPc, PastRecovery, Backs, WorkerCrash, Return, wsVars, dataVars, exportVars, storeVars
<1>3. QED
  BY <1>1, <1>2 DEF Inv

(* The other actions change nothing of it.                                 *)
LEMMA OthersKeep ==
  ASSUME Inv, UNCHANGED <<pc, back, thread, ws, rows, receipts>>
  PROVE  Inv'
  BY DEF Inv, RecoveredIntact, PastRecovery

-------------------------------------------------------------------------------
(* What a purge has recorded is gone *)

(* What most steps have in common: a worker goes on, or stops, and takes   *)
(* nothing up; no export begins and no phase of a purge is recorded.       *)
WorkerGoes(w) ==
  /\ \A v \in Workers \ {w} : pc'[v] = pc[v] /\ back'[v] = back[v] /\ proc'[v] = proc[v]
  /\ proc'[w].job = proc[w].job \/ proc'[w].job = None
  /\ proc'[w].phase = proc[w].phase \/ proc'[w].job = None
  /\ pc'[w] \notin {"mark", "transition"}
  /\ (pc'[w] \notin {"polled", "claim"} /\ proc'[w].job \in Exports /\ ~Recovering(w)') =>
       (pc[w] \notin {"polled", "claim"} /\ ~Recovering(w))
  /\ Recovering(w)' => pc'[w] \in {"releasing", "unfreeze", "unfence", "requeue"}

JobsGo ==
  /\ \A p \in Purges : job'[p].phase = job[p].phase
  /\ \A e \in Exports :
       /\ job'[e].status \in {"queued", "running"} => job[e].status \in {"queued", "running"}
       /\ job[e].status \in {"completed", "expired"} => job'[e].status = job[e].status
       /\ job'[e].stored = job[e].stored

Spends == bound'.faults <= bound.faults /\ bound'.crashes <= bound.crashes

LEMMA SpendsKeeps ==
  ASSUME Types, Types', BoundLe, Spends
  PROVE  BoundLe' /\ (Calm' => Calm)
<1>1. MaxFaults \in Nat /\ MaxCrashes \in Nat
  BY WorkspaceAssumption
<1>2. bound.faults \in Nat /\ bound.crashes \in Nat /\ bound'.faults \in Nat /\ bound'.crashes \in Nat
  BY DEF Types, TBound
<1>3. QED
  BY <1>1, <1>2 DEF BoundLe, Calm, Spends

LEMMA FaultSpends ==
  ASSUME Types, BoundLe, bound.faults > 0, bound' = [bound EXCEPT !.faults = @ - 1]
  PROVE  Spends /\ ~Calm'
<1>1. bound.faults \in Nat /\ bound.crashes \in Nat /\ MaxFaults \in Nat
  BY WorkspaceAssumption DEF Types, TBound
<1>2. bound'.faults = bound.faults - 1 /\ bound'.crashes = bound.crashes
  BY DEF Types, TBound
<1>3. QED
  BY <1>1, <1>2 DEF Spends, Calm, BoundLe

LEMMA CrashSpends ==
  ASSUME Types, BoundLe, bound.crashes > 0, bound' = [bound EXCEPT !.crashes = @ - 1]
  PROVE  Spends /\ ~Calm'
<1>1. bound.faults \in Nat /\ bound.crashes \in Nat /\ MaxCrashes \in Nat
  BY WorkspaceAssumption DEF Types, TBound
<1>2. bound'.crashes = bound.crashes - 1 /\ bound'.faults = bound.faults
  BY DEF Types, TBound
<1>3. QED
  BY <1>1, <1>2 DEF Spends, Calm, BoundLe

LEMMA NothingSpent ==
  ASSUME Types, UNCHANGED bound
  PROVE  Spends
  BY DEF Spends, Types, TBound

LEMMA ResumesExport == \A p : ResumeAt(p) \notin {"mark", "transition", "polled", "claim"}
  BY DEF ExportPhases, ResumeAt, Resume

LEMMA WorkerKeeps ==
  ASSUME NEW w \in Workers, Types, Types', ErasureInv, WorkerGoes(w), JobsGo, Spends,
         UNCHANGED <<ws, due, rows, creds, receipts, art, store, obj>>,
         thread'.purged = thread.purged,
         pc[w] \in {"publish", "unput"} => ~Calm'
  PROVE  ErasureInv'
<1>0. BoundLe' /\ (Calm' => Calm)
  BY SpendsKeeps DEF ErasureInv
<1>n. None \notin Purges /\ None \notin Exports
  BY WorkspaceAssumption
<1>1. MarksInOrder'
  BY DEF ErasureInv, MarksInOrder, WorkerGoes
<1>2. QuietWhenDue'
  <2>1. \A e \in Exports : Working(e)' => Working(e)
    BY <1>n DEF Working, WorkerGoes, Recovering
  <2>2. \A e \in Exports : job'[e].status \in {"queued", "running"} => job[e].status \in {"queued", "running"}
    BY DEF JobsGo
  <2>3. QED
    BY <2>1, <2>2 DEF ErasureInv, QuietWhenDue, Late
<1>3. ReadBefore'
  BY DEF ErasureInv, ReadBefore, WorkerGoes
<1>4. RecoversOnly'
  BY DEF ErasureInv, RecoversOnly, Recovering, WorkerGoes
<1>5. ReceiptInv'
  BY DEF ErasureInv, ReceiptInv
<1>6. (ThreadDone' => ThreadDone) /\ (ObjectsDone' => ObjectsDone)
  <2>1. \A v \in Workers : proc'[v].job \in Purges => (proc[v].job \in Purges /\ proc'[v].phase = proc[v].phase)
    BY <1>n DEF WorkerGoes
  <2>2. \A v \in Workers : pc'[v] = "mark" => (pc[v] = "mark" /\ proc'[v].phase = proc[v].phase)
    BY DEF WorkerGoes
  <2>3. \A p \in Purges : job'[p].phase = job[p].phase
    BY DEF JobsGo
  <2>4. QED
    BY <2>1, <2>2, <2>3 DEF ThreadDone, ObjectsDone
<1>7. ThreadInv'
  BY <1>6 DEF ErasureInv, ThreadInv
<1>8. UploadInv'
  BY DEF ErasureInv, UploadInv
<1>9. ExpiringInv' /\ StoredInv'
  BY DEF ErasureInv, ExpiringInv, StoredInv, JobsGo
<1>10. DoneLate'
  BY <1>6 DEF ErasureInv, DoneLate, Late
<1>11. KnownArtifact'
  BY <1>0 DEF ErasureInv, KnownArtifact
<1>12. KnownArchives'
  <2>1. \A e \in Exports : (Calm' /\ Putting(e)) => Putting(e)'
    BY DEF Putting, WorkerGoes
  <2>2. \A e \in Exports : job'[e].stored = job[e].stored
    BY DEF JobsGo
  <2>3. QED
    BY <1>0, <2>1, <2>2 DEF ErasureInv, KnownArchives
<1>13. EmptyStore'
  BY <1>0, <1>6 DEF ErasureInv, EmptyStore
<1>14. QED
  BY <1>0, <1>1, <1>2, <1>3, <1>4, <1>5, <1>7, <1>8, <1>9, <1>10, <1>11, <1>12, <1>13 DEF ErasureInv

(* A step of a request, of a retention sweep or of time.                   *)
LEMMA RequestKeeps ==
  ASSUME Types, Types', ErasureInv, JobsGo, Spends,
         UNCHANGED <<pc, back, proc, ws, due, rows, receipts, art, store, obj>>,
         creds' = creds \/ creds' = FALSE, thread'.purged = thread.purged
  PROVE  ErasureInv'
<1>0. BoundLe' /\ (Calm' => Calm)
  BY SpendsKeeps DEF ErasureInv
<1>1. MarksInOrder' /\ ReadBefore' /\ RecoversOnly' /\ UploadInv'
  BY DEF ErasureInv, MarksInOrder, ReadBefore, RecoversOnly, Recovering, UploadInv
<1>2. QuietWhenDue'
  BY DEF ErasureInv, QuietWhenDue, Late, Working, Recovering, JobsGo
<1>3. ReceiptInv'
  BY DEF ErasureInv, ReceiptInv, Types, TFlags
<1>4. (ThreadDone' => ThreadDone) /\ (ObjectsDone' => ObjectsDone)
  BY DEF ThreadDone, ObjectsDone, JobsGo
<1>5. ThreadInv' /\ DoneLate' /\ EmptyStore'
  BY <1>0, <1>4 DEF ErasureInv, ThreadInv, DoneLate, Late, EmptyStore
<1>6. ExpiringInv' /\ StoredInv'
  BY DEF ErasureInv, ExpiringInv, StoredInv, JobsGo
<1>7. KnownArtifact'
  BY <1>0 DEF ErasureInv, KnownArtifact
<1>8. KnownArchives'
  BY <1>0 DEF ErasureInv, KnownArchives, Putting, JobsGo
<1>9. QED
  BY <1>0, <1>1, <1>2, <1>3, <1>5, <1>6, <1>7, <1>8 DEF ErasureInv

(* A step on the artifact and its object.                                  *)
LEMMA StoreKeeps ==
  ASSUME Types, Types', ErasureInv, Spends,
         UNCHANGED <<pc, back, proc, job, ws, due, rows, receipts, creds>>,
         thread'.purged = thread.purged, store'.expiring = store.expiring,
         \A e \in Exports : e \in obj' => e \in obj,
         store'.upload = "idle" \/ store.upload # "idle" \/ ws.status = "active",
         UploadInv', KnownArtifact', EmptyStore'
  PROVE  ErasureInv'
<1>0. BoundLe' /\ (Calm' => Calm)
  BY SpendsKeeps DEF ErasureInv
<1>1. MarksInOrder' /\ ReadBefore' /\ RecoversOnly'
  BY DEF ErasureInv, MarksInOrder, ReadBefore, RecoversOnly, Recovering
<1>2. QuietWhenDue'
  BY DEF ErasureInv, QuietWhenDue, Late, Working, Recovering
<1>3. ReceiptInv'
  BY DEF ErasureInv, ReceiptInv
<1>4. (ThreadDone' => ThreadDone) /\ (ObjectsDone' => ObjectsDone)
  BY DEF ThreadDone, ObjectsDone
<1>5. ThreadInv' /\ DoneLate'
  BY <1>4 DEF ErasureInv, ThreadInv, DoneLate, Late
<1>6. ExpiringInv' /\ StoredInv'
  BY DEF ErasureInv, ExpiringInv, StoredInv
<1>7. KnownArchives'
  BY <1>0 DEF ErasureInv, KnownArchives, Putting
<1>8. QED
  BY <1>0, <1>1, <1>2, <1>3, <1>5, <1>6, <1>7 DEF ErasureInv

(* One row of control_data_jobs changes.                                   *)
LEMMA RowGoes ==
  ASSUME NEW j \in Jobs, NEW r, Types, job' = [job EXCEPT ![j] = r],
         j \in Purges => r.phase = job[j].phase,
         r.status \in {"queued", "running"} => job[j].status \in {"queued", "running"},
         job[j].status \in {"completed", "expired"} => r.status = job[j].status,
         r.stored = job[j].stored
  PROVE  JobsGo
<1>1. DOMAIN job = Jobs /\ Purges \subseteq Jobs /\ Exports \subseteq Jobs
  BY RowFacts DEF Types, TJob
<1>2. \A i \in Jobs : job'[i] = IF i = j THEN r ELSE job[i]
  BY <1>1
<1>3. \A p \in Purges : job'[p].phase = job[p].phase
  BY <1>1, <1>2
<1>4. ASSUME NEW e \in Exports
      PROVE  /\ job'[e].status \in {"queued", "running"} => job[e].status \in {"queued", "running"}
             /\ job[e].status \in {"completed", "expired"} => job'[e].status = job[e].status
             /\ job'[e].stored = job[e].stored
  <2>1. CASE e = j
    BY <1>1, <1>2, <2>1
  <2>2. CASE e # j
    BY <1>1, <1>2, <2>2
  <2>3. QED
    BY <2>1, <2>2
<1>5. QED
  BY <1>3, <1>4 DEF JobsGo

LEMMA JobsStay == ASSUME job' = job PROVE JobsGo
  BY DEF JobsGo

(* A step on the rows of the workspace and of its jobs: no worker moves.   *)
LEMMA RowsKeep ==
  ASSUME Types, Types', ErasureInv, Spends,
         UNCHANGED <<pc, back, proc, rows, receipts, creds, art, store, obj>>,
         thread'.purged = thread.purged,
         \A p \in Purges : job'[p].phase \in {job[p].phase, "started"},
         \A e \in Exports : /\ job'[e].stored = job[e].stored
                            /\ job[e].status \in {"completed", "expired"} => job'[e].status = job[e].status,
         ws.status # "gone" /\ ws'.status # "gone", Late => Late', QuietWhenDue', ReadBefore'
  PROVE  ErasureInv'
<1>0. BoundLe' /\ (Calm' => Calm)
  BY SpendsKeeps DEF ErasureInv
<1>1. MarksInOrder' /\ RecoversOnly' /\ UploadInv'
  BY DEF ErasureInv, MarksInOrder, RecoversOnly, Recovering, UploadInv
<1>2. ReceiptInv'
  BY DEF ErasureInv, ReceiptInv
<1>3. (ThreadDone' => ThreadDone) /\ (ObjectsDone' => ObjectsDone)
  BY DEF ThreadDone, ObjectsDone, ThreadPhases
<1>4. ThreadInv' /\ DoneLate' /\ EmptyStore'
  BY <1>0, <1>3 DEF ErasureInv, ThreadInv, DoneLate, EmptyStore
<1>5. ExpiringInv' /\ StoredInv'
  BY DEF ErasureInv, ExpiringInv, StoredInv
<1>6. KnownArtifact'
  BY <1>0 DEF ErasureInv, KnownArtifact
<1>7. KnownArchives'
  BY <1>0 DEF ErasureInv, KnownArchives, Putting
<1>8. QED
  BY <1>0, <1>1, <1>2, <1>3, <1>4, <1>5, <1>6, <1>7 DEF ErasureInv

(* Where a worker of a purge deletes, nothing else is under way.           *)
LEMMA QuietWhere ==
  ASSUME ErasureInv, Late, NEW e \in Exports
  PROVE  store.upload = "idle" /\ job[e].status \notin {"queued", "running"} /\ ~Working(e) /\ ~Putting(e)
<1>1. store.upload = "idle" /\ job[e].status \notin {"queued", "running"} /\ ~Working(e)
  BY DEF ErasureInv, QuietWhenDue
<1>2. ~Putting(e)
  BY <1>1 DEF ErasureInv, RecoversOnly, Recovering, Putting, Working
<1>3. QED
  BY <1>1, <1>2

LEMMA ActsLate ==
  ASSUME Inv, NEW w \in Workers, pc[w] \in {"act", "mark"}
  PROVE  Late
  BY DEF Inv, PastRecovery, Late

LEMMA StartSpends ==
  ASSUME Types, BoundLe, NEW w \in Workers, StartTick(w)
  PROVE  Spends
<1>1. bound.faults \in Nat /\ bound.crashes \in Nat
  BY DEF Types, TBound
<1>2. CASE UNCHANGED bound
  BY <1>2, NothingSpent
<1>3. CASE bound' = [b \in DOMAIN bound |-> 0]
  <2>1. bound'.faults = 0 /\ bound'.crashes = 0
    BY <1>3 DEF Types, TBound
  <2>2. QED
    BY <1>1, <2>1 DEF Spends
<1>4. QED
  BY <1>2, <1>3 DEF StartTick

LEMMA SameKeeps ==
  ASSUME Types, ErasureInv,
         UNCHANGED <<pc, back, proc, job, ws, due, rows, receipts, creds, art, store, obj, bound>>, thread' = thread
  PROVE  ErasureInv'
<1>1. QuietWhenDue' /\ ReadBefore'
  BY DEF ErasureInv, QuietWhenDue, ReadBefore, Late, Working, Recovering
<1>2. MarksInOrder' /\ BoundLe' /\ RecoversOnly' /\ UploadInv' /\ ReceiptInv' /\ ExpiringInv' /\ StoredInv'
  BY DEF ErasureInv, MarksInOrder, BoundLe, RecoversOnly, Recovering, UploadInv, ReceiptInv, ExpiringInv, StoredInv
<1>3. (ThreadDone' => ThreadDone) /\ (ObjectsDone' => ObjectsDone)
  BY DEF ThreadDone, ObjectsDone
<1>4. ThreadInv' /\ DoneLate' /\ EmptyStore'
  BY <1>3 DEF ErasureInv, ThreadInv, DoneLate, Late, EmptyStore, Calm
<1>5. KnownArtifact' /\ KnownArchives'
  BY DEF ErasureInv, KnownArtifact, KnownArchives, Calm, Putting
<1>6. QED
  BY <1>1, <1>2, <1>4, <1>5 DEF ErasureInv

LEMMA DeletionCommitErasure ==
  ASSUME Types, Inv, ErasureInv, DeletionCommit
  PROVE  ErasureInv'
<1>1. Types'
  BY DeletionCommitTypes DEF ErasureInv
<1>2. UNCHANGED <<pc, back, proc, rows, receipts, creds, art, store, obj>> /\ thread' = thread /\ bound' = bound
  BY DEF DeletionCommit, dataVars, exportVars, storeVars, workerVars
<1>3. Spends
  BY <1>2, NothingSpent
<1>4. CASE UNCHANGED <<ws, due, job>>
  BY <1>2, <1>4, SameKeeps
<1>5. CASE ~Fenced /\ ws.status = "active" /\ ws.v = req.deletion.v
  <2>1. ws' = [status |-> "quarantined", v |-> ws.v + 1] /\ due' = FALSE
    BY <1>5 DEF DeletionCommit
  <2>2. PICK p \in Purges : job' = [job EXCEPT ![p] = [NoJobRow EXCEPT !.status = "queued"]]
    BY <1>5 DEF DeletionCommit
  <2>3. PICK r : r = [NoJobRow EXCEPT !.status = "queued"]
    OBVIOUS
  <2>4. r.phase = "started"
    BY <2>3 DEF NoJobRow
  <2>5. job' = [job EXCEPT ![p] = r] /\ DOMAIN job = Jobs /\ Purges \subseteq Jobs /\ Exports \subseteq Jobs
    BY <2>2, <2>3, RowFacts DEF Types, TJob
  <2>6. \A q \in Purges : job'[q].phase \in {job[q].phase, "started"}
    BY <2>4, <2>5
  <2>7. \A e \in Exports : job'[e] = job[e]
    BY <2>5, WorkspaceAssumption
  <2>8. ws'.status = "quarantined" /\ ws'.v = ws.v + 1 /\ ws.v \in Nat
    BY <2>1 DEF Types, TWs
  <2>9. QuietWhenDue'
    BY <2>1, <2>8 DEF QuietWhenDue, Late
  <2>10. ReadBefore'
    <3>1. SUFFICES ASSUME NEW w \in Workers, pc[w] = "transition"
                   PROVE  proc[w].v <= ws'.v /\ proc[w].v # ws'.v
      BY <1>2 DEF ReadBefore
    <3>2. proc[w].v <= ws.v /\ proc[w].v \in Nat
      BY <3>1 DEF ErasureInv, ReadBefore, Types, TProc, ProcRows
    <3>3. QED
      BY <2>8, <3>2
  <2>11. ~Late
    BY <1>5 DEF Late
  <2>12. QED
    BY <1>1, <1>2, <1>3, <1>5, <2>6, <2>7, <2>8, <2>9, <2>10, <2>11, RowsKeep
<1>6. CASE Fenced \/ ws.status # "active" \/ ws.v # req.deletion.v
  BY <1>4, <1>6 DEF DeletionCommit
<1>7. QED
  BY <1>5, <1>6

LEMMA RecoveryCommitErasure ==
  ASSUME Types, Inv, ErasureInv, RecoveryCommit
  PROVE  ErasureInv'
<1>1. Types'
  BY RecoveryCommitTypes DEF ErasureInv
<1>2. UNCHANGED <<pc, back, proc, rows, receipts, creds, art, store, obj>> /\ thread' = thread /\ bound' = bound
  BY DEF RecoveryCommit, dataVars, exportVars, storeVars, workerVars
<1>3. Spends
  BY <1>2, NothingSpent
<1>4. CASE UNCHANGED <<ws, due, job>>
  BY <1>2, <1>4, SameKeeps
<1>5. CASE Recoverable /\ ~Fenced
  <2>1. ws' = [status |-> "active", v |-> ws.v + 1]
    BY <1>5 DEF RecoveryCommit
  <2>2. job' = [j \in Jobs |-> IF j \in Purges /\ job[j].status \in {"queued", "running"}
                               THEN [job[j] EXCEPT !.status = "cancelled"] ELSE job[j]]
    BY <1>5 DEF RecoveryCommit
  <2>3. \A q \in Purges : job'[q].phase \in {job[q].phase, "started"}
    BY <2>2, RowFacts DEF Types, TJob, JobRows
  <2>4. \A e \in Exports : job'[e] = job[e]
    BY <2>2, RowFacts, WorkspaceAssumption
  <2>5. ws'.status = "active" /\ ws'.v = ws.v + 1 /\ ws.v \in Nat
    BY <2>1 DEF Types, TWs
  <2>6. QuietWhenDue'
    BY <2>5 DEF QuietWhenDue, Late
  <2>7. ReadBefore'
    BY <1>2, <2>5 DEF ErasureInv, ReadBefore, Types, TProc, ProcRows
  <2>8. ws.status = "quarantined"
    BY <1>5 DEF Recoverable
  <2>9. ~Late
    BY <2>8 DEF Late
  <2>10. QED
    BY <1>1, <1>2, <1>3, <2>3, <2>4, <2>5, <2>6, <2>7, <2>8, <2>9, RowsKeep
<1>6. QED
  BY <1>4, <1>5 DEF RecoveryCommit

LEMMA RecoveryPeriodEndsErasure ==
  ASSUME Types, Inv, ErasureInv, RecoveryPeriodEnds
  PROVE  ErasureInv'
<1>1. Types'
  BY RecoveryPeriodEndsTypes DEF ErasureInv
<1>2. UNCHANGED <<pc, back, proc, job, ws, rows, receipts, creds, art, store, obj>> /\ thread' = thread /\ bound' = bound
  BY DEF RecoveryPeriodEnds, dataVars, exportVars, storeVars, workerVars
<1>3. Spends
  BY <1>2, NothingSpent
<1>4. ws.status = "quarantined" /\ due' = TRUE
  BY DEF RecoveryPeriodEnds
<1>5. store.upload = "idle" /\ \A e \in Exports : job[e].status \notin {"queued", "running"} /\ ~Working(e)
  BY DEF RecoveryPeriodEnds, Jobs
<1>6. QuietWhenDue'
  BY <1>2, <1>5 DEF QuietWhenDue, Working, Recovering
<1>7. ReadBefore'
  BY <1>2, <1>4 DEF ErasureInv, ReadBefore
<1>8. Late => Late'
  BY <1>2 DEF Late
<1>9. QED
  BY <1>1, <1>2, <1>3, <1>4, <1>6, <1>7, <1>8, RowsKeep

LEMMA RetryPurgeErasure ==
  ASSUME NEW p \in Purges, NEW b \in BOOLEAN, Types, Inv, ErasureInv, RetryPurge(p, b)
  PROVE  ErasureInv'
<1>1. Types'
  BY RetryPurgeTypes DEF ErasureInv
<1>2. UNCHANGED <<pc, back, proc, due, rows, receipts, creds, art, store, obj>> /\ thread' = thread
  BY DEF RetryPurge, QueueFailedPurge, dataVars, exportVars, storeVars, workerVars
<1>3. Spends
  BY DEF RetryPurge, QueueFailedPurge, Spends, Types, TBound
<1>4. ws.status = "failed" /\ ws' = [status |-> "purging", v |-> ws.v + 1]
  BY DEF RetryPurge, QueueFailedPurge
<1>5. ws'.status = "purging" /\ ws'.v = ws.v + 1 /\ ws.v \in Nat
  BY <1>4 DEF Types, TWs
<1>6. PICK r : r = [job[p] EXCEPT !.status = "queued", !.leased = FALSE]
  OBVIOUS
<1>7. job' = [job EXCEPT ![p] = r]
  BY <1>6 DEF RetryPurge, QueueFailedPurge
<1>8. DOMAIN job = Jobs /\ Purges \subseteq Jobs /\ Exports \subseteq Jobs
  BY RowFacts DEF Types, TJob
<1>9. r.phase = job[p].phase
  BY <1>6, <1>8 DEF Types, TJob, JobRows
<1>10. \A q \in Purges : job'[q].phase \in {job[q].phase, "started"}
  BY <1>7, <1>8, <1>9
<1>11. \A e \in Exports : job'[e] = job[e]
  BY <1>7, <1>8, WorkspaceAssumption
<1>12. Late /\ Late'
  BY <1>4, <1>5 DEF Late
<1>13. QuietWhenDue'
  BY <1>2, <1>11, <1>12 DEF ErasureInv, QuietWhenDue, Working, Recovering
<1>14. ReadBefore'
  BY <1>2, <1>5 DEF ErasureInv, ReadBefore, Types, TProc, ProcRows
<1>15. QED
  BY <1>1, <1>2, <1>3, <1>4, <1>5, <1>10, <1>11, <1>12, <1>13, <1>14, RowsKeep

LEMMA PurgeCheckErasure ==
  ASSUME NEW w \in Workers, NEW p \in Purges, Types, Inv, ErasureInv, PurgeCheck(w, p)
  PROVE  ErasureInv'
<1>1. Types'
  BY PurgeCheckTypes DEF ErasureInv
<1>2. MarksInOrder'
  BY DEF ErasureInv, Types, MarksInOrder, TPc, TProc, ProcRows, PurgeCheck, Worker, PurgeDue, wsVars, dataVars, exportVars, storeVars
<1>3. QuietWhenDue'
  BY DEF ErasureInv, Types, QuietWhenDue, Late, Working, Recovering, TWs, TFlags, TStore, TJob, TProc, TPc, JobRows, ProcRows, PurgeCheck, Worker, PurgeDue, wsVars, dataVars, exportVars, storeVars
<1>4. ReadBefore'
  BY DEF ErasureInv, Types, ReadBefore, TPc, TProc, TWs, TFlags, ProcRows, PurgeCheck, Worker, PurgeDue, wsVars, dataVars, exportVars, storeVars
<1>5. RecoversOnly'
  BY DEF ErasureInv, Types, RecoversOnly, Recovering, TPc, PurgeCheck, Worker, PurgeDue, wsVars, dataVars, exportVars, storeVars
<1>6. ThreadInv'
  BY DEF ErasureInv, Types, ThreadInv, ThreadDone, TJob, TProc, TPc, TThread, JobRows, ProcRows, PurgeCheck, Worker, PurgeDue, wsVars, dataVars, exportVars, storeVars, ThreadPhases
<1>7. DoneLate'
  BY DEF ErasureInv, Types, DoneLate, ObjectsDone, Late, TJob, TProc, TPc, TData, TWs, JobRows, ProcRows, PurgeCheck, Worker, PurgeDue, wsVars, dataVars, exportVars, storeVars
<1>8. KnownArchives'
  BY DEF ErasureInv, Types, KnownArchives, Calm, Putting, BoundLe, TBound, TArt, TStore, TJob, TPc, TProc, JobRows, ProcRows, PurgeCheck, Worker, PurgeDue, wsVars, dataVars, exportVars, storeVars
<1>9. EmptyStore'
  BY DEF ErasureInv, Types, EmptyStore, Calm, ObjectsDone, BoundLe, TBound, TArt, TJob, TProc, TPc, TData, JobRows, ProcRows, PurgeCheck, Worker, PurgeDue, wsVars, dataVars, exportVars, storeVars
<1>10. QED
  BY <1>1, <1>2, <1>3, <1>4, <1>5, <1>6, <1>7, <1>8, <1>9 DEF ErasureInv, BoundLe, ReceiptInv, UploadInv, ExpiringInv, StoredInv, KnownArtifact, Calm, PurgeCheck, wsVars, dataVars, exportVars, storeVars

LEMMA PurgeTransitionErasure ==
  ASSUME NEW w \in Workers, NEW p \in Purges, Types, Inv, ErasureInv, PurgeTransition(w, p)
  PROVE  ErasureInv'
<1>1. Types'
  BY PurgeTransitionTypes DEF ErasureInv
<1>2. UNCHANGED <<back, proc, job, due, store>> /\ proc[w].job = p /\ pc[w] = "transition"
  BY DEF PurgeTransition, Goto, Worker, storeVars
<1>3. \A x \in Exports : Working(x)' => Working(x)
  BY <1>2, WorkspaceAssumption DEF Working, Recovering, PurgeTransition, Goto, Types, TPc
<1>4. (Late' \/ (ws'.status = "quarantined" /\ due')) => (Late \/ (ws.status = "quarantined" /\ due))
  <2>1. CASE ws' = ws
    BY <1>2, <2>1 DEF Late
  <2>2. CASE MayStartPurge(w, p)
    BY <1>2, <2>2 DEF ErasureInv, ReadBefore, MayStartPurge
  <2>3. QED
    BY <2>1, <2>2 DEF PurgeTransition
<1>5. MarksInOrder'
  BY DEF ErasureInv, Types, MarksInOrder, TPc, TProc, ProcRows, PurgeTransition, Goto, Worker, MayStartPurge, Fenced, dataVars, exportVars, storeVars
<1>6. QuietWhenDue'
  BY <1>2, <1>3, <1>4 DEF ErasureInv, QuietWhenDue, Late
<1>7. ReadBefore'
  BY DEF ErasureInv, Types, ReadBefore, TPc, TProc, TWs, TFlags, ProcRows, PurgeTransition, Goto, Worker, MayStartPurge, Fenced, dataVars, exportVars, storeVars
<1>8. RecoversOnly'
  BY DEF ErasureInv, Types, RecoversOnly, Recovering, TPc, PurgeTransition, Goto, Worker, MayStartPurge, Fenced, dataVars, exportVars, storeVars
<1>9. ReceiptInv'
  BY DEF ErasureInv, Types, ReceiptInv, TFlags, TWs, TData, TThread, PurgeTransition, Goto, Worker, MayStartPurge, Fenced, dataVars, exportVars, storeVars
<1>10. ThreadInv'
  BY DEF ErasureInv, Types, ThreadInv, ThreadDone, TJob, TProc, TPc, TThread, JobRows, ProcRows, PurgeTransition, Goto, Worker, MayStartPurge, Fenced, dataVars, exportVars, storeVars, ThreadPhases
<1>11. DoneLate'
  BY DEF ErasureInv, Types, DoneLate, ObjectsDone, Late, TJob, TProc, TPc, TData, TWs, JobRows, ProcRows, PurgeTransition, Goto, Worker, MayStartPurge, Fenced, dataVars, exportVars, storeVars
<1>12. KnownArchives'
  BY DEF ErasureInv, Types, KnownArchives, Calm, Putting, BoundLe, TBound, TArt, TStore, TJob, TPc, TProc, JobRows, ProcRows, PurgeTransition, Goto, Worker, MayStartPurge, Fenced, dataVars, exportVars, storeVars
<1>13. EmptyStore'
  BY DEF ErasureInv, Types, EmptyStore, Calm, ObjectsDone, BoundLe, TBound, TArt, TJob, TProc, TPc, TData, JobRows, ProcRows, PurgeTransition, Goto, Worker, MayStartPurge, Fenced, dataVars, exportVars, storeVars
<1>14. QED
  BY <1>1, <1>5, <1>6, <1>7, <1>8, <1>9, <1>10, <1>11, <1>12, <1>13 DEF ErasureInv, BoundLe, UploadInv, ExpiringInv, StoredInv, KnownArtifact, Calm, PurgeTransition, dataVars, exportVars, storeVars

LEMMA PurgeCredentialsErasure ==
  ASSUME NEW w \in Workers, NEW p \in Purges, Types, Inv, ErasureInv, PurgeCredentials(w, p)
  PROVE  ErasureInv'
<1>1. Types'
  BY PurgeCredentialsTypes DEF ErasureInv
<1>2. MarksInOrder'
  BY DEF ErasureInv, Types, MarksInOrder, TPc, TProc, ProcRows, PurgeCredentials, Goto, Worker, dataVars, exportVars, storeVars
<1>3. QuietWhenDue'
  BY DEF ErasureInv, Types, QuietWhenDue, Late, Working, Recovering, TWs, TFlags, TStore, TJob, TProc, TPc, JobRows, ProcRows, PurgeCredentials, Goto, Worker, dataVars, exportVars, storeVars
<1>4. ReadBefore'
  BY DEF ErasureInv, Types, ReadBefore, TPc, TProc, TWs, TFlags, ProcRows, PurgeCredentials, Goto, Worker, dataVars, exportVars, storeVars
<1>5. RecoversOnly'
  BY DEF ErasureInv, Types, RecoversOnly, Recovering, TPc, PurgeCredentials, Goto, Worker, dataVars, exportVars, storeVars
<1>6. ReceiptInv'
  BY DEF ErasureInv, Types, ReceiptInv, TFlags, TWs, TData, TThread, PurgeCredentials, Goto, Worker, dataVars, exportVars, storeVars
<1>7. ThreadInv'
  BY DEF ErasureInv, Types, ThreadInv, ThreadDone, TJob, TProc, TPc, TThread, JobRows, ProcRows, PurgeCredentials, Goto, Worker, dataVars, exportVars, storeVars, ThreadPhases
<1>8. DoneLate'
  BY DEF ErasureInv, Types, DoneLate, ObjectsDone, Late, TJob, TProc, TPc, TData, TWs, JobRows, ProcRows, PurgeCredentials, Goto, Worker, dataVars, exportVars, storeVars
<1>9. KnownArchives'
  BY DEF ErasureInv, Types, KnownArchives, Calm, Putting, BoundLe, TBound, TArt, TStore, TJob, TPc, TProc, JobRows, ProcRows, PurgeCredentials, Goto, Worker, dataVars, exportVars, storeVars
<1>10. EmptyStore'
  BY DEF ErasureInv, Types, EmptyStore, Calm, ObjectsDone, BoundLe, TBound, TArt, TJob, TProc, TPc, TData, JobRows, ProcRows, PurgeCredentials, Goto, Worker, dataVars, exportVars, storeVars
<1>11. QED
  BY <1>1, <1>2, <1>3, <1>4, <1>5, <1>6, <1>7, <1>8, <1>9, <1>10 DEF ErasureInv, BoundLe, UploadInv, ExpiringInv, StoredInv, KnownArtifact, Calm, PurgeCredentials, dataVars, exportVars, storeVars

LEMMA PurgeThreadErasure ==
  ASSUME NEW w \in Workers, NEW p \in Purges, Types, Inv, ErasureInv, PurgeThread(w, p)
  PROVE  ErasureInv'
<1>1. Types'
  BY PurgeThreadTypes DEF ErasureInv
<1>2. MarksInOrder'
  BY DEF ErasureInv, Types, MarksInOrder, TPc, TProc, ProcRows, PurgeThread, Goto, Worker, wsVars, dataVars, storeVars
<1>3. QuietWhenDue'
  BY DEF ErasureInv, Types, QuietWhenDue, Late, Working, Recovering, TWs, TFlags, TStore, TJob, TProc, TPc, JobRows, ProcRows, PurgeThread, Goto, Worker, wsVars, dataVars, storeVars
<1>4. ReadBefore'
  BY DEF ErasureInv, Types, ReadBefore, TPc, TProc, TWs, TFlags, ProcRows, PurgeThread, Goto, Worker, wsVars, dataVars, storeVars
<1>5. RecoversOnly'
  BY DEF ErasureInv, Types, RecoversOnly, Recovering, TPc, PurgeThread, Goto, Worker, wsVars, dataVars, storeVars
<1>6. ReceiptInv'
  BY DEF ErasureInv, Types, ReceiptInv, TFlags, TWs, TData, TThread, PurgeThread, Goto, Worker, wsVars, dataVars, storeVars
<1>7. ThreadInv'
  BY DEF ErasureInv, Types, ThreadInv, ThreadDone, TJob, TProc, TPc, TThread, JobRows, ProcRows, PurgeThread, Goto, Worker, wsVars, dataVars, storeVars, ThreadPhases
<1>8. DoneLate'
  BY DEF ErasureInv, Types, DoneLate, ObjectsDone, Late, TJob, TProc, TPc, TData, TWs, JobRows, ProcRows, PurgeThread, Goto, Worker, wsVars, dataVars, storeVars
<1>9. KnownArchives'
  BY DEF ErasureInv, Types, KnownArchives, Calm, Putting, BoundLe, TBound, TArt, TStore, TJob, TPc, TProc, JobRows, ProcRows, PurgeThread, Goto, Worker, wsVars, dataVars, storeVars
<1>10. EmptyStore'
  BY DEF ErasureInv, Types, EmptyStore, Calm, ObjectsDone, BoundLe, TBound, TArt, TJob, TProc, TPc, TData, JobRows, ProcRows, PurgeThread, Goto, Worker, wsVars, dataVars, storeVars
<1>11. QED
  BY <1>1, <1>2, <1>3, <1>4, <1>5, <1>6, <1>7, <1>8, <1>9, <1>10 DEF ErasureInv, BoundLe, UploadInv, ExpiringInv, StoredInv, KnownArtifact, Calm, PurgeThread, wsVars, dataVars, storeVars

LEMMA PurgeObjectsErasure ==
  ASSUME NEW w \in Workers, NEW p \in Purges, Types, Inv, ErasureInv, PurgeObjects(w, p)
  PROVE  ErasureInv'
<1>1. Types'
  BY PurgeObjectsTypes DEF ErasureInv
<1>2. Late
  BY ActsLate DEF PurgeObjects, Worker
<1>3. UNCHANGED <<back, proc, job, ws, rows, bound>> /\ proc[w].job = p
  BY DEF PurgeObjects, Goto, Worker, wsVars, dataVars
<1>4. Calm => obj' = {}
  <2>1. SUFFICES ASSUME Calm, NEW o \in obj, o \notin StoredKeys PROVE FALSE
    BY DEF PurgeObjects
  <2>2. CASE o = Artifact
    <3>1. art.status = "live" \/ store.upload # "idle"
      BY <2>1, <2>2 DEF ErasureInv, KnownArtifact
    <3>2. store.upload = "idle"
      BY <1>2 DEF ErasureInv, QuietWhenDue
    <3>3. QED
      BY <2>1, <2>2, <3>1, <3>2 DEF StoredKeys
  <2>3. CASE o \in Exports
    <3>1. job[o].stored \/ Putting(o)
      BY <2>1, <2>3 DEF ErasureInv, KnownArchives
    <3>2. ~Putting(o)
      BY <1>2, <2>3, QuietWhere
    <3>3. QED
      BY <2>1, <2>3, <3>1, <3>2 DEF StoredKeys
  <2>4. QED
    BY <2>1, <2>2, <2>3 DEF Types, TArt
<1>5. MarksInOrder'
  BY DEF ErasureInv, Types, MarksInOrder, TPc, TProc, ProcRows, PurgeObjects, Goto, Worker, StoredKeys, wsVars, dataVars, exportVars
<1>6. QuietWhenDue'
  BY DEF ErasureInv, Types, QuietWhenDue, Late, Working, Recovering, TWs, TFlags, TStore, TJob, TProc, TPc, JobRows, ProcRows, PurgeObjects, Goto, Worker, StoredKeys, wsVars, dataVars, exportVars
<1>7. ReadBefore'
  BY DEF ErasureInv, Types, ReadBefore, TPc, TProc, TWs, TFlags, ProcRows, PurgeObjects, Goto, Worker, StoredKeys, wsVars, dataVars, exportVars
<1>8. RecoversOnly'
  BY DEF ErasureInv, Types, RecoversOnly, Recovering, TPc, PurgeObjects, Goto, Worker, StoredKeys, wsVars, dataVars, exportVars
<1>9. ThreadInv'
  BY DEF ErasureInv, Types, ThreadInv, ThreadDone, TJob, TProc, TPc, TThread, JobRows, ProcRows, PurgeObjects, Goto, Worker, StoredKeys, wsVars, dataVars, exportVars, ThreadPhases
<1>10. UploadInv'
  BY DEF ErasureInv, Types, UploadInv, TStore, TArt, PurgeObjects, Goto, Worker, StoredKeys, wsVars, dataVars, exportVars
<1>11. DoneLate'
  BY <1>2, <1>3 DEF DoneLate, Late
<1>12. KnownArtifact'
  BY DEF ErasureInv, Types, KnownArtifact, Calm, BoundLe, TBound, TArt, TStore, PurgeObjects, Goto, Worker, StoredKeys, wsVars, dataVars, exportVars
<1>13. KnownArchives'
  BY DEF ErasureInv, Types, KnownArchives, Calm, Putting, BoundLe, TBound, TArt, TStore, TJob, TPc, TProc, JobRows, ProcRows, PurgeObjects, Goto, Worker, StoredKeys, wsVars, dataVars, exportVars
<1>14. EmptyStore'
  BY <1>3, <1>4 DEF EmptyStore, Calm
<1>15. QED
  BY <1>1, <1>5, <1>6, <1>7, <1>8, <1>9, <1>10, <1>11, <1>12, <1>13, <1>14 DEF ErasureInv, BoundLe, ReceiptInv, ExpiringInv, StoredInv, PurgeObjects, wsVars, dataVars, exportVars

LEMMA PurgeCheckpointErasure ==
  ASSUME NEW w \in Workers, NEW p \in Purges, Types, Inv, ErasureInv, PurgeCheckpoint(w, p)
  PROVE  ErasureInv'
<1>1. Types'
  BY PurgeCheckpointTypes DEF ErasureInv
<1>2. UNCHANGED <<back, ws, due, rows, bound, store, obj, thread>> /\ proc[w].job = p /\ pc[w] = "mark"
  BY DEF PurgeCheckpoint, Goto, Worker, wsVars, dataVars, exportVars, storeVars
<1>3. proc[w].phase \in {"started", "credentials_revoked", "durable_objects_purged"}
  BY <1>2 DEF ErasureInv, MarksInOrder
<1>4. PICK next : next = PurgePhases[PurgeIdx(proc[w].phase) + 1]
  OBVIOUS
<1>5. (next = "objects_deleted" => proc[w].phase = "durable_objects_purged")
      /\ (next = "durable_objects_purged" => proc[w].phase = "credentials_revoked")
  BY <1>3, <1>4, NextPhase
<1>6. \/ pc' = [pc EXCEPT ![w] = "throw"] /\ UNCHANGED <<proc, job>>
      \/ pc' = [pc EXCEPT ![w] = "act"] /\ proc' = [proc EXCEPT ![w].phase = next] /\ job' = [job EXCEPT ![p].phase = next]
  BY <1>4 DEF PurgeCheckpoint, Goto
<1>7. /\ \A v \in Workers : v # w => (pc'[v] = pc[v] /\ proc'[v] = proc[v])
      /\ pc'[w] \in {"throw", "act"} /\ proc'[w].job = p /\ proc'[w].phase \in {proc[w].phase, next}
  BY <1>2, <1>6 DEF Types, TPc, TProc, ProcRows
<1>8. \A x \in Purges : job'[x].phase \in {job[x].phase, next}
  <2>1. CASE UNCHANGED job
    BY <2>1
  <2>2. CASE job' = [job EXCEPT ![p].phase = next]
    BY <2>2, RowFacts DEF Types, TJob, JobRows
  <2>3. QED
    BY <1>6, <2>1, <2>2
<1>9. \A x \in Exports : job'[x] = job[x]
  <2>1. CASE UNCHANGED job
    BY <2>1
  <2>2. CASE job' = [job EXCEPT ![p].phase = next]
    BY <2>2, WorkspaceAssumption, RowFacts DEF Types, TJob
  <2>3. QED
    BY <1>6, <2>1, <2>2
<1>10. \A x \in Exports : Working(x)' => Working(x)
  BY <1>2, <1>7, WorkspaceAssumption DEF Working, Recovering
<1>11. (ThreadDone' => ThreadDone) /\ (ObjectsDone' => ObjectsDone)
  <2>1. ThreadDone' => ThreadDone
    BY <1>2, <1>3, <1>5, <1>7, <1>8 DEF ThreadDone, ThreadPhases
  <2>2. ObjectsDone' => ObjectsDone
    BY <1>2, <1>3, <1>5, <1>7, <1>8 DEF ObjectsDone
  <2>3. QED
    BY <2>1, <2>2
<1>12. MarksInOrder'
  BY DEF ErasureInv, Types, MarksInOrder, TPc, TProc, ProcRows, PurgeCheckpoint, Goto, Worker, Running, wsVars, dataVars, exportVars, storeVars
<1>13. QuietWhenDue'
  BY <1>2, <1>9, <1>10 DEF ErasureInv, QuietWhenDue, Late
<1>14. ReadBefore'
  BY DEF ErasureInv, Types, ReadBefore, TPc, TProc, TWs, TFlags, ProcRows, PurgeCheckpoint, Goto, Worker, Running, wsVars, dataVars, exportVars, storeVars
<1>15. RecoversOnly'
  BY DEF ErasureInv, Types, RecoversOnly, Recovering, TPc, PurgeCheckpoint, Goto, Worker, Running, wsVars, dataVars, exportVars, storeVars
<1>16. ThreadInv'
  BY <1>2, <1>11 DEF ErasureInv, ThreadInv
<1>17. ExpiringInv'
  BY <1>2, <1>9 DEF ErasureInv, ExpiringInv
<1>18. StoredInv'
  BY <1>9 DEF ErasureInv, StoredInv
<1>19. DoneLate'
  BY <1>2, <1>11 DEF ErasureInv, DoneLate, Late
<1>20. KnownArchives'
  <2>1. \A e \in Exports : Putting(e) => Putting(e)'
    BY <1>2, <1>7 DEF Putting
  <2>2. QED
    BY <1>2, <1>9, <2>1 DEF ErasureInv, KnownArchives, Calm
<1>21. EmptyStore'
  BY <1>2, <1>11 DEF ErasureInv, EmptyStore, Calm
<1>22. QED
  BY <1>1, <1>12, <1>13, <1>14, <1>15, <1>16, <1>17, <1>18, <1>19, <1>20, <1>21 DEF ErasureInv, BoundLe, ReceiptInv, UploadInv, KnownArtifact, Calm, PurgeCheckpoint, wsVars, dataVars, exportVars, storeVars

LEMMA PurgeRowsErasure ==
  ASSUME NEW w \in Workers, NEW p \in Purges, Types, Inv, ErasureInv, PurgeRows(w, p)
  PROVE  ErasureInv'
<1>1. Types'
  BY PurgeRowsTypes DEF ErasureInv
<1>2. Late
  BY ActsLate DEF PurgeRows, Worker
<1>3. UNCHANGED <<store, obj, bound, thread>> /\ proc[w].job = p /\ proc[w].phase = "objects_deleted"
  BY DEF PurgeRows, Worker, exportVars
<1>4. ObjectsDone /\ ThreadDone
  BY <1>3 DEF ObjectsDone, ThreadDone, ThreadPhases
<1>5. thread.purged /\ (Calm => obj = {})
  BY <1>4 DEF ErasureInv, ThreadInv, EmptyStore
<1>6. /\ \A v \in Workers : v # w => (pc'[v] = pc[v] /\ proc'[v] = proc[v] /\ back'[v] = back[v])
      /\ proc'[w].job \in {p, None}
  BY <1>3 DEF PurgeRows, Goto, Return, Unread, Types, TPc, TProc, ProcRows
<1>7. \A x \in Exports : Working(x)' => Working(x)
  BY <1>6, WorkspaceAssumption DEF Working, Recovering
<1>8. job' = job \/ job' = [j \in Jobs |-> NoJobRow]
  BY DEF PurgeRows
<1>9. \A e \in Exports : job'[e] = job[e] \/ job'[e] = NoJobRow
  BY <1>8, RowFacts
<1>10. NoJobRow.status = "none" /\ NoJobRow.stored = FALSE
  BY DEF NoJobRow
<1>11. ws'.status = ws.status \/ Late'
  BY DEF PurgeRows, Late, Types, TWs
<1>12. MarksInOrder'
  BY DEF ErasureInv, Types, MarksInOrder, TPc, TProc, ProcRows, PurgeRows, Goto, Return, Worker, Fenced, exportVars
<1>13. QuietWhenDue'
  BY <1>2, <1>3, <1>7, <1>9, <1>10 DEF ErasureInv, QuietWhenDue
<1>14. ReadBefore'
  BY DEF ErasureInv, Types, ReadBefore, TPc, TProc, TWs, TFlags, ProcRows, PurgeRows, Goto, Return, Worker, Fenced, exportVars
<1>15. RecoversOnly'
  BY DEF ErasureInv, Types, RecoversOnly, Recovering, TPc, PurgeRows, Goto, Return, Worker, Fenced, exportVars
<1>16. ReceiptInv'
  <2>1. CASE UNCHANGED <<ws, receipts, rows, creds>>
    BY <1>3, <2>1 DEF ErasureInv, ReceiptInv
  <2>2. CASE ~Fenced /\ ws.status = "purging"
    <3>1. receipts = 0
      BY <2>2 DEF ErasureInv, ReceiptInv
    <3>2. ws'.status = "gone" /\ receipts' = 1 /\ rows' = "purged" /\ creds' = FALSE
      BY <2>2, <3>1 DEF PurgeRows
    <3>3. QED
      BY <1>3, <1>5, <3>2 DEF ReceiptInv
  <2>3. CASE ~Fenced /\ ws.status # "purging"
    <3>1. UNCHANGED <<ws, receipts>> /\ rows' = "purged" /\ creds' = FALSE
      BY <2>3 DEF PurgeRows
    <3>2. QED
      BY <1>3, <1>5, <3>1 DEF ErasureInv, ReceiptInv
  <2>4. QED
    BY <2>1, <2>2, <2>3 DEF PurgeRows
<1>17. ThreadInv'
  BY DEF ErasureInv, Types, ThreadInv, ThreadDone, TJob, TProc, TPc, TThread, JobRows, ProcRows, PurgeRows, Goto, Return, Worker, Fenced, exportVars, ThreadPhases
<1>18. UploadInv'
  BY DEF ErasureInv, Types, UploadInv, TStore, TArt, PurgeRows, Goto, Return, Worker, Fenced, exportVars
<1>19. ExpiringInv'
  BY DEF ErasureInv, Types, ExpiringInv, TStore, TJob, TData, JobRows, PurgeRows, Goto, Return, Worker, Fenced, exportVars
<1>20. StoredInv'
  BY <1>9, <1>10 DEF ErasureInv, StoredInv
<1>21. DoneLate'
  BY DEF ErasureInv, Types, DoneLate, ObjectsDone, Late, TJob, TProc, TPc, TData, TWs, JobRows, ProcRows, PurgeRows, Goto, Return, Worker, Fenced, exportVars
<1>22. KnownArtifact'
  BY <1>3, <1>5 DEF KnownArtifact, Calm
<1>23. KnownArchives'
  BY <1>3, <1>5 DEF KnownArchives, Calm
<1>24. EmptyStore'
  BY DEF ErasureInv, Types, EmptyStore, Calm, ObjectsDone, BoundLe, TBound, TArt, TJob, TProc, TPc, TData, JobRows, ProcRows, PurgeRows, Goto, Return, Worker, Fenced, exportVars
<1>25. QED
  BY <1>1, <1>12, <1>13, <1>14, <1>15, <1>16, <1>17, <1>18, <1>19, <1>20, <1>21, <1>22, <1>23, <1>24 DEF ErasureInv, BoundLe, PurgeRows, exportVars

LEMMA PurgeExhaustedErasure ==
  ASSUME NEW w \in Workers, NEW p \in Purges, Types, Inv, ErasureInv, PurgeExhausted(w, p)
  PROVE  ErasureInv'
<1>1. Types'
  BY PurgeExhaustedTypes DEF ErasureInv
<1>2. UNCHANGED <<store, obj, bound, thread, job, due, rows>> /\ proc[w].job = p
  BY DEF PurgeExhausted, Worker, dataVars, exportVars, storeVars
<1>3. /\ \A v \in Workers : v # w => (pc'[v] = pc[v] /\ proc'[v] = proc[v] /\ back'[v] = back[v])
      /\ proc'[w].job = None /\ pc'[w] = "idle"
  BY DEF PurgeExhausted, Return, Unread, Types, TPc, TProc
<1>4. \A x \in Exports : Working(x)' => Working(x)
  BY <1>3, WorkspaceAssumption DEF Working, Recovering
<1>5. (ThreadDone' => ThreadDone) /\ (ObjectsDone' => ObjectsDone)
  BY <1>2, <1>3, WorkspaceAssumption DEF ThreadDone, ObjectsDone
<1>6. ws' = ws \/ (ws.status = "purging" /\ ws'.status = "failed")
  BY DEF PurgeExhausted, Types, TWs
<1>7. (Late' => Late) /\ (Late => Late')
  BY <1>6 DEF Late
<1>8. MarksInOrder'
  BY DEF ErasureInv, Types, MarksInOrder, TPc, TProc, ProcRows, PurgeExhausted, Return, Worker, Fenced, dataVars, exportVars, storeVars
<1>9. QuietWhenDue'
  BY <1>2, <1>4, <1>6, <1>7 DEF ErasureInv, QuietWhenDue, Late
<1>10. ReadBefore'
  BY DEF ErasureInv, Types, ReadBefore, TPc, TProc, TWs, TFlags, ProcRows, PurgeExhausted, Return, Worker, Fenced, dataVars, exportVars, storeVars
<1>11. RecoversOnly'
  BY DEF ErasureInv, Types, RecoversOnly, Recovering, TPc, PurgeExhausted, Return, Worker, Fenced, dataVars, exportVars, storeVars
<1>12. ReceiptInv'
  BY DEF ErasureInv, Types, ReceiptInv, TFlags, TWs, TData, TThread, PurgeExhausted, Return, Worker, Fenced, dataVars, exportVars, storeVars
<1>13. ThreadInv'
  BY <1>2, <1>5 DEF ErasureInv, ThreadInv
<1>14. DoneLate'
  BY <1>5, <1>7 DEF ErasureInv, DoneLate
<1>15. KnownArchives'
  BY DEF ErasureInv, Types, KnownArchives, Calm, Putting, BoundLe, TBound, TArt, TStore, TJob, TPc, TProc, JobRows, ProcRows, PurgeExhausted, Return, Worker, Fenced, dataVars, exportVars, storeVars
<1>16. EmptyStore'
  BY <1>2, <1>5 DEF ErasureInv, EmptyStore, Calm
<1>17. QED
  BY <1>1, <1>8, <1>9, <1>10, <1>11, <1>12, <1>13, <1>14, <1>15, <1>16 DEF ErasureInv, BoundLe, UploadInv, ExpiringInv, StoredInv, KnownArtifact, Calm, PurgeExhausted, dataVars, exportVars, storeVars

LEMMA CreateExportErasure ==
  ASSUME NEW e \in Exports, Types, Inv, ErasureInv, CreateExport(e)
  PROVE  ErasureInv'
<1>1. Types'
  BY CreateExportTypes DEF ErasureInv
<1>2. UNCHANGED <<pc, back, proc, ws, due, rows, receipts, creds, art, store, obj>> /\ thread' = thread /\ bound' = bound
  BY DEF CreateExport, wsVars, dataVars, exportVars, storeVars, workerVars
<1>3. Spends
  BY <1>2, NothingSpent
<1>4. ws.status = "active" /\ job[e].status = "none"
  BY DEF CreateExport
<1>5. PICK r : r = [NoJobRow EXCEPT !.status = "queued", !.phase = "awaiting_quiescence"]
  OBVIOUS
<1>6. r.stored = FALSE
  BY <1>5 DEF NoJobRow
<1>7. job' = [job EXCEPT ![e] = r]
  BY <1>5 DEF CreateExport
<1>8. DOMAIN job = Jobs /\ Purges \subseteq Jobs /\ Exports \subseteq Jobs
  BY RowFacts DEF Types, TJob
<1>9. \A p \in Purges : job'[p].phase \in {job[p].phase, "started"}
  BY <1>7, <1>8, WorkspaceAssumption
<1>10. job[e].stored = FALSE
  BY <1>4, <1>8 DEF ErasureInv, StoredInv, Types, TJob, JobRows
<1>11. \A x \in Exports : /\ job'[x].stored = job[x].stored
                          /\ job[x].status \in {"completed", "expired"} => job'[x].status = job[x].status
  BY <1>4, <1>6, <1>7, <1>8, <1>10
<1>12. ~Late /\ ~Late' /\ ws.status # "gone" /\ ws'.status # "gone"
  BY <1>2, <1>4 DEF Late
<1>13. QuietWhenDue'
  BY <1>2, <1>4, <1>12 DEF QuietWhenDue
<1>14. ReadBefore'
  BY <1>2 DEF ErasureInv, ReadBefore
<1>15. QED
  BY <1>1, <1>2, <1>3, <1>9, <1>11, <1>12, <1>13, <1>14, RowsKeep

LEMMA ExpireObjectErasure ==
  ASSUME NEW e \in Exports, Types, Inv, ErasureInv, ExpireObject(e)
  PROVE  ErasureInv'
<1>1. Types'
  BY ExpireObjectTypes DEF ErasureInv
<1>2. QuietWhenDue'
  BY DEF ErasureInv, Types, QuietWhenDue, Late, Working, Recovering, TWs, TFlags, TStore, TJob, TProc, TPc, JobRows, ProcRows, ExpireObject, wsVars, dataVars, exportVars, workerVars
<1>3. UploadInv'
  BY DEF ErasureInv, Types, UploadInv, TStore, TArt, ExpireObject, wsVars, dataVars, exportVars, workerVars
<1>4. ExpiringInv'
  BY DEF ErasureInv, Types, ExpiringInv, TStore, TJob, TData, JobRows, ExpireObject, wsVars, dataVars, exportVars, workerVars
<1>5. KnownArtifact'
  BY DEF ErasureInv, Types, KnownArtifact, Calm, BoundLe, TBound, TArt, TStore, ExpireObject, wsVars, dataVars, exportVars, workerVars
<1>6. KnownArchives'
  BY DEF ErasureInv, Types, KnownArchives, Calm, Putting, BoundLe, TBound, TArt, TStore, TJob, TPc, TProc, JobRows, ProcRows, ExpireObject, wsVars, dataVars, exportVars, workerVars
<1>7. EmptyStore'
  BY DEF ErasureInv, Types, EmptyStore, Calm, ObjectsDone, BoundLe, TBound, TArt, TJob, TProc, TPc, TData, JobRows, ProcRows, ExpireObject, wsVars, dataVars, exportVars, workerVars
<1>8. QED
  BY <1>1, <1>2, <1>3, <1>4, <1>5, <1>6, <1>7 DEF ErasureInv, MarksInOrder, BoundLe, ReadBefore, RecoversOnly, Recovering, ReceiptInv, ThreadInv, ThreadDone, StoredInv, DoneLate, ObjectsDone, Late, ExpireObject, wsVars, dataVars, exportVars, workerVars

LEMMA ExpireRowErasure ==
  ASSUME NEW e \in Exports, Types, Inv, ErasureInv, ExpireRow(e)
  PROVE  ErasureInv'
<1>1. Types'
  BY ExpireRowTypes DEF ErasureInv
<1>2. UNCHANGED <<pc, proc, obj, bound, rows>> /\ store.expiring = e
  BY DEF ExpireRow, dataVars, workerVars
<1>3. store'.expiring = None
  BY DEF ExpireRow, Types, TStore
<1>4. \A x \in Exports : x # e => job'[x] = job[x]
  BY RowFacts DEF ExpireRow, Types, TJob
<1>5. QuietWhenDue'
  BY DEF ErasureInv, Types, QuietWhenDue, Late, Working, Recovering, TWs, TFlags, TStore, TJob, TProc, TPc, JobRows, ProcRows, ExpireRow, wsVars, dataVars, exportVars, workerVars
<1>6. ThreadInv'
  BY DEF ErasureInv, Types, ThreadInv, ThreadDone, TJob, TProc, TPc, TThread, JobRows, ProcRows, ExpireRow, wsVars, dataVars, exportVars, workerVars, ThreadPhases
<1>7. UploadInv'
  BY DEF ErasureInv, Types, UploadInv, TStore, TArt, ExpireRow, wsVars, dataVars, exportVars, workerVars
<1>8. ExpiringInv'
  BY <1>3, WorkspaceAssumption DEF ExpiringInv
<1>9. StoredInv'
  BY DEF ErasureInv, Types, StoredInv, TJob, JobRows, ExpireRow, wsVars, dataVars, exportVars, workerVars
<1>10. DoneLate'
  BY DEF ErasureInv, Types, DoneLate, ObjectsDone, Late, TJob, TProc, TPc, TData, TWs, JobRows, ProcRows, ExpireRow, wsVars, dataVars, exportVars, workerVars
<1>11. KnownArtifact'
  BY DEF ErasureInv, Types, KnownArtifact, Calm, BoundLe, TBound, TArt, TStore, ExpireRow, wsVars, dataVars, exportVars, workerVars
<1>12. KnownArchives'
  <2>1. SUFFICES ASSUME NEW x \in Exports, Calm, x \in obj
                 PROVE  (job'[x].stored /\ store'.expiring # x) \/ Putting(x)'
    BY <1>2 DEF KnownArchives, Calm
  <2>2. (job[x].stored /\ store.expiring # x) \/ Putting(x)
    BY <2>1 DEF ErasureInv, KnownArchives
  <2>3. Putting(x) => Putting(x)'
    BY <1>2 DEF Putting
  <2>4. CASE x = e
    BY <1>2, <2>2, <2>3, <2>4
  <2>5. CASE x # e
    BY <1>3, <1>4, <2>2, <2>3, <2>5, WorkspaceAssumption
  <2>6. QED
    BY <2>4, <2>5
<1>13. EmptyStore'
  BY DEF ErasureInv, Types, EmptyStore, Calm, ObjectsDone, BoundLe, TBound, TArt, TJob, TProc, TPc, TData, JobRows, ProcRows, ExpireRow, wsVars, dataVars, exportVars, workerVars
<1>14. QED
  BY <1>1, <1>5, <1>6, <1>7, <1>8, <1>9, <1>10, <1>11, <1>12, <1>13 DEF ErasureInv, MarksInOrder, BoundLe, ReadBefore, RecoversOnly, Recovering, ReceiptInv, ExpireRow, wsVars, dataVars, exportVars, workerVars

LEMMA PutArchiveErasure ==
  ASSUME NEW w \in Workers, NEW e \in Exports, Types, Inv, ErasureInv, PutArchive(w, e)
  PROVE  ErasureInv'
<1>1. Types'
  BY PutArchiveTypes DEF ErasureInv
<1>2. UNCHANGED <<proc, back, art, store, bound, job, rows>> /\ proc[w].job = e /\ pc[w] = "put"
  BY DEF PutArchive, Goto, Exporter, dataVars
<1>3. obj' = obj \cup {e} /\ Artifact # e
  BY WorkspaceAssumption DEF PutArchive
<1>4. pc' = [pc EXCEPT ![w] = "publish"]
  BY DEF PutArchive, Goto
<1>5. ~Late
  BY <1>2 DEF ErasureInv, QuietWhenDue, RecoversOnly, Working
<1>6. (ThreadDone' => ThreadDone) /\ (ObjectsDone' => ObjectsDone)
  BY <1>2, <1>4 DEF ThreadDone, ObjectsDone, Types, TPc
<1>7. MarksInOrder'
  BY DEF ErasureInv, Types, MarksInOrder, TPc, TProc, ProcRows, PutArchive, Goto, Exporter, wsVars, dataVars, exportVars
<1>8. QuietWhenDue'
  BY DEF ErasureInv, Types, QuietWhenDue, Late, Working, Recovering, TWs, TFlags, TStore, TJob, TProc, TPc, JobRows, ProcRows, PutArchive, Goto, Exporter, wsVars, dataVars, exportVars
<1>9. ReadBefore'
  BY DEF ErasureInv, Types, ReadBefore, TPc, TProc, TWs, TFlags, ProcRows, PutArchive, Goto, Exporter, wsVars, dataVars, exportVars
<1>10. RecoversOnly'
  BY DEF ErasureInv, Types, RecoversOnly, Recovering, TPc, PutArchive, Goto, Exporter, wsVars, dataVars, exportVars
<1>11. ThreadInv'
  BY DEF ErasureInv, Types, ThreadInv, ThreadDone, TJob, TProc, TPc, TThread, JobRows, ProcRows, PutArchive, Goto, Exporter, wsVars, dataVars, exportVars, ThreadPhases
<1>12. UploadInv'
  BY <1>2, <1>3 DEF ErasureInv, UploadInv
<1>13. DoneLate'
  BY DEF ErasureInv, Types, DoneLate, ObjectsDone, Late, TJob, TProc, TPc, TData, TWs, JobRows, ProcRows, PutArchive, Goto, Exporter, wsVars, dataVars, exportVars
<1>14. KnownArtifact'
  BY <1>2, <1>3 DEF ErasureInv, KnownArtifact, Calm
<1>15. KnownArchives'
  BY DEF ErasureInv, Types, KnownArchives, Calm, Putting, BoundLe, TBound, TArt, TStore, TJob, TPc, TProc, JobRows, ProcRows, PutArchive, Goto, Exporter, wsVars, dataVars, exportVars
<1>16. EmptyStore'
  BY <1>5, <1>6 DEF ErasureInv, EmptyStore, DoneLate
<1>17. QED
  BY <1>1, <1>7, <1>8, <1>9, <1>10, <1>11, <1>12, <1>13, <1>14, <1>15, <1>16 DEF ErasureInv, BoundLe, ReceiptInv, ExpiringInv, StoredInv, PutArchive, wsVars, dataVars, exportVars

LEMMA PublishArchiveErasure ==
  ASSUME NEW w \in Workers, NEW e \in Exports, Types, Inv, ErasureInv, PublishArchive(w, e)
  PROVE  ErasureInv'
<1>1. Types'
  BY PublishArchiveTypes DEF ErasureInv
<1>2. UNCHANGED <<proc, back, ws, due, art, store, obj, bound, rows, thread>> /\ proc[w].job = e /\ pc[w] = "publish"
  BY DEF PublishArchive, Goto, Exporter, wsVars, dataVars, exportVars, storeVars
<1>3. \/ Running(e) /\ pc' = [pc EXCEPT ![w] = "clear"]
      \/ job' = job /\ pc' = [pc EXCEPT ![w] = "unput"]
  BY DEF PublishArchive, Goto
<1>4. /\ \A v \in Workers : v # w => pc'[v] = pc[v]
      /\ pc'[w] \in {"clear", "unput"}
  BY <1>3 DEF Types, TPc
<1>5. \A x \in Exports : Working(x)' => Working(x)
  BY <1>2, <1>4 DEF Working, Recovering
<1>6. \A j \in Jobs : j # e => job'[j] = job[j]
  BY DEF PublishArchive, Types, TJob
<1>7. job' = job \/ (Running(e) /\ job'[e].status = "completed" /\ job'[e].stored = TRUE)
  <2>1. CASE Running(e)
    <3>1. PICK a : a = proc[w].got
      OBVIOUS
    <3>2. PICK r : r = [job[e] EXCEPT !.status = "completed", !.leased = FALSE, !.stored = TRUE, !.archive = a]
      OBVIOUS
    <3>3. job' = [job EXCEPT ![e] = r]
      BY <2>1, <3>1, <3>2 DEF PublishArchive
    <3>4. job'[e] = r
      BY <3>3, RowFacts DEF Types, TJob
    <3>5. r.status = "completed" /\ r.stored = TRUE
      BY <3>2, RowFacts DEF Types, TJob, JobRows
    <3>6. QED
      BY <2>1, <3>4, <3>5
  <2>2. CASE ~Running(e)
    BY <2>2 DEF PublishArchive
  <2>3. QED
    BY <2>1, <2>2
<1>8. Purges \subseteq Jobs /\ Exports \subseteq Jobs /\ e \notin Purges
  BY RowFacts, WorkspaceAssumption
<1>9. (ThreadDone' => ThreadDone) /\ (ObjectsDone' => ObjectsDone)
  <2>1. \A x \in Purges : job'[x] = job[x]
    BY <1>6, <1>8
  <2>2. QED
    BY <1>2, <1>4, <2>1 DEF ThreadDone, ObjectsDone
<1>10. MarksInOrder'
  BY DEF ErasureInv, Types, MarksInOrder, TPc, TProc, ProcRows, PublishArchive, Goto, Exporter, Running, wsVars, dataVars, exportVars, storeVars
<1>11. QuietWhenDue'
  <2>1. \A x \in Exports : job'[x].status \in {"queued", "running"} => job[x].status \in {"queued", "running"}
    BY <1>6, <1>7, <1>8
  <2>2. QED
    BY <1>2, <1>5, <2>1 DEF ErasureInv, QuietWhenDue, Late
<1>12. ReadBefore'
  BY DEF ErasureInv, Types, ReadBefore, TPc, TProc, TWs, TFlags, ProcRows, PublishArchive, Goto, Exporter, Running, wsVars, dataVars, exportVars, storeVars
<1>13. RecoversOnly'
  BY DEF ErasureInv, Types, RecoversOnly, Recovering, TPc, PublishArchive, Goto, Exporter, Running, wsVars, dataVars, exportVars, storeVars
<1>14. ThreadInv'
  BY <1>2, <1>9 DEF ErasureInv, ThreadInv
<1>15. ExpiringInv'
  <2>1. SUFFICES ASSUME NEW x \in Exports, store.expiring = x, rows # "purged"
                 PROVE  job'[x].status \in {"completed", "expired"}
    BY <1>2 DEF ExpiringInv
  <2>2. job[x].status \in {"completed", "expired"}
    BY <2>1 DEF ErasureInv, ExpiringInv
  <2>3. QED
    BY <1>6, <1>7, <1>8, <2>2
<1>16. StoredInv'
  BY <1>6, <1>7, <1>8 DEF ErasureInv, StoredInv
<1>17. DoneLate'
  BY <1>2, <1>9 DEF ErasureInv, DoneLate, Late
<1>18. KnownArchives'
  <2>1. SUFFICES ASSUME NEW x \in Exports, Calm, x \in obj
                 PROVE  (job'[x].stored /\ store.expiring # x) \/ Putting(x)'
    BY <1>2 DEF KnownArchives, Calm
  <2>2. (job[x].stored /\ store.expiring # x) \/ Putting(x)
    BY <2>1 DEF ErasureInv, KnownArchives
  <2>3. CASE x # e
    <3>1. job'[x] = job[x]
      BY <1>6, <1>8, <2>3
    <3>2. Putting(x) => Putting(x)'
      BY <1>2, <1>4, <2>3 DEF Putting
    <3>3. QED
      BY <2>2, <3>1, <3>2
  <2>4. CASE x = e /\ ~Running(e)
    <3>1. pc'[w] = "unput" /\ proc'[w].job = e
      BY <1>2, <1>3, <2>4 DEF Types, TPc
    <3>2. QED
      BY <2>4, <3>1 DEF Putting
  <2>5. CASE x = e /\ Running(e)
    <3>1. job'[e].stored = TRUE
      BY <2>5 DEF PublishArchive, Types, TJob, JobRows, Jobs
    <3>2. store.expiring # e
      <4>1. SUFFICES ASSUME store.expiring = e PROVE FALSE
        OBVIOUS
      <4>2. rows = "purged"
        BY <2>5, <4>1 DEF ErasureInv, ExpiringInv, Running
      <4>3. obj = {}
        BY <2>1, <4>2 DEF ErasureInv, EmptyStore, ObjectsDone
      <4>4. QED
        BY <2>1, <4>3
    <3>3. QED
      BY <2>5, <3>1, <3>2
  <2>6. QED
    BY <2>3, <2>4, <2>5
<1>19. EmptyStore'
  BY <1>2, <1>9 DEF ErasureInv, EmptyStore, Calm
<1>20. QED
  BY <1>1, <1>10, <1>11, <1>12, <1>13, <1>14, <1>15, <1>16, <1>17, <1>18, <1>19 DEF ErasureInv, BoundLe, ReceiptInv, UploadInv, KnownArtifact, Calm, PublishArchive, wsVars, dataVars, exportVars, storeVars

LEMMA DeleteArchiveErasure ==
  ASSUME NEW w \in Workers, NEW e \in Exports, Types, Inv, ErasureInv, DeleteArchive(w, e)
  PROVE  ErasureInv'
<1>1. Types'
  BY DeleteArchiveTypes DEF ErasureInv
<1>2. MarksInOrder'
  BY DEF ErasureInv, Types, MarksInOrder, TPc, TProc, ProcRows, DeleteArchive, Goto, Exporter, wsVars, dataVars, exportVars
<1>3. BoundLe'
  <2>1. CASE UNCHANGED bound
    BY <2>1 DEF ErasureInv, BoundLe
  <2>2. CASE bound.faults > 0 /\ bound' = [bound EXCEPT !.faults = @ - 1]
    BY <1>1, <2>2, FaultSpends, SpendsKeeps DEF ErasureInv
  <2>3. QED
    BY <2>1, <2>2 DEF DeleteArchive
<1>4. QuietWhenDue'
  BY DEF ErasureInv, Types, QuietWhenDue, Late, Working, Recovering, TWs, TFlags, TStore, TJob, TProc, TPc, JobRows, ProcRows, DeleteArchive, Goto, Exporter, wsVars, dataVars, exportVars
<1>5. ReadBefore'
  BY DEF ErasureInv, Types, ReadBefore, TPc, TProc, TWs, TFlags, ProcRows, DeleteArchive, Goto, Exporter, wsVars, dataVars, exportVars
<1>6. RecoversOnly'
  BY DEF ErasureInv, Types, RecoversOnly, Recovering, TPc, DeleteArchive, Goto, Exporter, wsVars, dataVars, exportVars
<1>7. ThreadInv'
  BY DEF ErasureInv, Types, ThreadInv, ThreadDone, TJob, TProc, TPc, TThread, JobRows, ProcRows, DeleteArchive, Goto, Exporter, wsVars, dataVars, exportVars, ThreadPhases
<1>8. UploadInv'
  BY DEF ErasureInv, Types, UploadInv, TStore, TArt, DeleteArchive, Goto, Exporter, wsVars, dataVars, exportVars
<1>9. DoneLate'
  BY DEF ErasureInv, Types, DoneLate, ObjectsDone, Late, TJob, TProc, TPc, TData, TWs, JobRows, ProcRows, DeleteArchive, Goto, Exporter, wsVars, dataVars, exportVars
<1>10. KnownArtifact'
  BY DEF ErasureInv, Types, KnownArtifact, Calm, BoundLe, TBound, TArt, TStore, DeleteArchive, Goto, Exporter, wsVars, dataVars, exportVars
<1>11. KnownArchives'
  BY DEF ErasureInv, Types, KnownArchives, Calm, Putting, BoundLe, TBound, TArt, TStore, TJob, TPc, TProc, JobRows, ProcRows, DeleteArchive, Goto, Exporter, wsVars, dataVars, exportVars
<1>12. EmptyStore'
  BY DEF ErasureInv, Types, EmptyStore, Calm, ObjectsDone, BoundLe, TBound, TArt, TJob, TProc, TPc, TData, JobRows, ProcRows, DeleteArchive, Goto, Exporter, wsVars, dataVars, exportVars
<1>13. QED
  BY <1>1, <1>2, <1>3, <1>4, <1>5, <1>6, <1>7, <1>8, <1>9, <1>10, <1>11, <1>12 DEF ErasureInv, ReceiptInv, ExpiringInv, StoredInv, DeleteArchive, wsVars, dataVars, exportVars

LEMMA RecoverFenceErasure ==
  ASSUME NEW w \in Workers, NEW e \in Exports, Types, Inv, ErasureInv, RecoverFence(w, e)
  PROVE  ErasureInv'
<1>1. Types'
  BY RecoverFenceTypes DEF ErasureInv
<1>2. Spends
  BY StartSpends DEF RecoverFence, ErasureInv
<1>3. BoundLe' /\ (Calm' => Calm)
  BY <1>1, <1>2, SpendsKeeps DEF ErasureInv
<1>4. UNCHANGED <<ws, due, art, store, obj, job, rows, thread>> /\ pc[w] = "idle"
  BY DEF RecoverFence, StartTick, At, wsVars, dataVars, exportVars, storeVars
<1>5. /\ \A v \in Workers : v # w => (pc'[v] = pc[v] /\ proc'[v] = proc[v])
      /\ pc'[w] = "releasing" /\ proc'[w].job = e /\ e \notin Purges
  BY WorkspaceAssumption DEF RecoverFence, Types, TPc, TProc, ProcRows
<1>6. (ThreadDone' => ThreadDone) /\ (ObjectsDone' => ObjectsDone)
  BY <1>4, <1>5 DEF ThreadDone, ObjectsDone
<1>7. MarksInOrder'
  BY DEF ErasureInv, Types, MarksInOrder, TPc, TProc, ProcRows, RecoverFence, StartTick, MayRecover, wsVars, dataVars, exportVars, storeVars
<1>8. BoundLe'
  BY <1>3
<1>9. QuietWhenDue'
  BY DEF ErasureInv, Types, QuietWhenDue, Late, Working, Recovering, TWs, TFlags, TStore, TJob, TProc, TPc, JobRows, ProcRows, RecoverFence, StartTick, MayRecover, wsVars, dataVars, exportVars, storeVars
<1>10. ReadBefore'
  BY DEF ErasureInv, Types, ReadBefore, TPc, TProc, TWs, TFlags, ProcRows, RecoverFence, StartTick, MayRecover, wsVars, dataVars, exportVars, storeVars
<1>11. RecoversOnly'
  BY DEF ErasureInv, Types, RecoversOnly, Recovering, TPc, RecoverFence, StartTick, MayRecover, wsVars, dataVars, exportVars, storeVars
<1>12. ThreadInv'
  BY <1>4, <1>6 DEF ErasureInv, ThreadInv
<1>13. DoneLate'
  BY <1>4, <1>6 DEF ErasureInv, DoneLate, Late
<1>14. KnownArtifact'
  BY <1>3, <1>4 DEF ErasureInv, KnownArtifact
<1>15. KnownArchives'
  <2>1. \A x \in Exports : Putting(x) => Putting(x)'
    BY <1>4, <1>5 DEF Putting
  <2>2. QED
    BY <1>3, <1>4, <2>1 DEF ErasureInv, KnownArchives
<1>16. EmptyStore'
  BY <1>3, <1>4, <1>6 DEF ErasureInv, EmptyStore
<1>17. QED
  BY <1>1, <1>7, <1>8, <1>9, <1>10, <1>11, <1>12, <1>13, <1>14, <1>15, <1>16 DEF ErasureInv, ReceiptInv, UploadInv, ExpiringInv, StoredInv, RecoverFence, wsVars, dataVars, exportVars, storeVars

LEMMA SelectJobErasure ==
  ASSUME NEW w \in Workers, NEW j \in Jobs, Types, Inv, ErasureInv, SelectJob(w, j)
  PROVE  ErasureInv'
<1>1. Types'
  BY SelectJobTypes DEF ErasureInv
<1>2. Spends
  BY StartSpends DEF SelectJob, ErasureInv
<1>3. BoundLe' /\ (Calm' => Calm)
  BY <1>1, <1>2, SpendsKeeps DEF ErasureInv
<1>4. UNCHANGED <<ws, due, art, store, obj, job, rows, thread, back>> /\ pc[w] = "idle"
  BY DEF SelectJob, StartTick, At, wsVars, dataVars, exportVars, storeVars
<1>5. /\ \A v \in Workers : v # w => (pc'[v] = pc[v] /\ proc'[v] = proc[v])
      /\ pc'[w] = "polled"
  BY DEF SelectJob, Types, TPc, TProc
<1>6. proc'[w].job = j /\ proc'[w].phase = job[j].phase
  BY DEF SelectJob, Types, TProc, Unread
<1>7. (ThreadDone' => ThreadDone) /\ (ObjectsDone' => ObjectsDone)
  BY <1>4, <1>5, <1>6 DEF ThreadDone, ObjectsDone
<1>8. MarksInOrder'
  BY DEF ErasureInv, Types, MarksInOrder, TPc, TProc, ProcRows, SelectJob, StartTick, Selectable, wsVars, dataVars, exportVars, storeVars
<1>9. BoundLe'
  BY <1>3
<1>10. QuietWhenDue'
  BY DEF ErasureInv, Types, QuietWhenDue, Late, Working, Recovering, TWs, TFlags, TStore, TJob, TProc, TPc, JobRows, ProcRows, SelectJob, StartTick, Selectable, wsVars, dataVars, exportVars, storeVars
<1>11. ReadBefore'
  BY DEF ErasureInv, Types, ReadBefore, TPc, TProc, TWs, TFlags, ProcRows, SelectJob, StartTick, Selectable, wsVars, dataVars, exportVars, storeVars
<1>12. RecoversOnly'
  BY <1>4, <1>5 DEF ErasureInv, RecoversOnly, Recovering
<1>13. ThreadInv'
  BY <1>4, <1>7 DEF ErasureInv, ThreadInv
<1>14. DoneLate'
  BY <1>4, <1>7 DEF ErasureInv, DoneLate, Late
<1>15. KnownArtifact'
  BY <1>3, <1>4 DEF ErasureInv, KnownArtifact
<1>16. KnownArchives'
  <2>1. \A x \in Exports : Putting(x) => Putting(x)'
    BY <1>4, <1>5 DEF Putting
  <2>2. QED
    BY <1>3, <1>4, <2>1 DEF ErasureInv, KnownArchives
<1>17. EmptyStore'
  BY <1>3, <1>4, <1>7 DEF ErasureInv, EmptyStore
<1>18. QED
  BY <1>1, <1>8, <1>9, <1>10, <1>11, <1>12, <1>13, <1>14, <1>15, <1>16, <1>17 DEF ErasureInv, ReceiptInv, UploadInv, ExpiringInv, StoredInv, SelectJob, wsVars, dataVars, exportVars, storeVars

LEMMA ClaimJobErasure ==
  ASSUME NEW w \in Workers, NEW j \in Jobs, Types, Inv, ErasureInv, ClaimJob(w, j)
  PROVE  ErasureInv'
<1>1. Types'
  BY ClaimJobTypes DEF ErasureInv
<1>2. UNCHANGED <<ws, due, art, store, obj, rows, thread, bound>> /\ pc[w] = "claim" /\ proc[w].job = j
  BY DEF ClaimJob, At, wsVars, dataVars, exportVars, storeVars
<1>3. \/ /\ MayClaim(j) /\ UNCHANGED <<back, proc>>
         /\ pc'[w] \notin {"mark", "polled", "claim"}
      \/ job' = job /\ proc'[w].job = None /\ pc'[w] = "idle"
  BY ResumePcs, ResumesExport DEF ClaimJob, Goto, Return, Unread, Types, TPc, TProc
<1>4. \A v \in Workers : v # w => (pc'[v] = pc[v] /\ proc'[v] = proc[v] /\ back'[v] = back[v])
  BY DEF ClaimJob, Goto, Return, Types, TPc, TProc
<1>5. \A x \in Jobs : job'[x].phase = job[x].phase /\ (x # j => job'[x] = job[x])
  BY DEF ClaimJob, Types, TJob, JobRows
<1>6. (ThreadDone' => ThreadDone) /\ (ObjectsDone' => ObjectsDone)
  <2>1. \A v \in Workers : proc'[v].job \in Purges => proc'[v] = proc[v]
    BY <1>3, <1>4, WorkspaceAssumption
  <2>2. \A v \in Workers : pc'[v] = "mark" => (pc[v] = "mark" /\ proc'[v] = proc[v])
    BY <1>3, <1>4
  <2>3. QED
    BY <1>2, <1>5, <2>1, <2>2, RowFacts DEF ThreadDone, ObjectsDone
<1>7. MarksInOrder'
  BY ResumePcs, ResumesExport DEF ErasureInv, Types, MarksInOrder, TPc, TProc, ProcRows, ClaimJob, Goto, Return, At, MayClaim, Least, wsVars, dataVars, exportVars, storeVars
<1>8. QuietWhenDue'
  <2>1. SUFFICES ASSUME Late \/ (ws.status = "quarantined" /\ due)
                 PROVE  store.upload = "idle" /\ \A x \in Exports : job'[x].status \notin {"queued", "running"} /\ ~Working(x)'
    BY <1>2 DEF QuietWhenDue, Late
  <2>2. store.upload = "idle" /\ \A x \in Exports : job[x].status \notin {"queued", "running"} /\ ~Working(x)
    BY <2>1 DEF ErasureInv, QuietWhenDue
  <2>3. ASSUME NEW x \in Exports
        PROVE  job'[x].status \notin {"queued", "running"} /\ ~Working(x)'
    <3>1. CASE x = j
      <4>1. job' = job /\ proc'[w].job = None
        BY <1>3, <2>2, <3>1 DEF MayClaim
      <4>2. QED
        BY <1>4, <2>2, <4>1, WorkspaceAssumption DEF Working, Recovering
    <3>2. CASE x # j
      <4>1. job'[x] = job[x]
        BY <1>5, <3>2, RowFacts
      <4>2. proc'[w].job # x
        BY <1>2, <1>3, <3>2, WorkspaceAssumption
      <4>3. QED
        BY <1>4, <2>2, <4>1, <4>2 DEF Working, Recovering
    <3>3. QED
      BY <3>1, <3>2
  <2>4. QED
    BY <2>2, <2>3
<1>9. ReadBefore'
  BY ResumePcs, ResumesExport DEF ErasureInv, Types, ReadBefore, TPc, TProc, TWs, TFlags, ProcRows, ClaimJob, Goto, Return, At, MayClaim, Least, wsVars, dataVars, exportVars, storeVars
<1>10. RecoversOnly'
  BY ResumePcs, ResumesExport DEF ErasureInv, Types, RecoversOnly, Recovering, TPc, ClaimJob, Goto, Return, At, MayClaim, Least, wsVars, dataVars, exportVars, storeVars
<1>11. ThreadInv'
  BY <1>2, <1>6 DEF ErasureInv, ThreadInv
<1>12. ExpiringInv'
  BY ResumePcs, ResumesExport DEF ErasureInv, Types, ExpiringInv, TStore, TJob, TData, JobRows, ClaimJob, Goto, Return, At, MayClaim, Least, wsVars, dataVars, exportVars, storeVars
<1>13. StoredInv'
  BY DEF ErasureInv, Types, StoredInv, TJob, JobRows, ClaimJob, Goto, Return, At, MayClaim, Least, wsVars, dataVars, exportVars, storeVars
<1>14. DoneLate'
  BY <1>2, <1>6 DEF ErasureInv, DoneLate, Late
<1>15. KnownArchives'
  BY ResumePcs, ResumesExport DEF ErasureInv, Types, KnownArchives, Calm, Putting, BoundLe, TBound, TArt, TStore, TJob, TPc, TProc, JobRows, ProcRows, ClaimJob, Goto, Return, At, MayClaim, Least, wsVars, dataVars, exportVars, storeVars
<1>16. EmptyStore'
  BY <1>2, <1>6 DEF ErasureInv, EmptyStore, Calm
<1>17. QED
  BY <1>1, <1>7, <1>8, <1>9, <1>10, <1>11, <1>12, <1>13, <1>14, <1>15, <1>16 DEF ErasureInv, BoundLe, ReceiptInv, UploadInv, KnownArtifact, Calm, ClaimJob, wsVars, dataVars, exportVars, storeVars

LEMMA DeletionReadErasure ==
  ASSUME Types, ErasureInv, DeletionRead
  PROVE  ErasureInv'
<1>1. Types'
  BY DeletionReadTypes DEF ErasureInv
<1>2. JobsGo
  BY DEF JobsGo, DeletionRead
<1>3. Spends
  BY DEF Spends, Types, TBound, DeletionRead, wsVars, dataVars, exportVars, storeVars, workerVars
<1>4. UNCHANGED <<pc, back, proc, ws, due, rows, receipts, art, store, obj>>
  BY DEF DeletionRead, wsVars, dataVars, exportVars, storeVars, workerVars
<1>5. (creds' = creds \/ creds' = FALSE) /\ thread'.purged = thread.purged
  BY DEF Types, TThread, DeletionRead, wsVars, exportVars
<1>6. QED
  BY <1>1, <1>2, <1>3, <1>4, <1>5, RequestKeeps

LEMMA DeletionRevokeErasure ==
  ASSUME Types, ErasureInv, DeletionRevoke
  PROVE  ErasureInv'
<1>1. Types'
  BY DeletionRevokeTypes DEF ErasureInv
<1>2. JobsGo
  BY DEF JobsGo, DeletionRevoke
<1>3. Spends
  BY DEF Spends, Types, TBound, DeletionRevoke, dataVars, exportVars, storeVars, workerVars
<1>4. UNCHANGED <<pc, back, proc, ws, due, rows, receipts, art, store, obj>>
  BY DEF DeletionRevoke, dataVars, exportVars, storeVars, workerVars
<1>5. (creds' = creds \/ creds' = FALSE) /\ thread'.purged = thread.purged
  BY DEF Types, TThread, DeletionRevoke, exportVars
<1>6. QED
  BY <1>1, <1>2, <1>3, <1>4, <1>5, RequestKeeps

LEMMA RetryRevocationErasure ==
  ASSUME Types, ErasureInv, RetryRevocation
  PROVE  ErasureInv'
<1>1. Types'
  BY RetryRevocationTypes DEF ErasureInv
<1>2. JobsGo
  BY DEF JobsGo, RetryRevocation
<1>3. Spends
  <2>1. CASE UNCHANGED bound
    BY <2>1, NothingSpent
  <2>2. CASE bound.faults > 0 /\ bound' = [bound EXCEPT !.faults = @ - 1]
    BY <2>2, FaultSpends DEF ErasureInv
  <2>3. QED
    BY <2>1, <2>2 DEF RetryRevocation
<1>4. UNCHANGED <<pc, back, proc, ws, due, rows, receipts, art, store, obj>>
  BY DEF RetryRevocation, dataVars, exportVars, storeVars, workerVars
<1>5. (creds' = creds \/ creds' = FALSE) /\ thread'.purged = thread.purged
  BY DEF Types, TThread, RetryRevocation, exportVars
<1>6. QED
  BY <1>1, <1>2, <1>3, <1>4, <1>5, RequestKeeps

LEMMA RecoveryReadErasure ==
  ASSUME Types, ErasureInv, RecoveryRead
  PROVE  ErasureInv'
<1>1. Types'
  BY RecoveryReadTypes DEF ErasureInv
<1>2. JobsGo
  BY DEF JobsGo, RecoveryRead
<1>3. Spends
  BY DEF Spends, Types, TBound, RecoveryRead, dataVars, exportVars, storeVars, workerVars
<1>4. UNCHANGED <<pc, back, proc, ws, due, rows, receipts, art, store, obj>>
  BY DEF RecoveryRead, dataVars, exportVars, storeVars, workerVars
<1>5. (creds' = creds \/ creds' = FALSE) /\ thread'.purged = thread.purged
  BY DEF Types, TThread, RecoveryRead, exportVars
<1>6. QED
  BY <1>1, <1>2, <1>3, <1>4, <1>5, RequestKeeps

LEMMA AcquireFenceErasure ==
  ASSUME NEW w \in Workers, NEW e \in Exports, Types, ErasureInv, AcquireFence(w, e)
  PROVE  ErasureInv'
<1>1. Types'
  BY AcquireFenceTypes DEF ErasureInv
<1>2. WorkerGoes(w)
  BY ResumePcs, ResumesExport, WorkspaceAssumption DEF WorkerGoes, Types, TPc, TProc, ProcRows, ErasureInv, RecoversOnly, Recovering, Unread, AcquireFence, Goto, Exporter
<1>3. JobsGo
  BY DEF JobsGo, AcquireFence
<1>4. Spends
  BY DEF Spends, Types, TBound, AcquireFence, wsVars, dataVars, storeVars
<1>5. UNCHANGED <<ws, due, rows, creds, receipts, art, store, obj>>
  BY DEF AcquireFence, wsVars, dataVars, storeVars
<1>6. thread'.purged = thread.purged
  BY DEF Types, TThread, AcquireFence
<1>7. pc[w] \in {"publish", "unput"} => ~Calm'
  BY DEF AcquireFence, Exporter
<1>8. QED
  BY <1>1, <1>2, <1>3, <1>4, <1>5, <1>6, <1>7, WorkerKeeps

LEMMA BeginCaptureErasure ==
  ASSUME NEW w \in Workers, NEW e \in Exports, Types, ErasureInv, BeginCapture(w, e)
  PROVE  ErasureInv'
<1>1. Types'
  BY BeginCaptureTypes DEF ErasureInv
<1>2. WorkerGoes(w)
  BY WorkspaceAssumption DEF WorkerGoes, Types, TPc, TProc, ProcRows, ErasureInv, RecoversOnly, Recovering, Unread, BeginCapture, Exporter, Cursor, Goto, ReleaseAnd
<1>3. JobsGo
  <2>1. PICK r : r = [job[e] EXCEPT !.phase = "fenced"]
    OBVIOUS
  <2>2. job' = job \/ job' = [job EXCEPT ![e] = r]
    BY <2>1 DEF BeginCapture, Cursor
  <2>3. e \in Jobs /\ e \notin Purges
    BY RowFacts, WorkspaceAssumption
  <2>4. r.status = job[e].status /\ r.stored = job[e].stored
    BY <2>1, <2>3 DEF Types, TJob, JobRows
  <2>5. QED
    BY <2>2, <2>3, <2>4, RowGoes, JobsStay
<1>4. Spends
  BY DEF Spends, Types, TBound, BeginCapture, wsVars, dataVars, storeVars
<1>5. UNCHANGED <<ws, due, rows, creds, receipts, art, store, obj>>
  BY DEF BeginCapture, wsVars, dataVars, storeVars
<1>6. thread'.purged = thread.purged
  BY DEF Types, TThread, BeginCapture
<1>7. pc[w] \in {"publish", "unput"} => ~Calm'
  BY DEF BeginCapture, Exporter
<1>8. QED
  BY <1>1, <1>2, <1>3, <1>4, <1>5, <1>6, <1>7, WorkerKeeps

LEMMA FreezeThreadErasure ==
  ASSUME NEW w \in Workers, NEW e \in Exports, Types, ErasureInv, FreezeThread(w, e)
  PROVE  ErasureInv'
<1>1. Types'
  BY FreezeThreadTypes DEF ErasureInv
<1>2. WorkerGoes(w)
  BY WorkspaceAssumption DEF WorkerGoes, Types, TPc, TProc, ProcRows, ErasureInv, RecoversOnly, Recovering, Unread, FreezeThread, Goto, Exporter
<1>3. JobsGo
  BY DEF JobsGo, FreezeThread
<1>4. Spends
  BY DEF Spends, Types, TBound, FreezeThread, wsVars, dataVars, storeVars
<1>5. UNCHANGED <<ws, due, rows, creds, receipts, art, store, obj>>
  BY DEF FreezeThread, wsVars, dataVars, storeVars
<1>6. thread'.purged = thread.purged
  BY DEF Types, TThread, FreezeThread
<1>7. pc[w] \in {"publish", "unput"} => ~Calm'
  BY DEF FreezeThread, Exporter
<1>8. QED
  BY <1>1, <1>2, <1>3, <1>4, <1>5, <1>6, <1>7, WorkerKeeps

LEMMA StageMessagesErasure ==
  ASSUME NEW w \in Workers, NEW e \in Exports, Types, ErasureInv, StageMessages(w, e)
  PROVE  ErasureInv'
<1>1. Types'
  BY StageMessagesTypes DEF ErasureInv
<1>2. WorkerGoes(w)
  BY WorkspaceAssumption DEF WorkerGoes, Types, TPc, TProc, ProcRows, ErasureInv, RecoversOnly, Recovering, Unread, StageMessages, Exporter, Cursor, Goto, ReleaseAnd
<1>3. JobsGo
  <2>1. PICK r : r = [job[e] EXCEPT !.phase = "do_frozen"]
    OBVIOUS
  <2>2. job' = job \/ job' = [job EXCEPT ![e] = r]
    BY <2>1 DEF StageMessages, Cursor
  <2>3. e \in Jobs /\ e \notin Purges
    BY RowFacts, WorkspaceAssumption
  <2>4. r.status = job[e].status /\ r.stored = job[e].stored
    BY <2>1, <2>3 DEF Types, TJob, JobRows
  <2>5. QED
    BY <2>2, <2>3, <2>4, RowGoes, JobsStay
<1>4. Spends
  BY DEF Spends, Types, TBound, StageMessages, wsVars, dataVars, storeVars
<1>5. UNCHANGED <<ws, due, rows, creds, receipts, art, store, obj>>
  BY DEF StageMessages, wsVars, dataVars, storeVars
<1>6. thread'.purged = thread.purged
  BY DEF Types, TThread, StageMessages
<1>7. pc[w] \in {"publish", "unput"} => ~Calm'
  BY DEF StageMessages, Exporter
<1>8. QED
  BY <1>1, <1>2, <1>3, <1>4, <1>5, <1>6, <1>7, WorkerKeeps

LEMMA CopyRowsErasure ==
  ASSUME NEW w \in Workers, NEW e \in Exports, Types, ErasureInv, CopyRows(w, e)
  PROVE  ErasureInv'
<1>1. Types'
  BY CopyRowsTypes DEF ErasureInv
<1>2. WorkerGoes(w)
  BY WorkspaceAssumption DEF WorkerGoes, Types, TPc, TProc, ProcRows, ErasureInv, RecoversOnly, Recovering, Unread, CopyRows, Goto, Exporter
<1>3. JobsGo
  BY DEF JobsGo, CopyRows
<1>4. Spends
  BY DEF Spends, Types, TBound, CopyRows, wsVars, dataVars, storeVars
<1>5. UNCHANGED <<ws, due, rows, creds, receipts, art, store, obj>>
  BY DEF CopyRows, wsVars, dataVars, storeVars
<1>6. thread'.purged = thread.purged
  BY DEF Types, TThread, CopyRows
<1>7. pc[w] \in {"publish", "unput"} => ~Calm'
  BY DEF CopyRows, Exporter
<1>8. QED
  BY <1>1, <1>2, <1>3, <1>4, <1>5, <1>6, <1>7, WorkerKeeps

LEMMA CopyOtherRowsErasure ==
  ASSUME NEW w \in Workers, NEW e \in Exports, Types, ErasureInv, CopyOtherRows(w, e)
  PROVE  ErasureInv'
<1>1. Types'
  BY CopyOtherRowsTypes DEF ErasureInv
<1>2. WorkerGoes(w)
  BY WorkspaceAssumption DEF WorkerGoes, Types, TPc, TProc, ProcRows, ErasureInv, RecoversOnly, Recovering, Unread, CopyOtherRows, Goto, Exporter, Cursor, ReleaseAnd
<1>3. JobsGo
  <2>1. PICK r : r = [job[e] EXCEPT !.phase = "d1_materialized"]
    OBVIOUS
  <2>2. job' = job \/ job' = [job EXCEPT ![e] = r]
    BY <2>1 DEF CopyOtherRows, Cursor
  <2>3. e \in Jobs /\ e \notin Purges
    BY RowFacts, WorkspaceAssumption
  <2>4. r.status = job[e].status /\ r.stored = job[e].stored
    BY <2>1, <2>3 DEF Types, TJob, JobRows
  <2>5. QED
    BY <2>2, <2>3, <2>4, RowGoes, JobsStay
<1>4. Spends
  BY DEF Spends, Types, TBound, CopyOtherRows, wsVars, dataVars, storeVars
<1>5. UNCHANGED <<ws, due, rows, creds, receipts, art, store, obj>>
  BY DEF CopyOtherRows, wsVars, dataVars, storeVars
<1>6. thread'.purged = thread.purged
  BY DEF Types, TThread, CopyOtherRows
<1>7. pc[w] \in {"publish", "unput"} => ~Calm'
  BY DEF CopyOtherRows, Exporter
<1>8. QED
  BY <1>1, <1>2, <1>3, <1>4, <1>5, <1>6, <1>7, WorkerKeeps

LEMMA PinObjectsErasure ==
  ASSUME NEW w \in Workers, NEW e \in Exports, Types, ErasureInv, PinObjects(w, e)
  PROVE  ErasureInv'
<1>1. Types'
  BY PinObjectsTypes DEF ErasureInv
<1>2. WorkerGoes(w)
  BY WorkspaceAssumption DEF WorkerGoes, Types, TPc, TProc, ProcRows, ErasureInv, RecoversOnly, Recovering, Unread, PinObjects, ReleaseAnd, Exporter
<1>3. JobsGo
  <2>1. PICK r : r = [job[e] EXCEPT !.phase = "r2_pinned"]
    OBVIOUS
  <2>2. job' = job \/ job' = [job EXCEPT ![e] = r]
    BY <2>1 DEF PinObjects
  <2>3. e \in Jobs /\ e \notin Purges
    BY RowFacts, WorkspaceAssumption
  <2>4. r.status = job[e].status /\ r.stored = job[e].stored
    BY <2>1, <2>3 DEF Types, TJob, JobRows
  <2>5. QED
    BY <2>2, <2>3, <2>4, RowGoes, JobsStay
<1>4. Spends
  BY DEF Spends, Types, TBound, PinObjects, wsVars, dataVars, storeVars
<1>5. UNCHANGED <<ws, due, rows, creds, receipts, art, store, obj>>
  BY DEF PinObjects, wsVars, dataVars, storeVars
<1>6. thread'.purged = thread.purged
  BY DEF Types, TThread, PinObjects
<1>7. pc[w] \in {"publish", "unput"} => ~Calm'
  BY DEF PinObjects, Exporter
<1>8. QED
  BY <1>1, <1>2, <1>3, <1>4, <1>5, <1>6, <1>7, WorkerKeeps

LEMMA ReleaseFenceErasure ==
  ASSUME NEW w \in Workers, NEW e \in Exports, Types, ErasureInv, ReleaseFence(w, e)
  PROVE  ErasureInv'
<1>1. Types'
  BY ReleaseFenceTypes DEF ErasureInv
<1>2. WorkerGoes(w)
  <2>1. back[w] \in Backs
    BY DEF Types, TPc
  <2>0. pc[w] \notin {"polled", "claim"}
    BY DEF ReleaseFence, Exporter
  <2>2. CASE ((pc' = [pc EXCEPT ![w] = "unfreeze"] \/ pc' = [pc EXCEPT ![w] = back[w]]) /\ UNCHANGED <<back, proc>>)
    BY <2>0, <2>1, <2>2 DEF WorkerGoes, Backs, Recovering, Types, TPc
  <2>3. QED
    BY <2>2 DEF ReleaseFence, Goto
<1>3. JobsGo
  BY DEF JobsGo, ReleaseFence
<1>4. Spends
  BY DEF Spends, Types, TBound, ReleaseFence, wsVars, dataVars, storeVars
<1>5. UNCHANGED <<ws, due, rows, creds, receipts, art, store, obj>>
  BY DEF ReleaseFence, wsVars, dataVars, storeVars
<1>6. thread'.purged = thread.purged
  BY DEF Types, TThread, ReleaseFence
<1>7. pc[w] \in {"publish", "unput"} => ~Calm'
  BY DEF ReleaseFence, Exporter
<1>8. QED
  BY <1>1, <1>2, <1>3, <1>4, <1>5, <1>6, <1>7, WorkerKeeps

LEMMA UnfreezeThreadErasure ==
  ASSUME NEW w \in Workers, NEW e \in Exports, Types, ErasureInv, UnfreezeThread(w, e)
  PROVE  ErasureInv'
<1>1. Types'
  BY UnfreezeThreadTypes DEF ErasureInv
<1>2. WorkerGoes(w)
  <2>1. back[w] \in Backs /\ pc[w] \notin {"polled", "claim"}
    BY DEF Types, TPc, UnfreezeThread, Exporter
  <2>2. CASE (pc' = [pc EXCEPT ![w] = "unfence"] \/ pc' = [pc EXCEPT ![w] = back[w]]) /\ UNCHANGED <<back, proc>>
    BY <2>1, <2>2 DEF WorkerGoes, Backs, Recovering, Types, TPc
  <2>3. CASE ~Recovering(w) /\ pc' = [pc EXCEPT ![w] = "throw"] /\ UNCHANGED <<back, proc>>
    BY <2>1, <2>3 DEF WorkerGoes, Backs, Recovering, Types, TPc
  <2>4. CASE Return(w)
    BY <2>4, WorkspaceAssumption DEF WorkerGoes, Types, TPc, TProc, ProcRows, ErasureInv, RecoversOnly, Recovering, Unread, Return
  <2>5. QED
    BY <2>2, <2>3, <2>4 DEF UnfreezeThread, Goto
<1>3. JobsGo
  BY DEF JobsGo, UnfreezeThread
<1>4. Spends
  BY DEF Spends, Types, TBound, UnfreezeThread, wsVars, dataVars, storeVars
<1>5. UNCHANGED <<ws, due, rows, creds, receipts, art, store, obj>>
  BY DEF UnfreezeThread, wsVars, dataVars, storeVars
<1>6. thread'.purged = thread.purged
  BY DEF Types, TThread, UnfreezeThread
<1>7. pc[w] \in {"publish", "unput"} => ~Calm'
  BY DEF UnfreezeThread, Exporter
<1>8. QED
  BY <1>1, <1>2, <1>3, <1>4, <1>5, <1>6, <1>7, WorkerKeeps

LEMMA DeleteFenceErasure ==
  ASSUME NEW w \in Workers, NEW e \in Exports, Types, ErasureInv, DeleteFence(w, e)
  PROVE  ErasureInv'
<1>1. Types'
  BY DeleteFenceTypes DEF ErasureInv
<1>2. WorkerGoes(w)
  <2>1. back[w] \in Backs
    BY DEF Types, TPc
  <2>0. pc[w] \notin {"polled", "claim"}
    BY DEF DeleteFence, Exporter
  <2>2. CASE ((pc' = [pc EXCEPT ![w] = back[w]]) /\ UNCHANGED <<back, proc>>)
    BY <2>0, <2>1, <2>2 DEF WorkerGoes, Backs, Recovering, Types, TPc
  <2>3. QED
    BY <2>2 DEF DeleteFence, Goto
<1>3. JobsGo
  BY DEF JobsGo, DeleteFence
<1>4. Spends
  BY DEF Spends, Types, TBound, DeleteFence, wsVars, dataVars, storeVars
<1>5. UNCHANGED <<ws, due, rows, creds, receipts, art, store, obj>>
  BY DEF DeleteFence, wsVars, dataVars, storeVars
<1>6. thread'.purged = thread.purged
  BY DEF Types, TThread, DeleteFence
<1>7. pc[w] \in {"publish", "unput"} => ~Calm'
  BY DEF DeleteFence, Exporter
<1>8. QED
  BY <1>1, <1>2, <1>3, <1>4, <1>5, <1>6, <1>7, WorkerKeeps

LEMMA RecordReleasedErasure ==
  ASSUME NEW w \in Workers, NEW e \in Exports, Types, ErasureInv, RecordReleased(w, e)
  PROVE  ErasureInv'
<1>1. Types'
  BY RecordReleasedTypes DEF ErasureInv
<1>2. WorkerGoes(w)
  BY WorkspaceAssumption DEF WorkerGoes, Types, TPc, TProc, ProcRows, ErasureInv, RecoversOnly, Recovering, Unread, RecordReleased, Exporter, Cursor, Goto, ReleaseAnd
<1>3. JobsGo
  <2>1. PICK r : r = [job[e] EXCEPT !.phase = "released"]
    OBVIOUS
  <2>2. job' = job \/ job' = [job EXCEPT ![e] = r]
    BY <2>1 DEF RecordReleased, Cursor
  <2>3. e \in Jobs /\ e \notin Purges
    BY RowFacts, WorkspaceAssumption
  <2>4. r.status = job[e].status /\ r.stored = job[e].stored
    BY <2>1, <2>3 DEF Types, TJob, JobRows
  <2>5. QED
    BY <2>2, <2>3, <2>4, RowGoes, JobsStay
<1>4. Spends
  BY DEF Spends, Types, TBound, RecordReleased, wsVars, dataVars, exportVars, storeVars
<1>5. UNCHANGED <<ws, due, rows, creds, receipts, art, store, obj>>
  BY DEF RecordReleased, wsVars, dataVars, exportVars, storeVars
<1>6. thread'.purged = thread.purged
  BY DEF Types, TThread, RecordReleased, exportVars
<1>7. pc[w] \in {"publish", "unput"} => ~Calm'
  BY DEF RecordReleased, Exporter
<1>8. QED
  BY <1>1, <1>2, <1>3, <1>4, <1>5, <1>6, <1>7, WorkerKeeps

LEMMA BeginAssemblyErasure ==
  ASSUME NEW w \in Workers, NEW e \in Exports, Types, ErasureInv, BeginAssembly(w, e)
  PROVE  ErasureInv'
<1>1. Types'
  BY BeginAssemblyTypes DEF ErasureInv
<1>2. WorkerGoes(w)
  BY WorkspaceAssumption DEF WorkerGoes, Types, TPc, TProc, ProcRows, ErasureInv, RecoversOnly, Recovering, Unread, BeginAssembly, Goto, Exporter
<1>3. JobsGo
  <2>1. PICK r : r = [job[e] EXCEPT !.phase = "assembling"]
    OBVIOUS
  <2>2. job' = job \/ job' = [job EXCEPT ![e] = r]
    BY <2>1 DEF BeginAssembly
  <2>3. e \in Jobs /\ e \notin Purges
    BY RowFacts, WorkspaceAssumption
  <2>4. r.status = job[e].status /\ r.stored = job[e].stored
    BY <2>1, <2>3 DEF Types, TJob, JobRows
  <2>5. QED
    BY <2>2, <2>3, <2>4, RowGoes, JobsStay
<1>4. Spends
  BY DEF Spends, Types, TBound, BeginAssembly, wsVars, dataVars, exportVars, storeVars
<1>5. UNCHANGED <<ws, due, rows, creds, receipts, art, store, obj>>
  BY DEF BeginAssembly, wsVars, dataVars, exportVars, storeVars
<1>6. thread'.purged = thread.purged
  BY DEF Types, TThread, BeginAssembly, exportVars
<1>7. pc[w] \in {"publish", "unput"} => ~Calm'
  BY DEF BeginAssembly, Exporter
<1>8. QED
  BY <1>1, <1>2, <1>3, <1>4, <1>5, <1>6, <1>7, WorkerKeeps

LEMMA GatherEntriesErasure ==
  ASSUME NEW w \in Workers, NEW e \in Exports, Types, ErasureInv, GatherEntries(w, e)
  PROVE  ErasureInv'
<1>1. Types'
  BY GatherEntriesTypes DEF ErasureInv
<1>2. WorkerGoes(w)
  BY WorkspaceAssumption DEF WorkerGoes, Types, TPc, TProc, ProcRows, ErasureInv, RecoversOnly, Recovering, Unread, GatherEntries, Exporter
<1>3. JobsGo
  BY DEF JobsGo, GatherEntries
<1>4. Spends
  BY DEF Spends, Types, TBound, GatherEntries, wsVars, dataVars, exportVars, storeVars
<1>5. UNCHANGED <<ws, due, rows, creds, receipts, art, store, obj>>
  BY DEF GatherEntries, wsVars, dataVars, exportVars, storeVars
<1>6. thread'.purged = thread.purged
  BY DEF Types, TThread, GatherEntries, exportVars
<1>7. pc[w] \in {"publish", "unput"} => ~Calm'
  BY DEF GatherEntries, Exporter
<1>8. QED
  BY <1>1, <1>2, <1>3, <1>4, <1>5, <1>6, <1>7, WorkerKeeps

LEMMA ClearSnapshotErasure ==
  ASSUME NEW w \in Workers, NEW e \in Exports, Types, ErasureInv, ClearSnapshot(w, e)
  PROVE  ErasureInv'
<1>1. Types'
  BY ClearSnapshotTypes DEF ErasureInv
<1>2. WorkerGoes(w)
  BY WorkspaceAssumption DEF WorkerGoes, Types, TPc, TProc, ProcRows, ErasureInv, RecoversOnly, Recovering, Unread, ClearSnapshot, Return, Exporter
<1>3. JobsGo
  BY DEF JobsGo, ClearSnapshot
<1>4. Spends
  BY DEF Spends, Types, TBound, ClearSnapshot, wsVars, dataVars, storeVars
<1>5. UNCHANGED <<ws, due, rows, creds, receipts, art, store, obj>>
  BY DEF ClearSnapshot, wsVars, dataVars, storeVars
<1>6. thread'.purged = thread.purged
  BY DEF Types, TThread, ClearSnapshot
<1>7. pc[w] \in {"publish", "unput"} => ~Calm'
  BY DEF ClearSnapshot, Exporter
<1>8. QED
  BY <1>1, <1>2, <1>3, <1>4, <1>5, <1>6, <1>7, WorkerKeeps

LEMMA RequeueExportErasure ==
  ASSUME NEW w \in Workers, NEW e \in Exports, Types, ErasureInv, RequeueExport(w, e)
  PROVE  ErasureInv'
<1>1. Types'
  BY RequeueExportTypes DEF ErasureInv
<1>2. WorkerGoes(w)
  BY WorkspaceAssumption DEF WorkerGoes, Types, TPc, TProc, ProcRows, ErasureInv, RecoversOnly, Recovering, Unread, RequeueExport, Return, Exporter
<1>3. JobsGo
  BY WorkspaceAssumption DEF JobsGo, Types, TJob, JobRows, RequeueExport
<1>4. Spends
  BY DEF Spends, Types, TBound, RequeueExport, wsVars, dataVars, storeVars
<1>5. UNCHANGED <<ws, due, rows, creds, receipts, art, store, obj>>
  BY DEF RequeueExport, wsVars, dataVars, storeVars
<1>6. thread'.purged = thread.purged
  BY DEF Types, TThread, RequeueExport
<1>7. pc[w] \in {"publish", "unput"} => ~Calm'
  BY DEF RequeueExport, Exporter
<1>8. QED
  BY <1>1, <1>2, <1>3, <1>4, <1>5, <1>6, <1>7, WorkerKeeps

LEMMA ExportExhaustedErasure ==
  ASSUME NEW w \in Workers, NEW e \in Exports, Types, ErasureInv, ExportExhausted(w, e)
  PROVE  ErasureInv'
<1>1. Types'
  BY ExportExhaustedTypes DEF ErasureInv
<1>2. WorkerGoes(w)
  BY WorkspaceAssumption DEF WorkerGoes, Types, TPc, TProc, ProcRows, ErasureInv, RecoversOnly, Recovering, Unread, ExportExhausted, Return, Exporter
<1>3. JobsGo
  BY DEF JobsGo, ExportExhausted
<1>4. Spends
  BY DEF Spends, Types, TBound, ExportExhausted, dataVars, storeVars
<1>5. UNCHANGED <<ws, due, rows, creds, receipts, art, store, obj>>
  BY DEF ExportExhausted, dataVars, storeVars
<1>6. thread'.purged = thread.purged
  BY DEF Types, TThread, ExportExhausted
<1>7. pc[w] \in {"publish", "unput"} => ~Calm'
  BY DEF ExportExhausted, Exporter
<1>8. QED
  BY <1>1, <1>2, <1>3, <1>4, <1>5, <1>6, <1>7, WorkerKeeps

LEMMA UploadObjectErasure ==
  ASSUME Types, ErasureInv, UploadObject
  PROVE  ErasureInv'
<1>1. Types'
  BY UploadObjectTypes DEF ErasureInv
<1>2. Spends
  BY DEF Spends, Types, TBound, UploadObject, wsVars, dataVars, exportVars, workerVars
<1>3. UNCHANGED <<pc, back, proc, job, ws, due, rows, receipts, creds>>
  BY DEF UploadObject, wsVars, dataVars, exportVars, workerVars
<1>4. thread'.purged = thread.purged /\ store'.expiring = store.expiring
  BY DEF Types, TThread, TStore, UploadObject, exportVars
<1>5. \A e \in Exports : e \in obj' => e \in obj
  BY WorkspaceAssumption DEF UploadObject
<1>6. store'.upload = "idle" \/ store.upload # "idle" \/ ws.status = "active"
  BY DEF Types, TStore, UploadObject
<1>7. UploadInv'
  BY DEF ErasureInv, UploadInv, Types, TStore, TArt, UploadObject
<1>8. KnownArtifact'
  BY <1>1, <1>2, SpendsKeeps DEF ErasureInv, KnownArtifact, UploadInv, Types, TStore, TArt, UploadObject
<1>9. EmptyStore'
  BY <1>1, <1>2, <1>3, SpendsKeeps DEF ErasureInv, EmptyStore, ObjectsDone, DoneLate, Late, UploadObject
<1>10. QED
  BY <1>1, <1>2, <1>3, <1>4, <1>5, <1>6, <1>7, <1>8, <1>9, StoreKeeps

LEMMA InsertArtifactErasure ==
  ASSUME Types, ErasureInv, InsertArtifact
  PROVE  ErasureInv'
<1>1. Types'
  BY InsertArtifactTypes DEF ErasureInv
<1>2. Spends
  BY DEF Spends, Types, TBound, InsertArtifact, wsVars, dataVars, exportVars, workerVars
<1>3. UNCHANGED <<pc, back, proc, job, ws, due, rows, receipts, creds>>
  BY DEF InsertArtifact, wsVars, dataVars, exportVars, workerVars
<1>4. thread'.purged = thread.purged /\ store'.expiring = store.expiring
  BY DEF Types, TThread, TStore, InsertArtifact, exportVars
<1>5. \A e \in Exports : e \in obj' => e \in obj
  BY WorkspaceAssumption DEF InsertArtifact
<1>6. store'.upload = "idle" \/ store.upload # "idle" \/ ws.status = "active"
  BY DEF Types, TStore, InsertArtifact
<1>7. UploadInv'
  BY DEF ErasureInv, UploadInv, Types, TStore, TArt, InsertArtifact
<1>8. KnownArtifact'
  BY <1>1, <1>2, SpendsKeeps DEF ErasureInv, KnownArtifact, UploadInv, Types, TStore, TArt, InsertArtifact
<1>9. EmptyStore'
  BY <1>1, <1>2, <1>3, SpendsKeeps DEF ErasureInv, EmptyStore, ObjectsDone, DoneLate, Late, InsertArtifact
<1>10. QED
  BY <1>1, <1>2, <1>3, <1>4, <1>5, <1>6, <1>7, <1>8, <1>9, StoreKeeps

LEMMA DeleteRefusedErasure ==
  ASSUME Types, ErasureInv, DeleteRefused
  PROVE  ErasureInv'
<1>1. Types'
  BY DeleteRefusedTypes DEF ErasureInv
<1>2. Spends
  BY DEF Spends, Types, TBound, DeleteRefused, wsVars, dataVars, exportVars, workerVars
<1>3. UNCHANGED <<pc, back, proc, job, ws, due, rows, receipts, creds>>
  BY DEF DeleteRefused, wsVars, dataVars, exportVars, workerVars
<1>4. thread'.purged = thread.purged /\ store'.expiring = store.expiring
  BY DEF Types, TThread, TStore, DeleteRefused, exportVars
<1>5. \A e \in Exports : e \in obj' => e \in obj
  BY WorkspaceAssumption DEF DeleteRefused
<1>6. store'.upload = "idle" \/ store.upload # "idle" \/ ws.status = "active"
  BY DEF Types, TStore, DeleteRefused
<1>7. UploadInv'
  BY DEF ErasureInv, UploadInv, Types, TStore, TArt, DeleteRefused
<1>8. KnownArtifact'
  <2>1. CASE obj' = obj \ {Artifact}
    BY <2>1 DEF KnownArtifact
  <2>2. CASE bound.faults > 0 /\ bound' = [bound EXCEPT !.faults = @ - 1]
    BY <2>2, FaultSpends DEF ErasureInv, KnownArtifact
  <2>3. QED
    BY <2>1, <2>2 DEF DeleteRefused
<1>9. EmptyStore'
  BY <1>1, <1>2, <1>3, SpendsKeeps DEF ErasureInv, EmptyStore, ObjectsDone, DoneLate, Late, DeleteRefused
<1>10. QED
  BY <1>1, <1>2, <1>3, <1>4, <1>5, <1>6, <1>7, <1>8, <1>9, StoreKeeps

LEMMA UploadCrashErasure ==
  ASSUME Types, ErasureInv, UploadCrash
  PROVE  ErasureInv'
<1>1. Types'
  BY UploadCrashTypes DEF ErasureInv
<1>2. Spends
  BY DEF Spends, Types, TBound, UploadCrash, wsVars, dataVars, exportVars, workerVars
<1>3. UNCHANGED <<pc, back, proc, job, ws, due, rows, receipts, creds>>
  BY DEF UploadCrash, wsVars, dataVars, exportVars, workerVars
<1>4. thread'.purged = thread.purged /\ store'.expiring = store.expiring
  BY DEF Types, TThread, TStore, UploadCrash, exportVars
<1>5. \A e \in Exports : e \in obj' => e \in obj
  BY WorkspaceAssumption DEF UploadCrash
<1>6. store'.upload = "idle" \/ store.upload # "idle" \/ ws.status = "active"
  BY DEF Types, TStore, UploadCrash
<1>7. UploadInv'
  BY DEF ErasureInv, UploadInv, Types, TStore, TArt, UploadCrash
<1>8. KnownArtifact'
  BY CrashSpends DEF UploadCrash, ErasureInv, KnownArtifact
<1>9. EmptyStore'
  BY <1>1, <1>2, <1>3, SpendsKeeps DEF ErasureInv, EmptyStore, ObjectsDone, DoneLate, Late, UploadCrash
<1>10. QED
  BY <1>1, <1>2, <1>3, <1>4, <1>5, <1>6, <1>7, <1>8, <1>9, StoreKeeps

LEMMA ArtifactExpiresErasure ==
  ASSUME Types, ErasureInv, ArtifactExpires
  PROVE  ErasureInv'
<1>1. Types'
  BY ArtifactExpiresTypes DEF ErasureInv
<1>2. Spends
  BY DEF Spends, Types, TBound, ArtifactExpires, wsVars, dataVars, exportVars, workerVars
<1>3. UNCHANGED <<pc, back, proc, job, ws, due, rows, receipts, creds>>
  BY DEF ArtifactExpires, wsVars, dataVars, exportVars, workerVars
<1>4. thread'.purged = thread.purged /\ store'.expiring = store.expiring
  BY DEF Types, TThread, TStore, ArtifactExpires, exportVars
<1>5. \A e \in Exports : e \in obj' => e \in obj
  BY WorkspaceAssumption DEF ArtifactExpires
<1>6. store'.upload = "idle" \/ store.upload # "idle" \/ ws.status = "active"
  BY DEF Types, TStore, ArtifactExpires
<1>7. UploadInv'
  BY DEF ErasureInv, UploadInv, Types, TStore, TArt, ArtifactExpires
<1>8. KnownArtifact'
  BY <1>1, <1>2, SpendsKeeps DEF ErasureInv, KnownArtifact, UploadInv, Types, TStore, TArt, ArtifactExpires
<1>9. EmptyStore'
  BY <1>1, <1>2, <1>3, SpendsKeeps DEF ErasureInv, EmptyStore, ObjectsDone, DoneLate, Late, ArtifactExpires
<1>10. QED
  BY <1>1, <1>2, <1>3, <1>4, <1>5, <1>6, <1>7, <1>8, <1>9, StoreKeeps

LEMMA UpdateRetentionPolicyErasure ==
  ASSUME Types, ErasureInv, UpdateRetentionPolicy
  PROVE  ErasureInv'
<1>1. Types'
  BY UpdateRetentionPolicyTypes DEF ErasureInv
<1>2. Spends
  BY DEF Spends, Types, TBound, UpdateRetentionPolicy, wsVars, dataVars, exportVars, workerVars
<1>3. UNCHANGED <<pc, back, proc, job, ws, due, rows, receipts, creds>>
  BY DEF UpdateRetentionPolicy, wsVars, dataVars, exportVars, workerVars
<1>4. thread'.purged = thread.purged /\ store'.expiring = store.expiring
  BY DEF Types, TThread, TStore, UpdateRetentionPolicy, exportVars
<1>5. \A e \in Exports : e \in obj' => e \in obj
  BY WorkspaceAssumption DEF UpdateRetentionPolicy
<1>6. store'.upload = "idle" \/ store.upload # "idle" \/ ws.status = "active"
  BY DEF Types, TStore, UpdateRetentionPolicy
<1>7. UploadInv'
  BY DEF ErasureInv, UploadInv, Types, TStore, TArt, UpdateRetentionPolicy
<1>8. KnownArtifact'
  BY <1>1, <1>2, SpendsKeeps DEF ErasureInv, KnownArtifact, UploadInv, Types, TStore, TArt, UpdateRetentionPolicy
<1>9. EmptyStore'
  BY <1>1, <1>2, <1>3, SpendsKeeps DEF ErasureInv, EmptyStore, ObjectsDone, DoneLate, Late, UpdateRetentionPolicy
<1>10. QED
  BY <1>1, <1>2, <1>3, <1>4, <1>5, <1>6, <1>7, <1>8, <1>9, StoreKeeps

LEMMA SweepSelectErasure ==
  ASSUME Types, ErasureInv, SweepSelect
  PROVE  ErasureInv'
<1>1. Types'
  BY SweepSelectTypes DEF ErasureInv
<1>2. Spends
  BY DEF Spends, Types, TBound, SweepSelect, wsVars, dataVars, exportVars, workerVars
<1>3. UNCHANGED <<pc, back, proc, job, ws, due, rows, receipts, creds>>
  BY DEF SweepSelect, wsVars, dataVars, exportVars, workerVars
<1>4. thread'.purged = thread.purged /\ store'.expiring = store.expiring
  BY DEF Types, TThread, TStore, SweepSelect, exportVars
<1>5. \A e \in Exports : e \in obj' => e \in obj
  BY WorkspaceAssumption DEF SweepSelect
<1>6. store'.upload = "idle" \/ store.upload # "idle" \/ ws.status = "active"
  BY DEF Types, TStore, SweepSelect
<1>7. UploadInv'
  BY DEF ErasureInv, UploadInv, Types, TStore, TArt, SweepSelect, Sweepable
<1>8. KnownArtifact'
  BY <1>1, <1>2, SpendsKeeps DEF ErasureInv, KnownArtifact, UploadInv, Types, TStore, TArt, SweepSelect, Sweepable
<1>9. EmptyStore'
  BY <1>1, <1>2, <1>3, SpendsKeeps DEF ErasureInv, EmptyStore, ObjectsDone, DoneLate, Late, SweepSelect
<1>10. QED
  BY <1>1, <1>2, <1>3, <1>4, <1>5, <1>6, <1>7, <1>8, <1>9, StoreKeeps

LEMMA SweepObjectErasure ==
  ASSUME Types, ErasureInv, SweepObject
  PROVE  ErasureInv'
<1>1. Types'
  BY SweepObjectTypes DEF ErasureInv
<1>2. Spends
  BY DEF Spends, Types, TBound, SweepObject, wsVars, dataVars, exportVars, workerVars
<1>3. UNCHANGED <<pc, back, proc, job, ws, due, rows, receipts, creds>>
  BY DEF SweepObject, wsVars, dataVars, exportVars, workerVars
<1>4. thread'.purged = thread.purged /\ store'.expiring = store.expiring
  BY DEF Types, TThread, TStore, SweepObject, exportVars
<1>5. \A e \in Exports : e \in obj' => e \in obj
  BY WorkspaceAssumption DEF SweepObject
<1>6. store'.upload = "idle" \/ store.upload # "idle" \/ ws.status = "active"
  BY DEF Types, TStore, SweepObject
<1>7. UploadInv'
  BY DEF ErasureInv, UploadInv, Types, TStore, TArt, SweepObject
<1>8. KnownArtifact'
  BY <1>1, <1>2, SpendsKeeps DEF ErasureInv, KnownArtifact, UploadInv, Types, TStore, TArt, SweepObject
<1>9. EmptyStore'
  BY <1>1, <1>2, <1>3, SpendsKeeps DEF ErasureInv, EmptyStore, ObjectsDone, DoneLate, Late, SweepObject
<1>10. QED
  BY <1>1, <1>2, <1>3, <1>4, <1>5, <1>6, <1>7, <1>8, <1>9, StoreKeeps

LEMMA SweepRowErasure ==
  ASSUME Types, ErasureInv, SweepRow
  PROVE  ErasureInv'
<1>1. Types'
  BY SweepRowTypes DEF ErasureInv
<1>2. Spends
  BY DEF Spends, Types, TBound, SweepRow, wsVars, dataVars, exportVars, workerVars
<1>3. UNCHANGED <<pc, back, proc, job, ws, due, rows, receipts, creds>>
  BY DEF SweepRow, wsVars, dataVars, exportVars, workerVars
<1>4. thread'.purged = thread.purged /\ store'.expiring = store.expiring
  BY DEF Types, TThread, TStore, SweepRow, exportVars
<1>5. \A e \in Exports : e \in obj' => e \in obj
  BY WorkspaceAssumption DEF SweepRow
<1>6. store'.upload = "idle" \/ store.upload # "idle" \/ ws.status = "active"
  BY DEF Types, TStore, SweepRow
<1>7. UploadInv'
  BY DEF ErasureInv, UploadInv, Types, TStore, TArt, SweepRow
<1>8. KnownArtifact'
  BY <1>1, <1>2, SpendsKeeps DEF ErasureInv, KnownArtifact, UploadInv, Types, TStore, TArt, SweepRow
<1>9. EmptyStore'
  BY <1>1, <1>2, <1>3, SpendsKeeps DEF ErasureInv, EmptyStore, ObjectsDone, DoneLate, Late, SweepRow
<1>10. QED
  BY <1>1, <1>2, <1>3, <1>4, <1>5, <1>6, <1>7, <1>8, <1>9, StoreKeeps

LEMMA SweepOperationalDataErasure ==
  ASSUME Types, ErasureInv, SweepOperationalData
  PROVE  ErasureInv'
<1>1. Types'
  BY SweepOperationalDataTypes DEF ErasureInv
<1>2. JobsGo
  BY DEF JobsGo, SweepOperationalData
<1>3. Spends
  BY DEF Spends, Types, TBound, SweepOperationalData, wsVars, exportVars, storeVars, workerVars
<1>4. UNCHANGED <<pc, back, proc, ws, due, rows, receipts, art, store, obj>>
  BY DEF SweepOperationalData, wsVars, exportVars, storeVars, workerVars
<1>5. (creds' = creds \/ creds' = FALSE) /\ thread'.purged = thread.purged
  BY DEF Types, TThread, SweepOperationalData, wsVars, exportVars
<1>6. QED
  BY <1>1, <1>2, <1>3, <1>4, <1>5, RequestKeeps

LEMMA ThreadGoesStaleErasure ==
  ASSUME Types, ErasureInv, ThreadGoesStale
  PROVE  ErasureInv'
<1>1. Types'
  BY ThreadGoesStaleTypes DEF ErasureInv
<1>2. JobsGo
  BY DEF JobsGo, ThreadGoesStale
<1>3. Spends
  BY DEF Spends, Types, TBound, ThreadGoesStale, wsVars, dataVars, storeVars, workerVars
<1>4. UNCHANGED <<pc, back, proc, ws, due, rows, receipts, art, store, obj>>
  BY DEF ThreadGoesStale, wsVars, dataVars, storeVars, workerVars
<1>5. (creds' = creds \/ creds' = FALSE) /\ thread'.purged = thread.purged
  BY DEF Types, TThread, ThreadGoesStale, wsVars
<1>6. QED
  BY <1>1, <1>2, <1>3, <1>4, <1>5, RequestKeeps

LEMMA ChatSweepSelectErasure ==
  ASSUME Types, ErasureInv, ChatSweepSelect
  PROVE  ErasureInv'
<1>1. Types'
  BY ChatSweepSelectTypes DEF ErasureInv
<1>2. Spends
  BY DEF Spends, Types, TBound, ChatSweepSelect, wsVars, dataVars, exportVars, workerVars
<1>3. UNCHANGED <<pc, back, proc, job, ws, due, rows, receipts, creds>>
  BY DEF ChatSweepSelect, wsVars, dataVars, exportVars, workerVars
<1>4. thread'.purged = thread.purged /\ store'.expiring = store.expiring
  BY DEF Types, TThread, TStore, ChatSweepSelect, exportVars
<1>5. \A e \in Exports : e \in obj' => e \in obj
  BY WorkspaceAssumption DEF ChatSweepSelect
<1>6. store'.upload = "idle" \/ store.upload # "idle" \/ ws.status = "active"
  BY DEF Types, TStore, ChatSweepSelect
<1>7. UploadInv'
  BY DEF ErasureInv, UploadInv, Types, TStore, TArt, ChatSweepSelect
<1>8. KnownArtifact'
  BY <1>1, <1>2, SpendsKeeps DEF ErasureInv, KnownArtifact, UploadInv, Types, TStore, TArt, ChatSweepSelect
<1>9. EmptyStore'
  BY <1>1, <1>2, <1>3, SpendsKeeps DEF ErasureInv, EmptyStore, ObjectsDone, DoneLate, Late, ChatSweepSelect
<1>10. QED
  BY <1>1, <1>2, <1>3, <1>4, <1>5, <1>6, <1>7, <1>8, <1>9, StoreKeeps

LEMMA ChatSweepPurgeErasure ==
  ASSUME Types, ErasureInv, ChatSweepPurge
  PROVE  ErasureInv'
<1>1. Types'
  BY ChatSweepPurgeTypes DEF ErasureInv
<1>2. Spends
  BY DEF Spends, Types, TBound, ChatSweepPurge, wsVars, workerVars
<1>3. UNCHANGED <<pc, back, proc, job, ws, due, rows, receipts, creds>>
  BY DEF ChatSweepPurge, wsVars, workerVars
<1>4. thread'.purged = thread.purged /\ store'.expiring = store.expiring
  BY DEF Types, TThread, TStore, ChatSweepPurge
<1>5. \A e \in Exports : e \in obj' => e \in obj
  BY WorkspaceAssumption DEF ChatSweepPurge
<1>6. store'.upload = "idle" \/ store.upload # "idle" \/ ws.status = "active"
  BY DEF Types, TStore, ChatSweepPurge
<1>7. UploadInv'
  BY DEF ErasureInv, UploadInv, Types, TStore, TArt, ChatSweepPurge
<1>8. KnownArtifact'
  BY <1>1, <1>2, SpendsKeeps DEF ErasureInv, KnownArtifact, UploadInv, Types, TStore, TArt, ChatSweepPurge
<1>9. EmptyStore'
  BY <1>1, <1>2, <1>3, SpendsKeeps DEF ErasureInv, EmptyStore, ObjectsDone, DoneLate, Late, ChatSweepPurge
<1>10. QED
  BY <1>1, <1>2, <1>3, <1>4, <1>5, <1>6, <1>7, <1>8, <1>9, StoreKeeps

LEMMA ChatSweepMarkErasure ==
  ASSUME Types, ErasureInv, ChatSweepMark
  PROVE  ErasureInv'
<1>1. Types'
  BY ChatSweepMarkTypes DEF ErasureInv
<1>2. Spends
  BY DEF Spends, Types, TBound, ChatSweepMark, wsVars, dataVars, workerVars
<1>3. UNCHANGED <<pc, back, proc, job, ws, due, rows, receipts, creds>>
  BY DEF ChatSweepMark, wsVars, dataVars, workerVars
<1>4. thread'.purged = thread.purged /\ store'.expiring = store.expiring
  BY DEF Types, TThread, TStore, ChatSweepMark
<1>5. \A e \in Exports : e \in obj' => e \in obj
  BY WorkspaceAssumption DEF ChatSweepMark
<1>6. store'.upload = "idle" \/ store.upload # "idle" \/ ws.status = "active"
  BY DEF Types, TStore, ChatSweepMark
<1>7. UploadInv'
  BY DEF ErasureInv, UploadInv, Types, TStore, TArt, ChatSweepMark
<1>8. KnownArtifact'
  BY <1>1, <1>2, SpendsKeeps DEF ErasureInv, KnownArtifact, UploadInv, Types, TStore, TArt, ChatSweepMark
<1>9. EmptyStore'
  BY <1>1, <1>2, <1>3, SpendsKeeps DEF ErasureInv, EmptyStore, ObjectsDone, DoneLate, Late, ChatSweepMark
<1>10. QED
  BY <1>1, <1>2, <1>3, <1>4, <1>5, <1>6, <1>7, <1>8, <1>9, StoreKeeps

LEMMA WriteRowsErasure ==
  ASSUME Types, ErasureInv, WriteRows
  PROVE  ErasureInv'
<1>1. Types'
  BY WriteRowsTypes DEF ErasureInv
<1>2. JobsGo
  BY DEF JobsGo, WriteRows
<1>3. Spends
  BY DEF Spends, Types, TBound, WriteRows, wsVars, exportVars, storeVars, workerVars
<1>4. UNCHANGED <<pc, back, proc, ws, due, rows, receipts, art, store, obj>>
  BY DEF WriteRows, wsVars, exportVars, storeVars, workerVars
<1>5. (creds' = creds \/ creds' = FALSE) /\ thread'.purged = thread.purged
  BY DEF Types, TThread, WriteRows, wsVars, exportVars
<1>6. QED
  BY <1>1, <1>2, <1>3, <1>4, <1>5, RequestKeeps

LEMMA WriteMessageErasure ==
  ASSUME Types, ErasureInv, WriteMessage
  PROVE  ErasureInv'
<1>1. Types'
  BY WriteMessageTypes DEF ErasureInv
<1>2. JobsGo
  BY DEF JobsGo, WriteMessage
<1>3. Spends
  BY DEF Spends, Types, TBound, WriteMessage, wsVars, storeVars, workerVars
<1>4. UNCHANGED <<pc, back, proc, ws, due, rows, receipts, art, store, obj>>
  BY DEF WriteMessage, wsVars, storeVars, workerVars
<1>5. (creds' = creds \/ creds' = FALSE) /\ thread'.purged = thread.purged
  BY DEF Types, TThread, WriteMessage, wsVars
<1>6. QED
  BY <1>1, <1>2, <1>3, <1>4, <1>5, RequestKeeps

LEMMA ExecutionEndsErasure ==
  ASSUME Types, ErasureInv, ExecutionEnds
  PROVE  ErasureInv'
<1>1. Types'
  BY ExecutionEndsTypes DEF ErasureInv
<1>2. JobsGo
  BY DEF JobsGo, ExecutionEnds
<1>3. Spends
  BY DEF Spends, Types, TBound, ExecutionEnds, dataVars, exportVars, storeVars, workerVars
<1>4. UNCHANGED <<pc, back, proc, ws, due, rows, receipts, art, store, obj>>
  BY DEF ExecutionEnds, dataVars, exportVars, storeVars, workerVars
<1>5. (creds' = creds \/ creds' = FALSE) /\ thread'.purged = thread.purged
  BY DEF Types, TThread, ExecutionEnds, exportVars
<1>6. QED
  BY <1>1, <1>2, <1>3, <1>4, <1>5, RequestKeeps

LEMMA RequestCrashErasure ==
  ASSUME Types, ErasureInv, RequestCrash
  PROVE  ErasureInv'
<1>1. Types'
  BY RequestCrashTypes DEF ErasureInv
<1>2. JobsGo
  BY DEF JobsGo, RequestCrash
<1>3. Spends
  BY DEF Spends, Types, TBound, RequestCrash, wsVars, dataVars, exportVars, storeVars, workerVars
<1>4. UNCHANGED <<pc, back, proc, ws, due, rows, receipts, art, store, obj>>
  BY DEF RequestCrash, wsVars, dataVars, exportVars, storeVars, workerVars
<1>5. (creds' = creds \/ creds' = FALSE) /\ thread'.purged = thread.purged
  BY DEF Types, TThread, RequestCrash, wsVars, exportVars
<1>6. QED
  BY <1>1, <1>2, <1>3, <1>4, <1>5, RequestKeeps

LEMMA CheckQuiescenceErasure ==
  ASSUME NEW w \in Workers, NEW j \in Jobs, Types, ErasureInv, CheckQuiescence(w, j)
  PROVE  ErasureInv'
<1>1. Types'
  BY CheckQuiescenceTypes DEF ErasureInv
<1>2. WorkerGoes(w)
  BY WorkspaceAssumption DEF WorkerGoes, Types, TPc, TProc, ProcRows, ErasureInv, RecoversOnly, Recovering, Unread, CheckQuiescence, Goto, Return, At
<1>3. JobsGo
  BY DEF JobsGo, CheckQuiescence
<1>4. Spends
  BY DEF Spends, Types, TBound, CheckQuiescence, wsVars, dataVars, exportVars, storeVars
<1>5. UNCHANGED <<ws, due, rows, creds, receipts, art, store, obj>>
  BY DEF CheckQuiescence, wsVars, dataVars, exportVars, storeVars
<1>6. thread'.purged = thread.purged
  BY DEF Types, TThread, CheckQuiescence, exportVars
<1>7. pc[w] \in {"publish", "unput"} => ~Calm'
  BY DEF CheckQuiescence, At
<1>8. QED
  BY <1>1, <1>2, <1>3, <1>4, <1>5, <1>6, <1>7, WorkerKeeps

LEMMA RecordFailureErasure ==
  ASSUME NEW w \in Workers, NEW j \in Jobs, Types, ErasureInv, RecordFailure(w, j)
  PROVE  ErasureInv'
<1>1. Types'
  BY RecordFailureTypes DEF ErasureInv
<1>2. WorkerGoes(w)
  BY WorkspaceAssumption DEF WorkerGoes, Types, TPc, TProc, ProcRows, ErasureInv, RecoversOnly, Recovering, Unread, RecordFailure, Goto, Return, ReleaseAnd, At
<1>3. JobsGo
  <2>1. PICK s : s = IF Retryable(w) THEN "queued" ELSE "failed"
    OBVIOUS
  <2>2. job' = job \/ (Running(j) /\ job' = [job EXCEPT ![j].status = s, ![j].leased = FALSE])
    BY <2>1 DEF RecordFailure
  <2>3. PICK r : r = [job[j] EXCEPT !.status = s, !.leased = FALSE]
    OBVIOUS
  <2>4. r.phase = job[j].phase /\ r.stored = job[j].stored /\ r.status = s /\ s \in {"queued", "failed"}
    BY <2>1, <2>3 DEF Types, TJob, JobRows
  <2>5. job' = job \/ (Running(j) /\ job' = [job EXCEPT ![j] = r])
    BY <2>2, <2>3
  <2>6. QED
    BY <2>4, <2>5, RowGoes, JobsStay DEF Running
<1>4. Spends
  BY DEF Spends, Types, TBound, RecordFailure, wsVars, dataVars, exportVars, storeVars
<1>5. UNCHANGED <<ws, due, rows, creds, receipts, art, store, obj>>
  BY DEF RecordFailure, wsVars, dataVars, exportVars, storeVars
<1>6. thread'.purged = thread.purged
  BY DEF Types, TThread, RecordFailure, exportVars
<1>7. pc[w] \in {"publish", "unput"} => ~Calm'
  BY DEF RecordFailure, At
<1>8. QED
  BY <1>1, <1>2, <1>3, <1>4, <1>5, <1>6, <1>7, WorkerKeeps

LEMMA CallFailsErasure ==
  ASSUME NEW w \in Workers, Types, ErasureInv, CallFails(w)
  PROVE  ErasureInv'
<1>1. Types'
  BY CallFailsTypes DEF ErasureInv
<1>2. WorkerGoes(w)
  BY WorkspaceAssumption DEF WorkerGoes, Types, TPc, TProc, ProcRows, ErasureInv, RecoversOnly, Recovering, Unread, CallFails, Goto
<1>3. JobsGo
  BY DEF JobsGo, CallFails
<1>4. Spends
  BY DEF Spends, Types, TBound, CallFails, wsVars, dataVars, exportVars, storeVars
<1>5. UNCHANGED <<ws, due, rows, creds, receipts, art, store, obj>>
  BY DEF CallFails, wsVars, dataVars, exportVars, storeVars
<1>6. thread'.purged = thread.purged
  BY DEF Types, TThread, CallFails, exportVars
<1>7. pc[w] \in {"publish", "unput"} => ~Calm'
  BY DEF CallFails
<1>8. QED
  BY <1>1, <1>2, <1>3, <1>4, <1>5, <1>6, <1>7, WorkerKeeps

LEMMA WorkerCrashErasure ==
  ASSUME NEW w \in Workers, Types, ErasureInv, WorkerCrash(w)
  PROVE  ErasureInv'
<1>1. Types'
  BY WorkerCrashTypes DEF ErasureInv
<1>2. WorkerGoes(w)
  BY WorkspaceAssumption DEF WorkerGoes, Types, TPc, TProc, ProcRows, ErasureInv, RecoversOnly, Recovering, Unread, WorkerCrash, Return
<1>3. JobsGo
  BY DEF JobsGo, WorkerCrash
<1>4. Spends
  BY DEF Spends, Types, TBound, WorkerCrash, wsVars, dataVars, exportVars, storeVars
<1>5. UNCHANGED <<ws, due, rows, creds, receipts, art, store, obj>>
  BY DEF WorkerCrash, wsVars, dataVars, exportVars, storeVars
<1>6. thread'.purged = thread.purged
  BY DEF Types, TThread, WorkerCrash, exportVars
<1>7. pc[w] \in {"publish", "unput"} => ~Calm'
  BY CrashSpends DEF WorkerCrash, ErasureInv
<1>8. QED
  BY <1>1, <1>2, <1>3, <1>4, <1>5, <1>6, <1>7, WorkerKeeps

LEMMA JobLeaseExpiresErasure ==
  ASSUME NEW j \in Jobs, Types, ErasureInv, JobLeaseExpires(j)
  PROVE  ErasureInv'
<1>1. Types'
  BY JobLeaseExpiresTypes DEF ErasureInv
<1>2. JobsGo
  BY DEF JobsGo, Types, TJob, JobRows, JobLeaseExpires
<1>3. Spends
  BY DEF Spends, Types, TBound, JobLeaseExpires, wsVars, dataVars, exportVars, storeVars, workerVars
<1>4. UNCHANGED <<pc, back, proc, ws, due, rows, receipts, art, store, obj>>
  BY DEF JobLeaseExpires, wsVars, dataVars, exportVars, storeVars, workerVars
<1>5. (creds' = creds \/ creds' = FALSE) /\ thread'.purged = thread.purged
  BY DEF Types, TThread, JobLeaseExpires, wsVars, exportVars
<1>6. QED
  BY <1>1, <1>2, <1>3, <1>4, <1>5, RequestKeeps

LEMMA FenceLeaseExpiresErasure ==
  ASSUME NEW e \in Exports, Types, ErasureInv, FenceLeaseExpires(e)
  PROVE  ErasureInv'
<1>1. Types'
  BY FenceLeaseExpiresTypes DEF ErasureInv
<1>2. JobsGo
  BY DEF JobsGo, FenceLeaseExpires
<1>3. Spends
  BY DEF Spends, Types, TBound, FenceLeaseExpires, wsVars, dataVars, storeVars, workerVars
<1>4. UNCHANGED <<pc, back, proc, ws, due, rows, receipts, art, store, obj>>
  BY DEF FenceLeaseExpires, wsVars, dataVars, storeVars, workerVars
<1>5. (creds' = creds \/ creds' = FALSE) /\ thread'.purged = thread.purged
  BY DEF Types, TThread, FenceLeaseExpires, wsVars
<1>6. QED
  BY <1>1, <1>2, <1>3, <1>4, <1>5, RequestKeeps

-------------------------------------------------------------------------------
LEMMA InitTypes == WorkspaceInit => Types
<1> SUFFICES ASSUME WorkspaceInit PROVE Types
  OBVIOUS
<1>1. TWs /\ TReq /\ TFlags /\ TData
  <2>1. TWs
    BY DEF WorkspaceInit, TWs
  <2>2. TReq
    BY DEF WorkspaceInit, TReq
  <2>3. TFlags
    BY DEF WorkspaceInit, TFlags
  <2>4. TData
    BY DEF WorkspaceInit, TData
  <2>5. QED
    BY <2>1, <2>2, <2>3, <2>4
<1>2. TJob /\ TStaged
  BY RowFacts DEF WorkspaceInit, TJob, TStaged
<1>3. TFence /\ TThread
  BY DEF WorkspaceInit, TFence, NoFence, TThread
<1>4. TArt
  BY WorkspaceAssumption DEF WorkspaceInit, TArt
<1>5. TPc /\ TProc
  BY RowFacts, PcFacts DEF WorkspaceInit, TPc, Backs, TProc
<1>6. TStore
  BY DEF WorkspaceInit, TStore
<1>7. TBound
  BY WorkspaceAssumption DEF WorkspaceInit, TBound, Bounds
<1>8. QED
  BY <1>1, <1>2, <1>3, <1>4, <1>5, <1>6, <1>7 DEF Types

LEMMA Initially == WorkspaceInit => IInv
<1> SUFFICES ASSUME WorkspaceInit PROVE IInv
  OBVIOUS
<1>1. Types
  BY InitTypes
<1>2. ws.status = "active" /\ rows = "present" /\ receipts = 0 /\ ~thread.purged
  BY DEF WorkspaceInit
<1>3. \A w \in Workers : pc[w] = "idle" /\ back[w] = "record" /\ proc[w].job = None /\ proc[w].phase = "started"
  BY DEF WorkspaceInit, Unread
<1>4. \A j \in Jobs : job[j].status = "none" /\ job[j].phase = "started" /\ job[j].stored = FALSE
  BY DEF WorkspaceInit, NoJobRow
<1>5. store.upload = "idle" /\ store.sweep = "idle" /\ store.expiring = None
  BY DEF WorkspaceInit
<1>6. Inv
  BY <1>2, <1>3 DEF Inv, RecoveredIntact, PastRecovery
<1>7. MarksInOrder /\ ReadBefore /\ RecoversOnly
  BY <1>3 DEF MarksInOrder, ReadBefore, RecoversOnly, Recovering
<1>8. BoundLe
  BY WorkspaceAssumption DEF WorkspaceInit, BoundLe, Bounds
<1>9. QuietWhenDue /\ ReceiptInv
  BY <1>2 DEF QuietWhenDue, Late, ReceiptInv
<1>10. ~ThreadDone /\ ~ObjectsDone
  BY <1>2, <1>3, <1>4, RowFacts DEF ThreadDone, ObjectsDone, ThreadPhases
<1>11. ThreadInv /\ DoneLate /\ EmptyStore
  BY <1>10 DEF ThreadInv, DoneLate, EmptyStore
<1>12. UploadInv /\ ExpiringInv /\ StoredInv
  BY <1>4, <1>5, RowFacts, WorkspaceAssumption DEF UploadInv, ExpiringInv, StoredInv
<1>13. KnownArtifact /\ KnownArchives
  BY WorkspaceAssumption DEF WorkspaceInit, KnownArtifact, KnownArchives
<1>14. QED
  BY <1>1, <1>6, <1>7, <1>8, <1>9, <1>11, <1>12, <1>13 DEF IInv, ErasureInv

LEMMA NextKeeps == IInv /\ [Next]_vars => IInv'
<1> SUFFICES ASSUME Types, Inv, MarksInOrder, ErasureInv, [Next]_vars
             PROVE  IInv'
  BY DEF IInv, ErasureInv
<1>1. CASE DeletionStep
  <2>1. CASE DeletionRead
      BY <2>1, DeletionReadTypes, OthersKeep, DeletionReadErasure DEF IInv, DeletionRead, wsVars, dataVars, exportVars, storeVars, workerVars
  <2>2. CASE DeletionCommit
      BY <2>2, DeletionCommitTypes, DeletionCommitKeeps, DeletionCommitErasure DEF IInv
  <2>3. CASE DeletionRevoke
      BY <2>3, DeletionRevokeTypes, OthersKeep, DeletionRevokeErasure DEF IInv, DeletionRevoke, dataVars, exportVars, storeVars, workerVars
  <2>4. CASE RetryRevocation
      BY <2>4, RetryRevocationTypes, OthersKeep, RetryRevocationErasure DEF IInv, RetryRevocation, dataVars, exportVars, storeVars, workerVars
  <2>5. CASE RecoveryRead
      BY <2>5, RecoveryReadTypes, OthersKeep, RecoveryReadErasure DEF IInv, RecoveryRead, dataVars, exportVars, storeVars, workerVars
  <2>6. CASE RecoveryCommit
      BY <2>6, RecoveryCommitTypes, RecoveryCommitKeeps, RecoveryCommitErasure DEF IInv
  <2>7. CASE RecoveryPeriodEnds
      BY <2>7, RecoveryPeriodEndsTypes, OthersKeep, RecoveryPeriodEndsErasure DEF IInv, RecoveryPeriodEnds, dataVars, exportVars, storeVars, workerVars
  <2>8. ASSUME NEW p \in Purges, NEW b \in BOOLEAN, RetryPurge(p, b)
        PROVE  IInv'
      BY <2>8, RetryPurgeTypes, RetryPurgeKeeps, RetryPurgeErasure DEF IInv
  <2>9. QED
    BY <1>1, <2>1, <2>2, <2>3, <2>4, <2>5, <2>6, <2>7, <2>8 DEF DeletionStep
<1>2. ASSUME NEW w \in Workers, NEW p \in Purges, PurgeStep(w, p)
      PROVE  IInv'
  <2>1. CASE PurgeCheck(w, p)
      BY <2>1, PurgeCheckTypes, PurgeCheckKeeps, PurgeCheckErasure DEF IInv
  <2>2. CASE PurgeTransition(w, p)
      BY <2>2, PurgeTransitionTypes, PurgeTransitionKeeps, PurgeTransitionErasure DEF IInv
  <2>3. CASE PurgeCredentials(w, p)
      BY <2>3, PurgeCredentialsTypes, PurgeCredentialsKeeps, PurgeCredentialsErasure DEF IInv
  <2>4. CASE PurgeThread(w, p)
      BY <2>4, PurgeThreadTypes, PurgeThreadKeeps, PurgeThreadErasure DEF IInv
  <2>5. CASE PurgeObjects(w, p)
      BY <2>5, PurgeObjectsTypes, PurgeObjectsKeeps, PurgeObjectsErasure DEF IInv
  <2>6. CASE PurgeCheckpoint(w, p)
      BY <2>6, PurgeCheckpointTypes, PurgeCheckpointKeeps, PurgeCheckpointErasure DEF IInv
  <2>7. CASE PurgeRows(w, p)
      BY <2>7, PurgeRowsTypes, PurgeRowsKeeps, PurgeRowsErasure DEF IInv
  <2>8. CASE PurgeExhausted(w, p)
      BY <2>8, PurgeExhaustedTypes, PurgeExhaustedKeeps, PurgeExhaustedErasure DEF IInv
  <2>9. QED
    BY <1>2, <2>1, <2>2, <2>3, <2>4, <2>5, <2>6, <2>7, <2>8 DEF PurgeStep
<1>3. CASE ExpiryStep
  <2>1. PICK e \in Exports : CreateExport(e) \/ ExpireObject(e) \/ ExpireRow(e)
    BY <1>3 DEF ExpiryStep
  <2>2. CASE CreateExport(e)
      BY <2>2, CreateExportTypes, OthersKeep, CreateExportErasure DEF IInv, CreateExport, wsVars, dataVars, exportVars, storeVars, workerVars
  <2>3. CASE ExpireObject(e)
      BY <2>3, ExpireObjectTypes, OthersKeep, ExpireObjectErasure DEF IInv, ExpireObject, wsVars, dataVars, exportVars, workerVars
  <2>4. CASE ExpireRow(e)
      BY <2>4, ExpireRowTypes, OthersKeep, ExpireRowErasure DEF IInv, ExpireRow, wsVars, dataVars, exportVars, workerVars
  <2>5. QED
    BY <2>1, <2>2, <2>3, <2>4
<1>4. ASSUME NEW w \in Workers, NEW e \in Exports, ExportStep(w, e)
      PROVE  IInv'
  <2>1. CASE AcquireFence(w, e)
      BY <2>1, AcquireFenceTypes, AcquireFenceKeeps, AcquireFenceErasure DEF IInv
  <2>2. CASE BeginCapture(w, e)
      BY <2>2, BeginCaptureTypes, BeginCaptureKeeps, BeginCaptureErasure DEF IInv
  <2>3. CASE FreezeThread(w, e)
      BY <2>3, FreezeThreadTypes, FreezeThreadKeeps, FreezeThreadErasure DEF IInv
  <2>4. CASE StageMessages(w, e)
      BY <2>4, StageMessagesTypes, StageMessagesKeeps, StageMessagesErasure DEF IInv
  <2>5. CASE CopyRows(w, e)
      BY <2>5, CopyRowsTypes, CopyRowsKeeps, CopyRowsErasure DEF IInv
  <2>6. CASE CopyOtherRows(w, e)
      BY <2>6, CopyOtherRowsTypes, CopyOtherRowsKeeps, CopyOtherRowsErasure DEF IInv
  <2>7. CASE PinObjects(w, e)
      BY <2>7, PinObjectsTypes, PinObjectsKeeps, PinObjectsErasure DEF IInv
  <2>8. CASE ReleaseFence(w, e)
      BY <2>8, ReleaseFenceTypes, ReleaseFenceKeeps, ReleaseFenceErasure DEF IInv
  <2>9. CASE UnfreezeThread(w, e)
      BY <2>9, UnfreezeThreadTypes, UnfreezeThreadKeeps, UnfreezeThreadErasure DEF IInv
  <2>10. CASE DeleteFence(w, e)
      BY <2>10, DeleteFenceTypes, DeleteFenceKeeps, DeleteFenceErasure DEF IInv
  <2>11. CASE RecordReleased(w, e)
      BY <2>11, RecordReleasedTypes, RecordReleasedKeeps, RecordReleasedErasure DEF IInv
  <2>12. CASE BeginAssembly(w, e)
      BY <2>12, BeginAssemblyTypes, BeginAssemblyKeeps, BeginAssemblyErasure DEF IInv
  <2>13. CASE GatherEntries(w, e)
      BY <2>13, GatherEntriesTypes, GatherEntriesKeeps, GatherEntriesErasure DEF IInv
  <2>14. CASE PutArchive(w, e)
      BY <2>14, PutArchiveTypes, PutArchiveKeeps, PutArchiveErasure DEF IInv
  <2>15. CASE PublishArchive(w, e)
      BY <2>15, PublishArchiveTypes, PublishArchiveKeeps, PublishArchiveErasure DEF IInv
  <2>16. CASE DeleteArchive(w, e)
      BY <2>16, DeleteArchiveTypes, DeleteArchiveKeeps, DeleteArchiveErasure DEF IInv
  <2>17. CASE ClearSnapshot(w, e)
      BY <2>17, ClearSnapshotTypes, ClearSnapshotKeeps, ClearSnapshotErasure DEF IInv
  <2>18. CASE RecoverFence(w, e)
      BY <2>18, RecoverFenceTypes, RecoverFenceKeeps, RecoverFenceErasure DEF IInv
  <2>19. CASE RequeueExport(w, e)
      BY <2>19, RequeueExportTypes, RequeueExportKeeps, RequeueExportErasure DEF IInv
  <2>20. CASE ExportExhausted(w, e)
      BY <2>20, ExportExhaustedTypes, ExportExhaustedKeeps, ExportExhaustedErasure DEF IInv
  <2>21. QED
    BY <1>4, <2>1, <2>2, <2>3, <2>4, <2>5, <2>6, <2>7, <2>8, <2>9, <2>10, <2>11, <2>12, <2>13, <2>14, <2>15, <2>16, <2>17, <2>18, <2>19, <2>20 DEF ExportStep
<1>5. CASE StoreStep
  <2>1. CASE UploadObject
      BY <2>1, UploadObjectTypes, OthersKeep, UploadObjectErasure DEF IInv, UploadObject, wsVars, dataVars, exportVars, workerVars
  <2>2. CASE InsertArtifact
      BY <2>2, InsertArtifactTypes, OthersKeep, InsertArtifactErasure DEF IInv, InsertArtifact, wsVars, dataVars, exportVars, workerVars
  <2>3. CASE DeleteRefused
      BY <2>3, DeleteRefusedTypes, OthersKeep, DeleteRefusedErasure DEF IInv, DeleteRefused, wsVars, dataVars, exportVars, workerVars
  <2>4. CASE UploadCrash
      BY <2>4, UploadCrashTypes, OthersKeep, UploadCrashErasure DEF IInv, UploadCrash, wsVars, dataVars, exportVars, workerVars
  <2>5. CASE ArtifactExpires
      BY <2>5, ArtifactExpiresTypes, OthersKeep, ArtifactExpiresErasure DEF IInv, ArtifactExpires, wsVars, dataVars, exportVars, workerVars
  <2>6. CASE UpdateRetentionPolicy
      BY <2>6, UpdateRetentionPolicyTypes, OthersKeep, UpdateRetentionPolicyErasure DEF IInv, UpdateRetentionPolicy, wsVars, dataVars, exportVars, workerVars
  <2>7. CASE SweepSelect
      BY <2>7, SweepSelectTypes, OthersKeep, SweepSelectErasure DEF IInv, SweepSelect, wsVars, dataVars, exportVars, workerVars
  <2>8. CASE SweepObject
      BY <2>8, SweepObjectTypes, OthersKeep, SweepObjectErasure DEF IInv, SweepObject, wsVars, dataVars, exportVars, workerVars
  <2>9. CASE SweepRow
      BY <2>9, SweepRowTypes, OthersKeep, SweepRowErasure DEF IInv, SweepRow, wsVars, dataVars, exportVars, workerVars
  <2>10. CASE SweepOperationalData
      BY <2>10, SweepOperationalDataTypes, OthersKeep, SweepOperationalDataErasure DEF IInv, SweepOperationalData, wsVars, exportVars, storeVars, workerVars
  <2>11. CASE ThreadGoesStale
      BY <2>11, ThreadGoesStaleTypes, ThreadGoesStaleKeeps, ThreadGoesStaleErasure DEF IInv
  <2>12. CASE ChatSweepSelect
      BY <2>12, ChatSweepSelectTypes, OthersKeep, ChatSweepSelectErasure DEF IInv, ChatSweepSelect, wsVars, dataVars, exportVars, workerVars
  <2>13. CASE ChatSweepPurge
      BY <2>13, ChatSweepPurgeTypes, ChatSweepPurgeKeeps, ChatSweepPurgeErasure DEF IInv
  <2>14. CASE ChatSweepMark
      BY <2>14, ChatSweepMarkTypes, ChatSweepMarkKeeps, ChatSweepMarkErasure DEF IInv
  <2>15. QED
    BY <1>5, <2>1, <2>2, <2>3, <2>4, <2>5, <2>6, <2>7, <2>8, <2>9, <2>10, <2>11, <2>12, <2>13, <2>14 DEF StoreStep
<1>6. CASE WriteRows
    BY <1>6, WriteRowsTypes, OthersKeep, WriteRowsErasure DEF IInv, WriteRows, wsVars, exportVars, storeVars, workerVars
<1>7. CASE WriteMessage
    BY <1>7, WriteMessageTypes, WriteMessageKeeps, WriteMessageErasure DEF IInv
<1>8. CASE ExecutionEnds
    BY <1>8, ExecutionEndsTypes, OthersKeep, ExecutionEndsErasure DEF IInv, ExecutionEnds, dataVars, exportVars, storeVars, workerVars
<1>9. CASE RequestCrash
    BY <1>9, RequestCrashTypes, OthersKeep, RequestCrashErasure DEF IInv, RequestCrash, wsVars, dataVars, exportVars, storeVars, workerVars
<1>10. ASSUME NEW w \in Workers, NEW j \in Jobs, SelectJob(w, j)
      PROVE  IInv'
  BY <1>10, SelectJobTypes, SelectJobKeeps, SelectJobErasure DEF IInv
<1>11. ASSUME NEW w \in Workers, NEW j \in Jobs, CheckQuiescence(w, j)
      PROVE  IInv'
  BY <1>11, CheckQuiescenceTypes, CheckQuiescenceKeeps, CheckQuiescenceErasure DEF IInv
<1>12. ASSUME NEW w \in Workers, NEW j \in Jobs, ClaimJob(w, j)
      PROVE  IInv'
  BY <1>12, ClaimJobTypes, ClaimJobKeeps, ClaimJobErasure DEF IInv
<1>13. ASSUME NEW w \in Workers, NEW j \in Jobs, RecordFailure(w, j)
      PROVE  IInv'
  BY <1>13, RecordFailureTypes, RecordFailureKeeps, RecordFailureErasure DEF IInv
<1>14. ASSUME NEW w \in Workers, CallFails(w)
      PROVE  IInv'
  BY <1>14, CallFailsTypes, CallFailsKeeps, CallFailsErasure DEF IInv
<1>15. ASSUME NEW w \in Workers, WorkerCrash(w)
      PROVE  IInv'
  BY <1>15, WorkerCrashTypes, WorkerCrashKeeps, WorkerCrashErasure DEF IInv
<1>16. ASSUME NEW j \in Jobs, JobLeaseExpires(j)
      PROVE  IInv'
  BY <1>16, JobLeaseExpiresTypes, OthersKeep, JobLeaseExpiresErasure DEF IInv, JobLeaseExpires, wsVars, dataVars, exportVars, storeVars, workerVars
<1>17. ASSUME NEW e \in Exports, FenceLeaseExpires(e)
      PROVE  IInv'
  BY <1>17, FenceLeaseExpiresTypes, OthersKeep, FenceLeaseExpiresErasure DEF IInv, FenceLeaseExpires, wsVars, dataVars, storeVars, workerVars
<1>18. CASE UNCHANGED vars
  <2>1. Types'
    BY <1>18 DEF vars, Types, TWs, TFlags, TJob, TFence, TData, TThread, TStaged, TArt, TPc, TProc, TReq, TStore, TBound
  <2>2. Inv' /\ ErasureInv'
    BY <1>18, OthersKeep, SameKeeps DEF vars
  <2>3. QED
    BY <2>1, <2>2 DEF IInv
<1>19. QED
  BY <1>1, <1>2, <1>3, <1>4, <1>5, <1>6, <1>7, <1>8, <1>9, <1>10, <1>11, <1>12, <1>13, <1>14, <1>15, <1>16, <1>17, <1>18 DEF Next, WorkerStep

(* Every variable keeps a value of its kind.                               *)
THEOREM TypeCorrect == Spec => []TypeOK
<1>1. IInv => TypeOK
  BY DEF IInv, Types, TypeOK, TWs, TFlags, TJob, JobRows, TFence, TData, TThread, TStaged, TArt, TPc, Backs, TProc,
         ProcRows, TReq, TStore, TBound
<1>2. QED
  BY Initially, NextKeeps, <1>1, PTL DEF Spec

(* A workspace that is in use, or can still be recovered, has lost nothing *)
(* to a purge (purgeWorkspace, handleRecoverWorkspace).                    *)
THEOREM RecoveryIsSafe == Spec => []RecoveredIntact
<1>1. IInv => RecoveredIntact
  BY DEF IInv, Inv
<1>2. QED
  BY Initially, NextKeeps, <1>1, PTL DEF Spec

(* A deletion receipt is written once, and then the rows, the thread, the  *)
(* credentials and, if no call failed and no invocation vanished, every    *)
(* object of the workspace are gone (the last batch of purgeWorkspace).    *)
THEOREM ReceiptIsTrue == Spec => []ReceiptCertifiesErasure
<1>1. ASSUME IInv
      PROVE  ReceiptCertifiesErasure
  <2>1. receipts <= 1 /\ (receipts = 1 => (ws.status = "gone" /\ rows = "purged" /\ thread.purged /\ ~creds))
    BY <1>1 DEF IInv, ErasureInv, ReceiptInv
  <2>2. Failures = 0 => Calm
    <3>1. /\ bound.faults \in Nat /\ bound.crashes \in Nat /\ MaxFaults \in Nat /\ MaxCrashes \in Nat
          /\ bound.faults <= MaxFaults /\ bound.crashes <= MaxCrashes
      BY <1>1, WorkspaceAssumption DEF IInv, Types, TBound, ErasureInv, BoundLe
    <3>2. QED
      BY <3>1 DEF Failures, Calm
  <2>3. (Calm /\ rows = "purged") => obj = {}
    BY <1>1 DEF IInv, ErasureInv, EmptyStore, ObjectsDone
  <2>4. QED
    BY <2>1, <2>2, <2>3 DEF ReceiptCertifiesErasure
<1>2. IInv => ReceiptCertifiesErasure
  BY <1>1
<1>3. QED
  BY Initially, NextKeeps, <1>2, PTL DEF Spec

-------------------------------------------------------------------------------
(* A purge that failed can be retried                                      *)

Live(p) == job[p].status \in {"queued", "running"}
AtWork(w, p) == proc[w].job = p /\ pc[w] \notin {"polled", "claim"}
Started == ws.status \in {"purging", "failed"} \/ (ws.status = "quarantined" /\ due)

(* A deletion request inserts the only job that may still be claimed, a    *)
(* recovery or the end of the purge leaves none.                           *)
OneLive == \A p, q \in Purges : Live(p) /\ Live(q) => p = q
NoneLive == ws.status \in {"active", "failed", "gone"} => \A p \in Purges : ~Live(p)
LateIsDue == ws.status \in {"purging", "failed"} => due

Taken ==
  \A w \in Workers, p \in Purges : proc[w].job = p =>
    /\ pc[w] # "idle" /\ ~Recovering(w)
    /\ job[p].status # "none" \/ ws.status = "gone"
    /\ pc[w] \in {"polled", "claim"} /\ Live(p) => due

(* A worker of a purge holds its job until it has recorded the failure of  *)
(* it; a worker that a recovery overtook holds none.                       *)
Lasts(w, p) ==
  IF Started
  THEN \/ pc[w] # "exhausted" /\ job[p].status = "running" /\ job[p].leased
       \/ pc[w] = "exhausted" /\ job[p].status = "failed" /\ \A q \in Purges : ~Live(q)
  ELSE ~Live(p)
Holds == \A w \in Workers, p \in Purges : AtWork(w, p) => Lasts(w, p)
OneAtWork == Started => \A v, w \in Workers, p, q \in Purges : AtWork(v, p) /\ AtWork(w, q) => v = w

FailedIsOver ==
  ws.status = "failed" => /\ \A w \in Workers, p \in Purges : ~AtWork(w, p)
                          /\ \E p \in Purges : job[p].status = "failed"

PurgeInv == OneLive /\ NoneLive /\ LateIsDue /\ Taken /\ Holds /\ OneAtWork /\ FailedIsOver

(* What most steps have in common: no purge job's standing changes, and no *)
(* worker takes one up or gives one up.                                    *)
KeepsOn(v) ==
  proc'[v].job \in Purges =>
    /\ proc'[v].job = proc[v].job /\ back'[v] = back[v] /\ pc'[v] # "idle"
    /\ pc'[v] = "exhausted" <=> pc[v] = "exhausted"
    /\ pc'[v] \in {"polled", "claim"} <=> pc[v] \in {"polled", "claim"}

LEMMA PurgeFrame ==
  ASSUME PurgeInv, ws'.status = ws.status, due' = due,
         \A p \in Purges : job'[p].status = job[p].status
                           /\ (job[p].leased => (job'[p].leased \/ \A w \in Workers : ~AtWork(w, p))),
         \A v \in Workers : KeepsOn(v)
  PROVE  PurgeInv'
<1>1. (Started' <=> Started) /\ \A p \in Purges : Live(p)' <=> Live(p)
  BY DEF Started, Live
<1>2. \A w \in Workers, p \in Purges : AtWork(w, p)' => AtWork(w, p)
  BY DEF AtWork, KeepsOn
<1>3. OneLive' /\ NoneLive' /\ LateIsDue'
  BY <1>1 DEF PurgeInv, OneLive, NoneLive, LateIsDue
<1>4. Taken'
  BY <1>1 DEF PurgeInv, Taken, KeepsOn, Recovering
<1>5. Holds'
  <2> SUFFICES ASSUME NEW w \in Workers, NEW p \in Purges, AtWork(w, p)' PROVE Lasts(w, p)'
    BY DEF Holds
  <2>1. AtWork(w, p) /\ Lasts(w, p) /\ (pc'[w] = "exhausted" <=> pc[w] = "exhausted")
    BY <1>2 DEF PurgeInv, Holds, AtWork, KeepsOn
  <2>2. job[p].leased => job'[p].leased
    BY <2>1
  <2>3. QED
    BY <1>1, <2>1, <2>2 DEF Lasts
<1>6. OneAtWork'
  BY <1>1, <1>2 DEF PurgeInv, OneAtWork
<1>7. FailedIsOver'
  BY <1>2 DEF PurgeInv, FailedIsOver
<1>8. QED
  BY <1>3, <1>4, <1>5, <1>6, <1>7 DEF PurgeInv

(* A step that leaves the workers alone.                                   *)
LEMMA WorkersStay ==
  ASSUME PurgeInv, UNCHANGED <<pc, back, proc, due>>, ws'.status = ws.status,
         \A p \in Purges : job'[p].status = job[p].status
                           /\ (job[p].leased => (job'[p].leased \/ \A w \in Workers : ~AtWork(w, p)))
  PROVE  PurgeInv'
<1>1. \A v \in Workers : KeepsOn(v)
  BY DEF PurgeInv, Taken, KeepsOn
<1>2. QED
  BY <1>1, PurgeFrame

(* A step of one worker that has no purge in hand afterwards, or goes on   *)
(* with the one it had.                                                    *)
OnlyMoves(w) == \A v \in Workers \ {w} : pc'[v] = pc[v] /\ back'[v] = back[v] /\ proc'[v] = proc[v]

LEMMA WorkerLeaves ==
  ASSUME PurgeInv, NEW w \in Workers, OnlyMoves(w), KeepsOn(w), ws'.status = ws.status, due' = due,
         \A p \in Purges : job'[p].status = job[p].status /\ job'[p].leased = job[p].leased
  PROVE  PurgeInv'
<1>1. \A v \in Workers \ {w} : KeepsOn(v)
  BY DEF PurgeInv, Taken, KeepsOn, OnlyMoves
<1>2. QED
  BY <1>1, PurgeFrame

LEMMA PurgeNotExport == /\ \A e \in Exports, p \in Purges : e # p
                        /\ None \notin Purges /\ Unread.job \notin Purges
  BY WorkspaceAssumption DEF Unread

(* An export touches no purge job, and its worker has none.                *)
LEMMA ExportMoves ==
  ASSUME Types, NEW w \in Workers, NEW e \in Exports, ExportStep(w, e)
  PROVE  /\ OnlyMoves(w) /\ proc'[w].job \notin Purges /\ ws' = ws /\ due' = due
         /\ \A p \in Purges : job'[p] = job[p]
<1>t. /\ DOMAIN pc = Workers /\ DOMAIN back = Workers /\ proc \in [Workers -> ProcRows] /\ DOMAIN job = Jobs
      /\ Exports \subseteq Jobs /\ Purges \subseteq Jobs /\ e \notin Purges /\ \A p \in Purges : p # e
  BY PurgeNotExport, RowFacts DEF Types, TPc, TProc, TJob
<1>1. CASE AcquireFence(w, e)
  BY <1>t, <1>1, PurgeNotExport DEF AcquireFence, OnlyMoves, Exporter, Goto, wsVars, ProcRows
<1>2. CASE BeginCapture(w, e)
  BY <1>t, <1>2, PurgeNotExport DEF BeginCapture, OnlyMoves, Exporter, Cursor, Goto, ReleaseAnd, Running, wsVars, ProcRows
<1>3. CASE FreezeThread(w, e)
  BY <1>t, <1>3, PurgeNotExport DEF FreezeThread, OnlyMoves, Exporter, Goto, wsVars, ProcRows
<1>4. CASE StageMessages(w, e)
  BY <1>t, <1>4, PurgeNotExport DEF StageMessages, OnlyMoves, Exporter, Cursor, Goto, ReleaseAnd, Running, wsVars, ProcRows
<1>5. CASE CopyRows(w, e)
  BY <1>t, <1>5, PurgeNotExport DEF CopyRows, OnlyMoves, Exporter, Goto, wsVars, ProcRows
<1>6. CASE CopyOtherRows(w, e)
  BY <1>t, <1>6, PurgeNotExport DEF CopyOtherRows, OnlyMoves, Exporter, Cursor, Goto, ReleaseAnd, Running, wsVars, ProcRows
<1>7. CASE PinObjects(w, e)
  BY <1>t, <1>7, PurgeNotExport DEF PinObjects, OnlyMoves, Exporter, ReleaseAnd, Running, wsVars, ProcRows
<1>8. CASE ReleaseFence(w, e)
  BY <1>t, <1>8, PurgeNotExport DEF ReleaseFence, OnlyMoves, Exporter, Goto, wsVars, ProcRows
<1>9. CASE UnfreezeThread(w, e)
  BY <1>t, <1>9, PurgeNotExport DEF UnfreezeThread, OnlyMoves, Exporter, Goto, Return, wsVars, ProcRows
<1>10. CASE DeleteFence(w, e)
  BY <1>t, <1>10, PurgeNotExport DEF DeleteFence, OnlyMoves, Exporter, Goto, wsVars, ProcRows
<1>11. CASE RecordReleased(w, e)
  BY <1>t, <1>11, PurgeNotExport DEF RecordReleased, OnlyMoves, Exporter, Cursor, Goto, ReleaseAnd, Running, wsVars, ProcRows
<1>12. CASE BeginAssembly(w, e)
  BY <1>t, <1>12, PurgeNotExport DEF BeginAssembly, OnlyMoves, Exporter, Goto, wsVars, ProcRows
<1>13. CASE GatherEntries(w, e)
  BY <1>t, <1>13, PurgeNotExport DEF GatherEntries, OnlyMoves, Exporter, wsVars, ProcRows
<1>14. CASE PutArchive(w, e)
  BY <1>t, <1>14, PurgeNotExport DEF PutArchive, OnlyMoves, Exporter, Goto, wsVars, ProcRows
<1>15. CASE PublishArchive(w, e)
  BY <1>t, <1>15, PurgeNotExport DEF PublishArchive, OnlyMoves, Exporter, Goto, wsVars, ProcRows
<1>16. CASE DeleteArchive(w, e)
  BY <1>t, <1>16, PurgeNotExport DEF DeleteArchive, OnlyMoves, Exporter, Goto, wsVars, ProcRows
<1>17. CASE ClearSnapshot(w, e)
  BY <1>t, <1>17, PurgeNotExport DEF ClearSnapshot, OnlyMoves, Exporter, Return, wsVars, ProcRows
<1>18. CASE RecoverFence(w, e)
  BY <1>t, <1>18, PurgeNotExport DEF RecoverFence, OnlyMoves, StartTick, wsVars, ProcRows
<1>19. CASE RequeueExport(w, e)
  BY <1>t, <1>19, PurgeNotExport DEF RequeueExport, OnlyMoves, Exporter, Return, wsVars, ProcRows
<1>20. CASE ExportExhausted(w, e)
  BY <1>t, <1>20, PurgeNotExport DEF ExportExhausted, OnlyMoves, Exporter, Return, wsVars, ProcRows
<1>21. QED
  BY <1>1, <1>2, <1>3, <1>4, <1>5, <1>6, <1>7, <1>8, <1>9, <1>10, <1>11, <1>12, <1>13, <1>14, <1>15, <1>16, <1>17, <1>18, <1>19, <1>20 DEF ExportStep

(* Requests that have not committed, exports that begin or expire, the     *)
(* retention sweeps and the workspace's use.                               *)
LEMMA OthersStay ==
  ASSUME Types,
         \/ DeletionRead \/ DeletionRevoke \/ RetryRevocation \/ RecoveryRead \/ ExpiryStep \/ StoreStep
         \/ WriteRows \/ WriteMessage \/ ExecutionEnds \/ RequestCrash
         \/ \E e \in Exports : FenceLeaseExpires(e)
  PROVE  UNCHANGED <<pc, back, proc, due, ws>> /\ \A p \in Purges : job'[p] = job[p]
<1>1. CASE DeletionRead \/ DeletionRevoke \/ RetryRevocation \/ RecoveryRead
  BY <1>1 DEF DeletionRead, DeletionRevoke, RetryRevocation, RecoveryRead, wsVars, workerVars
<1>2. CASE ExpiryStep
  <2>1. PICK e \in Exports : CreateExport(e) \/ ExpireObject(e) \/ ExpireRow(e)
    BY <1>2 DEF ExpiryStep
  <2>2. DOMAIN job = Jobs /\ Purges \subseteq Jobs /\ \A p \in Purges : p # e
    BY PurgeNotExport, RowFacts DEF Types, TJob
  <2>3. QED
    BY <2>1, <2>2 DEF CreateExport, ExpireObject, ExpireRow, wsVars, workerVars
<1>3. CASE StoreStep
  BY <1>3 DEF StoreStep, wsVars, workerVars, UploadObject, InsertArtifact, DeleteRefused, UploadCrash, ArtifactExpires, UpdateRetentionPolicy, SweepSelect, SweepObject, SweepRow, SweepOperationalData, ThreadGoesStale, ChatSweepSelect, ChatSweepPurge, ChatSweepMark
<1>4. CASE WriteRows \/ WriteMessage \/ ExecutionEnds \/ RequestCrash
  BY <1>4 DEF WriteRows, WriteMessage, ExecutionEnds, RequestCrash, wsVars, workerVars
<1>5. CASE \E e \in Exports : FenceLeaseExpires(e)
  BY <1>5 DEF FenceLeaseExpires, wsVars, workerVars
<1>6. QED
  BY <1>1, <1>2, <1>3, <1>4, <1>5

(* No lease runs out under a worker that still works on the job.           *)
LEMMA LeaseKeeps ==
  ASSUME Types, PurgeInv, LeaseOutlivesWorker, NEW j \in Jobs, JobLeaseExpires(j)
  PROVE  PurgeInv'
<1>1. UNCHANGED <<pc, back, proc, due, ws>>
  BY DEF JobLeaseExpires, wsVars, workerVars
<1>2. \A p \in Purges : job'[p].status = job[p].status /\ (p # j => job'[p].leased = job[p].leased)
  BY RowFacts DEF JobLeaseExpires, Types, TJob, JobRows
<1>3. \A p \in Purges : p = j => \A w \in Workers : ~AtWork(w, p)
  BY DEF JobLeaseExpires, Working, AtWork, PurgeInv, Taken
<1>4. QED
  BY <1>1, <1>2, <1>3, WorkersStay

(* The request inserts a job that no worker has seen.                      *)
LEMMA DeletionKeeps == ASSUME Types, PurgeInv, DeletionCommit PROVE PurgeInv'
<1>1. UNCHANGED <<pc, back, proc>>
  BY DEF DeletionCommit, workerVars
<1>2. CASE UNCHANGED <<ws, job, due>>
  BY <1>1, <1>2, WorkersStay
<1>3. CASE ~UNCHANGED <<ws, job, due>>
  <2>0. /\ ~Fenced /\ ws.status = "active" /\ ws.v = req.deletion.v
        /\ ws' = [status |-> "quarantined", v |-> ws.v + 1] /\ due' = FALSE
        /\ \E p \in {q \in Purges : job[q].status = "none"} :
             job' = [job EXCEPT ![p] = [NoJobRow EXCEPT !.status = "queued"]]
    <3>1. ~Fenced
      BY <1>3, Zenon DEF DeletionCommit
    <3>2. ws.status = "active" /\ ws.v = req.deletion.v
      BY <1>3, <3>1, Zenon DEF DeletionCommit
    <3>3. QED
      BY <3>1, <3>2, Zenon DEF DeletionCommit
  <2>1. ws.status = "active" /\ ws'.status = "quarantined" /\ ~due'
    BY <2>0
  <2>2. PICK p \in Purges : job[p].status = "none" /\ job' = [job EXCEPT ![p] = [NoJobRow EXCEPT !.status = "queued"]]
    BY <2>0
  <2>3. job'[p].status = "queued" /\ \A q \in Purges \ {p} : job'[q] = job[q]
    BY <2>2, RowFacts DEF Types, TJob, NoJobRow
  <2>4. \A w \in Workers : proc[w].job # p
    BY <2>1, <2>2 DEF PurgeInv, Taken
  <2>5. ~Started /\ ~Started'
    BY <2>1 DEF Started
  <2>6. \A q \in Purges : ~Live(q) /\ (q # p => ~Live(q)')
    BY <2>1, <2>3 DEF PurgeInv, NoneLive, Live
  <2>7. OneLive' /\ NoneLive' /\ LateIsDue' /\ OneAtWork' /\ FailedIsOver'
    BY <2>1, <2>5, <2>6 DEF OneLive, NoneLive, LateIsDue, OneAtWork, FailedIsOver
  <2>8. Taken'
    BY <1>1, <2>1, <2>3, <2>4, <2>6 DEF PurgeInv, Taken, Recovering
  <2>9. Holds'
    BY <1>1, <2>4, <2>5, <2>6 DEF Holds, AtWork, Lasts
  <2>10. QED
    BY <2>7, <2>8, <2>9 DEF PurgeInv
<1>4. QED
  BY <1>2, <1>3

LEMMA RecoveryKeeps == ASSUME Types, PurgeInv, RecoveryCommit PROVE PurgeInv'
<1>1. UNCHANGED <<pc, back, proc>>
  BY DEF RecoveryCommit, workerVars
<1>2. CASE UNCHANGED <<ws, job, due>>
  BY <1>1, <1>2, WorkersStay
<1>3. CASE ~UNCHANGED <<ws, job, due>>
  <2>1. ws'.status = "active"
    BY <1>3 DEF RecoveryCommit
  <2>2. job' = [j \in Jobs |->
                  IF j \in Purges /\ job[j].status \in {"queued", "running"}
                  THEN [job[j] EXCEPT !.status = "cancelled"] ELSE job[j]]
    BY <1>3 DEF RecoveryCommit
  <2>3. \A p \in Purges : job'[p].status = IF Live(p) THEN "cancelled" ELSE job[p].status
    BY <2>2, RowFacts DEF Types, TJob, JobRows, Live
  <2>4. \A p \in Purges : ~Live(p)' /\ (job[p].status # "none" => job'[p].status # "none")
    BY <2>3 DEF Live
  <2>5. ws.status # "gone" /\ ~Started'
    BY <1>3, <2>1 DEF RecoveryCommit, Recoverable, Started
  <2>6. OneLive' /\ NoneLive' /\ LateIsDue' /\ OneAtWork' /\ FailedIsOver'
    BY <2>1, <2>4, <2>5 DEF OneLive, NoneLive, LateIsDue, OneAtWork, FailedIsOver
  <2>7. Taken'
    BY <1>1, <2>4, <2>5 DEF PurgeInv, Taken, Recovering
  <2>8. Holds'
    BY <2>4, <2>5 DEF Holds, Lasts
  <2>9. QED
    BY <2>6, <2>7, <2>8 DEF PurgeInv
<1>4. QED
  BY <1>2, <1>3

(* When the thirty days are over no worker of an earlier deletion is left. *)
LEMMA PeriodKeeps == ASSUME PurgeInv, RecoveryPeriodEnds PROVE PurgeInv'
<1>1. UNCHANGED <<pc, back, proc, job, ws>> /\ due' = TRUE /\ ws.status = "quarantined"
  BY DEF RecoveryPeriodEnds, workerVars
<1>2. \A w \in Workers, p \in Purges : ~AtWork(w, p)
  BY DEF RecoveryPeriodEnds, Working, AtWork, PurgeInv, Taken, Jobs
<1>3. \A w \in Workers, p \in Purges : ~AtWork(w, p)'
  BY <1>1, <1>2 DEF AtWork
<1>4. OneLive' /\ NoneLive' /\ LateIsDue' /\ OneAtWork' /\ FailedIsOver' /\ Holds'
  BY <1>1, <1>3 DEF PurgeInv, OneLive, NoneLive, LateIsDue, OneAtWork, FailedIsOver, Holds, Live
<1>5. Taken'
  BY <1>1 DEF PurgeInv, Taken, Recovering, Live
<1>6. QED
  BY <1>4, <1>5 DEF PurgeInv

LEMMA RetryKeeps ==
  ASSUME Types, PurgeInv, NEW p \in Purges, NEW b \in BOOLEAN, RetryPurge(p, b)
  PROVE  PurgeInv'
<1>1. UNCHANGED <<pc, back, proc, due>> /\ ws.status = "failed" /\ ws'.status = "purging" /\ job[p].status = "failed"
  BY DEF RetryPurge, QueueFailedPurge, workerVars
<1>2. job'[p].status = "queued" /\ \A q \in Purges \ {p} : job'[q].status = job[q].status
  BY RowFacts DEF RetryPurge, QueueFailedPurge, Types, TJob, JobRows
<1>3. due /\ \A q \in Purges : ~Live(q) /\ (q # p => ~Live(q)')
  BY <1>1, <1>2 DEF PurgeInv, LateIsDue, NoneLive, Live
<1>4. \A w \in Workers, q \in Purges : ~AtWork(w, q) /\ ~AtWork(w, q)'
  BY <1>1 DEF PurgeInv, FailedIsOver, AtWork
<1>5. OneLive' /\ NoneLive' /\ LateIsDue' /\ OneAtWork' /\ FailedIsOver' /\ Holds'
  BY <1>1, <1>3, <1>4 DEF OneLive, NoneLive, LateIsDue, OneAtWork, FailedIsOver, Holds
<1>6. Taken'
  BY <1>1, <1>2, <1>3 DEF PurgeInv, Taken, Recovering
<1>7. QED
  BY <1>5, <1>6 DEF PurgeInv

(* A worker selects a job that may be claimed, and a purge only when due.  *)
LEMMA SelectKeeps ==
  ASSUME Types, RecoversOnly, PurgeInv, NEW w \in Workers, NEW j \in Jobs, SelectJob(w, j)
  PROVE  PurgeInv'
<1>1. /\ pc' = [pc EXCEPT ![w] = "polled"] /\ UNCHANGED <<back, job, ws, due>> /\ pc[w] = "idle"
      /\ proc'[w].job = j /\ (\A v \in Workers \ {w} : proc'[v] = proc[v]) /\ Selectable(j)
  BY DEF SelectJob, StartTick, At, wsVars, Types, TProc
<1>2. pc'[w] = "polled" /\ (\A v \in Workers \ {w} : pc'[v] = pc[v]) /\ ~Recovering(w)'
  BY <1>1 DEF Types, TPc, RecoversOnly, Recovering
<1>3. Live(j) /\ (j \in Purges => due)
  BY <1>1, PurgeNotExport DEF Selectable, Live
<1>4. Taken'
  BY <1>1, <1>2, <1>3 DEF PurgeInv, Taken, Recovering, Live
<1>5. \A v \in Workers, p \in Purges : AtWork(v, p)' => (AtWork(v, p) /\ v # w)
  BY <1>1, <1>2 DEF AtWork
<1>6. OneLive' /\ NoneLive' /\ LateIsDue' /\ OneAtWork' /\ FailedIsOver'
  BY <1>1, <1>5 DEF PurgeInv, OneLive, NoneLive, LateIsDue, OneAtWork, FailedIsOver, Live, Started
<1>7. Holds'
  BY <1>1, <1>2, <1>5 DEF PurgeInv, Holds, Lasts, Live, Started
<1>8. QED
  BY <1>4, <1>6, <1>7 DEF PurgeInv

LEMMA QuiescenceKeeps ==
  ASSUME Types, PurgeInv, NEW w \in Workers, NEW j \in Jobs, CheckQuiescence(w, j)
  PROVE  PurgeInv'
<1>1. UNCHANGED <<job, ws, due>> /\ pc[w] = "polled"
  BY DEF CheckQuiescence, At, wsVars
<1>2. OnlyMoves(w) /\ KeepsOn(w)
  BY <1>1, PurgeNotExport DEF CheckQuiescence, Goto, Return, OnlyMoves, KeepsOn, Types, TPc, TProc
<1>3. QED
  BY <1>1, <1>2, WorkerLeaves

(* A claim finds the one live job with no lease, so that nobody works.     *)
LEMMA ClaimKeeps ==
  ASSUME Types, PurgeInv, NEW w \in Workers, NEW j \in Jobs, ClaimJob(w, j)
  PROVE  PurgeInv'
<1>1. UNCHANGED <<ws, due>> /\ pc[w] = "claim" /\ proc[w].job = j
  BY DEF ClaimJob, At, wsVars
<1>2. OnlyMoves(w)
  BY DEF ClaimJob, Goto, Return, OnlyMoves, Types, TPc, TProc
<1>3. CASE ~MayClaim(j)
  <2>1. proc'[w].job \notin Purges /\ job' = job
    BY <1>3, PurgeNotExport DEF ClaimJob, Return, Types, TProc
  <2>2. QED
    BY <1>1, <1>2, <2>1, WorkerLeaves DEF KeepsOn
<1>4. CASE MayClaim(j) /\ j \in Exports
  <2>1. proc'[w] = proc[w] /\ proc[w].job \notin Purges
    BY <1>1, <1>4, PurgeNotExport DEF ClaimJob, Goto
  <2>2. \A p \in Purges : job'[p] = job[p]
    BY <1>4, PurgeNotExport, RowFacts DEF ClaimJob, Types, TJob
  <2>3. QED
    BY <1>1, <1>2, <2>1, <2>2, WorkerLeaves DEF KeepsOn
<1>5. CASE MayClaim(j) /\ j \in Purges
  <2>1. pc'[w] = "check" /\ UNCHANGED <<back, proc>>
    BY <1>5 DEF ClaimJob, Goto, Types, TPc
  <2>2. job'[j].status = "running" /\ job'[j].leased /\ \A p \in Purges \ {j} : job'[p] = job[p]
    BY <1>5, RowFacts DEF ClaimJob, Types, TJob, JobRows
  <2>3. Live(j) /\ ~job[j].leased /\ \A p \in Purges : Live(p)' <=> Live(p)
    BY <1>5, <2>2 DEF MayClaim, Live
  <2>4. due /\ ws.status \notin {"active", "failed", "gone"}
    BY <1>1, <1>5, <2>3 DEF PurgeInv, Taken, NoneLive
  <2>5. Started
    BY <2>4 DEF Started, Types, TWs
  <2>6. \A v \in Workers, p \in Purges : ~AtWork(v, p)
    BY <1>5, <2>3, <2>5 DEF PurgeInv, Holds, Lasts, OneLive, Live
  <2>7. \A v \in Workers, p \in Purges : AtWork(v, p)' => v = w /\ p = j
    BY <1>1, <1>2, <2>1, <2>6 DEF AtWork, OnlyMoves
  <2>8. OneLive' /\ NoneLive' /\ LateIsDue' /\ OneAtWork' /\ FailedIsOver'
    BY <1>1, <2>3, <2>4, <2>7 DEF PurgeInv, OneLive, NoneLive, LateIsDue, OneAtWork, FailedIsOver
  <2>9. Taken'
    BY <1>1, <1>2, <2>1, <2>2, <2>3 DEF PurgeInv, Taken, Recovering, OnlyMoves
  <2>10. Holds'
    BY <1>1, <2>1, <2>2, <2>5, <2>7 DEF Holds, Lasts, Started
  <2>11. QED
    BY <2>8, <2>9, <2>10 DEF PurgeInv
<1>6. QED
  BY <1>3, <1>4, <1>5 DEF Jobs

(* The worker that fails for the last time leaves no live job behind.      *)
LEMMA FailureKeeps ==
  ASSUME Types, PurgeInv, NEW w \in Workers, NEW j \in Jobs, RecordFailure(w, j)
  PROVE  PurgeInv'
<1>1. UNCHANGED <<ws, due>> /\ pc[w] = "throw" /\ proc[w].job = j
  BY DEF RecordFailure, At, wsVars
<1>2. OnlyMoves(w)
  BY DEF RecordFailure, Goto, Return, ReleaseAnd, OnlyMoves, Types, TPc, TProc
<1>3. \A p \in Purges \ {j} : job'[p] = job[p]
  BY RowFacts DEF RecordFailure, Types, TJob
<1>4. CASE j \in Exports
  <2>1. proc'[w].job \notin Purges /\ \A p \in Purges : job'[p] = job[p]
    BY <1>1, <1>3, <1>4, PurgeNotExport DEF RecordFailure, Goto, Return, ReleaseAnd, Types, TProc
  <2>2. QED
    BY <1>1, <1>2, <2>1, WorkerLeaves DEF KeepsOn
<1>5. CASE j \in Purges
  <2>1. AtWork(w, j) /\ Lasts(w, j)
    BY <1>1, <1>5 DEF AtWork, PurgeInv, Holds
  <2>2. job'[j].status = IF Running(j) THEN (IF Retryable(w) THEN "queued" ELSE "failed") ELSE job[j].status
    BY <1>5, RowFacts DEF RecordFailure, Types, TJob, JobRows
  <2>3. IF Retryable(w) THEN proc'[w].job \notin Purges
        ELSE pc'[w] = "exhausted" /\ UNCHANGED <<back, proc>>
    BY <1>5, PurgeNotExport DEF RecordFailure, Goto, Return, Types, TProc, TPc
  <2>4. \A p \in Purges : Live(p)' => Live(p)
    BY <1>3, <2>2 DEF Live, Running
  <2>5. \A v \in Workers, p \in Purges : AtWork(v, p)' => AtWork(v, p)
    BY <1>1, <1>2, <2>3 DEF AtWork, OnlyMoves
  <2>6. OneLive' /\ NoneLive' /\ LateIsDue' /\ OneAtWork'
    BY <1>1, <2>4, <2>5 DEF PurgeInv, OneLive, NoneLive, LateIsDue, OneAtWork, Started
  <2>7. FailedIsOver'
    BY <1>1, <1>5, <2>1 DEF PurgeInv, FailedIsOver
  <2>8. Taken'
    <3> SUFFICES ASSUME NEW v \in Workers, NEW p \in Purges, proc'[v].job = p
                 PROVE  /\ pc'[v] # "idle" /\ ~Recovering(v)'
                        /\ job'[p].status # "none" \/ ws'.status = "gone"
                        /\ pc'[v] \in {"polled", "claim"} /\ Live(p)' => due'
      BY DEF Taken
    <3>1. proc[v].job = p /\ back'[v] = back[v]
      BY <1>2, <2>3 DEF OnlyMoves
    <3>2. job[p].status # "none" => job'[p].status # "none"
      BY <1>3, <2>2
    <3>3. pc'[v] # "idle" /\ (pc'[v] \in {"polled", "claim"} => pc[v] = pc'[v])
      BY <1>2, <2>3, <3>1 DEF OnlyMoves, PurgeInv, Taken
    <3>4. QED
      BY <1>1, <2>4, <3>1, <3>2, <3>3 DEF PurgeInv, Taken, Recovering
  <2>9. Holds'
    <3>1. CASE Started
      <4>1. Running(j) /\ \A v \in Workers, p \in Purges : AtWork(v, p) => v = w
        BY <1>1, <1>5, <2>1, <3>1 DEF Lasts, Running, PurgeInv, OneAtWork
      <4>2. ~Retryable(w) => job'[j].status = "failed" /\ \A p \in Purges : ~Live(p)'
        BY <1>3, <1>5, <2>2, <4>1 DEF Live, Running, PurgeInv, OneLive
      <4>3. \A v \in Workers, p \in Purges : AtWork(v, p)' => v = w /\ p = j /\ ~Retryable(w)
        BY <1>1, <1>5, <2>3, <2>5, <4>1 DEF AtWork
      <4>4. QED
        BY <2>3, <4>2, <4>3 DEF Holds, Lasts
    <3>2. CASE ~Started
      BY <1>1, <2>4, <2>5, <3>2 DEF PurgeInv, Holds, Lasts, Started
    <3>3. QED
      BY <3>1, <3>2
  <2>10. QED
    BY <2>6, <2>7, <2>8, <2>9 DEF PurgeInv
<1>6. QED
  BY <1>4, <1>5 DEF Jobs

LEMMA CallFailsStays ==
  ASSUME Types, PurgeInv, NEW w \in Workers, CallFails(w)
  PROVE  PurgeInv'
<1>1. UNCHANGED <<ws, due, job>>
  BY DEF CallFails, wsVars
<1>2. OnlyMoves(w) /\ KeepsOn(w)
  BY DEF CallFails, Goto, OnlyMoves, KeepsOn, Types, TPc, TProc
<1>3. QED
  BY <1>1, <1>2, WorkerLeaves

LEMMA CrashStays ==
  ASSUME Types, PurgeInv, NEW w \in Workers, WorkerCrash(w)
  PROVE  PurgeInv'
<1>1. UNCHANGED <<ws, due, job>>
  BY DEF WorkerCrash, wsVars
<1>2. OnlyMoves(w) /\ KeepsOn(w)
  BY PurgeNotExport DEF WorkerCrash, Return, OnlyMoves, KeepsOn, Types, TPc, TProc
<1>3. QED
  BY <1>1, <1>2, WorkerLeaves

(* The steps of a purge that leave the workspace's status as it is.        *)
LEMMA PurgeGoesOn ==
  ASSUME Types, PurgeInv, NEW w \in Workers, NEW p \in Purges,
         \/ PurgeCheck(w, p) \/ PurgeCredentials(w, p) \/ PurgeThread(w, p) \/ PurgeObjects(w, p)
         \/ PurgeCheckpoint(w, p)
  PROVE  PurgeInv'
<1>1. ws' = ws /\ due' = due /\ pc[w] \in {"check", "act", "mark"}
  BY DEF PurgeCheck, PurgeCredentials, PurgeThread, PurgeObjects, PurgeCheckpoint, Worker, wsVars
<1>2. OnlyMoves(w)
  BY DEF PurgeCheck, PurgeCredentials, PurgeThread, PurgeObjects, PurgeCheckpoint, Goto, OnlyMoves, Types, TPc, TProc
<1>3. proc'[w].job = proc[w].job /\ back' = back /\ pc'[w] \in {"throw", "act", "transition", "mark"}
  BY DEF PurgeCheck, PurgeCredentials, PurgeThread, PurgeObjects, PurgeCheckpoint, Goto, Types, TPc, TProc, ProcRows
<1>4. \A q \in Purges : job'[q].status = job[q].status /\ job'[q].leased = job[q].leased
  BY RowFacts DEF PurgeCheck, PurgeCredentials, PurgeThread, PurgeObjects, PurgeCheckpoint, Types, TJob, JobRows
<1>5. KeepsOn(w)
  BY <1>1, <1>3 DEF KeepsOn
<1>6. QED
  BY <1>1, <1>2, <1>4, <1>5, WorkerLeaves

(* The purge starts where it was due, and no recovery came between.        *)
LEMMA TransitionKeeps ==
  ASSUME Types, ReadBefore, PurgeInv, NEW w \in Workers, NEW p \in Purges, PurgeTransition(w, p)
  PROVE  PurgeInv'
<1>1. UNCHANGED <<due, job, back, proc>> /\ pc[w] = "transition" /\ proc[w].job = p
  BY DEF PurgeTransition, Worker, Goto
<1>2. OnlyMoves(w) /\ KeepsOn(w)
  BY <1>1 DEF PurgeTransition, Goto, OnlyMoves, KeepsOn, Types, TPc
<1>3. CASE ws' = ws
  BY <1>1, <1>2, <1>3, WorkerLeaves
<1>4. CASE ws' # ws
  <2>1. MayStartPurge(w, p) /\ ws'.status = "purging" /\ pc'[w] = "act"
    BY <1>4 DEF PurgeTransition, Goto, Types, TPc
  <2>2. due /\ ws.status = "quarantined"
    BY <1>1, <2>1 DEF ReadBefore, MayStartPurge
  <2>3. Started /\ Started' /\ \A q \in Purges : Live(q)' <=> Live(q)
    BY <1>1, <2>1, <2>2 DEF Started, Live
  <2>4. \A v \in Workers, q \in Purges :
          AtWork(v, q)' => AtWork(v, q) /\ (pc'[v] = "exhausted" <=> pc[v] = "exhausted")
    BY <1>1, <1>2, <2>1 DEF AtWork, OnlyMoves
  <2>5. OneLive' /\ NoneLive' /\ LateIsDue' /\ OneAtWork' /\ FailedIsOver'
    BY <1>1, <2>1, <2>2, <2>3, <2>4 DEF PurgeInv, OneLive, NoneLive, LateIsDue, OneAtWork, FailedIsOver
  <2>6. Taken'
    BY <1>1, <1>2, <2>1, <2>2, <2>3 DEF PurgeInv, Taken, Recovering, OnlyMoves
  <2>7. Holds'
    BY <1>1, <2>3, <2>4 DEF PurgeInv, Holds, Lasts
  <2>8. QED
    BY <2>5, <2>6, <2>7 DEF PurgeInv
<1>5. QED
  BY <1>3, <1>4

(* The last batch deletes the jobs, and the workspace is gone: it was not  *)
(* failed while a worker was at it.                                        *)
LEMMA RowsGone ==
  ASSUME Types, PastRecovery, PurgeInv, NEW w \in Workers, NEW p \in Purges, PurgeRows(w, p)
  PROVE  PurgeInv'
<1>1. pc[w] = "act" /\ proc[w].job = p
  BY DEF PurgeRows, Worker
<1>2. CASE Fenced
  <2>1. UNCHANGED <<ws, due, job>>
    BY <1>2 DEF PurgeRows
  <2>2. OnlyMoves(w) /\ KeepsOn(w)
    BY <1>1, <1>2 DEF PurgeRows, Goto, OnlyMoves, KeepsOn, Types, TPc
  <2>3. QED
    BY <2>1, <2>2, WorkerLeaves
<1>3. CASE ~Fenced
  <2>1. ws.status \in {"purging", "gone"}
    BY <1>1 DEF PastRecovery, PurgeInv, FailedIsOver, AtWork
  <2>2. ws'.status = "gone"
    BY <1>3, <2>1 DEF PurgeRows
  <2>3. OnlyMoves(w) /\ proc'[w].job \notin Purges
    BY <1>3, PurgeNotExport DEF PurgeRows, Return, OnlyMoves, Types, TPc, TProc
  <2>4. \A q \in Purges : ~Live(q)'
    BY <1>3, RowFacts DEF PurgeRows, Live, NoJobRow
  <2>5. OneLive' /\ NoneLive' /\ LateIsDue' /\ OneAtWork' /\ FailedIsOver'
    BY <2>2, <2>4 DEF OneLive, NoneLive, LateIsDue, OneAtWork, FailedIsOver, Started
  <2>6. Taken'
    BY <2>2, <2>3, <2>4 DEF PurgeInv, Taken, Recovering, OnlyMoves
  <2>7. Holds'
    BY <2>2, <2>4 DEF Holds, Lasts, Started
  <2>8. QED
    BY <2>5, <2>6, <2>7 DEF PurgeInv
<1>4. QED
  BY <1>2, <1>3

(* The workspace fails after its job has: the worker was the only one.     *)
LEMMA ExhaustedKeeps ==
  ASSUME Types, PurgeInv, NEW w \in Workers, NEW p \in Purges, PurgeExhausted(w, p)
  PROVE  PurgeInv'
<1>1. UNCHANGED <<due, job>> /\ pc[w] = "exhausted" /\ proc[w].job = p
  BY DEF PurgeExhausted, Worker
<1>2. OnlyMoves(w) /\ proc'[w].job \notin Purges
  BY PurgeNotExport DEF PurgeExhausted, Return, OnlyMoves, Types, TPc, TProc
<1>3. CASE ws'.status = ws.status
  BY <1>1, <1>2, <1>3, WorkerLeaves DEF KeepsOn
<1>4. CASE ws'.status # ws.status
  <2>1. ws.status = "purging" /\ ws'.status = "failed"
    BY <1>4 DEF PurgeExhausted
  <2>2. Started /\ AtWork(w, p)
    BY <1>1, <2>1 DEF Started, AtWork
  <2>3. job[p].status = "failed" /\ \A q \in Purges : ~Live(q)
    BY <1>1, <2>2 DEF PurgeInv, Holds, Lasts
  <2>4. \A v \in Workers, q \in Purges : ~AtWork(v, q)'
    BY <1>2, <2>2 DEF PurgeInv, OneAtWork, AtWork, OnlyMoves
  <2>5. \A q \in Purges : ~Live(q)'
    BY <1>1, <2>3 DEF Live
  <2>6. OneLive' /\ NoneLive' /\ LateIsDue' /\ OneAtWork' /\ FailedIsOver' /\ Holds'
    BY <1>1, <2>1, <2>3, <2>4, <2>5
    DEF PurgeInv, OneLive, NoneLive, LateIsDue, OneAtWork, FailedIsOver, Holds
  <2>7. Taken'
    BY <1>1, <1>2, <2>1, <2>5 DEF PurgeInv, Taken, Recovering, OnlyMoves
  <2>8. QED
    BY <2>6, <2>7 DEF PurgeInv
<1>5. QED
  BY <1>3, <1>4

LEMMA PurgeStarts == WorkspaceInit => PurgeInv
<1> SUFFICES ASSUME WorkspaceInit PROVE PurgeInv
  OBVIOUS
<1>1. ws.status = "active" /\ ~Started
  BY DEF WorkspaceInit, Started
<1>2. \A p \in Purges : ~Live(p)
  BY RowFacts DEF WorkspaceInit, Live, NoJobRow
<1>3. \A w \in Workers : proc[w].job \notin Purges
  BY PurgeNotExport DEF WorkspaceInit
<1>4. QED
  BY <1>1, <1>2, <1>3
  DEF PurgeInv, OneLive, NoneLive, LateIsDue, Taken, Holds, AtWork, OneAtWork, FailedIsOver

LEMMA PurgeNext ==
  ASSUME LeaseOutlivesWorker, IInv, PurgeInv, [Next]_vars
  PROVE  PurgeInv'
<1>t. Types /\ PastRecovery /\ ReadBefore /\ RecoversOnly
  BY DEF IInv, Inv, ErasureInv
<1>1. CASE \/ DeletionRead \/ DeletionRevoke \/ RetryRevocation \/ RecoveryRead \/ ExpiryStep \/ StoreStep
           \/ WriteRows \/ WriteMessage \/ ExecutionEnds \/ RequestCrash
           \/ \E e \in Exports : FenceLeaseExpires(e)
  BY <1>t, <1>1, OthersStay, WorkersStay
<1>2. CASE DeletionStep
  BY <1>t, <1>1, <1>2, DeletionKeeps, RecoveryKeeps, PeriodKeeps, RetryKeeps DEF DeletionStep
<1>3. ASSUME NEW w \in Workers, NEW p \in Purges, PurgeStep(w, p)
      PROVE  PurgeInv'
  BY <1>t, <1>3, PurgeGoesOn, TransitionKeeps, RowsGone, ExhaustedKeeps DEF PurgeStep
<1>4. ASSUME NEW w \in Workers, NEW e \in Exports, ExportStep(w, e)
      PROVE  PurgeInv'
  BY <1>t, <1>4, ExportMoves, WorkerLeaves DEF KeepsOn
<1>5. ASSUME NEW w \in Workers, WorkerStep(w) \/ CallFails(w) \/ WorkerCrash(w)
      PROVE  PurgeInv'
  BY <1>t, <1>3, <1>4, <1>5, SelectKeeps, QuiescenceKeeps, ClaimKeeps, FailureKeeps, CallFailsStays, CrashStays
  DEF WorkerStep
<1>6. CASE \E j \in Jobs : JobLeaseExpires(j)
  BY <1>t, <1>6, LeaseKeeps
<1>7. CASE UNCHANGED vars
  BY <1>7, WorkersStay DEF vars
<1>8. QED
  BY <1>1, <1>2, <1>5, <1>6, <1>7 DEF Next

(* A workspace that is marked as failed can be retried: its purge job has  *)
(* failed and is still there (processDataLifecycleJobs, purgeWorkspace).   *)
(* It needs the lease of a job to outlive the invocation that holds it.    *)
THEOREM FailureIsRetryable == LeaseOutlivesWorker /\ Spec => []FailedPurgeIsRetryable
<1> SUFFICES ASSUME LeaseOutlivesWorker PROVE Spec => []FailedPurgeIsRetryable
  OBVIOUS
<1>1. WorkspaceInit => IInv /\ PurgeInv
  BY Initially, PurgeStarts
<1>2. IInv /\ PurgeInv /\ [Next]_vars => (IInv /\ PurgeInv)'
  BY NextKeeps, PurgeNext
<1>3. IInv /\ PurgeInv => FailedPurgeIsRetryable
  BY DEF PurgeInv, FailedIsOver, FailedPurgeIsRetryable
<1>4. QED
  BY <1>1, <1>2, <1>3, PTL DEF Spec

-------------------------------------------------------------------------------
(* An archive is a cut                                                     *)

(* Incidents: calls that failed, invocations that vanished, sweeps.        *)
NoSweep == bound.sweeps = MaxSweeps
Good == Failures + (MaxSweeps - bound.sweeps) <= 1

(* The capture and the release of an export, and the pages it copied.      *)
Pending(e) == job[e].status \in {"queued", "running"}
Holding(e) == fence = [job |-> e, status |-> "active", live |-> TRUE]
IsCut(s) == s.page1 = s.page2 /\ <<s.page1, s.messages>> \in cuts

Capturing == {"begin", "freeze", "frozen", "copy", "copied", "pin"}
Releasing == {"releasing", "unfreeze", "unfence"}
Assembling == {"gather", "put", "publish"}
Frozen == {"frozen", "copy", "copied", "pin", "releasing", "unfreeze"}

On(w, e, at) == proc[w].job = e /\ pc[w] \in at

(* The phase of the job at each of a worker's places.                      *)
PhaseAt ==
  [begin |-> "awaiting_quiescence", freeze |-> "fenced", frozen |-> "fenced", copy |-> "do_frozen",
   copied |-> "do_frozen", pin |-> "d1_materialized", record |-> "r2_pinned", assemble |-> "released",
   gather |-> "assembling", put |-> "assembling", publish |-> "assembling"]

(* The messages m were read and are still those of the moment: because the *)
(* thread is frozen or, where a sweep may thaw it, because the rows have   *)
(* not changed since.                                                      *)
Current(e, m) == IF NoSweep THEN thread.frozen = e /\ thread.messages = m
                 ELSE Holding(e) /\ <<d1, m>> \in cuts

(* One invocation at a time.                                               *)
Alone == \A v, w \in Workers : pc[v] # "idle" /\ pc[w] # "idle" => v = w

(* What a worker of an export knows from where it stands: which way it     *)
(* came, the status and the phase of its job, and what it holds and read.  *)
Places(w, e) ==
  /\ pc[w] \notin {"idle", "unput", "check", "transition", "act", "mark"}
  /\ back[w] # "throw"
  /\ back[w] = "exhausted" => pc[w] \in Releasing \cup {"exhausted"}
  /\ Recovering(w) => ~Calm
  /\ pc[w] = "requeue" => Recovering(w)

Status(w, e) ==
  /\ pc[w] \in {"clear", "exhausted"} \/ back[w] = "exhausted" => job[e].status \in {"completed", "expired", "failed"}
  /\ pc[w] \in {"polled", "claim"} => Pending(e)
  /\ pc[w] \in Capturing \cup Assembling \cup {"acquire", "record", "assemble", "throw"}
     \/ (pc[w] \in Releasing /\ back[w] = "record") => Running(e)

PhaseOf(w, e) ==
  /\ pc[w] \in {"polled", "claim", "acquire"} => proc[w].phase = job[e].phase
  /\ pc[w] = "acquire" => proc[w].phase \in {"awaiting_quiescence", "fenced", "do_frozen", "d1_materialized"}
  /\ pc[w] \in DOMAIN PhaseAt => job[e].phase = PhaseAt[pc[w]]
  /\ pc[w] \in Releasing /\ back[w] = "record" => job[e].phase = "r2_pinned"

Read(w, e) ==
  /\ pc[w] \in Capturing => Holding(e)
  /\ pc[w] = "frozen" => Current(e, proc[w].v)
  /\ pc[w] = "copied" => staged[e].page1 = d1
  /\ pc[w] \in {"put", "publish"} => IsCut(proc[w].got)

AtExport == \A w \in Workers, e \in Exports :
              proc[w].job = e => Places(w, e) /\ Status(w, e) /\ PhaseOf(w, e) /\ Read(w, e)

(* A recovery has thawed the thread and will requeue the export.           *)
Thawed(e) == \E w \in Workers : Recovering(w) /\ On(w, e, {"unfence", "requeue"})

(* What the phase of an export says of its copies: the messages are still  *)
(* current, or the copies are a cut, and so is what was published.         *)
Captured(e) ==
  /\ Pending(e) => job[e].phase \in ExportPhases
  /\ Pending(e) /\ job[e].phase = "do_frozen" => Thawed(e) \/ Current(e, staged[e].messages)
  /\ Pending(e) /\ job[e].phase \in {"d1_materialized", "r2_pinned", "released", "assembling"} => IsCut(staged[e])
  /\ job[e].status = "completed" => IsCut(job[e].archive)

(* While nothing failed, whatever an export holds a worker works on.       *)
Attended(e) ==
  /\ Pending(e) /\ job[e].phase \in {"fenced", "do_frozen", "d1_materialized", "r2_pinned"} =>
       \E w \in Workers : On(w, e, Capturing \cup Releasing \cup {"record"})
  /\ fence.job = e => \E w \in Workers : On(w, e, Capturing \cup Releasing)
  /\ thread.frozen = e => fence.job = e /\ \E w \in Workers : On(w, e, Frozen)

(* The present is a moment; a sweep of messages under way is an incident.  *)
Moment == <<d1, thread.messages>> \in cuts
SweepSpent == store.chatSweep = "selected" => ~NoSweep

(* As long as there was at most one incident. It is inductive with the     *)
(* bounds of sweeps and overlaps.                                          *)
CaptureInv ==
  Good => /\ Alone /\ AtExport /\ Moment /\ SweepSpent
          /\ \A e \in Exports : Captured(e) /\ (Calm => Attended(e))

SweepsLe == bound.sweeps <= MaxSweeps /\ bound.overlaps <= MaxOverlaps

CutInv == SweepsLe /\ CaptureInv

(* What a step spends: nothing that matters, a call or an invocation, or a *)
(* sweep; the last two are the only incident then.                         *)
Even == (Good' => Good) /\ (Calm' <=> Calm) /\ (NoSweep' <=> NoSweep)
Fails == (Good' => Good /\ Calm /\ NoSweep) /\ ~Calm' /\ (NoSweep' <=> NoSweep)
Sweeps == (Good' => Good /\ Calm /\ NoSweep) /\ ~NoSweep' /\ (Calm' <=> Calm)

LEMMA EvenBound ==
  ASSUME bound'.faults = bound.faults, bound'.crashes = bound.crashes, bound'.sweeps = bound.sweeps
  PROVE  Even
  BY DEF Even, Good, Failures, Calm, NoSweep

LEMMA SameBound ==
  ASSUME Types, SweepsLe,
         \/ bound' = bound \/ bound' = [bound EXCEPT !.writes = @ - 1] \/ bound' = [bound EXCEPT !.retries = @ - 1]
  PROVE  Even /\ SweepsLe'
<1>1. /\ bound'.faults = bound.faults /\ bound'.crashes = bound.crashes /\ bound'.sweeps = bound.sweeps
      /\ bound'.overlaps = bound.overlaps
  BY DEF Types, TBound
<1>2. QED
  BY <1>1, EvenBound DEF SweepsLe

LEMMA BoundNumbers ==
  ASSUME Types
  PROVE  /\ bound.faults \in Nat /\ bound.crashes \in Nat /\ bound.sweeps \in Nat
         /\ MaxFaults \in Nat /\ MaxCrashes \in Nat /\ MaxSweeps \in Nat /\ MaxOverlaps \in Nat
  BY WorkspaceAssumption DEF Types, TBound

LEMMA OneIncident ==
  ASSUME NEW f \in Nat, NEW c \in Nat, NEW s \in Nat, NEW F \in Nat, NEW C \in Nat, NEW S \in Nat,
         f <= F, c <= C, s <= S, NEW g \in Nat, NEW d \in Nat, NEW t \in Nat, g <= f, d <= c, t <= s,
         (F - g) + (C - d) + (S - t) <= 1
  PROVE  /\ (F - f) + (C - c) + (S - s) <= 1
         /\ (f = F /\ c = C) \/ s = S
         /\ g # f \/ d # c \/ t # s => f = F /\ c = C /\ s = S
  OBVIOUS

LEMMA SpendsOne ==
  ASSUME Types, BoundLe, SweepsLe, bound'.faults \in Nat, bound'.crashes \in Nat, bound'.sweeps \in Nat,
         bound'.faults <= bound.faults, bound'.crashes <= bound.crashes, bound'.sweeps <= bound.sweeps,
         bound'.faults # bound.faults \/ bound'.crashes # bound.crashes \/ bound'.sweeps # bound.sweeps
  PROVE  Good' => Good /\ Calm /\ NoSweep
<1>1. bound.faults <= MaxFaults /\ bound.crashes <= MaxCrashes /\ bound.sweeps <= MaxSweeps
  BY DEF BoundLe, SweepsLe
<1> SUFFICES ASSUME (MaxFaults - bound'.faults) + (MaxCrashes - bound'.crashes) + (MaxSweeps - bound'.sweeps) <= 1
           PROVE  Good /\ Calm /\ NoSweep
  BY DEF Good, Failures
<1> DEFINE f == bound.faults   c == bound.crashes   s == bound.sweeps
           g == bound'.faults  d == bound'.crashes  t == bound'.sweeps
<1>2. /\ f \in Nat /\ c \in Nat /\ s \in Nat /\ g \in Nat /\ d \in Nat /\ t \in Nat
      /\ MaxFaults \in Nat /\ MaxCrashes \in Nat /\ MaxSweeps \in Nat
      /\ f <= MaxFaults /\ c <= MaxCrashes /\ s <= MaxSweeps /\ g <= f /\ d <= c /\ t <= s
      /\ (g # f \/ d # c \/ t # s) /\ (MaxFaults - g) + (MaxCrashes - d) + (MaxSweeps - t) <= 1
  BY <1>1, BoundNumbers
<1>3. Good <=> (MaxFaults - f) + (MaxCrashes - c) + (MaxSweeps - s) <= 1
  BY DEF Good, Failures
<1>4. (Calm <=> f = MaxFaults /\ c = MaxCrashes) /\ (NoSweep <=> s = MaxSweeps)
  BY DEF Calm, NoSweep
<1> HIDE DEF f, c, s, g, d, t
<1>5. (MaxFaults - f) + (MaxCrashes - c) + (MaxSweeps - s) <= 1 /\ f = MaxFaults /\ c = MaxCrashes /\ s = MaxSweeps
  BY <1>2
<1>6. QED
  BY <1>3, <1>4, <1>5

LEMMA FaultBound ==
  ASSUME Types, BoundLe, SweepsLe, bound.faults > 0, bound' = [bound EXCEPT !.faults = @ - 1]
  PROVE  Fails /\ SweepsLe'
<1>1. /\ bound'.faults = bound.faults - 1 /\ bound'.crashes = bound.crashes /\ bound'.sweeps = bound.sweeps
      /\ bound'.overlaps = bound.overlaps
  BY DEF Types, TBound
<1>2. bound.faults <= MaxFaults /\ bound.crashes <= MaxCrashes /\ bound.sweeps <= MaxSweeps
  BY DEF BoundLe, SweepsLe
<1>3. ~Calm' /\ (NoSweep' <=> NoSweep)
  BY <1>1, <1>2, BoundNumbers DEF Calm, NoSweep
<1>n. bound'.faults \in Nat /\ bound'.crashes \in Nat /\ bound'.sweeps \in Nat
      /\ bound'.faults <= bound.faults /\ bound'.crashes <= bound.crashes /\ bound'.sweeps <= bound.sweeps
      /\ (bound'.faults # bound.faults \/ bound'.crashes # bound.crashes \/ bound'.sweeps # bound.sweeps)
  BY <1>1, BoundNumbers
<1>4. Good' => Good /\ Calm /\ NoSweep
  BY <1>n, SpendsOne
<1>5. SweepsLe'
  BY <1>1, <1>2, BoundNumbers DEF SweepsLe
<1>6. QED
  BY <1>3, <1>4, <1>5 DEF Fails

LEMMA CrashBound ==
  ASSUME Types, BoundLe, SweepsLe, bound.crashes > 0, bound' = [bound EXCEPT !.crashes = @ - 1]
  PROVE  Fails /\ SweepsLe'
<1>1. /\ bound'.faults = bound.faults /\ bound'.crashes = bound.crashes - 1 /\ bound'.sweeps = bound.sweeps
      /\ bound'.overlaps = bound.overlaps
  BY DEF Types, TBound
<1>2. bound.faults <= MaxFaults /\ bound.crashes <= MaxCrashes /\ bound.sweeps <= MaxSweeps
  BY DEF BoundLe, SweepsLe
<1>3. ~Calm' /\ (NoSweep' <=> NoSweep)
  BY <1>1, <1>2, BoundNumbers DEF Calm, NoSweep
<1>n. bound'.faults \in Nat /\ bound'.crashes \in Nat /\ bound'.sweeps \in Nat
      /\ bound'.faults <= bound.faults /\ bound'.crashes <= bound.crashes /\ bound'.sweeps <= bound.sweeps
      /\ (bound'.faults # bound.faults \/ bound'.crashes # bound.crashes \/ bound'.sweeps # bound.sweeps)
  BY <1>1, BoundNumbers
<1>4. Good' => Good /\ Calm /\ NoSweep
  BY <1>n, SpendsOne
<1>5. SweepsLe'
  BY <1>1, <1>2, BoundNumbers DEF SweepsLe
<1>6. QED
  BY <1>3, <1>4, <1>5 DEF Fails

LEMMA SweepBound ==
  ASSUME Types, BoundLe, SweepsLe, bound.sweeps > 0, bound' = [bound EXCEPT !.sweeps = @ - 1]
  PROVE  Sweeps /\ SweepsLe'
<1>1. /\ bound'.faults = bound.faults /\ bound'.crashes = bound.crashes /\ bound'.sweeps = bound.sweeps - 1
      /\ bound'.overlaps = bound.overlaps
  BY DEF Types, TBound
<1>2. bound.faults <= MaxFaults /\ bound.crashes <= MaxCrashes /\ bound.sweeps <= MaxSweeps
  BY DEF BoundLe, SweepsLe
<1>3. ~NoSweep' /\ (Calm' <=> Calm)
  BY <1>1, <1>2, BoundNumbers DEF Calm, NoSweep
<1>n. bound'.faults \in Nat /\ bound'.crashes \in Nat /\ bound'.sweeps \in Nat
      /\ bound'.faults <= bound.faults /\ bound'.crashes <= bound.crashes /\ bound'.sweeps <= bound.sweeps
      /\ (bound'.faults # bound.faults \/ bound'.crashes # bound.crashes \/ bound'.sweeps # bound.sweeps)
  BY <1>1, BoundNumbers
<1>4. Good' => Good /\ Calm /\ NoSweep
  BY <1>n, SpendsOne
<1>5. SweepsLe'
  BY <1>1, <1>2, BoundNumbers DEF SweepsLe
<1>6. QED
  BY <1>3, <1>4, <1>5 DEF Sweeps

(* Where overlaps spend every bound, or there are none, two invocations    *)
(* are at work only after two incidents.                                   *)
OverlapsCount == MaxOverlaps = 0 \/ MaxFaults + MaxCrashes + MaxSweeps >= 2

LEMMA StartAlone ==
  ASSUME Types, OverlapsCount, SweepsLe, NEW w \in Workers, StartTick(w)
  PROVE  pc[w] = "idle" /\ SweepsLe' /\ (Good' => (Even /\ \A v \in Workers : pc[v] = "idle"))
<1>1. pc[w] = "idle"
  BY DEF StartTick, At
<1>2. CASE \A v \in Workers : At(v, "idle")
  BY <1>1, <1>2, SameBound DEF StartTick, At
<1>3. CASE ~\A v \in Workers : At(v, "idle")
  <2>1. bound.overlaps > 0 /\ bound' = [b \in DOMAIN bound |-> 0]
    BY <1>3 DEF StartTick
  <2>2. /\ bound'.faults = 0 /\ bound'.crashes = 0 /\ bound'.sweeps = 0 /\ bound'.overlaps = 0
        /\ bound.overlaps \in Nat
    BY <2>1 DEF Types, TBound
  <2>3. MaxFaults + MaxCrashes + MaxSweeps >= 2
    BY <2>1, <2>2, BoundNumbers DEF OverlapsCount, SweepsLe
  <2>4. ~Good'
    BY <2>2, <2>3, BoundNumbers DEF Good, Failures
  <2>5. SweepsLe'
    BY <2>2, BoundNumbers DEF SweepsLe
  <2>6. QED
    BY <1>1, <2>4, <2>5
<1>4. QED
  BY <1>2, <1>3

(* After the one sweep that a good behaviour may have nothing has failed.  *)
LEMMA GoodSweep ==
  ASSUME Types, BoundLe, SweepsLe, Good, ~NoSweep
  PROVE  Calm
<1>1. bound.faults <= MaxFaults /\ bound.crashes <= MaxCrashes /\ bound.sweeps <= MaxSweeps
  BY DEF BoundLe, SweepsLe
<1>2. (MaxFaults - bound.faults) + (MaxCrashes - bound.crashes) + (MaxSweeps - bound.sweeps) <= 1
  BY DEF Good, Failures
<1>3. (bound.faults = MaxFaults /\ bound.crashes = MaxCrashes) \/ bound.sweeps = MaxSweeps
  BY <1>1, <1>2, BoundNumbers, OneIncident
<1>4. QED
  BY <1>3 DEF Calm, NoSweep

-------------------------------------------------------------------------------
(* Steps that no export takes *)

ExportJobStays(e) ==
  /\ job'[e].phase = job[e].phase /\ job'[e].archive = job[e].archive
  /\ job'[e].status = job[e].status \/ (job[e].status = "completed" /\ job'[e].status = "expired")

WorkerStays(v) == pc'[v] = pc[v] /\ back'[v] = back[v] /\ proc'[v] = proc[v]

(* A mid-capture job is held while nothing failed.                         *)
LEMMA HeldMidway ==
  ASSUME Types, CaptureInv, Good, Calm, NEW e \in Exports, Pending(e), job[e].phase = "do_frozen"
  PROVE  Holding(e) /\ \E w \in Workers : On(w, e, Capturing)
<1>1. PICK w \in Workers : On(w, e, Capturing \cup Releasing \cup {"record"})
  BY DEF CaptureInv, Attended
<1>2. Places(w, e) /\ Status(w, e) /\ PhaseOf(w, e) /\ Read(w, e)
  BY <1>1 DEF CaptureInv, AtExport, On
<1>3. pc[w] \in Capturing
  <2>1. CASE pc[w] = "record"
    BY <1>2, <2>1 DEF PhaseOf, PhaseAt
  <2>2. CASE pc[w] \in Releasing
    <3>1. back[w] # "exhausted"
      BY <1>2 DEF Status, Pending
    <3>2. back[w] # "record"
      BY <1>2, <2>2 DEF PhaseOf
    <3>3. back[w] # "requeue" /\ back[w] # "throw"
      BY <1>2 DEF Places, Recovering
    <3>4. back[w] \in {"record", "throw", "requeue", "exhausted"}
      BY DEF Types, TPc, Backs
    <3>5. QED
      BY <3>1, <3>2, <3>3, <3>4
  <2>3. QED
    BY <1>1, <2>1, <2>2 DEF On
<1>4. QED
  BY <1>1, <1>2, <1>3 DEF Read, On

(* A step that no export takes, and that neither writes what a fence or a  *)
(* freeze protects nor frees what an export holds.                         *)
LEMMA Elsewhere ==
  ASSUME Types, BoundLe, CutInv, SweepsLe', UNCHANGED <<fence, staged>>,
         cuts \subseteq cuts', <<d1, thread.messages>> \in cuts => <<d1', thread'.messages>> \in cuts',
         Fenced => d1' = d1, thread'.frozen \in {thread.frozen, None},
         \A e \in Exports : ExportJobStays(e),
         Good' => (Even \/ Fails \/ Sweeps),
         Good' => Alone' /\ \A v \in Workers : proc[v].job \in Exports \/ proc'[v].job \in Exports => WorkerStays(v),
         Good' => (store'.chatSweep = "selected" => store.chatSweep = "selected" \/ ~NoSweep'),
         Good' => (NoSweep' => /\ thread'.frozen = thread.frozen
                               /\ thread.frozen # None => thread'.messages = thread.messages)
  PROVE  CutInv'
<1> SUFFICES ASSUME Good' PROVE CaptureInv'
  BY DEF CutInv, CaptureInv
<1>1. /\ Good /\ (Calm' => Calm) /\ (NoSweep' => NoSweep) /\ (NoSweep /\ ~NoSweep' => Calm)
      /\ CaptureInv /\ SweepsLe
  BY DEF Even, Fails, Sweeps, CutInv
<1>2. /\ AtExport /\ Moment /\ SweepSpent
      /\ \A e \in Exports : Captured(e) /\ (Calm => Attended(e))
  BY <1>1 DEF CaptureInv
<1>3. ASSUME NEW e \in Exports, NEW m, Current(e, m), NoSweep /\ ~NoSweep' => Holding(e)
      PROVE  Current(e, m)'
  <2>0. e # None
    BY WorkspaceAssumption
  <2>1. CASE NoSweep'
    BY <1>1, <1>3, <2>0, <2>1 DEF Current
  <2>2. CASE ~NoSweep'
    <3>1. Holding(e) /\ <<d1, m>> \in cuts
      BY <1>1, <1>2, <1>3, <2>2 DEF Current, Moment
    <3>2. d1' = d1
      BY <3>1 DEF Holding, Fenced
    <3>3. QED
      BY <2>2, <3>1, <3>2 DEF Current, Holding
  <2>3. QED
    BY <2>1, <2>2
<1>4. \A v \in Workers, e \in Exports : proc'[v].job = e => proc[v].job = e /\ WorkerStays(v)
  BY DEF WorkerStays
<1>5. AtExport'
  <2> SUFFICES ASSUME NEW v \in Workers, NEW e \in Exports, proc'[v].job = e
               PROVE  Places(v, e)' /\ Status(v, e)' /\ PhaseOf(v, e)' /\ Read(v, e)'
    BY DEF AtExport
  <2>1. /\ proc[v].job = e /\ WorkerStays(v) /\ ExportJobStays(e)
        /\ Places(v, e) /\ Status(v, e) /\ PhaseOf(v, e) /\ Read(v, e)
    BY <1>2, <1>4 DEF AtExport
  <2>2. Places(v, e)' /\ Status(v, e)' /\ PhaseOf(v, e)'
    BY <1>1, <2>1 DEF Places, Status, PhaseOf, WorkerStays, ExportJobStays, Recovering, Pending, Running
  <2>3. Read(v, e)'
    <3>1. pc[v] = "frozen" => Current(e, proc[v].v)'
      <4> SUFFICES ASSUME pc[v] = "frozen" PROVE Current(e, proc[v].v)'
        OBVIOUS
      <4>1. Current(e, proc[v].v) /\ Holding(e)
        BY <2>1 DEF Read, Capturing
      <4> DEFINE m == proc[v].v
      <4>2. m' = m
        BY <2>1 DEF WorkerStays
      <4> HIDE DEF m
      <4>3. Current(e, m) /\ (NoSweep /\ ~NoSweep' => Holding(e))
        BY <4>1 DEF m
      <4>4. \A k : Current(e, k) => (Current(e, k)')
        BY <1>3, <4>1
      <4>5. QED
        BY <4>2, <4>3, <4>4 DEF Current, m
    <3>2. pc[v] = "copied" => staged[e].page1 = d1 /\ d1' = d1
      BY <2>1 DEF Read, Capturing, Holding, Fenced
    <3>3. QED
      BY <2>1, <3>1, <3>2 DEF Read, WorkerStays, Holding, IsCut, Current
  <2>4. QED
    BY <2>2, <2>3
<1>6. ASSUME NEW e \in Exports PROVE Captured(e)' /\ (Calm' => Attended(e)')
  <2>1. ExportJobStays(e) /\ (Pending(e)' <=> Pending(e))
    BY DEF ExportJobStays, Pending
  <2>2. (Thawed(e)' <=> Thawed(e)) /\ \A at : \A w \in Workers : On(w, e, at)' <=> On(w, e, at)
    BY <1>4 DEF Thawed, On, Recovering, WorkerStays
  <2>3. Pending(e) /\ job[e].phase = "do_frozen" => Thawed(e)' \/ Current(e, staged[e].messages)'
    <3> SUFFICES ASSUME Pending(e), job[e].phase = "do_frozen", ~Thawed(e) PROVE Current(e, staged[e].messages)'
      BY <2>2
    <3>1. Current(e, staged[e].messages)
      BY <1>2 DEF Captured
    <3>2. Calm => Holding(e)
      BY <1>1, HeldMidway
    <3>3. QED
      BY <1>1, <1>3, <3>1, <3>2
  <2>4. Captured(e)'
    BY <1>2, <2>1, <2>3 DEF Captured, ExportJobStays, IsCut, Current
  <2>5. Calm' => Attended(e)'
    <3>1. thread'.frozen = e => thread.frozen = e
      BY WorkspaceAssumption
    <3>2. QED
      BY <1>1, <1>2, <2>1, <2>2, <3>1 DEF Attended, ExportJobStays
  <2>6. QED
    BY <2>4, <2>5
<1>7. Moment' /\ SweepSpent'
  BY <1>1, <1>2 DEF Moment, SweepSpent
<1>8. QED
  BY <1>5, <1>6, <1>7 DEF CaptureInv

(* ... and that moves no worker.                                           *)
LEMMA NobodyMoves ==
  ASSUME CutInv, UNCHANGED <<pc, back, proc>>, Good' => Good
  PROVE  Good' => Alone' /\ \A v \in Workers : proc[v].job \in Exports \/ proc'[v].job \in Exports => WorkerStays(v)
  BY DEF CutInv, CaptureInv, Alone, WorkerStays


-------------------------------------------------------------------------------
(* Requests, sweeps and the workspace's use *)

LEMMA SpentBound ==
  ASSUME Types, BoundLe, SweepsLe,
         \/ bound' = bound \/ bound' = [bound EXCEPT !.writes = @ - 1] \/ bound' = [bound EXCEPT !.retries = @ - 1]
         \/ bound.faults > 0 /\ bound' = [bound EXCEPT !.faults = @ - 1]
         \/ bound.crashes > 0 /\ bound' = [bound EXCEPT !.crashes = @ - 1]
         \/ bound.sweeps > 0 /\ bound' = [bound EXCEPT !.sweeps = @ - 1]
  PROVE  SweepsLe' /\ (Good' => (Even \/ Fails \/ Sweeps) /\ Good)
<1>1. SweepsLe' /\ (Even \/ Fails \/ Sweeps)
  BY SameBound, FaultBound, CrashBound, SweepBound
<1>2. QED
  BY <1>1 DEF Even, Fails, Sweeps

(* Steps that concern no export, and no data of the tenant.                *)
LEMMA Untouched ==
  ASSUME Types, BoundLe, CutInv, UNCHANGED <<pc, back, proc, fence, staged, d1, cuts>>,
         thread'.messages = thread.messages, thread'.frozen = thread.frozen,
         \A e \in Exports : ExportJobStays(e),
         store'.chatSweep = "selected" => store.chatSweep = "selected",
         \/ bound' = bound \/ bound' = [bound EXCEPT !.writes = @ - 1] \/ bound' = [bound EXCEPT !.retries = @ - 1]
         \/ bound.faults > 0 /\ bound' = [bound EXCEPT !.faults = @ - 1]
         \/ bound.crashes > 0 /\ bound' = [bound EXCEPT !.crashes = @ - 1]
         \/ bound.sweeps > 0 /\ bound' = [bound EXCEPT !.sweeps = @ - 1]
  PROVE  CutInv'
<1>1. SweepsLe' /\ (Good' => (Even \/ Fails \/ Sweeps) /\ Good)
  BY SpentBound DEF CutInv
<1>2. Good' => Alone' /\ \A v \in Workers : proc[v].job \in Exports \/ proc'[v].job \in Exports => WorkerStays(v)
  BY <1>1, NobodyMoves
<1>3. QED
  BY <1>1, <1>2, Elsewhere

LEMMA SameJobs == ASSUME job' = job PROVE \A e \in Exports : ExportJobStays(e)
  BY DEF ExportJobStays

LEMMA RequestsTouchNoExport ==
  ASSUME Types, BoundLe, CutInv, DeletionStep
  PROVE  CutInv'
<1>1. CASE \/ DeletionRead \/ DeletionRevoke \/ RetryRevocation \/ RecoveryRead \/ RecoveryPeriodEnds
  BY <1>1, SameJobs, Untouched
  DEF DeletionRead, DeletionRevoke, RetryRevocation, RecoveryRead, RecoveryPeriodEnds, workerVars, dataVars, exportVars, storeVars
<1>2. CASE DeletionCommit
  <2>1. UNCHANGED <<pc, back, proc, fence, staged, d1, cuts, thread, store, bound>>
    BY <1>2 DEF DeletionCommit, workerVars, dataVars, exportVars, storeVars
  <2>2. job' = job \/ \E p \in Purges : job' = [job EXCEPT ![p] = [NoJobRow EXCEPT !.status = "queued"]]
    BY <1>2, Zenon DEF DeletionCommit
  <2>3. \A e \in Exports : job'[e] = job[e]
    BY <2>2, PurgeNotExport, RowFacts DEF Types, TJob
  <2>4. QED
    BY <2>1, <2>3, Untouched DEF ExportJobStays
<1>3. CASE RecoveryCommit
  <2>1. UNCHANGED <<pc, back, proc, fence, staged, d1, cuts, thread, store, bound>>
    BY <1>3 DEF RecoveryCommit, workerVars, dataVars, exportVars, storeVars
  <2>2. \A e \in Exports : job'[e] = job[e]
    BY <1>3, PurgeNotExport, RowFacts DEF RecoveryCommit, Types, TJob
  <2>3. QED
    BY <2>1, <2>2, Untouched DEF ExportJobStays
<1>4. CASE \E p \in Purges, b \in BOOLEAN : RetryPurge(p, b)
  <2>1. PICK p \in Purges, b \in BOOLEAN : RetryPurge(p, b)
    BY <1>4
  <2>2. /\ UNCHANGED <<pc, back, proc, fence, staged, d1, cuts, thread, store>>
        /\ bound' = [bound EXCEPT !.retries = @ - 1]
    BY <2>1 DEF RetryPurge, workerVars, dataVars, exportVars, storeVars
  <2>3. \A e \in Exports : job'[e] = job[e]
    BY <2>1, PurgeNotExport, RowFacts DEF RetryPurge, QueueFailedPurge, Types, TJob
  <2>4. QED
    BY <2>2, <2>3, Untouched DEF ExportJobStays
<1>5. QED
  BY <1>1, <1>2, <1>3, <1>4 DEF DeletionStep

(* Artifacts are outside the cut: an archive takes their rows with the     *)
(* others. Their sweep needs no exclusion from a capture.                  *)
LEMMA ArtifactsAside ==
  ASSUME Types, BoundLe, CutInv,
         \/ UploadObject \/ InsertArtifact \/ DeleteRefused \/ UploadCrash
         \/ ArtifactExpires \/ UpdateRetentionPolicy
         \/ SweepSelect \/ SweepObject \/ SweepRow \/ ThreadGoesStale \/ ChatSweepMark
         \/ ExecutionEnds \/ RequestCrash
  PROVE  CutInv'
<1>1. UNCHANGED <<pc, back, proc, fence, staged, d1, cuts, job>>
  BY DEF UploadObject, InsertArtifact, DeleteRefused, UploadCrash, ArtifactExpires, UpdateRetentionPolicy,
     SweepSelect, SweepObject, SweepRow, ThreadGoesStale, ChatSweepMark, ExecutionEnds, RequestCrash,
     workerVars, dataVars, exportVars
<1>2. thread'.messages = thread.messages /\ thread'.frozen = thread.frozen
  BY DEF UploadObject, InsertArtifact, DeleteRefused, UploadCrash, ArtifactExpires, UpdateRetentionPolicy,
     SweepSelect, SweepObject, SweepRow, ThreadGoesStale, ChatSweepMark, ExecutionEnds, RequestCrash,
     exportVars, Types, TThread
<1>3. store'.chatSweep = "selected" => store.chatSweep = "selected"
  BY DEF UploadObject, InsertArtifact, DeleteRefused, UploadCrash, ArtifactExpires, UpdateRetentionPolicy,
     SweepSelect, SweepObject, SweepRow, ThreadGoesStale, ChatSweepMark, ExecutionEnds, RequestCrash,
     storeVars, Types, TStore
<1>4. \/ bound' = bound \/ bound' = [bound EXCEPT !.writes = @ - 1]
      \/ bound.faults > 0 /\ bound' = [bound EXCEPT !.faults = @ - 1]
      \/ bound.crashes > 0 /\ bound' = [bound EXCEPT !.crashes = @ - 1]
      \/ bound.sweeps > 0 /\ bound' = [bound EXCEPT !.sweeps = @ - 1]
  BY DEF UploadObject, InsertArtifact, DeleteRefused, UploadCrash, ArtifactExpires, UpdateRetentionPolicy,
     SweepSelect, SweepObject, SweepRow, ThreadGoesStale, ChatSweepMark, ExecutionEnds, RequestCrash
<1>5. QED
  BY <1>1, <1>2, <1>3, <1>4, SameJobs, Untouched

LEMMA LeaseAside == ASSUME Types, BoundLe, CutInv, NEW j \in Jobs, JobLeaseExpires(j) PROVE CutInv'
<1>1. UNCHANGED <<pc, back, proc, fence, staged, d1, cuts, thread, store, bound>>
  BY DEF JobLeaseExpires, workerVars, dataVars, exportVars, storeVars
<1>2. \A e \in Exports : ExportJobStays(e)
  BY RowFacts DEF JobLeaseExpires, ExportJobStays, Types, TJob, JobRows
<1>3. QED
  BY <1>1, <1>2, Untouched

LEMMA ExpiryAside ==
  ASSUME Types, BoundLe, CutInv, NEW e \in Exports, ExpireObject(e) \/ ExpireRow(e)
  PROVE  CutInv'
<1>1. UNCHANGED <<pc, back, proc, fence, staged, d1, cuts, thread, bound>>
  BY DEF ExpireObject, ExpireRow, workerVars, dataVars, exportVars
<1>2. store'.chatSweep = store.chatSweep
  BY DEF ExpireObject, ExpireRow, Types, TStore
<1>3. \A f \in Exports : ExportJobStays(f)
  <2>1. CASE ExpireObject(e)
    BY <2>1 DEF ExpireObject, ExportJobStays
  <2>2. CASE ExpireRow(e)
    <3>1. job[e] \in JobRows /\ DOMAIN job = Jobs /\ Exports \subseteq Jobs
      BY RowFacts DEF Types, TJob
    <3>2. \A f \in Exports \ {e} : job'[f] = job[f]
      BY <2>2, <3>1 DEF ExpireRow
    <3>3. job'[e] = IF job[e].status = "completed" THEN [job[e] EXCEPT !.status = "expired", !.stored = FALSE] ELSE job[e]
      BY <2>2, <3>1 DEF ExpireRow
    <3>4. ExportJobStays(e)
      BY <3>1, <3>3 DEF ExportJobStays, JobRows
    <3>5. QED
      BY <3>2, <3>4 DEF ExportJobStays
  <2>3. QED
    BY <2>1, <2>2
<1>4. QED
  BY <1>1, <1>2, <1>3, Untouched

(* A sweep of the chat's messages is an incident when it selects.          *)
LEMMA SelectsThread == ASSUME Types, BoundLe, CutInv, ChatSweepSelect PROVE CutInv'
<1>1. UNCHANGED <<pc, back, proc, fence, staged, d1, cuts, thread, job>>
  BY DEF ChatSweepSelect, workerVars, dataVars, exportVars
<1>2. SweepsLe' /\ Sweeps
  BY SweepBound DEF ChatSweepSelect, CutInv
<1>3. Good' => Alone' /\ \A v \in Workers : proc[v].job \in Exports \/ proc'[v].job \in Exports => WorkerStays(v)
  BY <1>1, <1>2, NobodyMoves DEF Sweeps
<1>4. QED
  BY <1>1, <1>2, <1>3, SameJobs, Elsewhere DEF Sweeps

(* Writes to the tenant's rows wait for a fence.                           *)
LEMMA RowsWait ==
  ASSUME Types, BoundLe, CutInv, WriteRows \/ SweepOperationalData
  PROVE  CutInv'
<1>1. UNCHANGED <<pc, back, proc, fence, staged, thread, job, store>> /\ ~Fenced
  BY DEF WriteRows, SweepOperationalData, workerVars, exportVars, storeVars
<1>2. cuts' = cuts \cup {<<d1', thread.messages>>}
  BY DEF WriteRows, SweepOperationalData
<1>3. SweepsLe' /\ (Good' => (Even \/ Fails \/ Sweeps) /\ Good)
  BY SpentBound DEF WriteRows, SweepOperationalData, CutInv
<1>4. Good' => Alone' /\ \A v \in Workers : proc[v].job \in Exports \/ proc'[v].job \in Exports => WorkerStays(v)
  BY <1>1, <1>3, NobodyMoves
<1>5. QED
  BY <1>1, <1>2, <1>3, <1>4, SameJobs, Elsewhere

(* A turn waits for a freeze; a sweep that goes on is the only incident.   *)
LEMMA MessagesWait ==
  ASSUME Types, BoundLe, CutInv, WriteMessage \/ ChatSweepPurge
  PROVE  CutInv'
<1>1. UNCHANGED <<pc, back, proc, fence, staged, d1, job>>
  BY DEF WriteMessage, ChatSweepPurge, workerVars, storeVars
<1>2. cuts' = cuts \cup {<<d1, thread'.messages>>} /\ thread'.frozen = None
  BY DEF WriteMessage, ChatSweepPurge, Types, TThread
<1>3. SweepsLe' /\ (Good' => Even /\ Good)
  <2>1. bound' = bound \/ bound' = [bound EXCEPT !.writes = @ - 1]
    BY DEF WriteMessage, ChatSweepPurge
  <2>2. QED
    BY <2>1, SameBound DEF CutInv, Even
<1>4. Good' => Alone' /\ \A v \in Workers : proc[v].job \in Exports \/ proc'[v].job \in Exports => WorkerStays(v)
  BY <1>1, <1>3, NobodyMoves
<1>5. store'.chatSweep = "selected" => store.chatSweep = "selected"
  BY DEF WriteMessage, ChatSweepPurge, storeVars, Types, TStore
<1>6. Good' => (NoSweep' => thread.frozen = None)
  BY <1>3 DEF WriteMessage, ChatSweepPurge, Even, CutInv, CaptureInv, SweepSpent
<1>7. QED
  BY <1>1, <1>2, <1>3, <1>4, <1>5, <1>6, SameJobs, Elsewhere

(* An export is asked for.                                                 *)
LEMMA NewExport ==
  ASSUME Types, BoundLe, CutInv, NEW e \in Exports, CreateExport(e)
  PROVE  CutInv'
<1>1. UNCHANGED <<pc, back, proc, fence, staged, d1, cuts, thread, store, bound>> /\ job[e].status = "none"
  BY DEF CreateExport, workerVars, dataVars, exportVars, storeVars
<1>2. job'[e].status = "queued" /\ job'[e].phase = "awaiting_quiescence" /\ \A f \in Exports \ {e} : job'[f] = job[f]
  BY RowFacts DEF CreateExport, Types, TJob, NoJobRow
<1>3. SweepsLe' /\ (Good' => Good)
  BY <1>1 DEF CutInv, SweepsLe, Good, Failures
<1> SUFFICES ASSUME Good' PROVE CaptureInv'
  BY <1>3 DEF CutInv, CaptureInv
<1>4. CaptureInv /\ Good
  BY <1>3 DEF CutInv
<1>5. Alone' /\ Moment' /\ SweepSpent'
  BY <1>1, <1>4 DEF CaptureInv, Alone, Moment, SweepSpent, NoSweep
<1>6. \A f \in Exports : Captured(f)' /\ (Calm' => Attended(f)')
  <2> SUFFICES ASSUME NEW f \in Exports PROVE Captured(f)' /\ (Calm' => Attended(f)')
    OBVIOUS
  <2>1. Captured(f) /\ (Calm => Attended(f))
    BY <1>4 DEF CaptureInv
  <2>2. CASE f = e
    BY <1>1, <1>2, <2>1, <2>2 DEF Captured, Attended, Pending, On, Calm, ExportPhases
  <2>3. CASE f # e
    <3>1. job'[f] = job[f]
      BY <1>2, <2>3
    <3>2. (Pending(f)' <=> Pending(f)) /\ (Thawed(f)' <=> Thawed(f)) /\ (Calm' <=> Calm)
          /\ (Current(f, staged[f].messages)' <=> Current(f, staged[f].messages))
      BY <1>1, <3>1 DEF Pending, Thawed, On, Recovering, Calm, Current, Holding, NoSweep
    <3>3. Captured(f)'
      BY <1>1, <2>1, <3>1, <3>2 DEF Captured, IsCut
    <3>4. Calm' => Attended(f)'
      BY <1>1, <2>1, <3>1, <3>2 DEF Attended, On
    <3>5. QED
      BY <3>3, <3>4
  <2>4. QED
    BY <2>2, <2>3
<1>7. AtExport'
  <2> SUFFICES ASSUME NEW v \in Workers, NEW f \in Exports, proc[v].job = f
               PROVE  Places(v, f)' /\ Status(v, f)' /\ PhaseOf(v, f)' /\ Read(v, f)'
    BY <1>1 DEF AtExport
  <2>1. Places(v, f) /\ Status(v, f) /\ PhaseOf(v, f) /\ Read(v, f)
    BY <1>4 DEF CaptureInv, AtExport
  <2>2. Places(v, f)' /\ Read(v, f)'
    BY <1>1, <2>1 DEF Places, Read, Recovering, Calm, Current, Holding, IsCut, NoSweep
  <2>3. CASE f # e
    BY <1>1, <1>2, <2>1, <2>2, <2>3 DEF Status, PhaseOf, Pending, Running
  <2>4. CASE f = e
    BY <1>1, <1>2, <2>1, <2>2, <2>4 DEF Status, PhaseOf, PhaseAt, Pending, Running, Capturing, Assembling
  <2>5. QED
    BY <2>3, <2>4
<1>8. QED
  BY <1>5, <1>6, <1>7 DEF CaptureInv

(* No fence runs out under a worker of its export.                         *)
LEMMA FenceLasts ==
  ASSUME Types, BoundLe, RecoversOnly, CutInv, LeaseOutlivesWorker, NEW e \in Exports, FenceLeaseExpires(e)
  PROVE  CutInv'
<1>1. /\ UNCHANGED <<pc, back, proc, staged, d1, cuts, thread, store, job, bound>>
      /\ fence' = [fence EXCEPT !.live = FALSE] /\ fence.job = e /\ ~Working(e)
  BY DEF FenceLeaseExpires, workerVars, dataVars, storeVars
<1>2. SweepsLe' /\ (Good' => Good)
  BY <1>1 DEF CutInv, SweepsLe, Good, Failures
<1> SUFFICES ASSUME Good' PROVE CaptureInv'
  BY <1>2 DEF CutInv, CaptureInv
<1>3. CaptureInv /\ Good /\ SweepsLe
  BY <1>2 DEF CutInv
<1>4. Alone' /\ Moment' /\ SweepSpent' /\ fence'.job = fence.job
  BY <1>1, <1>3 DEF CaptureInv, Alone, Moment, SweepSpent, NoSweep, Types, TFence
<1>5. \A f \in Exports : ~Holding(f)' /\ (f # e => ~Holding(f))
  BY <1>1 DEF Holding, Types, TFence
<1>6. \A w \in Workers, f \in Exports : On(w, f, Capturing) => ~Holding(f)
  <2> SUFFICES ASSUME NEW w \in Workers, On(w, e, Capturing) PROVE FALSE
    BY <1>5
  <2>1. Recovering(w)
    BY <1>1 DEF Working, On, Capturing
  <2>2. QED
    BY <2>1 DEF RecoversOnly, Recovering, On, Capturing
<1>7. AtExport'
  <2> SUFFICES ASSUME NEW v \in Workers, NEW f \in Exports, proc[v].job = f
               PROVE  Places(v, f)' /\ Status(v, f)' /\ PhaseOf(v, f)' /\ Read(v, f)'
    BY <1>1 DEF AtExport
  <2>1. Places(v, f) /\ Status(v, f) /\ PhaseOf(v, f) /\ Read(v, f)
    BY <1>3 DEF CaptureInv, AtExport
  <2>2. pc[v] \notin Capturing
    BY <1>6, <2>1 DEF Read, On
  <2>3. Read(v, f)'
    BY <1>1, <2>1, <2>2 DEF Read, IsCut, Capturing
  <2>4. QED
    BY <1>1, <2>1, <2>3 DEF Places, Status, PhaseOf, Pending, Running, Recovering, Calm
<1>8. ASSUME NEW f \in Exports PROVE Captured(f)' /\ (Calm' => Attended(f)')
  <2>1. Captured(f) /\ (Calm => Attended(f))
    BY <1>3 DEF CaptureInv
  <2>2. ~Calm \/ ~(Pending(f) /\ job[f].phase = "do_frozen")
    BY <1>3, <1>6, HeldMidway
  <2>3. ~NoSweep => Calm
    BY <1>3, GoodSweep
  <2>4. Pending(f) /\ job[f].phase = "do_frozen" => Thawed(f) \/ (NoSweep /\ Current(f, staged[f].messages))
    BY <2>1, <2>2, <2>3 DEF Captured
  <2>5. Captured(f)'
    BY <1>1, <2>1, <2>4 DEF Captured, Pending, Thawed, On, Recovering, Current, IsCut, NoSweep
  <2>6. Calm' => Attended(f)'
    BY <1>1, <1>4, <2>1 DEF Attended, Pending, On, Calm
  <2>7. QED
    BY <2>5, <2>6
<1>9. QED
  BY <1>4, <1>7, <1>8 DEF CaptureInv

-------------------------------------------------------------------------------
(* Workers of a purge *)

(* A worker that has no export, before the step and after it.              *)
LEMMA OtherJob ==
  ASSUME Types, BoundLe, CutInv, SweepsLe', NEW w \in Workers, OnlyMoves(w),
         UNCHANGED <<fence, staged, d1, cuts, thread, store>>, \A e \in Exports : ExportJobStays(e),
         Good' => Even \/ Fails,
         Good' => /\ proc[w].job \notin Exports /\ proc'[w].job \notin Exports
                  /\ pc[w] # "idle" \/ \A v \in Workers : pc[v] = "idle"
  PROVE  CutInv'
<1>1. Good' => Alone' /\ \A v \in Workers : proc[v].job \in Exports \/ proc'[v].job \in Exports => WorkerStays(v)
  <2> SUFFICES ASSUME Good'
               PROVE  Alone' /\ \A v \in Workers : proc[v].job \in Exports \/ proc'[v].job \in Exports => WorkerStays(v)
    OBVIOUS
  <2>1. Alone
    BY DEF Even, Fails, CutInv, CaptureInv
  <2>2. \A v \in Workers \ {w} : pc[v] = "idle" /\ pc'[v] = "idle"
    BY <2>1 DEF Alone, OnlyMoves
  <2>3. QED
    BY <2>2 DEF Alone, OnlyMoves, WorkerStays
<1>2. QED
  BY <1>1, Elsewhere

LEMMA NoneIsNoExport == None \notin Exports /\ Unread.job \notin Exports /\ \A p \in Purges : p \notin Exports
  BY WorkspaceAssumption DEF Unread

LEMMA IdleHasNone ==
  ASSUME CutInv, Good, NEW w \in Workers, pc[w] = "idle" PROVE proc[w].job \notin Exports
  BY DEF CutInv, CaptureInv, AtExport, Places

LEMMA PurgeElsewhere ==
  ASSUME Types, BoundLe, CutInv, NEW w \in Workers, NEW p \in Purges,
         \/ PurgeCheck(w, p) \/ PurgeTransition(w, p) \/ PurgeCredentials(w, p) \/ PurgeObjects(w, p)
         \/ PurgeCheckpoint(w, p) \/ PurgeExhausted(w, p) \/ (PurgeRows(w, p) /\ Fenced)
  PROVE  CutInv'
<1>1. UNCHANGED <<fence, staged, d1, cuts, thread, store, bound>> /\ proc[w].job = p /\ pc[w] # "idle"
  BY DEF PurgeCheck, PurgeTransition, PurgeCredentials, PurgeObjects, PurgeCheckpoint, PurgeExhausted, PurgeRows, Worker,
     dataVars, exportVars, storeVars
<1>2. OnlyMoves(w)
  BY DEF PurgeCheck, PurgeTransition, PurgeCredentials, PurgeObjects, PurgeCheckpoint, PurgeExhausted, PurgeRows, OnlyMoves,
     Goto, Return, Types, TPc, TProc
<1>3. proc'[w].job \notin Exports
  BY <1>1, NoneIsNoExport
  DEF PurgeCheck, PurgeTransition, PurgeCredentials, PurgeObjects, PurgeCheckpoint, PurgeExhausted, PurgeRows,
     Goto, Return, Types, TPc, TProc, ProcRows
<1>4. \A e \in Exports : ExportJobStays(e)
  <2>1. \A e \in Exports : job'[e] = job[e]
    BY NoneIsNoExport, RowFacts
    DEF PurgeCheck, PurgeTransition, PurgeCredentials, PurgeObjects, PurgeCheckpoint, PurgeExhausted, PurgeRows, Types, TJob
  <2>2. QED
    BY <2>1 DEF ExportJobStays
<1>5. Even /\ SweepsLe'
  BY <1>1, SameBound DEF CutInv
<1>6. QED
  BY <1>1, <1>2, <1>3, <1>4, <1>5, NoneIsNoExport, OtherJob

LEMMA SelectsPurge ==
  ASSUME Types, BoundLe, OverlapsCount, CutInv, NEW w \in Workers, NEW p \in Purges, SelectJob(w, p)
  PROVE  CutInv'
<1>1. UNCHANGED <<fence, staged, d1, cuts, thread, store, job>> /\ StartTick(w)
  BY DEF SelectJob, dataVars, exportVars, storeVars
<1>2. OnlyMoves(w) /\ proc'[w].job = p
  BY DEF SelectJob, OnlyMoves, Types, TPc, TProc
<1>3. pc[w] = "idle" /\ SweepsLe' /\ (Good' => (Even /\ \A v \in Workers : pc[v] = "idle"))
  BY <1>1, StartAlone DEF CutInv
<1>4. Good' => proc[w].job \notin Exports
  BY <1>3, IdleHasNone DEF Even
<1>5. QED
  BY <1>1, <1>2, <1>3, <1>4, NoneIsNoExport, SameJobs, OtherJob

LEMMA PurgeJobElsewhere ==
  ASSUME Types, BoundLe, CutInv, NEW w \in Workers, NEW p \in Purges,
         CheckQuiescence(w, p) \/ ClaimJob(w, p) \/ RecordFailure(w, p)
  PROVE  CutInv'
<1>1. UNCHANGED <<fence, staged, d1, cuts, thread, store, bound>> /\ proc[w].job = p /\ pc[w] # "idle"
  BY DEF CheckQuiescence, ClaimJob, RecordFailure, At, dataVars, exportVars, storeVars
<1>2. OnlyMoves(w)
  BY DEF CheckQuiescence, ClaimJob, RecordFailure, OnlyMoves, Goto, Return, ReleaseAnd, Types, TPc, TProc
<1>3. proc'[w].job \notin Exports
  BY <1>1, NoneIsNoExport DEF CheckQuiescence, ClaimJob, RecordFailure, Goto, Return, ReleaseAnd, Types, TPc, TProc
<1>4. \A e \in Exports : job'[e] = job[e]
  BY NoneIsNoExport, RowFacts DEF CheckQuiescence, ClaimJob, RecordFailure, Types, TJob
<1>5. Even /\ SweepsLe'
  BY <1>1, SameBound DEF CutInv
<1>6. QED
  BY <1>1, <1>2, <1>3, <1>4, <1>5, NoneIsNoExport, OtherJob DEF ExportJobStays

(* A call that fails and an invocation that vanishes.                      *)
LEMMA FailsElsewhere ==
  ASSUME Types, BoundLe, CutInv, NEW w \in Workers, proc[w].job \notin Exports, CallFails(w) \/ WorkerCrash(w)
  PROVE  CutInv'
<1>1. UNCHANGED <<fence, staged, d1, cuts, thread, store, job>> /\ pc[w] # "idle"
  BY DEF CallFails, WorkerCrash, dataVars, exportVars, storeVars
<1>2. OnlyMoves(w)
  BY DEF CallFails, WorkerCrash, OnlyMoves, Goto, Return, Types, TPc, TProc
<1>3. proc'[w].job \notin Exports
  BY NoneIsNoExport DEF CallFails, WorkerCrash, Goto, Return, Types, TPc, TProc
<1>4. Fails /\ SweepsLe'
  BY FaultBound, CrashBound DEF CallFails, WorkerCrash, CutInv
<1>5. QED
  BY <1>1, <1>2, <1>3, <1>4, SameJobs, OtherJob

(* When the thread or the rows are purged no export is left to be hurt.    *)
LEMMA ExportsOver ==
  ASSUME Types, BoundLe, CutInv, NEW w \in Workers, OnlyMoves(w), pc[w] # "idle",
         proc[w].job \notin Exports, proc'[w].job \notin Exports,
         UNCHANGED <<fence, d1, cuts, store, bound>>, thread'.messages = thread.messages,
         thread'.frozen \in {None, thread.frozen},
         \A e \in Exports : ~Pending(e)' /\ (job'[e].status = "completed" =>
                                               job[e].status = "completed" /\ job'[e].archive = job[e].archive)
  PROVE  CutInv'
<1>1. SweepsLe' /\ (Good' => Good)
  BY DEF CutInv, SweepsLe, Good, Failures
<1> SUFFICES ASSUME Good' PROVE CaptureInv'
  BY <1>1 DEF CutInv, CaptureInv
<1>2. CaptureInv
  BY <1>1 DEF CutInv
<1>3. \A v \in Workers \ {w} : pc[v] = "idle" /\ pc'[v] = "idle"
  BY <1>1, <1>2 DEF CaptureInv, Alone, OnlyMoves
<1>4. \A v \in Workers, e \in Exports : proc[v].job # e /\ proc'[v].job # e
  BY <1>1, <1>2, <1>3 DEF CaptureInv, AtExport, Places, OnlyMoves
<1>5. Alone' /\ AtExport' /\ Moment' /\ SweepSpent'
  BY <1>1, <1>2, <1>3, <1>4 DEF CaptureInv, Alone, AtExport, Moment, SweepSpent, NoSweep
<1>6. ASSUME NEW e \in Exports PROVE Captured(e)' /\ (Calm' => Attended(e)')
  <2>1. Captured(e) /\ (Calm => Attended(e)) /\ e # None
    BY <1>1, <1>2, WorkspaceAssumption DEF CaptureInv
  <2>2. Captured(e)'
    BY <2>1 DEF Captured, IsCut
  <2>3. Calm' => Calm
    BY DEF Calm
  <2>4. Calm' => Attended(e)'
    BY <1>4, <2>1, <2>3 DEF Attended, On
  <2>5. QED
    BY <2>2, <2>4
<1>7. QED
  BY <1>5, <1>6 DEF CaptureInv

LEMMA PurgesAfter ==
  ASSUME Types, PastRecovery, QuietWhenDue, BoundLe, CutInv, NEW w \in Workers, NEW p \in Purges,
         PurgeThread(w, p) \/ (PurgeRows(w, p) /\ ~Fenced)
  PROVE  CutInv'
<1>1. /\ UNCHANGED <<fence, d1, cuts, store, bound>> /\ proc[w].job = p /\ pc[w] = "act"
      /\ thread'.messages = thread.messages /\ thread'.frozen \in {None, thread.frozen}
  BY DEF PurgeThread, PurgeRows, Worker, dataVars, exportVars, storeVars, Types, TThread
<1>2. OnlyMoves(w) /\ proc'[w].job \notin Exports
  BY <1>1, NoneIsNoExport DEF PurgeThread, PurgeRows, OnlyMoves, Goto, Return, Types, TPc, TProc
<1>3. \A e \in Exports : ~Pending(e)
  BY <1>1 DEF PastRecovery, QuietWhenDue, Late, Pending
<1>4. \A e \in Exports : ~Pending(e)' /\ (job'[e].status = "completed" =>
                                            job[e].status = "completed" /\ job'[e].archive = job[e].archive)
  <2>1. CASE PurgeThread(w, p)
    BY <1>3, <2>1 DEF PurgeThread, Pending
  <2>2. CASE PurgeRows(w, p) /\ ~Fenced
    BY <2>2, RowFacts DEF PurgeRows, Pending, NoJobRow
  <2>3. QED
    BY <2>1, <2>2
<1>5. QED
  BY <1>1, <1>2, <1>4, NoneIsNoExport, ExportsOver

-------------------------------------------------------------------------------
(* Workers of an export *)

(* The invariant, seen by the one worker that is at work.                  *)
Fits(w, e) == Places(w, e) /\ Status(w, e) /\ PhaseOf(w, e) /\ Read(w, e)
ThawedBy(w) == Recovering(w) /\ pc[w] \in {"unfence", "requeue"}

CapturedBy(w, e) ==
  /\ Pending(e) => job[e].phase \in ExportPhases
  /\ Pending(e) /\ job[e].phase = "do_frozen" => ThawedBy(w) \/ Current(e, staged[e].messages)
  /\ Pending(e) /\ job[e].phase \in {"d1_materialized", "r2_pinned", "released", "assembling"} => IsCut(staged[e])
  /\ job[e].status = "completed" => IsCut(job[e].archive)

AttendedBy(w, e) ==
  /\ Pending(e) /\ job[e].phase \in {"fenced", "do_frozen", "d1_materialized", "r2_pinned"} =>
       pc[w] \in Capturing \cup Releasing \cup {"record"}
  /\ fence.job = e => pc[w] \in Capturing \cup Releasing
  /\ thread.frozen = e => fence.job = e /\ pc[w] \in Frozen

Fitting(w, e) == (proc[w].job = e => Fits(w, e)) /\ CapturedBy(w, e) /\ (Calm => AttendedBy(w, e))

LEMMA FitsBefore ==
  ASSUME CutInv, Good, NEW w \in Workers, NEW e \in Exports, \A v \in Workers \ {w} : pc[v] = "idle"
  PROVE  Fitting(w, e) /\ Moment
<1>1. AtExport /\ Captured(e) /\ (Calm => Attended(e)) /\ Moment
  BY DEF CutInv, CaptureInv
<1>2. \A v \in Workers : proc[v].job = e => v = w
  BY <1>1 DEF AtExport, Places
<1>3. Thawed(e) => ThawedBy(w)
  BY <1>2 DEF Thawed, ThawedBy, On
<1>4. CapturedBy(w, e)
  BY <1>1, <1>3 DEF Captured, CapturedBy
<1>5. \A at : (\E v \in Workers : On(v, e, at)) => pc[w] \in at
  BY <1>2 DEF On
<1>6. Calm => AttendedBy(w, e)
  BY <1>1, <1>5 DEF Attended, AttendedBy
<1>7. QED
  BY <1>1, <1>4, <1>6 DEF AtExport, Fits, Fitting

(* What a step of one export's worker leaves alone.                        *)
LeavesOthers(e) ==
  \A f \in Exports \ {e} : /\ ExportJobStays(f) /\ staged'[f] = staged[f]
                           /\ fence'.job = f => fence.job = f
                           /\ thread'.frozen = f <=> thread.frozen = f

LEMMA Mine ==
  ASSUME Types, BoundLe, CutInv, SweepsLe', NEW w \in Workers, NEW e \in Exports,
         proc[w].job = e \/ pc[w] = "idle", proc'[w].job = e \/ (pc'[w] = "idle" /\ proc'[w].job = None),
         OnlyMoves(w), LeavesOthers(e),
         UNCHANGED <<d1, cuts>>, thread'.messages = thread.messages, store'.chatSweep = store.chatSweep,
         Good' => (Even \/ Fails) /\ (pc[w] = "idle" => \A v \in Workers : pc[v] = "idle"),
         Good /\ Good' /\ (Even \/ Fails) /\ Fitting(w, e) /\ Moment => Fitting(w, e)'
  PROVE  CutInv'
<1> SUFFICES ASSUME Good' PROVE CaptureInv'
  BY DEF CutInv, CaptureInv
<1>1. /\ Good /\ (Calm' => Calm) /\ (NoSweep' <=> NoSweep) /\ CaptureInv /\ SweepsLe
  BY DEF Even, Fails, CutInv
<1>2. /\ AtExport /\ Moment /\ SweepSpent
      /\ \A f \in Exports : Captured(f) /\ (Calm => Attended(f))
  BY <1>1 DEF CaptureInv
<1>3. \A v \in Workers \ {w} : pc[v] = "idle" /\ pc'[v] = "idle"
  BY <1>1 DEF OnlyMoves, CaptureInv, Alone
<1>4. Alone'
  BY <1>3 DEF Alone
<1>n. Fitting(w, e)'
  BY <1>1, <1>3, FitsBefore
<1>5. \A v \in Workers, f \in Exports : f # e \/ v # w => proc[v].job # f /\ proc'[v].job # f
  <2>1. \A v \in Workers, f \in Exports : pc[v] = "idle" => proc[v].job # f
    BY <1>2 DEF AtExport, Places
  <2>2. QED
    BY <1>3, <2>1, NoneIsNoExport DEF OnlyMoves
<1>6. AtExport'
  BY <1>5, <1>n DEF AtExport, Fitting, Fits
<1>7. ASSUME NEW f \in Exports \ {e} PROVE Captured(f)' /\ (Calm' => Attended(f)')
  <2>1. \A at : \A v \in Workers : ~On(v, f, at) /\ ~On(v, f, at)'
    BY <1>5 DEF On
  <2>2. ExportJobStays(f) /\ f # None /\ (Pending(f)' <=> Pending(f)) /\ ~Thawed(f)
    BY <2>1, NoneIsNoExport DEF ExportJobStays, Pending, Thawed, LeavesOthers
  <2>3. Pending(f) /\ job[f].phase = "do_frozen" => Current(f, staged[f].messages)'
    <3> SUFFICES ASSUME Pending(f), job[f].phase = "do_frozen" PROVE Current(f, staged[f].messages)'
      OBVIOUS
    <3>1. ~Calm
      BY <1>2, <2>1 DEF Attended
    <3>2. NoSweep
      BY <1>1, <3>1, GoodSweep
    <3>3. QED
      BY <1>1, <1>2, <2>2, <3>2 DEF Captured, Current, LeavesOthers
  <2>4. Captured(f)'
    BY <1>2, <2>2, <2>3 DEF Captured, ExportJobStays, IsCut, LeavesOthers
  <2>5. Calm' => Attended(f)'
    BY <1>1, <1>2, <2>1, <2>2 DEF Attended, ExportJobStays, LeavesOthers
  <2>6. QED
    BY <2>4, <2>5
<1>8. Captured(e)' /\ (Calm' => Attended(e)')
  <2>2. ThawedBy(w)' => Thawed(e)'
    BY DEF ThawedBy, Thawed, On
  <2>3. Captured(e)'
    BY <1>n, <2>2 DEF Fitting, Captured, CapturedBy
  <2>4. Calm' => Attended(e)'
    BY <1>n DEF Fitting, AttendedBy, Attended, On, Capturing, Releasing, Frozen
  <2>5. QED
    BY <2>3, <2>4
<1>9. Moment' /\ SweepSpent'
  BY <1>1, <1>2 DEF Moment, SweepSpent
<1>10. QED
  BY <1>4, <1>6, <1>7, <1>8, <1>9 DEF CaptureInv

(* A step of an export moves its worker and writes its own rows.           *)
LEMMA ExportLeavesOthers ==
  ASSUME Types, NEW w \in Workers, NEW e \in Exports, ExportStep(w, e)
  PROVE  /\ OnlyMoves(w) /\ LeavesOthers(e)
         /\ UNCHANGED <<d1, cuts, store>> /\ thread'.messages = thread.messages
         /\ proc'[w].job = e \/ (pc'[w] = "idle" /\ proc'[w].job = None)
         /\ RecoverFence(w, e) \/ (proc[w].job = e /\ pc[w] # "idle")
<1>t. /\ DOMAIN pc = Workers /\ DOMAIN back = Workers /\ proc \in [Workers -> ProcRows] /\ DOMAIN job = Jobs
      /\ Exports \subseteq Jobs /\ DOMAIN staged = Exports /\ (\A f \in Exports : f # None) /\ TFence /\ TThread
  BY NoneIsNoExport, RowFacts DEF Types, TPc, TProc, TJob, TStaged
<1>1. CASE AcquireFence(w, e)
  <2>1. OnlyMoves(w) /\ (proc'[w].job = e \/ (pc'[w] = "idle" /\ proc'[w].job = None)) /\ proc[w].job = e /\ pc[w] # "idle"
    BY <1>t, <1>1 DEF AcquireFence, OnlyMoves, Exporter, Cursor, Goto, Return, ReleaseAnd, Unread, ProcRows
  <2>2. LeavesOthers(e) /\ UNCHANGED <<d1, cuts, store>> /\ thread'.messages = thread.messages
    BY <1>t, <1>1 DEF AcquireFence, LeavesOthers, ExportJobStays, Cursor, dataVars, exportVars, storeVars, NoFence, TFence, TThread
  <2>3. QED
    BY <2>1, <2>2
<1>2. CASE BeginCapture(w, e)
  <2>1. OnlyMoves(w) /\ (proc'[w].job = e \/ (pc'[w] = "idle" /\ proc'[w].job = None)) /\ proc[w].job = e /\ pc[w] # "idle"
    BY <1>t, <1>2 DEF BeginCapture, OnlyMoves, Exporter, Cursor, Goto, Return, ReleaseAnd, Unread, ProcRows
  <2>2. LeavesOthers(e) /\ UNCHANGED <<d1, cuts, store>> /\ thread'.messages = thread.messages
    BY <1>t, <1>2 DEF BeginCapture, LeavesOthers, ExportJobStays, Cursor, dataVars, exportVars, storeVars, NoFence, TFence, TThread
  <2>3. QED
    BY <2>1, <2>2
<1>3. CASE FreezeThread(w, e)
  <2>1. OnlyMoves(w) /\ (proc'[w].job = e \/ (pc'[w] = "idle" /\ proc'[w].job = None)) /\ proc[w].job = e /\ pc[w] # "idle"
    BY <1>t, <1>3 DEF FreezeThread, OnlyMoves, Exporter, Cursor, Goto, Return, ReleaseAnd, Unread, ProcRows
  <2>2. LeavesOthers(e) /\ UNCHANGED <<d1, cuts, store>> /\ thread'.messages = thread.messages
    BY <1>t, <1>3 DEF FreezeThread, LeavesOthers, ExportJobStays, Cursor, dataVars, exportVars, storeVars, NoFence, TFence, TThread
  <2>3. QED
    BY <2>1, <2>2
<1>4. CASE StageMessages(w, e)
  <2>1. OnlyMoves(w) /\ (proc'[w].job = e \/ (pc'[w] = "idle" /\ proc'[w].job = None)) /\ proc[w].job = e /\ pc[w] # "idle"
    BY <1>t, <1>4 DEF StageMessages, OnlyMoves, Exporter, Cursor, Goto, Return, ReleaseAnd, Unread, ProcRows
  <2>2. LeavesOthers(e) /\ UNCHANGED <<d1, cuts, store>> /\ thread'.messages = thread.messages
    BY <1>t, <1>4 DEF StageMessages, LeavesOthers, ExportJobStays, Cursor, dataVars, exportVars, storeVars, NoFence, TFence, TThread
  <2>3. QED
    BY <2>1, <2>2
<1>5. CASE CopyRows(w, e)
  <2>1. OnlyMoves(w) /\ (proc'[w].job = e \/ (pc'[w] = "idle" /\ proc'[w].job = None)) /\ proc[w].job = e /\ pc[w] # "idle"
    BY <1>t, <1>5 DEF CopyRows, OnlyMoves, Exporter, Cursor, Goto, Return, ReleaseAnd, Unread, ProcRows
  <2>2. LeavesOthers(e) /\ UNCHANGED <<d1, cuts, store>> /\ thread'.messages = thread.messages
    BY <1>t, <1>5 DEF CopyRows, LeavesOthers, ExportJobStays, Cursor, dataVars, exportVars, storeVars, NoFence, TFence, TThread
  <2>3. QED
    BY <2>1, <2>2
<1>6. CASE CopyOtherRows(w, e)
  <2>1. OnlyMoves(w) /\ (proc'[w].job = e \/ (pc'[w] = "idle" /\ proc'[w].job = None)) /\ proc[w].job = e /\ pc[w] # "idle"
    BY <1>t, <1>6 DEF CopyOtherRows, OnlyMoves, Exporter, Cursor, Goto, Return, ReleaseAnd, Unread, ProcRows
  <2>2. LeavesOthers(e) /\ UNCHANGED <<d1, cuts, store>> /\ thread'.messages = thread.messages
    BY <1>t, <1>6 DEF CopyOtherRows, LeavesOthers, ExportJobStays, Cursor, dataVars, exportVars, storeVars, NoFence, TFence, TThread
  <2>3. QED
    BY <2>1, <2>2
<1>7. CASE PinObjects(w, e)
  <2>1. OnlyMoves(w) /\ (proc'[w].job = e \/ (pc'[w] = "idle" /\ proc'[w].job = None)) /\ proc[w].job = e /\ pc[w] # "idle"
    BY <1>t, <1>7 DEF PinObjects, OnlyMoves, Exporter, Cursor, Goto, Return, ReleaseAnd, Unread, ProcRows
  <2>2. LeavesOthers(e) /\ UNCHANGED <<d1, cuts, store>> /\ thread'.messages = thread.messages
    BY <1>t, <1>7 DEF PinObjects, LeavesOthers, ExportJobStays, Cursor, dataVars, exportVars, storeVars, NoFence, TFence, TThread
  <2>3. QED
    BY <2>1, <2>2
<1>8. CASE ReleaseFence(w, e)
  <2>1. OnlyMoves(w) /\ (proc'[w].job = e \/ (pc'[w] = "idle" /\ proc'[w].job = None)) /\ proc[w].job = e /\ pc[w] # "idle"
    BY <1>t, <1>8 DEF ReleaseFence, OnlyMoves, Exporter, Cursor, Goto, Return, ReleaseAnd, Unread, ProcRows
  <2>2. LeavesOthers(e) /\ UNCHANGED <<d1, cuts, store>> /\ thread'.messages = thread.messages
    BY <1>t, <1>8 DEF ReleaseFence, LeavesOthers, ExportJobStays, Cursor, dataVars, exportVars, storeVars, NoFence, TFence, TThread
  <2>3. QED
    BY <2>1, <2>2
<1>9. CASE UnfreezeThread(w, e)
  <2>1. OnlyMoves(w) /\ (proc'[w].job = e \/ (pc'[w] = "idle" /\ proc'[w].job = None)) /\ proc[w].job = e /\ pc[w] # "idle"
    BY <1>t, <1>9 DEF UnfreezeThread, OnlyMoves, Exporter, Cursor, Goto, Return, ReleaseAnd, Unread, ProcRows
  <2>2. LeavesOthers(e) /\ UNCHANGED <<d1, cuts, store>> /\ thread'.messages = thread.messages
    BY <1>t, <1>9 DEF UnfreezeThread, LeavesOthers, ExportJobStays, Cursor, dataVars, exportVars, storeVars, NoFence, TFence, TThread
  <2>3. QED
    BY <2>1, <2>2
<1>10. CASE DeleteFence(w, e)
  <2>1. OnlyMoves(w) /\ (proc'[w].job = e \/ (pc'[w] = "idle" /\ proc'[w].job = None)) /\ proc[w].job = e /\ pc[w] # "idle"
    BY <1>t, <1>10 DEF DeleteFence, OnlyMoves, Exporter, Cursor, Goto, Return, ReleaseAnd, Unread, ProcRows
  <2>2. LeavesOthers(e) /\ UNCHANGED <<d1, cuts, store>> /\ thread'.messages = thread.messages
    BY <1>t, <1>10 DEF DeleteFence, LeavesOthers, ExportJobStays, Cursor, dataVars, exportVars, storeVars, NoFence, TFence, TThread
  <2>3. QED
    BY <2>1, <2>2
<1>11. CASE RecordReleased(w, e)
  <2>1. OnlyMoves(w) /\ (proc'[w].job = e \/ (pc'[w] = "idle" /\ proc'[w].job = None)) /\ proc[w].job = e /\ pc[w] # "idle"
    BY <1>t, <1>11 DEF RecordReleased, OnlyMoves, Exporter, Cursor, Goto, Return, ReleaseAnd, Unread, ProcRows
  <2>2. LeavesOthers(e) /\ UNCHANGED <<d1, cuts, store>> /\ thread'.messages = thread.messages
    BY <1>t, <1>11 DEF RecordReleased, LeavesOthers, ExportJobStays, Cursor, dataVars, exportVars, storeVars, NoFence, TFence, TThread
  <2>3. QED
    BY <2>1, <2>2
<1>12. CASE BeginAssembly(w, e)
  <2>1. OnlyMoves(w) /\ (proc'[w].job = e \/ (pc'[w] = "idle" /\ proc'[w].job = None)) /\ proc[w].job = e /\ pc[w] # "idle"
    BY <1>t, <1>12 DEF BeginAssembly, OnlyMoves, Exporter, Cursor, Goto, Return, ReleaseAnd, Unread, ProcRows
  <2>2. LeavesOthers(e) /\ UNCHANGED <<d1, cuts, store>> /\ thread'.messages = thread.messages
    BY <1>t, <1>12 DEF BeginAssembly, LeavesOthers, ExportJobStays, Cursor, dataVars, exportVars, storeVars, NoFence, TFence, TThread
  <2>3. QED
    BY <2>1, <2>2
<1>13. CASE GatherEntries(w, e)
  <2>1. OnlyMoves(w) /\ (proc'[w].job = e \/ (pc'[w] = "idle" /\ proc'[w].job = None)) /\ proc[w].job = e /\ pc[w] # "idle"
    BY <1>t, <1>13 DEF GatherEntries, OnlyMoves, Exporter, Cursor, Goto, Return, ReleaseAnd, Unread, ProcRows
  <2>2. LeavesOthers(e) /\ UNCHANGED <<d1, cuts, store>> /\ thread'.messages = thread.messages
    BY <1>t, <1>13 DEF GatherEntries, LeavesOthers, ExportJobStays, Cursor, dataVars, exportVars, storeVars, NoFence, TFence, TThread
  <2>3. QED
    BY <2>1, <2>2
<1>14. CASE PutArchive(w, e)
  <2>1. OnlyMoves(w) /\ (proc'[w].job = e \/ (pc'[w] = "idle" /\ proc'[w].job = None)) /\ proc[w].job = e /\ pc[w] # "idle"
    BY <1>t, <1>14 DEF PutArchive, OnlyMoves, Exporter, Cursor, Goto, Return, ReleaseAnd, Unread, ProcRows
  <2>2. LeavesOthers(e) /\ UNCHANGED <<d1, cuts, store>> /\ thread'.messages = thread.messages
    BY <1>t, <1>14 DEF PutArchive, LeavesOthers, ExportJobStays, Cursor, dataVars, exportVars, storeVars, NoFence, TFence, TThread
  <2>3. QED
    BY <2>1, <2>2
<1>15. CASE PublishArchive(w, e)
  <2>1. OnlyMoves(w) /\ (proc'[w].job = e \/ (pc'[w] = "idle" /\ proc'[w].job = None)) /\ proc[w].job = e /\ pc[w] # "idle"
    BY <1>t, <1>15 DEF PublishArchive, OnlyMoves, Exporter, Cursor, Goto, Return, ReleaseAnd, Unread, ProcRows
  <2>2. LeavesOthers(e) /\ UNCHANGED <<d1, cuts, store>> /\ thread'.messages = thread.messages
    BY <1>t, <1>15 DEF PublishArchive, LeavesOthers, ExportJobStays, Cursor, dataVars, exportVars, storeVars, NoFence, TFence, TThread
  <2>3. QED
    BY <2>1, <2>2
<1>16. CASE DeleteArchive(w, e)
  <2>1. OnlyMoves(w) /\ (proc'[w].job = e \/ (pc'[w] = "idle" /\ proc'[w].job = None)) /\ proc[w].job = e /\ pc[w] # "idle"
    BY <1>t, <1>16 DEF DeleteArchive, OnlyMoves, Exporter, Cursor, Goto, Return, ReleaseAnd, Unread, ProcRows
  <2>2. LeavesOthers(e) /\ UNCHANGED <<d1, cuts, store>> /\ thread'.messages = thread.messages
    BY <1>t, <1>16 DEF DeleteArchive, LeavesOthers, ExportJobStays, Cursor, dataVars, exportVars, storeVars, NoFence, TFence, TThread
  <2>3. QED
    BY <2>1, <2>2
<1>17. CASE ClearSnapshot(w, e)
  <2>1. OnlyMoves(w) /\ (proc'[w].job = e \/ (pc'[w] = "idle" /\ proc'[w].job = None)) /\ proc[w].job = e /\ pc[w] # "idle"
    BY <1>t, <1>17 DEF ClearSnapshot, OnlyMoves, Exporter, Cursor, Goto, Return, ReleaseAnd, Unread, ProcRows
  <2>2. LeavesOthers(e) /\ UNCHANGED <<d1, cuts, store>> /\ thread'.messages = thread.messages
    BY <1>t, <1>17 DEF ClearSnapshot, LeavesOthers, ExportJobStays, Cursor, dataVars, exportVars, storeVars, NoFence, TFence, TThread
  <2>3. QED
    BY <2>1, <2>2
<1>18. CASE RequeueExport(w, e)
  <2>1. OnlyMoves(w) /\ (proc'[w].job = e \/ (pc'[w] = "idle" /\ proc'[w].job = None)) /\ proc[w].job = e /\ pc[w] # "idle"
    BY <1>t, <1>18 DEF RequeueExport, OnlyMoves, Exporter, Cursor, Goto, Return, ReleaseAnd, Unread, ProcRows
  <2>2. LeavesOthers(e) /\ UNCHANGED <<d1, cuts, store>> /\ thread'.messages = thread.messages
    BY <1>t, <1>18 DEF RequeueExport, LeavesOthers, ExportJobStays, Cursor, dataVars, exportVars, storeVars, NoFence, TFence, TThread
  <2>3. QED
    BY <2>1, <2>2
<1>19. CASE ExportExhausted(w, e)
  <2>1. OnlyMoves(w) /\ (proc'[w].job = e \/ (pc'[w] = "idle" /\ proc'[w].job = None)) /\ proc[w].job = e /\ pc[w] # "idle"
    BY <1>t, <1>19 DEF ExportExhausted, OnlyMoves, Exporter, Cursor, Goto, Return, ReleaseAnd, Unread, ProcRows
  <2>2. LeavesOthers(e) /\ UNCHANGED <<d1, cuts, store>> /\ thread'.messages = thread.messages
    BY <1>t, <1>19 DEF ExportExhausted, LeavesOthers, ExportJobStays, Cursor, dataVars, exportVars, storeVars, NoFence, TFence, TThread
  <2>3. QED
    BY <2>1, <2>2
<1>20. CASE RecoverFence(w, e)
  BY <1>t, <1>20 DEF RecoverFence, OnlyMoves, LeavesOthers, ExportJobStays, StartTick, dataVars, exportVars, storeVars, ProcRows
<1>21. QED
  BY <1>1, <1>2, <1>3, <1>4, <1>5, <1>6, <1>7, <1>8, <1>9, <1>10, <1>11, <1>12, <1>13, <1>14, <1>15, <1>16, <1>17, <1>18, <1>19, <1>20 DEF ExportStep

-------------------------------------------------------------------------------
(* Each step of the capture and of the assembly *)

(* A sweep under way is the only incident: then nothing has failed.        *)
Single == ~NoSweep => Calm

LEMMA ResumeFacts ==
  /\ ResumeAt("awaiting_quiescence") = "begin" /\ ResumeAt("fenced") = "freeze" /\ ResumeAt("do_frozen") = "copy"
  /\ ResumeAt("d1_materialized") = "pin" /\ ResumeAt("r2_pinned") = "releasing"
  /\ ResumeAt("released") = "assemble" /\ ResumeAt("assembling") = "gather"
  BY DEF ResumeAt, Resume, ExportPhases

LEMMA AcquireFits ==
  ASSUME Types, RecoversOnly, Single, NEW w \in Workers, NEW e \in Exports, Fitting(w, e), Moment, AcquireFence(w, e)
  PROVE  Fitting(w, e)'
<1>t. /\ pc \in [Workers -> WorkerPcs] /\ back \in [Workers -> Backs] /\ proc[w] \in ProcRows /\ proc \in [Workers -> ProcRows]
      /\ job[e] \in JobRows /\ DOMAIN job = Jobs /\ e \in Jobs /\ staged \in [Exports -> Stages] /\ e # None
  BY NoneIsNoExport, RowFacts DEF Types, TPc, TProc, TJob, TStaged
<1>1. pc[w] = "acquire" /\ proc[w].job = e /\ Fits(w, e) /\ CapturedBy(w, e) /\ (Calm => AttendedBy(w, e))
  BY DEF Fitting, AcquireFence, Exporter
<1>2. Running(e) /\ ~Recovering(w) /\ back[w] # "throw" /\ back[w] # "exhausted" /\ proc[w].phase = job[e].phase
      /\ proc[w].phase \in {"awaiting_quiescence", "fenced", "do_frozen", "d1_materialized"}
  BY <1>1 DEF Fits, Places, Status, PhaseOf, PhaseAt, Read, Capturing, Assembling, Releasing, RecoversOnly, Recovering
<1>3. UNCHANGED <<d1, cuts, bound, job, staged, thread>>
  BY DEF AcquireFence, wsVars, dataVars, exportVars, storeVars
<1>4. CASE MayAcquire(e)
  <2>1. fence' = [job |-> e, status |-> "active", live |-> TRUE] /\ UNCHANGED <<back, proc>>
         /\ \/ job[e].phase = "awaiting_quiescence" /\ pc'[w] = "begin"
            \/ job[e].phase = "fenced" /\ pc'[w] = "freeze"
            \/ job[e].phase = "do_frozen" /\ pc'[w] = "copy"
            \/ job[e].phase = "d1_materialized" /\ pc'[w] = "pin"
    <3>1. fence' = [job |-> e, status |-> "active", live |-> TRUE] /\ pc' = [pc EXCEPT ![w] = ResumeAt(proc[w].phase)]
          /\ UNCHANGED <<back, proc>>
      BY <1>4 DEF AcquireFence, Goto
    <3>2. pc'[w] = ResumeAt(job[e].phase)
      BY <1>t, <1>2, <3>1
    <3> DEFINE ph == job[e].phase
    <3>3. ph \in {"awaiting_quiescence", "fenced", "do_frozen", "d1_materialized"} /\ pc'[w] = ResumeAt(ph)
      BY <1>2, <3>2
    <3> HIDE DEF ph
    <3>4. \/ ph = "awaiting_quiescence" /\ pc'[w] = "begin"
          \/ ph = "fenced" /\ pc'[w] = "freeze"
          \/ ph = "do_frozen" /\ pc'[w] = "copy"
          \/ ph = "d1_materialized" /\ pc'[w] = "pin"
      BY <3>3, ResumeFacts
    <3>5. QED
      BY <3>1, <3>4 DEF ph
  <2>2. Places(w, e)'
    BY <1>t, <1>1, <1>2, <1>4, <1>3, <2>1 DEF Places, Recovering, Calm, Capturing, Assembling, Releasing
  <2>3. Status(w, e)'
    BY <1>t, <1>1, <1>2, <1>4, <1>3, <2>1 DEF Fits, Places, Status, Pending, Running, Capturing, Assembling, Releasing
  <2>4. PhaseOf(w, e)'
    BY <1>t, <1>1, <1>2, <1>4, <1>3, <2>1 DEF Fits, Places, PhaseOf, PhaseAt, Running, Pending, Capturing, Assembling, Releasing
  <2>5. Read(w, e)'
    BY <1>t, <1>1, <1>2, <1>4, <1>3, <2>1 DEF Fits, Read, CapturedBy, Holding, Current, IsCut, NoSweep, Pending, Moment, Single, Capturing, Assembling, Releasing
  <2>6. CapturedBy(w, e)'
    BY <1>t, <1>1, <1>2, <1>4, <1>3, <2>1 DEF Fits, Places, Read, Status, PhaseOf, PhaseAt, CapturedBy, ThawedBy, Pending, Running, Recovering, Holding, Current, IsCut, NoSweep, Moment, ExportPhases, Single, AttendedBy, Calm, Capturing, Assembling, Releasing
  <2>7. Calm' => AttendedBy(w, e)'
    BY <1>t, <1>1, <1>2, <1>4, <1>3, <2>1 DEF Fits, Places, Status, PhaseOf, AttendedBy, Pending, Running, Recovering, Calm, Frozen, Holding, Capturing, Assembling, Releasing
  <2>8. QED
    BY <2>2, <2>3, <2>4, <2>5, <2>6, <2>7 DEF Fitting, Fits
<1>5. CASE ~MayAcquire(e)
  <2>1. pc'[w] = "throw" /\ fence' = fence /\ UNCHANGED <<back, proc>>
    BY <1>t, <1>1, <1>2, <1>5, <1>3 DEF AcquireFence, Goto, Return, ReleaseAnd, Exporter, Cursor, Running, Holding, ProcRows, JobRows, Stages, NotStaged, Unread
  <2>2. Places(w, e)'
    BY <1>t, <1>1, <1>2, <1>5, <1>3, <2>1 DEF Places, Recovering, Calm, Capturing, Assembling, Releasing
  <2>3. Status(w, e)'
    BY <1>t, <1>1, <1>2, <1>5, <1>3, <2>1 DEF Fits, Places, Status, Pending, Running, Capturing, Assembling, Releasing
  <2>4. PhaseOf(w, e)'
    BY <1>t, <1>1, <1>2, <1>5, <1>3, <2>1 DEF Fits, Places, PhaseOf, PhaseAt, Running, Pending, Capturing, Assembling, Releasing
  <2>5. Read(w, e)'
    BY <1>t, <1>1, <1>2, <1>5, <1>3, <2>1 DEF Fits, Read, CapturedBy, Holding, Current, IsCut, NoSweep, Pending, Moment, Single, Capturing, Assembling, Releasing
  <2>6. CapturedBy(w, e)'
    BY <1>t, <1>1, <1>2, <1>5, <1>3, <2>1 DEF Fits, Places, Read, Status, PhaseOf, PhaseAt, CapturedBy, ThawedBy, Pending, Running, Recovering, Holding, Current, IsCut, NoSweep, Moment, ExportPhases, Single, AttendedBy, Calm, Capturing, Assembling, Releasing
  <2>7. Calm' => AttendedBy(w, e)'
    BY <1>t, <1>1, <1>2, <1>5, <1>3, <2>1 DEF Fits, Places, Status, PhaseOf, AttendedBy, Pending, Running, Recovering, Calm, Frozen, Holding, Capturing, Assembling, Releasing
  <2>8. QED
    BY <2>2, <2>3, <2>4, <2>5, <2>6, <2>7 DEF Fitting, Fits
<1>6. QED
  BY <1>4, <1>5

LEMMA BeginFits ==
  ASSUME Types, RecoversOnly, Single, NEW w \in Workers, NEW e \in Exports, Fitting(w, e), Moment, BeginCapture(w, e)
  PROVE  Fitting(w, e)'
<1>t. /\ pc \in [Workers -> WorkerPcs] /\ back \in [Workers -> Backs] /\ proc[w] \in ProcRows /\ proc \in [Workers -> ProcRows]
      /\ job[e] \in JobRows /\ DOMAIN job = Jobs /\ e \in Jobs /\ staged \in [Exports -> Stages] /\ e # None
  BY NoneIsNoExport, RowFacts DEF Types, TPc, TProc, TJob, TStaged
<1>1. pc[w] = "begin" /\ proc[w].job = e /\ Fits(w, e) /\ CapturedBy(w, e) /\ (Calm => AttendedBy(w, e))
  BY DEF Fitting, BeginCapture, Exporter
<1>2. Running(e) /\ ~Recovering(w) /\ back[w] # "throw" /\ back[w] # "exhausted" /\ Holding(e)
  BY <1>1 DEF Fits, Places, Status, PhaseOf, PhaseAt, Read, Capturing, Assembling, Releasing, RecoversOnly, Recovering
<1>3. UNCHANGED <<d1, cuts, bound, fence, thread>>
  BY DEF BeginCapture, wsVars, dataVars, exportVars, storeVars
<1>4. pc'[w] = "freeze" /\ UNCHANGED <<back, proc>> /\ job'[e] = [job[e] EXCEPT !.phase = "fenced"]
  BY <1>t, <1>1, <1>2, <1>3 DEF BeginCapture, Goto, Return, ReleaseAnd, Exporter, Cursor, Running, Holding, ProcRows, JobRows, Stages, NotStaged, Unread
<1>5. Places(w, e)'
  BY <1>t, <1>1, <1>2, <1>3, <1>4 DEF Places, Recovering, Calm, Capturing, Assembling, Releasing
<1>6. Status(w, e)'
  BY <1>t, <1>1, <1>2, <1>3, <1>4 DEF Fits, Places, Status, Pending, Running, Capturing, Assembling, Releasing
<1>7. PhaseOf(w, e)'
  BY <1>t, <1>1, <1>2, <1>3, <1>4 DEF Fits, Places, PhaseOf, PhaseAt, Running, Pending, Capturing, Assembling, Releasing
<1>8. Read(w, e)'
  BY <1>t, <1>1, <1>2, <1>3, <1>4 DEF Fits, Read, CapturedBy, Holding, Current, IsCut, NoSweep, Pending, Moment, Single, Capturing, Assembling, Releasing
<1>9. CapturedBy(w, e)'
  BY <1>t, <1>1, <1>2, <1>3, <1>4 DEF Fits, Places, Read, Status, PhaseOf, PhaseAt, CapturedBy, ThawedBy, Pending, Running, Recovering, Holding, Current, IsCut, NoSweep, Moment, ExportPhases, Single, AttendedBy, Calm, Capturing, Assembling, Releasing
<1>10. Calm' => AttendedBy(w, e)'
  BY <1>t, <1>1, <1>2, <1>3, <1>4 DEF Fits, Places, Status, PhaseOf, AttendedBy, Pending, Running, Recovering, Calm, Frozen, Holding, Capturing, Assembling, Releasing
<1>11. QED
  BY <1>5, <1>6, <1>7, <1>8, <1>9, <1>10 DEF Fitting, Fits

LEMMA FreezeFits ==
  ASSUME Types, RecoversOnly, Single, NEW w \in Workers, NEW e \in Exports, Fitting(w, e), Moment, FreezeThread(w, e),
         Calm => thread.frozen \in {None, e}
  PROVE  Fitting(w, e)'
<1>t. /\ pc \in [Workers -> WorkerPcs] /\ back \in [Workers -> Backs] /\ proc[w] \in ProcRows /\ proc \in [Workers -> ProcRows]
      /\ job[e] \in JobRows /\ DOMAIN job = Jobs /\ e \in Jobs /\ staged \in [Exports -> Stages] /\ e # None
  BY NoneIsNoExport, RowFacts DEF Types, TPc, TProc, TJob, TStaged
<1>1. pc[w] = "freeze" /\ proc[w].job = e /\ Fits(w, e) /\ CapturedBy(w, e) /\ (Calm => AttendedBy(w, e))
  BY DEF Fitting, FreezeThread, Exporter
<1>2. Running(e) /\ ~Recovering(w) /\ back[w] # "throw" /\ back[w] # "exhausted" /\ Holding(e) /\ job[e].phase = "fenced"
  BY <1>1 DEF Fits, Places, Status, PhaseOf, PhaseAt, Read, Capturing, Assembling, Releasing, RecoversOnly, Recovering
<1>3. UNCHANGED <<d1, cuts, bound, job, fence, staged>>
  BY DEF FreezeThread, wsVars, dataVars, exportVars, storeVars
<1>4. CASE thread.frozen \in {None, e}
  <2>1. pc'[w] = "frozen" /\ back' = back /\ proc'[w] = [proc[w] EXCEPT !.v = thread.messages] /\ thread' = [thread EXCEPT !.frozen = e]
    BY <1>t, <1>1, <1>2, <1>4, <1>3 DEF FreezeThread, Goto, Return, ReleaseAnd, Exporter, Cursor, Running, Holding, ProcRows, JobRows, Stages, NotStaged, Unread
  <2>2. Places(w, e)'
    BY <1>t, <1>1, <1>2, <1>4, <1>3, <2>1 DEF Places, Recovering, Calm, Capturing, Assembling, Releasing
  <2>3. Status(w, e)'
    BY <1>t, <1>1, <1>2, <1>4, <1>3, <2>1 DEF Fits, Places, Status, Pending, Running, Capturing, Assembling, Releasing
  <2>4. PhaseOf(w, e)'
    BY <1>t, <1>1, <1>2, <1>4, <1>3, <2>1 DEF Fits, Places, PhaseOf, PhaseAt, Running, Pending, Capturing, Assembling, Releasing
  <2>5. Read(w, e)'
    BY <1>t, <1>1, <1>2, <1>4, <1>3, <2>1 DEF Fits, Read, CapturedBy, Holding, Current, IsCut, NoSweep, Pending, Moment, Single, Capturing, Assembling, Releasing
  <2>6. CapturedBy(w, e)'
    BY <1>t, <1>1, <1>2, <1>4, <1>3, <2>1 DEF Fits, Places, Read, Status, PhaseOf, PhaseAt, CapturedBy, ThawedBy, Pending, Running, Recovering, Holding, Current, IsCut, NoSweep, Moment, ExportPhases, Single, AttendedBy, Calm, Capturing, Assembling, Releasing
  <2>7. Calm' => AttendedBy(w, e)'
    BY <1>t, <1>1, <1>2, <1>4, <1>3, <2>1 DEF Fits, Places, Status, PhaseOf, AttendedBy, Pending, Running, Recovering, Calm, Frozen, Holding, Capturing, Assembling, Releasing
  <2>8. QED
    BY <2>2, <2>3, <2>4, <2>5, <2>6, <2>7 DEF Fitting, Fits
<1>5. CASE thread.frozen \notin {None, e}
  <2>1. pc'[w] = "throw" /\ UNCHANGED <<back, proc>> /\ thread' = thread /\ ~Calm
    BY <1>t, <1>1, <1>2, <1>5, <1>3 DEF FreezeThread, Goto, Return, ReleaseAnd, Exporter, Cursor, Running, Holding, ProcRows, JobRows, Stages, NotStaged, Unread
  <2>2. Places(w, e)'
    BY <1>t, <1>1, <1>2, <1>5, <1>3, <2>1 DEF Places, Recovering, Calm, Capturing, Assembling, Releasing
  <2>3. Status(w, e)'
    BY <1>t, <1>1, <1>2, <1>5, <1>3, <2>1 DEF Fits, Places, Status, Pending, Running, Capturing, Assembling, Releasing
  <2>4. PhaseOf(w, e)'
    BY <1>t, <1>1, <1>2, <1>5, <1>3, <2>1 DEF Fits, Places, PhaseOf, PhaseAt, Running, Pending, Capturing, Assembling, Releasing
  <2>5. Read(w, e)'
    BY <1>t, <1>1, <1>2, <1>5, <1>3, <2>1 DEF Fits, Read, CapturedBy, Holding, Current, IsCut, NoSweep, Pending, Moment, Single, Capturing, Assembling, Releasing
  <2>6. CapturedBy(w, e)'
    BY <1>t, <1>1, <1>2, <1>5, <1>3, <2>1 DEF Fits, Places, Read, Status, PhaseOf, PhaseAt, CapturedBy, ThawedBy, Pending, Running, Recovering, Holding, Current, IsCut, NoSweep, Moment, ExportPhases, Single, AttendedBy, Calm, Capturing, Assembling, Releasing
  <2>7. Calm' => AttendedBy(w, e)'
    BY <1>t, <1>1, <1>2, <1>5, <1>3, <2>1 DEF Fits, Places, Status, PhaseOf, AttendedBy, Pending, Running, Recovering, Calm, Frozen, Holding, Capturing, Assembling, Releasing
  <2>8. QED
    BY <2>2, <2>3, <2>4, <2>5, <2>6, <2>7 DEF Fitting, Fits
<1>6. QED
  BY <1>4, <1>5

LEMMA StageFits ==
  ASSUME Types, RecoversOnly, Single, NEW w \in Workers, NEW e \in Exports, Fitting(w, e), Moment, StageMessages(w, e)
  PROVE  Fitting(w, e)'
<1>t. /\ pc \in [Workers -> WorkerPcs] /\ back \in [Workers -> Backs] /\ proc[w] \in ProcRows /\ proc \in [Workers -> ProcRows]
      /\ job[e] \in JobRows /\ DOMAIN job = Jobs /\ e \in Jobs /\ staged \in [Exports -> Stages] /\ e # None
  BY NoneIsNoExport, RowFacts DEF Types, TPc, TProc, TJob, TStaged
<1>1. pc[w] = "frozen" /\ proc[w].job = e /\ Fits(w, e) /\ CapturedBy(w, e) /\ (Calm => AttendedBy(w, e))
  BY DEF Fitting, StageMessages, Exporter
<1>2. Running(e) /\ ~Recovering(w) /\ back[w] # "throw" /\ back[w] # "exhausted" /\ Holding(e) /\ Current(e, proc[w].v)
  BY <1>1 DEF Fits, Places, Status, PhaseOf, PhaseAt, Read, Capturing, Assembling, Releasing, RecoversOnly, Recovering
<1>3. UNCHANGED <<d1, cuts, bound, fence, thread>>
  BY DEF StageMessages, wsVars, dataVars, exportVars, storeVars
<1>4. pc'[w] = "copy" /\ UNCHANGED <<back, proc>> /\ job'[e] = [job[e] EXCEPT !.phase = "do_frozen"] /\ staged'[e] = [staged[e] EXCEPT !.messages = proc[w].v]
  BY <1>t, <1>1, <1>2, <1>3 DEF StageMessages, Goto, Return, ReleaseAnd, Exporter, Cursor, Running, Holding, ProcRows, JobRows, Stages, NotStaged, Unread
<1>5. Places(w, e)'
  BY <1>t, <1>1, <1>2, <1>3, <1>4 DEF Places, Recovering, Calm, Capturing, Assembling, Releasing
<1>6. Status(w, e)'
  BY <1>t, <1>1, <1>2, <1>3, <1>4 DEF Fits, Places, Status, Pending, Running, Capturing, Assembling, Releasing
<1>7. PhaseOf(w, e)'
  BY <1>t, <1>1, <1>2, <1>3, <1>4 DEF Fits, Places, PhaseOf, PhaseAt, Running, Pending, Capturing, Assembling, Releasing
<1>8. Read(w, e)'
  BY <1>t, <1>1, <1>2, <1>3, <1>4 DEF Fits, Read, CapturedBy, Holding, Current, IsCut, NoSweep, Pending, Moment, Single, Capturing, Assembling, Releasing
<1>9. CapturedBy(w, e)'
  BY <1>t, <1>1, <1>2, <1>3, <1>4 DEF Fits, Places, Read, Status, PhaseOf, PhaseAt, CapturedBy, ThawedBy, Pending, Running, Recovering, Holding, Current, IsCut, NoSweep, Moment, ExportPhases, Single, AttendedBy, Calm, Capturing, Assembling, Releasing
<1>10. Calm' => AttendedBy(w, e)'
  BY <1>t, <1>1, <1>2, <1>3, <1>4 DEF Fits, Places, Status, PhaseOf, AttendedBy, Pending, Running, Recovering, Calm, Frozen, Holding, Capturing, Assembling, Releasing
<1>11. QED
  BY <1>5, <1>6, <1>7, <1>8, <1>9, <1>10 DEF Fitting, Fits

LEMMA CopyFits ==
  ASSUME Types, RecoversOnly, Single, NEW w \in Workers, NEW e \in Exports, Fitting(w, e), Moment, CopyRows(w, e)
  PROVE  Fitting(w, e)'
<1>t. /\ pc \in [Workers -> WorkerPcs] /\ back \in [Workers -> Backs] /\ proc[w] \in ProcRows /\ proc \in [Workers -> ProcRows]
      /\ job[e] \in JobRows /\ DOMAIN job = Jobs /\ e \in Jobs /\ staged \in [Exports -> Stages] /\ e # None
  BY NoneIsNoExport, RowFacts DEF Types, TPc, TProc, TJob, TStaged
<1>1. pc[w] = "copy" /\ proc[w].job = e /\ Fits(w, e) /\ CapturedBy(w, e) /\ (Calm => AttendedBy(w, e))
  BY DEF Fitting, CopyRows, Exporter
<1>2. Running(e) /\ ~Recovering(w) /\ back[w] # "throw" /\ back[w] # "exhausted" /\ Holding(e) /\ job[e].phase = "do_frozen"
  BY <1>1 DEF Fits, Places, Status, PhaseOf, PhaseAt, Read, Capturing, Assembling, Releasing, RecoversOnly, Recovering
<1>3. UNCHANGED <<d1, cuts, bound, job, thread>>
  BY DEF CopyRows, wsVars, dataVars, exportVars, storeVars
<1>4. pc'[w] = "copied" /\ UNCHANGED <<back, proc>> /\ fence' = [fence EXCEPT !.live = TRUE] /\ staged'[e].page1 = d1 /\ staged'[e].messages = staged[e].messages
  BY <1>t, <1>1, <1>2, <1>3 DEF CopyRows, Goto, Return, ReleaseAnd, Exporter, Cursor, Running, Holding, ProcRows, JobRows, Stages, NotStaged, Unread
<1>5. Places(w, e)'
  BY <1>t, <1>1, <1>2, <1>3, <1>4 DEF Places, Recovering, Calm, Capturing, Assembling, Releasing
<1>6. Status(w, e)'
  BY <1>t, <1>1, <1>2, <1>3, <1>4 DEF Fits, Places, Status, Pending, Running, Capturing, Assembling, Releasing
<1>7. PhaseOf(w, e)'
  BY <1>t, <1>1, <1>2, <1>3, <1>4 DEF Fits, Places, PhaseOf, PhaseAt, Running, Pending, Capturing, Assembling, Releasing
<1>8. Read(w, e)'
  BY <1>t, <1>1, <1>2, <1>3, <1>4 DEF Fits, Read, CapturedBy, Holding, Current, IsCut, NoSweep, Pending, Moment, Single, Capturing, Assembling, Releasing
<1>9. CapturedBy(w, e)'
  BY <1>t, <1>1, <1>2, <1>3, <1>4 DEF Fits, Places, Read, Status, PhaseOf, PhaseAt, CapturedBy, ThawedBy, Pending, Running, Recovering, Holding, Current, IsCut, NoSweep, Moment, ExportPhases, Single, AttendedBy, Calm, Capturing, Assembling, Releasing
<1>10. Calm' => AttendedBy(w, e)'
  BY <1>t, <1>1, <1>2, <1>3, <1>4 DEF Fits, Places, Status, PhaseOf, AttendedBy, Pending, Running, Recovering, Calm, Frozen, Holding, Capturing, Assembling, Releasing
<1>11. QED
  BY <1>5, <1>6, <1>7, <1>8, <1>9, <1>10 DEF Fitting, Fits

LEMMA CopyOtherFits ==
  ASSUME Types, RecoversOnly, Single, NEW w \in Workers, NEW e \in Exports, Fitting(w, e), Moment, CopyOtherRows(w, e)
  PROVE  Fitting(w, e)'
<1>t. /\ pc \in [Workers -> WorkerPcs] /\ back \in [Workers -> Backs] /\ proc[w] \in ProcRows /\ proc \in [Workers -> ProcRows]
      /\ job[e] \in JobRows /\ DOMAIN job = Jobs /\ e \in Jobs /\ staged \in [Exports -> Stages] /\ e # None
  BY NoneIsNoExport, RowFacts DEF Types, TPc, TProc, TJob, TStaged
<1>1. pc[w] = "copied" /\ proc[w].job = e /\ Fits(w, e) /\ CapturedBy(w, e) /\ (Calm => AttendedBy(w, e))
  BY DEF Fitting, CopyOtherRows, Exporter
<1>2. Running(e) /\ ~Recovering(w) /\ back[w] # "throw" /\ back[w] # "exhausted" /\ Holding(e) /\ job[e].phase = "do_frozen" /\ staged[e].page1 = d1
  BY <1>1 DEF Fits, Places, Status, PhaseOf, PhaseAt, Read, Capturing, Assembling, Releasing, RecoversOnly, Recovering
<1>3. UNCHANGED <<d1, cuts, bound, thread>>
  BY DEF CopyOtherRows, wsVars, dataVars, exportVars, storeVars
<1>4. pc'[w] = "pin" /\ UNCHANGED <<back, proc>> /\ fence' = [fence EXCEPT !.live = TRUE] /\ job'[e] = [job[e] EXCEPT !.phase = "d1_materialized"]
      /\ staged'[e].page1 = d1 /\ staged'[e].page2 = d1 /\ staged'[e].messages = staged[e].messages
  BY <1>t, <1>1, <1>2, <1>3 DEF CopyOtherRows, Goto, Return, ReleaseAnd, Exporter, Cursor, Running, Holding, ProcRows, JobRows, Stages, NotStaged, Unread
<1>5. Places(w, e)'
  BY <1>t, <1>1, <1>2, <1>3, <1>4 DEF Places, Recovering, Calm, Capturing, Assembling, Releasing
<1>6. Status(w, e)'
  BY <1>t, <1>1, <1>2, <1>3, <1>4 DEF Fits, Places, Status, Pending, Running, Capturing, Assembling, Releasing
<1>7. PhaseOf(w, e)'
  BY <1>t, <1>1, <1>2, <1>3, <1>4 DEF Fits, Places, PhaseOf, PhaseAt, Running, Pending, Capturing, Assembling, Releasing
<1>8. Read(w, e)'
  BY <1>t, <1>1, <1>2, <1>3, <1>4 DEF Fits, Read, CapturedBy, Holding, Current, IsCut, NoSweep, Pending, Moment, Single, Capturing, Assembling, Releasing
<1>9. CapturedBy(w, e)'
  BY <1>t, <1>1, <1>2, <1>3, <1>4 DEF Fits, Places, Read, Status, PhaseOf, PhaseAt, CapturedBy, ThawedBy, Pending, Running, Recovering, Holding, Current, IsCut, NoSweep, Moment, ExportPhases, Single, AttendedBy, Calm, Capturing, Assembling, Releasing
<1>10. Calm' => AttendedBy(w, e)'
  BY <1>t, <1>1, <1>2, <1>3, <1>4 DEF Fits, Places, Status, PhaseOf, AttendedBy, Pending, Running, Recovering, Calm, Frozen, Holding, Capturing, Assembling, Releasing
<1>11. QED
  BY <1>5, <1>6, <1>7, <1>8, <1>9, <1>10 DEF Fitting, Fits

LEMMA PinFits ==
  ASSUME Types, RecoversOnly, Single, NEW w \in Workers, NEW e \in Exports, Fitting(w, e), Moment, PinObjects(w, e)
  PROVE  Fitting(w, e)'
<1>t. /\ pc \in [Workers -> WorkerPcs] /\ back \in [Workers -> Backs] /\ proc[w] \in ProcRows /\ proc \in [Workers -> ProcRows]
      /\ job[e] \in JobRows /\ DOMAIN job = Jobs /\ e \in Jobs /\ staged \in [Exports -> Stages] /\ e # None
  BY NoneIsNoExport, RowFacts DEF Types, TPc, TProc, TJob, TStaged
<1>1. pc[w] = "pin" /\ proc[w].job = e /\ Fits(w, e) /\ CapturedBy(w, e) /\ (Calm => AttendedBy(w, e))
  BY DEF Fitting, PinObjects, Exporter
<1>2. Running(e) /\ ~Recovering(w) /\ back[w] # "throw" /\ back[w] # "exhausted" /\ Holding(e) /\ job[e].phase = "d1_materialized"
  BY <1>1 DEF Fits, Places, Status, PhaseOf, PhaseAt, Read, Capturing, Assembling, Releasing, RecoversOnly, Recovering
<1>3. UNCHANGED <<d1, cuts, bound, fence, thread, staged>>
  BY DEF PinObjects, wsVars, dataVars, exportVars, storeVars
<1>4. pc'[w] = "releasing" /\ back'[w] = "record" /\ proc' = proc /\ job'[e] = [job[e] EXCEPT !.phase = "r2_pinned"]
  BY <1>t, <1>1, <1>2, <1>3 DEF PinObjects, Goto, Return, ReleaseAnd, Exporter, Cursor, Running, Holding, ProcRows, JobRows, Stages, NotStaged, Unread
<1>5. Places(w, e)'
  BY <1>t, <1>1, <1>2, <1>3, <1>4 DEF Places, Recovering, Calm, Capturing, Assembling, Releasing
<1>6. Status(w, e)'
  BY <1>t, <1>1, <1>2, <1>3, <1>4 DEF Fits, Places, Status, Pending, Running, Capturing, Assembling, Releasing
<1>7. PhaseOf(w, e)'
  BY <1>t, <1>1, <1>2, <1>3, <1>4 DEF Fits, Places, PhaseOf, PhaseAt, Running, Pending, Capturing, Assembling, Releasing
<1>8. Read(w, e)'
  BY <1>t, <1>1, <1>2, <1>3, <1>4 DEF Fits, Read, CapturedBy, Holding, Current, IsCut, NoSweep, Pending, Moment, Single, Capturing, Assembling, Releasing
<1>9. CapturedBy(w, e)'
  BY <1>t, <1>1, <1>2, <1>3, <1>4 DEF Fits, Places, Read, Status, PhaseOf, PhaseAt, CapturedBy, ThawedBy, Pending, Running, Recovering, Holding, Current, IsCut, NoSweep, Moment, ExportPhases, Single, AttendedBy, Calm, Capturing, Assembling, Releasing
<1>10. Calm' => AttendedBy(w, e)'
  BY <1>t, <1>1, <1>2, <1>3, <1>4 DEF Fits, Places, Status, PhaseOf, AttendedBy, Pending, Running, Recovering, Calm, Frozen, Holding, Capturing, Assembling, Releasing
<1>11. QED
  BY <1>5, <1>6, <1>7, <1>8, <1>9, <1>10 DEF Fitting, Fits

LEMMA RecordFits ==
  ASSUME Types, RecoversOnly, Single, NEW w \in Workers, NEW e \in Exports, Fitting(w, e), Moment, RecordReleased(w, e)
  PROVE  Fitting(w, e)'
<1>t. /\ pc \in [Workers -> WorkerPcs] /\ back \in [Workers -> Backs] /\ proc[w] \in ProcRows /\ proc \in [Workers -> ProcRows]
      /\ job[e] \in JobRows /\ DOMAIN job = Jobs /\ e \in Jobs /\ staged \in [Exports -> Stages] /\ e # None
  BY NoneIsNoExport, RowFacts DEF Types, TPc, TProc, TJob, TStaged
<1>1. pc[w] = "record" /\ proc[w].job = e /\ Fits(w, e) /\ CapturedBy(w, e) /\ (Calm => AttendedBy(w, e))
  BY DEF Fitting, RecordReleased, Exporter
<1>2. Running(e) /\ ~Recovering(w) /\ back[w] # "throw" /\ back[w] # "exhausted" /\ job[e].phase = "r2_pinned"
  BY <1>1 DEF Fits, Places, Status, PhaseOf, PhaseAt, Read, Capturing, Assembling, Releasing, RecoversOnly, Recovering
<1>3. UNCHANGED <<d1, cuts, bound, fence, thread, staged>>
  BY DEF RecordReleased, wsVars, dataVars, exportVars, storeVars
<1>4. pc'[w] = "assemble" /\ UNCHANGED <<back, proc>> /\ job'[e] = [job[e] EXCEPT !.phase = "released"]
  BY <1>t, <1>1, <1>2, <1>3 DEF RecordReleased, Goto, Return, ReleaseAnd, Exporter, Cursor, Running, Holding, ProcRows, JobRows, Stages, NotStaged, Unread
<1>5. Places(w, e)'
  BY <1>t, <1>1, <1>2, <1>3, <1>4 DEF Places, Recovering, Calm, Capturing, Assembling, Releasing
<1>6. Status(w, e)'
  BY <1>t, <1>1, <1>2, <1>3, <1>4 DEF Fits, Places, Status, Pending, Running, Capturing, Assembling, Releasing
<1>7. PhaseOf(w, e)'
  BY <1>t, <1>1, <1>2, <1>3, <1>4 DEF Fits, Places, PhaseOf, PhaseAt, Running, Pending, Capturing, Assembling, Releasing
<1>8. Read(w, e)'
  BY <1>t, <1>1, <1>2, <1>3, <1>4 DEF Fits, Read, CapturedBy, Holding, Current, IsCut, NoSweep, Pending, Moment, Single, Capturing, Assembling, Releasing
<1>9. CapturedBy(w, e)'
  BY <1>t, <1>1, <1>2, <1>3, <1>4 DEF Fits, Places, Read, Status, PhaseOf, PhaseAt, CapturedBy, ThawedBy, Pending, Running, Recovering, Holding, Current, IsCut, NoSweep, Moment, ExportPhases, Single, AttendedBy, Calm, Capturing, Assembling, Releasing
<1>10. Calm' => AttendedBy(w, e)'
  BY <1>t, <1>1, <1>2, <1>3, <1>4 DEF Fits, Places, Status, PhaseOf, AttendedBy, Pending, Running, Recovering, Calm, Frozen, Holding, Capturing, Assembling, Releasing
<1>11. QED
  BY <1>5, <1>6, <1>7, <1>8, <1>9, <1>10 DEF Fitting, Fits

LEMMA AssemblyFits ==
  ASSUME Types, RecoversOnly, Single, NEW w \in Workers, NEW e \in Exports, Fitting(w, e), Moment, BeginAssembly(w, e)
  PROVE  Fitting(w, e)'
<1>t. /\ pc \in [Workers -> WorkerPcs] /\ back \in [Workers -> Backs] /\ proc[w] \in ProcRows /\ proc \in [Workers -> ProcRows]
      /\ job[e] \in JobRows /\ DOMAIN job = Jobs /\ e \in Jobs /\ staged \in [Exports -> Stages] /\ e # None
  BY NoneIsNoExport, RowFacts DEF Types, TPc, TProc, TJob, TStaged
<1>1. pc[w] = "assemble" /\ proc[w].job = e /\ Fits(w, e) /\ CapturedBy(w, e) /\ (Calm => AttendedBy(w, e))
  BY DEF Fitting, BeginAssembly, Exporter
<1>2. Running(e) /\ ~Recovering(w) /\ back[w] # "throw" /\ back[w] # "exhausted" /\ job[e].phase = "released"
  BY <1>1 DEF Fits, Places, Status, PhaseOf, PhaseAt, Read, Capturing, Assembling, Releasing, RecoversOnly, Recovering
<1>3. UNCHANGED <<d1, cuts, bound, fence, thread, staged>>
  BY DEF BeginAssembly, wsVars, dataVars, exportVars, storeVars
<1>4. pc'[w] = "gather" /\ UNCHANGED <<back, proc>> /\ job'[e] = [job[e] EXCEPT !.phase = "assembling"]
  BY <1>t, <1>1, <1>2, <1>3 DEF BeginAssembly, Goto, Return, ReleaseAnd, Exporter, Cursor, Running, Holding, ProcRows, JobRows, Stages, NotStaged, Unread
<1>5. Places(w, e)'
  BY <1>t, <1>1, <1>2, <1>3, <1>4 DEF Places, Recovering, Calm, Capturing, Assembling, Releasing
<1>6. Status(w, e)'
  BY <1>t, <1>1, <1>2, <1>3, <1>4 DEF Fits, Places, Status, Pending, Running, Capturing, Assembling, Releasing
<1>7. PhaseOf(w, e)'
  BY <1>t, <1>1, <1>2, <1>3, <1>4 DEF Fits, Places, PhaseOf, PhaseAt, Running, Pending, Capturing, Assembling, Releasing
<1>8. Read(w, e)'
  BY <1>t, <1>1, <1>2, <1>3, <1>4 DEF Fits, Read, CapturedBy, Holding, Current, IsCut, NoSweep, Pending, Moment, Single, Capturing, Assembling, Releasing
<1>9. CapturedBy(w, e)'
  BY <1>t, <1>1, <1>2, <1>3, <1>4 DEF Fits, Places, Read, Status, PhaseOf, PhaseAt, CapturedBy, ThawedBy, Pending, Running, Recovering, Holding, Current, IsCut, NoSweep, Moment, ExportPhases, Single, AttendedBy, Calm, Capturing, Assembling, Releasing
<1>10. Calm' => AttendedBy(w, e)'
  BY <1>t, <1>1, <1>2, <1>3, <1>4 DEF Fits, Places, Status, PhaseOf, AttendedBy, Pending, Running, Recovering, Calm, Frozen, Holding, Capturing, Assembling, Releasing
<1>11. QED
  BY <1>5, <1>6, <1>7, <1>8, <1>9, <1>10 DEF Fitting, Fits

LEMMA GatherFits ==
  ASSUME Types, RecoversOnly, Single, NEW w \in Workers, NEW e \in Exports, Fitting(w, e), Moment, GatherEntries(w, e)
  PROVE  Fitting(w, e)'
<1>t. /\ pc \in [Workers -> WorkerPcs] /\ back \in [Workers -> Backs] /\ proc[w] \in ProcRows /\ proc \in [Workers -> ProcRows]
      /\ job[e] \in JobRows /\ DOMAIN job = Jobs /\ e \in Jobs /\ staged \in [Exports -> Stages] /\ e # None
  BY NoneIsNoExport, RowFacts DEF Types, TPc, TProc, TJob, TStaged
<1>1. pc[w] = "gather" /\ proc[w].job = e /\ Fits(w, e) /\ CapturedBy(w, e) /\ (Calm => AttendedBy(w, e))
  BY DEF Fitting, GatherEntries, Exporter
<1>2. Running(e) /\ ~Recovering(w) /\ back[w] # "throw" /\ back[w] # "exhausted" /\ job[e].phase = "assembling"
  BY <1>1 DEF Fits, Places, Status, PhaseOf, PhaseAt, Read, Capturing, Assembling, Releasing, RecoversOnly, Recovering
<1>3. UNCHANGED <<d1, cuts, bound, fence, thread, staged, job>>
  BY DEF GatherEntries, wsVars, dataVars, exportVars, storeVars
<1>4. pc'[w] \in {"put", "throw"} /\ back' = back /\ proc'[w].got = staged[e] /\ proc'[w].job = e
  BY <1>t, <1>1, <1>2, <1>3 DEF GatherEntries, Goto, Return, ReleaseAnd, Exporter, Cursor, Running, Holding, ProcRows, JobRows, Stages, NotStaged, Unread
<1>5. Places(w, e)'
  BY <1>t, <1>1, <1>2, <1>3, <1>4 DEF Places, Recovering, Calm, Capturing, Assembling, Releasing
<1>6. Status(w, e)'
  BY <1>t, <1>1, <1>2, <1>3, <1>4 DEF Fits, Places, Status, Pending, Running, Capturing, Assembling, Releasing
<1>7. PhaseOf(w, e)'
  BY <1>t, <1>1, <1>2, <1>3, <1>4 DEF Fits, Places, PhaseOf, PhaseAt, Running, Pending, Capturing, Assembling, Releasing
<1>8. Read(w, e)'
  <2>1. IsCut(staged[e])
    BY <1>1, <1>2 DEF CapturedBy, Pending, Running
  <2>2. IsCut(proc[w].got)'
    BY <1>3, <1>4, <2>1 DEF IsCut
  <2>3. QED
    BY <1>4, <2>2 DEF Read, Capturing
<1>9. CapturedBy(w, e)'
  BY <1>t, <1>1, <1>2, <1>3, <1>4 DEF Fits, Places, Read, Status, PhaseOf, PhaseAt, CapturedBy, ThawedBy, Pending, Running, Recovering, Holding, Current, IsCut, NoSweep, Moment, ExportPhases, Single, AttendedBy, Calm, Capturing, Assembling, Releasing
<1>10. Calm' => AttendedBy(w, e)'
  BY <1>t, <1>1, <1>2, <1>3, <1>4 DEF Fits, Places, Status, PhaseOf, AttendedBy, Pending, Running, Recovering, Calm, Frozen, Holding, Capturing, Assembling, Releasing
<1>11. QED
  BY <1>5, <1>6, <1>7, <1>8, <1>9, <1>10 DEF Fitting, Fits

LEMMA PutFits ==
  ASSUME Types, RecoversOnly, Single, NEW w \in Workers, NEW e \in Exports, Fitting(w, e), Moment, PutArchive(w, e)
  PROVE  Fitting(w, e)'
<1>t. /\ pc \in [Workers -> WorkerPcs] /\ back \in [Workers -> Backs] /\ proc[w] \in ProcRows /\ proc \in [Workers -> ProcRows]
      /\ job[e] \in JobRows /\ DOMAIN job = Jobs /\ e \in Jobs /\ staged \in [Exports -> Stages] /\ e # None
  BY NoneIsNoExport, RowFacts DEF Types, TPc, TProc, TJob, TStaged
<1>1. pc[w] = "put" /\ proc[w].job = e /\ Fits(w, e) /\ CapturedBy(w, e) /\ (Calm => AttendedBy(w, e))
  BY DEF Fitting, PutArchive, Exporter
<1>2. Running(e) /\ ~Recovering(w) /\ back[w] # "throw" /\ back[w] # "exhausted" /\ job[e].phase = "assembling" /\ IsCut(proc[w].got)
  BY <1>1 DEF Fits, Places, Status, PhaseOf, PhaseAt, Read, Capturing, Assembling, Releasing, RecoversOnly, Recovering
<1>3. UNCHANGED <<d1, cuts, bound, fence, thread, staged, job>>
  BY DEF PutArchive, wsVars, dataVars, exportVars, storeVars
<1>4. pc'[w] = "publish" /\ UNCHANGED <<back, proc>>
  BY <1>t, <1>1, <1>2, <1>3 DEF PutArchive, Goto, Return, ReleaseAnd, Exporter, Cursor, Running, Holding, ProcRows, JobRows, Stages, NotStaged, Unread
<1>5. Places(w, e)'
  BY <1>t, <1>1, <1>2, <1>3, <1>4 DEF Places, Recovering, Calm, Capturing, Assembling, Releasing
<1>6. Status(w, e)'
  BY <1>t, <1>1, <1>2, <1>3, <1>4 DEF Fits, Places, Status, Pending, Running, Capturing, Assembling, Releasing
<1>7. PhaseOf(w, e)'
  BY <1>t, <1>1, <1>2, <1>3, <1>4 DEF Fits, Places, PhaseOf, PhaseAt, Running, Pending, Capturing, Assembling, Releasing
<1>8. Read(w, e)'
  BY <1>t, <1>1, <1>2, <1>3, <1>4 DEF Fits, Read, CapturedBy, Holding, Current, IsCut, NoSweep, Pending, Moment, Single, Capturing, Assembling, Releasing
<1>9. CapturedBy(w, e)'
  BY <1>t, <1>1, <1>2, <1>3, <1>4 DEF Fits, Places, Read, Status, PhaseOf, PhaseAt, CapturedBy, ThawedBy, Pending, Running, Recovering, Holding, Current, IsCut, NoSweep, Moment, ExportPhases, Single, AttendedBy, Calm, Capturing, Assembling, Releasing
<1>10. Calm' => AttendedBy(w, e)'
  BY <1>t, <1>1, <1>2, <1>3, <1>4 DEF Fits, Places, Status, PhaseOf, AttendedBy, Pending, Running, Recovering, Calm, Frozen, Holding, Capturing, Assembling, Releasing
<1>11. QED
  BY <1>5, <1>6, <1>7, <1>8, <1>9, <1>10 DEF Fitting, Fits

LEMMA PublishFits ==
  ASSUME Types, RecoversOnly, Single, NEW w \in Workers, NEW e \in Exports, Fitting(w, e), Moment, PublishArchive(w, e)
  PROVE  Fitting(w, e)'
<1>t. /\ pc \in [Workers -> WorkerPcs] /\ back \in [Workers -> Backs] /\ proc[w] \in ProcRows /\ proc \in [Workers -> ProcRows]
      /\ job[e] \in JobRows /\ DOMAIN job = Jobs /\ e \in Jobs /\ staged \in [Exports -> Stages] /\ e # None
  BY NoneIsNoExport, RowFacts DEF Types, TPc, TProc, TJob, TStaged
<1>1. pc[w] = "publish" /\ proc[w].job = e /\ Fits(w, e) /\ CapturedBy(w, e) /\ (Calm => AttendedBy(w, e))
  BY DEF Fitting, PublishArchive, Exporter
<1>2. Running(e) /\ ~Recovering(w) /\ back[w] # "throw" /\ back[w] # "exhausted" /\ IsCut(proc[w].got)
  BY <1>1 DEF Fits, Places, Status, PhaseOf, PhaseAt, Read, Capturing, Assembling, Releasing, RecoversOnly, Recovering
<1>3. UNCHANGED <<d1, cuts, bound, fence, thread, staged>>
  BY DEF PublishArchive, wsVars, dataVars, exportVars, storeVars
<1>4. pc'[w] = "clear" /\ UNCHANGED <<back, proc>> /\ job'[e].status = "completed" /\ job'[e].phase = job[e].phase /\ job'[e].archive = proc[w].got
  BY <1>t, <1>1, <1>2, <1>3 DEF PublishArchive, Goto, Return, ReleaseAnd, Exporter, Cursor, Running, Holding, ProcRows, JobRows, Stages, NotStaged, Unread
<1>5. Places(w, e)'
  BY <1>t, <1>1, <1>2, <1>3, <1>4 DEF Places, Recovering, Calm, Capturing, Assembling, Releasing
<1>6. Status(w, e)'
  BY <1>t, <1>1, <1>2, <1>3, <1>4 DEF Fits, Places, Status, Pending, Running, Capturing, Assembling, Releasing
<1>7. PhaseOf(w, e)'
  BY <1>t, <1>1, <1>2, <1>3, <1>4 DEF Fits, Places, PhaseOf, PhaseAt, Running, Pending, Capturing, Assembling, Releasing
<1>8. Read(w, e)'
  BY <1>t, <1>1, <1>2, <1>3, <1>4 DEF Fits, Read, CapturedBy, Holding, Current, IsCut, NoSweep, Pending, Moment, Single, Capturing, Assembling, Releasing
<1>9. CapturedBy(w, e)'
  BY <1>t, <1>1, <1>2, <1>3, <1>4 DEF Fits, Places, Read, Status, PhaseOf, PhaseAt, CapturedBy, ThawedBy, Pending, Running, Recovering, Holding, Current, IsCut, NoSweep, Moment, ExportPhases, Single, AttendedBy, Calm, Capturing, Assembling, Releasing
<1>10. Calm' => AttendedBy(w, e)'
  BY <1>t, <1>1, <1>2, <1>3, <1>4 DEF Fits, Places, Status, PhaseOf, AttendedBy, Pending, Running, Recovering, Calm, Frozen, Holding, Capturing, Assembling, Releasing
<1>11. QED
  BY <1>5, <1>6, <1>7, <1>8, <1>9, <1>10 DEF Fitting, Fits

LEMMA ClearFits ==
  ASSUME Types, RecoversOnly, Single, NEW w \in Workers, NEW e \in Exports, Fitting(w, e), Moment, ClearSnapshot(w, e)
  PROVE  Fitting(w, e)'
<1>t. /\ pc \in [Workers -> WorkerPcs] /\ back \in [Workers -> Backs] /\ proc[w] \in ProcRows /\ proc \in [Workers -> ProcRows]
      /\ job[e] \in JobRows /\ DOMAIN job = Jobs /\ e \in Jobs /\ staged \in [Exports -> Stages] /\ e # None
  BY NoneIsNoExport, RowFacts DEF Types, TPc, TProc, TJob, TStaged
<1>1. pc[w] = "clear" /\ proc[w].job = e /\ Fits(w, e) /\ CapturedBy(w, e) /\ (Calm => AttendedBy(w, e))
  BY DEF Fitting, ClearSnapshot, Exporter
<1>2. ~Recovering(w) /\ job[e].status \in {"completed", "expired", "failed"}
  BY <1>1 DEF Fits, Places, Status, PhaseOf, PhaseAt, Read, Capturing, Assembling, Releasing, RecoversOnly, Recovering
<1>3. UNCHANGED <<d1, cuts, bound, fence, thread, job>>
  BY DEF ClearSnapshot, wsVars, dataVars, exportVars, storeVars
<1>4. pc'[w] = "idle" /\ proc'[w].job = None
  BY <1>t, <1>1, <1>2, <1>3 DEF ClearSnapshot, Goto, Return, ReleaseAnd, Exporter, Cursor, Running, Holding, ProcRows, JobRows, Stages, NotStaged, Unread
<1>5. CapturedBy(w, e)'
  BY <1>t, <1>1, <1>2, <1>3, <1>4 DEF Fits, Places, Read, Status, PhaseOf, PhaseAt, CapturedBy, ThawedBy, Pending, Running, Recovering, Holding, Current, IsCut, NoSweep, Moment, ExportPhases, Single, AttendedBy, Calm, Capturing, Assembling, Releasing
<1>6. Calm' => AttendedBy(w, e)'
  BY <1>t, <1>1, <1>2, <1>3, <1>4 DEF Fits, Places, Status, PhaseOf, AttendedBy, Pending, Running, Recovering, Calm, Frozen, Holding, Capturing, Assembling, Releasing
<1>7. QED
  BY <1>t, <1>4, <1>5, <1>6 DEF Fitting

LEMMA ExhaustedFits ==
  ASSUME Types, RecoversOnly, Single, NEW w \in Workers, NEW e \in Exports, Fitting(w, e), Moment, ExportExhausted(w, e)
  PROVE  Fitting(w, e)'
<1>t. /\ pc \in [Workers -> WorkerPcs] /\ back \in [Workers -> Backs] /\ proc[w] \in ProcRows /\ proc \in [Workers -> ProcRows]
      /\ job[e] \in JobRows /\ DOMAIN job = Jobs /\ e \in Jobs /\ staged \in [Exports -> Stages] /\ e # None
  BY NoneIsNoExport, RowFacts DEF Types, TPc, TProc, TJob, TStaged
<1>1. pc[w] = "exhausted" /\ proc[w].job = e /\ Fits(w, e) /\ CapturedBy(w, e) /\ (Calm => AttendedBy(w, e))
  BY DEF Fitting, ExportExhausted, Exporter
<1>2. ~Recovering(w) /\ job[e].status \in {"completed", "expired", "failed"}
  BY <1>1 DEF Fits, Places, Status, PhaseOf, PhaseAt, Read, Capturing, Assembling, Releasing, RecoversOnly, Recovering
<1>3. UNCHANGED <<d1, cuts, bound, fence, thread, job>>
  BY DEF ExportExhausted, wsVars, dataVars, exportVars, storeVars
<1>4. pc'[w] = "idle" /\ proc'[w].job = None
  BY <1>t, <1>1, <1>2, <1>3 DEF ExportExhausted, Goto, Return, ReleaseAnd, Exporter, Cursor, Running, Holding, ProcRows, JobRows, Stages, NotStaged, Unread
<1>5. CapturedBy(w, e)'
  BY <1>t, <1>1, <1>2, <1>3, <1>4 DEF Fits, Places, Read, Status, PhaseOf, PhaseAt, CapturedBy, ThawedBy, Pending, Running, Recovering, Holding, Current, IsCut, NoSweep, Moment, ExportPhases, Single, AttendedBy, Calm, Capturing, Assembling, Releasing
<1>6. Calm' => AttendedBy(w, e)'
  BY <1>t, <1>1, <1>2, <1>3, <1>4 DEF Fits, Places, Status, PhaseOf, AttendedBy, Pending, Running, Recovering, Calm, Frozen, Holding, Capturing, Assembling, Releasing
<1>7. QED
  BY <1>t, <1>4, <1>5, <1>6 DEF Fitting

LEMMA RequeueFits ==
  ASSUME Types, RecoversOnly, Single, NEW w \in Workers, NEW e \in Exports, Fitting(w, e), Moment, RequeueExport(w, e)
  PROVE  Fitting(w, e)'
<1>t. /\ pc \in [Workers -> WorkerPcs] /\ back \in [Workers -> Backs] /\ proc[w] \in ProcRows /\ proc \in [Workers -> ProcRows]
      /\ job[e] \in JobRows /\ DOMAIN job = Jobs /\ e \in Jobs /\ staged \in [Exports -> Stages] /\ e # None
  BY NoneIsNoExport, RowFacts DEF Types, TPc, TProc, TJob, TStaged
<1>1. pc[w] = "requeue" /\ proc[w].job = e /\ Fits(w, e) /\ CapturedBy(w, e) /\ (Calm => AttendedBy(w, e))
  BY DEF Fitting, RequeueExport, Exporter
<1>2. Recovering(w) /\ ~Calm
  BY <1>1 DEF Fits, Places, Status, PhaseOf, PhaseAt, Read, Capturing, Assembling, Releasing, RecoversOnly, Recovering
<1>3. UNCHANGED <<d1, cuts, bound, fence, thread>>
  BY DEF RequeueExport, wsVars, dataVars, exportVars, storeVars
<1>4. pc'[w] = "idle" /\ proc'[w].job = None /\ (Pending(e)' => job'[e].phase = "awaiting_quiescence")
      /\ (job'[e].status = "completed" => job[e].status = "completed" /\ job'[e].archive = job[e].archive)
  BY <1>t, <1>1, <1>2, <1>3 DEF RequeueExport, Goto, Return, ReleaseAnd, Exporter, Cursor, Running, Holding, ProcRows, JobRows, Stages, NotStaged, Unread, Pending
<1>5. CapturedBy(w, e)'
  BY <1>t, <1>1, <1>2, <1>3, <1>4 DEF Fits, Places, Read, Status, PhaseOf, PhaseAt, CapturedBy, ThawedBy, Pending, Running, Recovering, Holding, Current, IsCut, NoSweep, Moment, ExportPhases, Single, AttendedBy, Calm, Capturing, Assembling, Releasing
<1>6. Calm' => AttendedBy(w, e)'
  BY <1>t, <1>1, <1>2, <1>3, <1>4 DEF Fits, Places, Status, PhaseOf, AttendedBy, Pending, Running, Recovering, Calm, Frozen, Holding, Capturing, Assembling, Releasing
<1>7. QED
  BY <1>t, <1>4, <1>5, <1>6 DEF Fitting

-------------------------------------------------------------------------------
(* Each step of the release *)

(* Why a fence is released tells where its export stands.                  *)
LEMMA Why ==
  ASSUME Types, NEW w \in Workers, NEW e \in Exports, Fits(w, e), pc[w] \in Releasing
  PROVE  \/ back[w] = "record" /\ Running(e) /\ job[e].phase = "r2_pinned"
         \/ back[w] = "exhausted" /\ ~Pending(e) /\ job[e].status \in {"completed", "expired", "failed"}
         \/ back[w] = "requeue" /\ ~Calm
<1>1. back[w] \in {"record", "throw", "requeue", "exhausted"}
  BY DEF Types, TPc, Backs
<1>2. CASE back[w] = "record"
  BY <1>2 DEF Fits, Status, PhaseOf
<1>3. CASE back[w] = "exhausted"
  BY <1>3 DEF Fits, Status, Pending
<1>4. CASE back[w] = "requeue"
  BY <1>4 DEF Fits, Places, Recovering
<1>5. CASE back[w] = "throw"
  BY <1>5 DEF Fits, Places
<1>6. QED
  BY <1>1, <1>2, <1>3, <1>4, <1>5

(* The worker goes on to where the release was called, or throws.          *)
LEMMA BackFits ==
  ASSUME Types, NEW w \in Workers, NEW e \in Exports, Fits(w, e), pc[w] \in Releasing, proc[w].job = e,
         UNCHANGED <<back, proc, job>>, (Calm' => Calm),
         pc'[w] = back[w] \/ (pc'[w] = "throw" /\ back[w] = "record")
  PROVE  Places(w, e)' /\ Status(w, e)' /\ PhaseOf(w, e)' /\ Read(w, e)'
<1>1. \/ back[w] = "record" /\ Running(e) /\ job[e].phase = "r2_pinned"
      \/ back[w] = "exhausted" /\ ~Pending(e) /\ job[e].status \in {"completed", "expired", "failed"}
      \/ back[w] = "requeue" /\ ~Calm
  BY Why
<1>2. CASE back[w] = "record"
  BY <1>1, <1>2 DEF Places, Status, PhaseOf, PhaseAt, Read, Recovering, Pending, Running, Capturing, Releasing, Assembling
<1>3. CASE back[w] = "exhausted"
  BY <1>1, <1>3 DEF Places, Status, PhaseOf, PhaseAt, Read, Recovering, Pending, Running, Capturing, Releasing, Assembling
<1>4. CASE back[w] = "requeue"
  BY <1>1, <1>4 DEF Places, Status, PhaseOf, PhaseAt, Read, Recovering, Pending, Running, Capturing, Releasing, Assembling
<1>5. QED
  BY <1>1, <1>2, <1>3, <1>4

(* ... or stays within the release.                                        *)
LEMMA StayFits ==
  ASSUME NEW w \in Workers, NEW e \in Exports, Fits(w, e), pc[w] \in Releasing, proc[w].job = e,
         UNCHANGED <<back, proc, job>>, (Calm' => Calm), pc'[w] \in Releasing
  PROVE  Places(w, e)' /\ Status(w, e)' /\ PhaseOf(w, e)' /\ Read(w, e)'
  BY DEF Fits, Places, Status, PhaseOf, PhaseAt, Read, Recovering, Pending, Running, Capturing, Releasing, Assembling

LEMMA ReleaseFits ==
  ASSUME Types, Single, NEW w \in Workers, NEW e \in Exports, Fitting(w, e), ReleaseFence(w, e)
  PROVE  Fitting(w, e)'
<1>1. /\ pc[w] = "releasing" /\ proc[w].job = e /\ Fits(w, e) /\ CapturedBy(w, e) /\ (Calm => AttendedBy(w, e))
      /\ UNCHANGED <<back, proc, job, thread, staged, d1, cuts, bound>>
  BY DEF Fitting, ReleaseFence, Exporter, Goto, dataVars
<1>2. \/ back[w] = "record" /\ Running(e) /\ job[e].phase = "r2_pinned"
      \/ back[w] = "exhausted" /\ ~Pending(e) /\ job[e].status \in {"completed", "expired", "failed"}
      \/ back[w] = "requeue" /\ ~Calm
  BY <1>1, Why DEF Releasing
<1>3. e # None /\ (Calm' <=> Calm) /\ (NoSweep' <=> NoSweep)
  BY <1>1, NoneIsNoExport DEF Calm, NoSweep
<1>4. CASE fence.job = e
  <2>1. pc'[w] = "unfreeze" /\ fence'.job = e
    BY <1>4 DEF ReleaseFence, Goto, Types, TPc, TFence
  <2>2. Fits(w, e)'
    BY <1>1, <1>3, <2>1, StayFits DEF Fits, Releasing
  <2>3. Pending(e) /\ job[e].phase = "do_frozen" => NoSweep
    BY <1>2, <1>3 DEF Single
  <2>4. CapturedBy(w, e)'
    BY <1>1, <1>3, <2>1, <2>3 DEF CapturedBy, Pending, ThawedBy, Current, IsCut
  <2>5. Calm' => AttendedBy(w, e)'
    BY <1>1, <1>3, <2>1 DEF AttendedBy, Releasing, Frozen
  <2>6. QED
    BY <2>2, <2>4, <2>5 DEF Fitting
<1>5. CASE fence.job # e
  <2>1. pc'[w] = back[w] /\ fence' = fence
    BY <1>5 DEF ReleaseFence, Goto, Types, TPc
  <2>2. Fits(w, e)'
    BY <1>1, <1>3, <2>1, BackFits DEF Fits, Releasing
  <2>3. CapturedBy(w, e)'
    BY <1>1, <1>3, <2>1 DEF CapturedBy, Pending, ThawedBy, Current, IsCut, Holding
  <2>4. Calm' => AttendedBy(w, e)'
    BY <1>1, <1>2, <1>3, <1>5, <2>1 DEF AttendedBy, Pending
  <2>5. QED
    BY <2>2, <2>3, <2>4 DEF Fitting
<1>6. QED
  BY <1>4, <1>5

LEMMA UnfreezeFits ==
  ASSUME Types, Even \/ Fails, NEW w \in Workers, NEW e \in Exports, Fitting(w, e), UnfreezeThread(w, e)
  PROVE  Fitting(w, e)'
<1>1. /\ pc[w] = "unfreeze" /\ proc[w].job = e /\ Fits(w, e) /\ CapturedBy(w, e) /\ (Calm => AttendedBy(w, e))
      /\ UNCHANGED <<job, fence, staged, d1, cuts>>
  BY DEF Fitting, UnfreezeThread, Exporter, dataVars
<1>2. \/ back[w] = "record" /\ Running(e) /\ job[e].phase = "r2_pinned"
      \/ back[w] = "exhausted" /\ ~Pending(e) /\ job[e].status \in {"completed", "expired", "failed"}
      \/ back[w] = "requeue" /\ ~Calm
  BY <1>1, Why DEF Releasing
<1>3. e # None /\ (Calm' => Calm) /\ (NoSweep' <=> NoSweep)
  BY NoneIsNoExport DEF Even, Fails
<1>4. CASE thread' = [thread EXCEPT !.frozen = IF @ = e THEN None ELSE @] /\ Goto(w, "unfence")
  <2>1. pc'[w] = "unfence" /\ UNCHANGED <<back, proc>> /\ thread'.frozen # e
    BY <1>3, <1>4 DEF Goto, Types, TPc, TThread
  <2>2. Fits(w, e)'
    BY <1>1, <1>3, <2>1, StayFits DEF Fits, Releasing
  <2>3. CapturedBy(w, e)'
    BY <1>1, <1>2, <2>1 DEF CapturedBy, Pending, ThawedBy, Recovering, IsCut
  <2>4. Calm' => AttendedBy(w, e)'
    BY <1>1, <1>3, <2>1 DEF AttendedBy, Releasing
  <2>5. QED
    BY <2>2, <2>3, <2>4 DEF Fitting
<1>5. CASE ~(thread' = [thread EXCEPT !.frozen = IF @ = e THEN None ELSE @] /\ Goto(w, "unfence"))
  <2>1. /\ bound.faults > 0 /\ bound' = [bound EXCEPT !.faults = @ - 1] /\ thread' = thread
        /\ IF Recovering(w) THEN Return(w)
           ELSE Goto(w, IF back[w] = "record" THEN "throw" ELSE back[w])
    BY <1>5, Zenon DEF UnfreezeThread
  <2>2. ~(Calm' /\ Calm)
    BY <2>1, BoundNumbers DEF Calm, Types, TBound
  <2>3. CapturedBy(w, e)'
    BY <1>1, <1>3, <2>1 DEF CapturedBy, Pending, ThawedBy, Current, IsCut, Holding
  <2>4. CASE Recovering(w)
    <3>1. proc'[w].job = None
      BY <2>1, <2>4 DEF Return, Unread, Types, TProc
    <3>2. QED
      BY <1>3, <2>2, <2>3, <3>1 DEF Fitting
  <2>5. CASE ~Recovering(w)
    <3>1. UNCHANGED <<back, proc>> /\ (pc'[w] = back[w] \/ (pc'[w] = "throw" /\ back[w] = "record"))
      BY <2>1, <2>5 DEF Goto, Types, TPc
    <3>2. Fits(w, e)'
      BY <1>1, <1>3, <3>1, BackFits DEF Fits, Releasing
    <3>3. QED
      BY <1>3, <2>2, <2>3, <3>2 DEF Fitting
  <2>6. QED
    BY <2>4, <2>5
<1>6. QED
  BY <1>4, <1>5

LEMMA DeleteFits ==
  ASSUME Types, NEW w \in Workers, NEW e \in Exports, Fitting(w, e), DeleteFence(w, e)
  PROVE  Fitting(w, e)'
<1>1. /\ pc[w] = "unfence" /\ proc[w].job = e /\ Fits(w, e) /\ CapturedBy(w, e) /\ (Calm => AttendedBy(w, e))
      /\ UNCHANGED <<back, proc, job, thread, staged, d1, cuts, bound>>
  BY DEF Fitting, DeleteFence, Exporter, Goto, dataVars
<1>2. \/ back[w] = "record" /\ Running(e) /\ job[e].phase = "r2_pinned"
      \/ back[w] = "exhausted" /\ ~Pending(e) /\ job[e].status \in {"completed", "expired", "failed"}
      \/ back[w] = "requeue" /\ ~Calm
  BY <1>1, Why DEF Releasing
<1>3. e # None /\ (Calm' <=> Calm) /\ (NoSweep' <=> NoSweep)
  BY <1>1, NoneIsNoExport DEF Calm, NoSweep
<1>4. pc'[w] = back[w] /\ fence'.job # e
  BY <1>3 DEF DeleteFence, Goto, NoFence, Types, TPc
<1>5. Fits(w, e)'
  BY <1>1, <1>3, <1>4, BackFits DEF Fits, Releasing
<1>6. CapturedBy(w, e)'
  BY <1>1, <1>2, <1>4 DEF CapturedBy, Pending, ThawedBy, Recovering, IsCut
<1>7. Calm' => AttendedBy(w, e)'
  BY <1>1, <1>2, <1>3, <1>4 DEF AttendedBy, Pending, Frozen
<1>8. QED
  BY <1>5, <1>6, <1>7 DEF Fitting

(* A tick that finds an expired fence: some incident has left it behind.   *)
LEMMA RecoverFits ==
  ASSUME Types, NEW w \in Workers, NEW e \in Exports, Fitting(w, e), Calm' => Calm, NoSweep' <=> NoSweep, RecoverFence(w, e)
  PROVE  Fitting(w, e)'
<1>1. /\ pc[w] = "idle" /\ fence.job = e /\ UNCHANGED <<job, fence, thread, staged, d1, cuts>>
      /\ CapturedBy(w, e) /\ (Calm => AttendedBy(w, e))
  BY DEF RecoverFence, StartTick, At, Fitting, dataVars, exportVars
<1>2. ~Calm
  BY <1>1 DEF AttendedBy, Capturing, Releasing
<1>3. pc'[w] = "releasing" /\ back'[w] = "requeue"
  BY DEF RecoverFence, Types, TPc
<1>4. Fits(w, e)'
  BY <1>2, <1>3 DEF Fits, Places, Status, PhaseOf, PhaseAt, Read, Recovering, Capturing, Releasing, Assembling
<1>5. CapturedBy(w, e)'
  BY <1>1, <1>3 DEF CapturedBy, Pending, ThawedBy, Recovering, Current, IsCut, Holding
<1>6. QED
  BY <1>2, <1>4, <1>5 DEF Fitting

-------------------------------------------------------------------------------
(* Every step of an export's worker *)

LEMMA CalmFreeze ==
  ASSUME Types, CutInv, Good, Calm, NEW w \in Workers, NEW e \in Exports, proc[w].job = e, pc[w] # "idle"
  PROVE  thread.frozen \in {None, e}
<1>1. Alone /\ \A f \in Exports : Attended(f)
  BY DEF CutInv, CaptureInv
<1>2. thread.frozen \in Exports \cup {None}
  BY DEF Types, TThread
<1>3. ASSUME thread.frozen \in Exports PROVE thread.frozen = e
  <2>1. PICK v \in Workers : On(v, thread.frozen, Frozen)
    BY <1>1, <1>3 DEF Attended
  <2>2. pc[v] # "idle"
    BY <2>1 DEF On, Frozen
  <2>3. QED
    BY <1>1, <2>1, <2>2 DEF Alone, On
<1>4. QED
  BY <1>2, <1>3

LEMMA CutAtExport ==
  ASSUME Types, BoundLe, RecoversOnly, OverlapsCount, CutInv, NEW w \in Workers, NEW e \in Exports, ExportStep(w, e)
  PROVE  CutInv'
<1>1. /\ OnlyMoves(w) /\ LeavesOthers(e)
      /\ UNCHANGED <<d1, cuts, store>> /\ thread'.messages = thread.messages
      /\ proc'[w].job = e \/ (pc'[w] = "idle" /\ proc'[w].job = None)
      /\ RecoverFence(w, e) \/ (proc[w].job = e /\ pc[w] # "idle")
  BY ExportLeavesOthers
<1>2. SweepsLe' /\ (Good' => (Even \/ Fails) /\ (pc[w] = "idle" => \A v \in Workers : pc[v] = "idle"))
  <2>1. CASE RecoverFence(w, e)
    BY <2>1, StartAlone DEF RecoverFence, CutInv
  <2>2. CASE ~RecoverFence(w, e)
    <3>1. bound' = bound \/ (bound.faults > 0 /\ bound' = [bound EXCEPT !.faults = @ - 1])
      BY <2>2 DEF ExportStep, AcquireFence, BeginCapture, FreezeThread, StageMessages, CopyRows, CopyOtherRows, PinObjects,
         ReleaseFence, UnfreezeThread, DeleteFence, RecordReleased, BeginAssembly, GatherEntries, PutArchive, PublishArchive,
         DeleteArchive, ClearSnapshot, RequeueExport, ExportExhausted
    <3>2. QED
      BY <1>1, <2>2, <3>1, SameBound, FaultBound DEF CutInv
  <2>3. QED
    BY <2>1, <2>2
<1>3. ASSUME Good, Even \/ Fails, Fitting(w, e), Moment
      PROVE  Fitting(w, e)'
  <2>1. Single
    BY <1>3, GoodSweep DEF CutInv, Single
  <2>2. CASE RecoverFence(w, e)
    BY <1>3, <2>2, RecoverFits DEF Even, Fails
  <2>3. CASE FreezeThread(w, e)
    <3>1. Calm => thread.frozen \in {None, e}
      BY <1>3, <2>3, CalmFreeze DEF FreezeThread, Exporter
    <3>2. QED
      BY <1>3, <2>1, <2>3, <3>1, FreezeFits
  <2>4. CASE DeleteArchive(w, e)
    BY <1>3, <2>4 DEF DeleteArchive, Exporter, Fitting, Fits, Places
  <2>5. QED
    BY <1>3, <2>1, <2>2, <2>3, <2>4, AcquireFits, BeginFits, StageFits, CopyFits, CopyOtherFits, PinFits, RecordFits,
       AssemblyFits, GatherFits, PutFits, PublishFits, ClearFits, ExhaustedFits, RequeueFits, ReleaseFits, UnfreezeFits,
       DeleteFits DEF ExportStep
<1>4. proc[w].job = e \/ pc[w] = "idle"
  BY <1>1 DEF RecoverFence, StartTick, At
<1>5. QED
  BY <1>1, <1>2, <1>3, <1>4, Mine

-------------------------------------------------------------------------------
(* A worker of an export takes its job, fails or vanishes *)

(* An idle worker has nowhere to return to.                                *)
IdleBack == \A w \in Workers : pc[w] = "idle" => back[w] = "record"

LEMMA SelectFits ==
  ASSUME Types, IdleBack, NEW w \in Workers, NEW e \in Exports, Fitting(w, e), Calm' <=> Calm, NoSweep' <=> NoSweep,
         SelectJob(w, e)
  PROVE  Fitting(w, e)'
<1>1. /\ pc[w] = "idle" /\ back[w] = "record" /\ UNCHANGED <<back, job, fence, thread, staged, d1, cuts>>
      /\ CapturedBy(w, e) /\ (Calm => AttendedBy(w, e)) /\ Pending(e)
  BY DEF SelectJob, StartTick, At, Fitting, Selectable, Pending, dataVars, exportVars, IdleBack
<1>2. pc'[w] = "polled" /\ proc'[w].phase = job[e].phase
  BY DEF SelectJob, Types, TPc, TProc
<1>3. Fits(w, e)'
  BY <1>1, <1>2 DEF Fits, Places, Status, PhaseOf, PhaseAt, Read, Recovering, Pending, Capturing, Releasing, Assembling
<1>4. CapturedBy(w, e)'
  BY <1>1 DEF CapturedBy, Pending, ThawedBy, Recovering, Current, IsCut, Holding
<1>5. Calm' => AttendedBy(w, e)'
  BY <1>1 DEF AttendedBy, Pending, Capturing, Releasing, Frozen
<1>6. QED
  BY <1>3, <1>4, <1>5 DEF Fitting

(* The worker leaves: what it held it had released, or something failed.   *)
LEMMA LeavesFits ==
  ASSUME NEW w \in Workers, NEW e \in Exports, Fitting(w, e), proc'[w].job = None,
         UNCHANGED <<job, fence, thread, staged, d1, cuts>>, NoSweep' <=> NoSweep,
         Calm' => Calm /\ pc[w] \notin Capturing \cup Releasing \cup {"record"},
         ~ThawedBy(w)
  PROVE  Fitting(w, e)'
<1>1. e # None /\ CapturedBy(w, e) /\ (Calm => AttendedBy(w, e))
  BY NoneIsNoExport DEF Fitting
<1>2. CapturedBy(w, e)'
  BY <1>1 DEF CapturedBy, Pending, Current, IsCut, Holding
<1>3. Calm' => AttendedBy(w, e)'
  BY <1>1 DEF AttendedBy, Pending, Frozen, Capturing, Releasing
<1>4. QED
  BY <1>1, <1>2, <1>3 DEF Fitting

LEMMA QuiescenceFits ==
  ASSUME Types, NEW w \in Workers, NEW e \in Exports, Fitting(w, e), Calm' <=> Calm, NoSweep' <=> NoSweep,
         CheckQuiescence(w, e)
  PROVE  Fitting(w, e)'
<1>1. /\ pc[w] = "polled" /\ proc[w].job = e /\ UNCHANGED <<job, fence, thread, staged, d1, cuts>>
      /\ Fits(w, e) /\ CapturedBy(w, e) /\ (Calm => AttendedBy(w, e))
  BY DEF CheckQuiescence, At, Fitting, dataVars, exportVars
<1>2. CASE busy
  BY <1>1, <1>2, LeavesFits DEF CheckQuiescence, Return, Unread, ThawedBy, Capturing, Releasing, Types, TProc
<1>3. CASE ~busy
  <2>1. pc'[w] = "claim" /\ UNCHANGED <<back, proc>>
    BY <1>3 DEF CheckQuiescence, Goto, Types, TPc
  <2>2. Fits(w, e)'
    BY <1>1, <2>1 DEF Fits, Places, Status, PhaseOf, PhaseAt, Read, Recovering, Pending, Capturing, Releasing, Assembling
  <2>3. CapturedBy(w, e)'
    BY <1>1, <2>1 DEF CapturedBy, Pending, ThawedBy, Current, IsCut, Holding
  <2>4. Calm' => AttendedBy(w, e)'
    BY <1>1 DEF AttendedBy, Pending, Capturing, Releasing, Frozen
  <2>5. QED
    BY <2>2, <2>3, <2>4 DEF Fitting
<1>4. QED
  BY <1>2, <1>3

LEMMA ClaimFits ==
  ASSUME Types, RecoversOnly, NEW w \in Workers, NEW e \in Exports, Fitting(w, e), Calm' <=> Calm, NoSweep' <=> NoSweep,
         ClaimJob(w, e)
  PROVE  Fitting(w, e)'
<1>1. /\ pc[w] = "claim" /\ proc[w].job = e /\ UNCHANGED <<fence, thread, staged, d1, cuts>>
      /\ Fits(w, e) /\ CapturedBy(w, e) /\ (Calm => AttendedBy(w, e)) /\ Pending(e)
  BY DEF ClaimJob, At, Fitting, Fits, Status, dataVars, exportVars
<1>2. CASE ~MayClaim(e)
  BY <1>1, <1>2, LeavesFits DEF ClaimJob, Return, Unread, ThawedBy, Capturing, Releasing, Types, TProc
<1>3. CASE MayClaim(e)
  <2> DEFINE ph == job[e].phase
  <2>1. proc[w].phase = ph /\ ph \in ExportPhases /\ ~Recovering(w) /\ e \notin Purges /\ back[w] = "record"
    BY <1>1, NoneIsNoExport DEF Fits, PhaseOf, CapturedBy, RecoversOnly, Recovering, Places, Types, TPc, Backs, Releasing
  <2>2. job'[e].status = "running" /\ job'[e].phase = ph /\ job'[e].archive = job[e].archive
    BY <1>3, RowFacts DEF ClaimJob, Types, TJob, JobRows
  <2>3. /\ UNCHANGED <<back, proc>>
        /\ pc'[w] = IF ph \in {"awaiting_quiescence", "fenced", "do_frozen", "d1_materialized"} THEN "acquire" ELSE ResumeAt(ph)
    BY <1>3, <2>1 DEF ClaimJob, Goto, Types, TPc
  <2> HIDE DEF ph
  <2>4. \/ ph \in {"awaiting_quiescence", "fenced", "do_frozen", "d1_materialized"} /\ pc'[w] = "acquire"
        \/ ph = "r2_pinned" /\ pc'[w] = "releasing"
        \/ ph = "released" /\ pc'[w] = "assemble"
        \/ ph = "assembling" /\ pc'[w] = "gather"
    BY <2>1, <2>3, ResumeFacts DEF ExportPhases
  <2>5. Fits(w, e)'
    BY <1>1, <2>1, <2>2, <2>3, <2>4
    DEF Fits, Places, Status, PhaseOf, PhaseAt, Read, Recovering, Running, Capturing, Releasing, Assembling
  <2>6. CapturedBy(w, e)'
    BY <1>1, <2>1, <2>2, <2>3 DEF CapturedBy, Pending, ThawedBy, Recovering, Current, IsCut, Holding, ph
  <2>7. Calm' => AttendedBy(w, e)'
    <3> SUFFICES ASSUME Calm' PROVE AttendedBy(w, e)'
      OBVIOUS
    <3>1. fence.job # e /\ thread.frozen # e /\ ph \notin {"fenced", "do_frozen", "d1_materialized", "r2_pinned"}
      BY <1>1 DEF AttendedBy, Capturing, Releasing, Frozen, ph
    <3>2. QED
      BY <1>1, <2>2, <3>1 DEF AttendedBy
  <2>8. QED
    BY <2>5, <2>6, <2>7 DEF Fitting
<1>4. QED
  BY <1>2, <1>3

LEMMA FailureFits ==
  ASSUME Types, RecoversOnly, NEW w \in Workers, NEW e \in Exports, Fitting(w, e), Calm' <=> Calm, NoSweep' <=> NoSweep,
         RecordFailure(w, e)
  PROVE  Fitting(w, e)'
<1>1. /\ pc[w] = "throw" /\ proc[w].job = e /\ UNCHANGED <<fence, thread, staged, d1, cuts>>
      /\ Fits(w, e) /\ CapturedBy(w, e) /\ (Calm => AttendedBy(w, e)) /\ Running(e)
  BY DEF RecordFailure, At, Fitting, Fits, Status, dataVars, exportVars
<1>2. e # None /\ e \notin Purges /\ ~Recovering(w)
  BY <1>1, NoneIsNoExport DEF RecoversOnly, Recovering
<1>3. /\ job'[e].status = (IF Retryable(w) THEN "queued" ELSE "failed")
      /\ job'[e].phase = job[e].phase /\ job'[e].archive = job[e].archive
  BY <1>1, RowFacts DEF RecordFailure, Types, TJob, JobRows
<1>4. Pending(e)' => Pending(e)
  BY <1>1 DEF Pending, Running
<1>5. CapturedBy(w, e)'
  BY <1>1, <1>2, <1>3, <1>4 DEF CapturedBy, ThawedBy, Current, IsCut, Holding
<1>6. Calm' => AttendedBy(w, e)'
  BY <1>1, <1>3, <1>4 DEF AttendedBy, Capturing, Releasing, Frozen
<1>7. CASE Retryable(w)
  BY <1>2, <1>5, <1>6, <1>7 DEF RecordFailure, Return, Unread, Types, TProc, Fitting
<1>8. CASE ~Retryable(w)
  <2>1. pc'[w] = "releasing" /\ back'[w] = "exhausted" /\ proc' = proc /\ job'[e].status = "failed"
    BY <1>2, <1>3, <1>8 DEF RecordFailure, ReleaseAnd, Types, TPc
  <2>2. Fits(w, e)'
    BY <2>1 DEF Fits, Places, Status, PhaseOf, PhaseAt, Read, Recovering, Running, Capturing, Releasing, Assembling
  <2>3. QED
    BY <1>5, <1>6, <2>2 DEF Fitting
<1>9. QED
  BY <1>7, <1>8

(* A failed call: the capture stands where it stood, under its fence.      *)
LEMMA CallFits ==
  ASSUME Types, RecoversOnly, NEW w \in Workers, NEW e \in Exports, proc[w].job = e, Fitting(w, e), ~Calm',
         NoSweep' <=> NoSweep, CallFails(w)
  PROVE  Fitting(w, e)'
<1>1. /\ UNCHANGED <<back, proc, job, fence, thread, staged, d1, cuts>> /\ pc'[w] = "throw"
      /\ pc[w] \in {"act", "freeze", "copied", "gather", "put"}
      /\ Fits(w, e) /\ CapturedBy(w, e)
  BY DEF CallFails, Goto, Fitting, dataVars, exportVars, Types, TPc
<1>2. ~Recovering(w)
  BY <1>1 DEF RecoversOnly, Recovering
<1>3. Fits(w, e)'
  BY <1>1, <1>2 DEF Fits, Places, Status, PhaseOf, PhaseAt, Read, Recovering, Running, Capturing, Releasing, Assembling
<1>4. CapturedBy(w, e)'
  BY <1>1, <1>2 DEF CapturedBy, Pending, ThawedBy, Current, IsCut, Holding
<1>5. QED
  BY <1>3, <1>4 DEF Fitting

(* An invocation vanishes: it is the first incident.                       *)
LEMMA CrashFits ==
  ASSUME Types, NEW w \in Workers, NEW e \in Exports, proc[w].job = e, Fitting(w, e), Calm, ~Calm',
         NoSweep' <=> NoSweep, WorkerCrash(w)
  PROVE  Fitting(w, e)'
<1>1. UNCHANGED <<job, fence, thread, staged, d1, cuts>> /\ proc'[w].job = None
  BY DEF WorkerCrash, Return, Unread, Types, TProc, dataVars, exportVars
<1>2. ~ThawedBy(w)
  BY DEF Fitting, Fits, Places, ThawedBy
<1>3. QED
  BY <1>1, <1>2, LeavesFits

(* The frame of those steps.                                               *)
LEMMA CutAtJob ==
  ASSUME Types, BoundLe, RecoversOnly, OverlapsCount, IdleBack, CutInv, NEW w \in Workers, NEW e \in Exports,
         \/ SelectJob(w, e) \/ CheckQuiescence(w, e) \/ ClaimJob(w, e) \/ RecordFailure(w, e)
         \/ proc[w].job = e /\ (CallFails(w) \/ WorkerCrash(w))
  PROVE  CutInv'
<1>t. /\ DOMAIN pc = Workers /\ DOMAIN back = Workers /\ proc \in [Workers -> ProcRows] /\ DOMAIN job = Jobs
      /\ Exports \subseteq Jobs
  BY RowFacts DEF Types, TPc, TProc, TJob
<1>1. UNCHANGED <<fence, thread, staged, d1, cuts, store>>
  BY DEF SelectJob, CheckQuiescence, ClaimJob, RecordFailure, CallFails, WorkerCrash, dataVars, exportVars, storeVars
<1>2. OnlyMoves(w)
  BY <1>t DEF SelectJob, CheckQuiescence, ClaimJob, RecordFailure, CallFails, WorkerCrash, OnlyMoves, Goto, Return, ReleaseAnd
<1>3. proc'[w].job = e \/ (pc'[w] = "idle" /\ proc'[w].job = None)
  <2>1. CASE SelectJob(w, e)
    BY <1>t, <2>1 DEF SelectJob
  <2>2. CASE CheckQuiescence(w, e) \/ ClaimJob(w, e) \/ RecordFailure(w, e)
    BY <1>t, <2>2, NoneIsNoExport DEF CheckQuiescence, ClaimJob, RecordFailure, Goto, Return, ReleaseAnd, Unread
  <2>3. CASE proc[w].job = e /\ (CallFails(w) \/ WorkerCrash(w))
    BY <1>t, <2>3 DEF CallFails, WorkerCrash, Goto, Return, Unread
  <2>4. QED
    BY <2>1, <2>2, <2>3
<1>4. LeavesOthers(e)
  <2>1. \A f \in Exports \ {e} : job'[f] = job[f]
    BY <1>t DEF SelectJob, CheckQuiescence, ClaimJob, RecordFailure, CallFails, WorkerCrash
  <2>2. QED
    BY <1>1, <2>1 DEF LeavesOthers, ExportJobStays
<1>5. proc[w].job = e \/ pc[w] = "idle"
  BY DEF SelectJob, CheckQuiescence, ClaimJob, RecordFailure, StartTick, At
<1>6. CASE CallFails(w) \/ WorkerCrash(w)
  <2>1. Fails /\ SweepsLe' /\ pc[w] # "idle"
    BY <1>6, FaultBound, CrashBound DEF CallFails, WorkerCrash, CutInv
  <2>2. ASSUME Good', Fitting(w, e) PROVE Fitting(w, e)'
    <3>1. proc[w].job = e
      BY <1>5, <2>1
    <3>2. QED
      BY <1>6, <2>1, <2>2, <3>1, CallFits, CrashFits DEF Fails
  <2>3. QED
    BY <1>1, <1>2, <1>3, <1>4, <1>5, <2>1, <2>2, Mine
<1>7. CASE SelectJob(w, e)
  <2>1. SweepsLe' /\ (Good' => (Even /\ \A v \in Workers : pc[v] = "idle"))
    BY <1>7, StartAlone DEF SelectJob, CutInv
  <2>2. ASSUME Good', Fitting(w, e) PROVE Fitting(w, e)'
    BY <1>7, <2>1, <2>2, SelectFits DEF Even
  <2>3. QED
    BY <1>1, <1>2, <1>3, <1>4, <1>5, <2>1, <2>2, Mine
<1>8. CASE CheckQuiescence(w, e) \/ ClaimJob(w, e) \/ RecordFailure(w, e)
  <2>1. bound' = bound /\ pc[w] # "idle"
    BY <1>8 DEF CheckQuiescence, ClaimJob, RecordFailure, At
  <2>2. Even /\ SweepsLe'
    BY <2>1, SameBound DEF CutInv
  <2>3. ASSUME Good', Fitting(w, e) PROVE Fitting(w, e)'
    BY <1>8, <2>2, <2>3, QuiescenceFits, ClaimFits, FailureFits DEF Even
  <2>4. QED
    BY <1>1, <1>2, <1>3, <1>4, <1>5, <2>1, <2>2, <2>3, Mine
<1>9. QED
  BY <1>6, <1>7, <1>8

-------------------------------------------------------------------------------
(* All steps together *)

LEMMA IdleBackKeeps == ASSUME Types, IdleBack, [Next]_vars PROVE IdleBack'
<1>t. pc \in [Workers -> WorkerPcs] /\ back \in [Workers -> Backs]
  BY DEF Types, TPc
<1>1. ASSUME NEW w \in Workers, OnlyMoves(w), pc'[w] = "idle" => back'[w] = "record"
      PROVE  IdleBack'
  BY <1>1 DEF IdleBack, OnlyMoves
<1>2. ASSUME NEW w \in Workers, NEW j \in Jobs,
             SelectJob(w, j) \/ CheckQuiescence(w, j) \/ ClaimJob(w, j) \/ RecordFailure(w, j)
      PROVE  IdleBack'
  <2>1. OnlyMoves(w)
    BY <1>t, <1>2 DEF SelectJob, CheckQuiescence, ClaimJob, RecordFailure, OnlyMoves, Goto, Return, ReleaseAnd, Types, TProc
  <2>2. pc'[w] = "idle" => back'[w] = "record"
    <3>1. \A p : ResumeAt(p) # "idle"
      BY DEF ResumeAt, Resume, ExportPhases
    <3>2. QED
      BY <1>t, <1>2, <3>1 DEF SelectJob, CheckQuiescence, ClaimJob, RecordFailure, Goto, Return, ReleaseAnd
  <2>3. QED
    BY <1>1, <2>1, <2>2
<1>3. ASSUME NEW w \in Workers, NEW p \in Purges, PurgeStep(w, p)
      PROVE  IdleBack'
  <2>1. OnlyMoves(w)
    BY <1>t, <1>3 DEF PurgeStep, PurgeCheck, PurgeTransition, PurgeCredentials, PurgeThread, PurgeObjects, PurgeCheckpoint, PurgeRows,
       PurgeExhausted, OnlyMoves, Goto, Return, Types, TProc
  <2>2. pc'[w] = "idle" => back'[w] = "record"
    BY <1>t, <1>3 DEF PurgeStep, PurgeCheck, PurgeTransition, PurgeCredentials, PurgeThread, PurgeObjects, PurgeCheckpoint, PurgeRows,
       PurgeExhausted, Goto, Return
  <2>3. QED
    BY <1>1, <2>1, <2>2
<1>4. ASSUME NEW w \in Workers, NEW e \in Exports, ExportStep(w, e)
      PROVE  IdleBack'
  <2>1. OnlyMoves(w)
    BY <1>4, ExportLeavesOthers
  <2>2. pc'[w] = "idle" => back'[w] = "record"
    <3>1. \A p : ResumeAt(p) # "idle"
      BY DEF ResumeAt, Resume, ExportPhases
    <3>2. back[w] # "idle"
      BY <1>t DEF Backs
    <3>3. CASE \/ AcquireFence(w, e) \/ BeginCapture(w, e) \/ FreezeThread(w, e) \/ StageMessages(w, e)
               \/ CopyRows(w, e) \/ CopyOtherRows(w, e) \/ PinObjects(w, e)
      BY <1>t, <3>1, <3>3 DEF AcquireFence, BeginCapture, FreezeThread, StageMessages, CopyRows, CopyOtherRows, PinObjects,
         Cursor, Goto, ReleaseAnd
    <3>4. CASE \/ ReleaseFence(w, e) \/ UnfreezeThread(w, e) \/ DeleteFence(w, e)
               \/ RecordReleased(w, e) \/ BeginAssembly(w, e) \/ GatherEntries(w, e)
      BY <1>t, <3>2, <3>4 DEF ReleaseFence, UnfreezeThread, DeleteFence, RecordReleased, BeginAssembly, GatherEntries,
         Cursor, Goto, Return, ReleaseAnd
    <3>5. CASE \/ PutArchive(w, e) \/ PublishArchive(w, e) \/ DeleteArchive(w, e) \/ ClearSnapshot(w, e)
               \/ RecoverFence(w, e) \/ RequeueExport(w, e) \/ ExportExhausted(w, e)
      BY <1>t, <3>5 DEF PutArchive, PublishArchive, DeleteArchive, ClearSnapshot, RecoverFence, RequeueExport, ExportExhausted,
         Goto, Return
    <3>6. QED
      BY <1>4, <3>3, <3>4, <3>5 DEF ExportStep
  <2>3. QED
    BY <1>1, <2>1, <2>2
<1>5. ASSUME NEW w \in Workers, CallFails(w) \/ WorkerCrash(w)
      PROVE  IdleBack'
  <2>1. OnlyMoves(w) /\ (pc'[w] = "idle" => back'[w] = "record")
    BY <1>t, <1>5 DEF CallFails, WorkerCrash, OnlyMoves, Goto, Return, Types, TProc
  <2>2. QED
    BY <1>1, <2>1
<1>6. CASE \/ DeletionStep \/ ExpiryStep \/ StoreStep \/ WriteRows \/ WriteMessage \/ ExecutionEnds \/ RequestCrash
           \/ (\E j \in Jobs : JobLeaseExpires(j)) \/ (\E e \in Exports : FenceLeaseExpires(e)) \/ UNCHANGED vars
  <2>1. UNCHANGED <<pc, back>>
    <3>1. CASE DeletionStep
      BY <3>1 DEF DeletionStep, DeletionRead, DeletionCommit, DeletionRevoke, RetryRevocation, RecoveryRead, RecoveryCommit,
         RecoveryPeriodEnds, RetryPurge, workerVars
    <3>2. CASE StoreStep
      BY <3>2 DEF StoreStep, UploadObject, InsertArtifact, DeleteRefused, UploadCrash, ArtifactExpires, UpdateRetentionPolicy,
         SweepSelect, SweepObject, SweepRow, SweepOperationalData, ThreadGoesStale, ChatSweepSelect, ChatSweepPurge, ChatSweepMark,
         workerVars
    <3>3. CASE \/ ExpiryStep \/ WriteRows \/ WriteMessage \/ ExecutionEnds \/ RequestCrash
               \/ (\E j \in Jobs : JobLeaseExpires(j)) \/ (\E e \in Exports : FenceLeaseExpires(e)) \/ UNCHANGED vars
      BY <3>3 DEF ExpiryStep, CreateExport, ExpireObject, ExpireRow, WriteRows, WriteMessage, ExecutionEnds, RequestCrash,
         JobLeaseExpires, FenceLeaseExpires, workerVars, vars
    <3>4. QED
      BY <1>6, <3>1, <3>2, <3>3
  <2>2. QED
    BY <2>1 DEF IdleBack
<1>7. QED
  BY <1>2, <1>3, <1>4, <1>5, <1>6 DEF Next, WorkerStep

LEMMA CutStarts == WorkspaceInit => IdleBack /\ CutInv
<1> SUFFICES ASSUME WorkspaceInit PROVE IdleBack /\ CutInv
  OBVIOUS
<1>1. /\ d1 = 0 /\ thread.messages = 0 /\ cuts = {<<0, 0>>} /\ thread.frozen = None /\ fence.job = None
      /\ store.chatSweep = "idle" /\ bound.sweeps = MaxSweeps /\ bound.overlaps = MaxOverlaps
      /\ MaxSweeps \in Nat /\ MaxOverlaps \in Nat
  BY WorkspaceAssumption DEF WorkspaceInit, Bounds, NoFence
<1>2. \A w \in Workers : pc[w] = "idle" /\ back[w] = "record" /\ proc[w].job \notin Exports
  BY NoneIsNoExport DEF WorkspaceInit
<1>3. \A e \in Exports : job[e].status = "none" /\ e # None
  BY NoneIsNoExport, RowFacts DEF WorkspaceInit, NoJobRow
<1>4. SweepsLe /\ IdleBack
  BY <1>1, <1>2 DEF SweepsLe, IdleBack
<1>5. Alone /\ AtExport /\ Moment /\ SweepSpent
  BY <1>1, <1>2 DEF Alone, AtExport, Moment, SweepSpent
<1>6. \A e \in Exports : Captured(e) /\ Attended(e)
  BY <1>1, <1>3 DEF Captured, Attended, Pending
<1>7. QED
  BY <1>4, <1>5, <1>6 DEF CutInv, CaptureInv

LEMMA CutNext ==
  ASSUME LeaseOutlivesWorker, OverlapsCount, IInv, IdleBack, CutInv, [Next]_vars
  PROVE  CutInv'
<1>t. Types /\ PastRecovery /\ QuietWhenDue /\ RecoversOnly /\ BoundLe
  BY DEF IInv, Inv, ErasureInv
<1>1. CASE DeletionStep
  BY <1>t, <1>1, RequestsTouchNoExport
<1>2. CASE ExpiryStep
  BY <1>t, <1>2, NewExport, ExpiryAside DEF ExpiryStep
<1>3. CASE StoreStep
  BY <1>t, <1>3, ArtifactsAside, SelectsThread, RowsWait, MessagesWait DEF StoreStep
<1>4. CASE \/ WriteRows \/ WriteMessage \/ ExecutionEnds \/ RequestCrash
           \/ (\E j \in Jobs : JobLeaseExpires(j)) \/ (\E e \in Exports : FenceLeaseExpires(e))
  BY <1>t, <1>4, RowsWait, MessagesWait, ArtifactsAside, LeaseAside, FenceLasts
<1>5. ASSUME NEW w \in Workers, NEW p \in Purges, PurgeStep(w, p)
      PROVE  CutInv'
  BY <1>t, <1>5, PurgeElsewhere, PurgesAfter DEF PurgeStep
<1>6. ASSUME NEW w \in Workers, NEW e \in Exports, ExportStep(w, e)
      PROVE  CutInv'
  BY <1>t, <1>6, CutAtExport
<1>7. ASSUME NEW w \in Workers, WorkerStep(w) \/ CallFails(w) \/ WorkerCrash(w)
      PROVE  CutInv'
  BY <1>t, <1>5, <1>6, <1>7, SelectsPurge, PurgeJobElsewhere, CutAtJob, FailsElsewhere DEF WorkerStep, Jobs
<1>8. CASE UNCHANGED vars
  <2>1. UNCHANGED <<pc, back, proc, fence, staged, d1, cuts, thread, job, store, bound>>
    BY <1>8 DEF vars
  <2>2. QED
    BY <1>t, <2>1, SameJobs, Untouched
<1>9. QED
  BY <1>1, <1>2, <1>3, <1>4, <1>7, <1>8 DEF Next

(* An archive that was published holds what the workspace held at one      *)
(* moment (captureExportSnapshot and the fence its triggers enforce), as   *)
(* long as at most one call failed, one invocation vanished or one sweep   *)
(* ran, and no lease runs out under an invocation at work. An overlap of   *)
(* two invocations counts as such an incident: it spends all bounds.       *)
THEOREM ArchiveIsACut == LeaseOutlivesWorker /\ OverlapsCount /\ Spec => []ExportIsACut
<1> SUFFICES ASSUME LeaseOutlivesWorker, OverlapsCount PROVE Spec => []ExportIsACut
  OBVIOUS
<1>1. WorkspaceInit => IInv /\ IdleBack /\ CutInv
  BY Initially, CutStarts
<1>2. IInv /\ IdleBack /\ CutInv /\ [Next]_vars => (IInv /\ IdleBack /\ CutInv)'
  BY NextKeeps, CutNext, IdleBackKeeps DEF IInv
<1>3. IInv /\ IdleBack /\ CutInv => ExportIsACut
  BY DEF CutInv, CaptureInv, Captured, IsCut, ExportIsACut, PublishedIsACut, Good
<1>4. QED
  BY <1>1, <1>2, <1>3, PTL DEF Spec

-------------------------------------------------------------------------------
(* What the owner is promised                                              *)

(* The deletion as the owner sees it, without jobs, leases and workers.    *)
Lifecycle == INSTANCE WorkspaceLifecycle
  WITH status <- ws.status, over <- due, whole <- (rows = "present" /\ ~thread.purged)

LifecycleStep == Lifecycle!Next \/ UNCHANGED Lifecycle!vars

(* What the promise is about stays as it is.                               *)
Kept == UNCHANGED <<ws, due, receipts, rows, thread.purged>>

LEMMA KeptIsAStutter == Kept => LifecycleStep
  BY DEF Kept, LifecycleStep, Lifecycle!vars

LEMMA RequestRefines == ASSUME DeletionCommit PROVE LifecycleStep
<1>1. CASE Fenced \/ ~(ws.status = "active" /\ ws.v = req.deletion.v)
  BY <1>1, KeptIsAStutter DEF DeletionCommit, Kept, dataVars, exportVars
<1>2. CASE ~Fenced /\ ws.status = "active" /\ ws.v = req.deletion.v
  <2>1. Lifecycle!Request
    BY <1>2 DEF DeletionCommit, dataVars, exportVars, Lifecycle!Request, Lifecycle!Move
  <2>2. QED
    BY <2>1 DEF LifecycleStep, Lifecycle!Next
<1>3. QED
  BY <1>1, <1>2

(* A recovery finds the workspace whole, by RecoveredIntact.               *)
LEMMA RecoveryRefines == ASSUME RecoveredIntact, RecoveryCommit PROVE LifecycleStep
<1>1. CASE ~Recoverable \/ Fenced
  BY <1>1, KeptIsAStutter DEF RecoveryCommit, Kept, dataVars, exportVars
<1>2. CASE Recoverable /\ ~Fenced
  <2>1. ws.status = "quarantined" /\ rows = "present" /\ ~thread.purged
    BY <1>2 DEF Recoverable, RecoveredIntact
  <2>2. Lifecycle!Recover
    BY <1>2, <2>1 DEF RecoveryCommit, dataVars, exportVars, Lifecycle!Recover, Lifecycle!Move
  <2>3. QED
    BY <2>2 DEF LifecycleStep, Lifecycle!Next
<1>3. QED
  BY <1>1, <1>2

LEMMA PeriodRefines == ASSUME RecoveryPeriodEnds PROVE LifecycleStep
<1>1. Lifecycle!PeriodEnds
  BY DEF RecoveryPeriodEnds, dataVars, exportVars, Lifecycle!PeriodEnds
<1>2. QED
  BY <1>1 DEF LifecycleStep, Lifecycle!Next

LEMMA RetryRefines ==
  ASSUME NEW p \in Purges, NEW b \in BOOLEAN, RetryPurge(p, b)
  PROVE  LifecycleStep
<1>1. Lifecycle!Retry
  BY DEF RetryPurge, QueueFailedPurge, dataVars, exportVars, Lifecycle!Retry, Lifecycle!Move
<1>2. QED
  BY <1>1 DEF LifecycleStep, Lifecycle!Next

(* The worker that begins read a row whose period was over, and the row is *)
(* still the one it read, by ReadBefore.                                   *)
LEMMA BeginRefines ==
  ASSUME ReadBefore, NEW w \in Workers, NEW p \in Purges, PurgeTransition(w, p)
  PROVE  LifecycleStep
<1>1. CASE ~MayStartPurge(w, p) \/ Fenced
  BY <1>1, KeptIsAStutter DEF PurgeTransition, Kept, dataVars, exportVars
<1>2. CASE MayStartPurge(w, p) /\ ~Fenced
  <2>1. due
    BY <1>2 DEF MayStartPurge, PurgeTransition, Worker, ReadBefore
  <2>2. Lifecycle!Begin
    BY <1>2, <2>1 DEF PurgeTransition, MayStartPurge, dataVars, exportVars, Lifecycle!Begin, Lifecycle!Move
  <2>3. QED
    BY <2>2 DEF LifecycleStep, Lifecycle!Next
<1>3. QED
  BY <1>1, <1>2

(* Two workers may be at the same purge, and one may be behind: it still   *)
(* destroys only what no recovery can ask for, by PastRecovery.            *)
LEMMA ThreadRefines ==
  ASSUME TThread, PastRecovery, NEW w \in Workers, NEW p \in Purges, PurgeThread(w, p)
  PROVE  LifecycleStep
<1>1. ws.status \in {"purging", "failed", "gone"}
  BY DEF PurgeThread, Worker, PastRecovery
<1>2. thread'.purged
  BY DEF PurgeThread, TThread
<1>3. Lifecycle!Destroy
  BY <1>1, <1>2 DEF PurgeThread, wsVars, dataVars, Lifecycle!Destroy
<1>4. QED
  BY <1>3 DEF LifecycleStep, Lifecycle!Next

(* The last batch writes the receipt only if the workspace is purging; one *)
(* that comes late deletes rows again and certifies nothing.               *)
LEMMA RowsRefine ==
  ASSUME PastRecovery, ReceiptInv, NEW w \in Workers, NEW p \in Purges, PurgeRows(w, p)
  PROVE  LifecycleStep
<1>1. CASE Fenced
  BY <1>1, KeptIsAStutter DEF PurgeRows, Kept, exportVars
<1>2. CASE ~Fenced /\ ws.status = "purging"
  <2>1. receipts = 0
    BY <1>2 DEF ReceiptInv
  <2>2. Lifecycle!Certify
    BY <1>2, <2>1 DEF PurgeRows, Lifecycle!Certify, Lifecycle!Move
  <2>3. QED
    BY <2>2 DEF LifecycleStep, Lifecycle!Next
<1>3. CASE ~Fenced /\ ws.status # "purging"
  <2>1. ws.status \in {"purging", "failed", "gone"}
    BY DEF PurgeRows, Worker, PastRecovery
  <2>2. Lifecycle!Destroy
    BY <1>3, <2>1 DEF PurgeRows, Lifecycle!Destroy
  <2>3. QED
    BY <2>2 DEF LifecycleStep, Lifecycle!Next
<1>4. QED
  BY <1>1, <1>2, <1>3

LEMMA ExhaustedRefines ==
  ASSUME NEW w \in Workers, NEW p \in Purges, PurgeExhausted(w, p)
  PROVE  LifecycleStep
<1>1. CASE Fenced \/ ws.status # "purging"
  BY <1>1, KeptIsAStutter DEF PurgeExhausted, Kept, dataVars, exportVars
<1>2. CASE ~Fenced /\ ws.status = "purging"
  <2>1. Lifecycle!Fail
    BY <1>2 DEF PurgeExhausted, dataVars, exportVars, Lifecycle!Fail, Lifecycle!Move
  <2>2. QED
    BY <2>1 DEF LifecycleStep, Lifecycle!Next
<1>3. QED
  BY <1>1, <1>2

(* Exports, uploads, sweeps and writes leave the deletion alone.           *)
LEMMA ExportsAside ==
  ASSUME TThread, NEW w \in Workers, NEW e \in Exports, ExportStep(w, e)
  PROVE  Kept
<1>1. thread'.purged = thread.purged
  <2>1. CASE FreezeThread(w, e)
    BY <2>1 DEF FreezeThread, TThread
  <2>2. CASE UnfreezeThread(w, e)
    BY <2>2 DEF UnfreezeThread, TThread
  <2>3. CASE ~FreezeThread(w, e) /\ ~UnfreezeThread(w, e)
    BY <2>3 DEF ExportStep, AcquireFence, BeginCapture, StageMessages, CopyRows, CopyOtherRows, PinObjects,
      ReleaseFence, DeleteFence, RecordReleased, BeginAssembly, GatherEntries, PutArchive, PublishArchive,
      DeleteArchive, ClearSnapshot, RecoverFence, RequeueExport, ExportExhausted, exportVars
  <2>4. QED
    BY <2>1, <2>2, <2>3
<1>2. UNCHANGED <<ws, due, receipts, rows>>
  BY DEF ExportStep, AcquireFence, BeginCapture, FreezeThread, StageMessages, CopyRows, CopyOtherRows, PinObjects,
    ReleaseFence, UnfreezeThread, DeleteFence, RecordReleased, BeginAssembly, GatherEntries, PutArchive,
    PublishArchive, DeleteArchive, ClearSnapshot, RecoverFence, RequeueExport, ExportExhausted, wsVars, dataVars
<1>3. QED
  BY <1>1, <1>2 DEF Kept

LEMMA StoreAside ==
  ASSUME TThread, ExpiryStep \/ StoreStep \/ WriteRows \/ WriteMessage
  PROVE  Kept
<1>1. thread'.purged = thread.purged
  <2>1. CASE ThreadGoesStale \/ ChatSweepPurge \/ ChatSweepMark \/ WriteMessage
    BY <2>1 DEF ThreadGoesStale, ChatSweepPurge, ChatSweepMark, WriteMessage, TThread
  <2>2. CASE ~(ThreadGoesStale \/ ChatSweepPurge \/ ChatSweepMark \/ WriteMessage)
    BY <2>2 DEF ExpiryStep, CreateExport, ExpireObject, ExpireRow, StoreStep, UploadObject, InsertArtifact,
      DeleteRefused, UploadCrash, ArtifactExpires, UpdateRetentionPolicy, SweepSelect, SweepObject, SweepRow,
      SweepOperationalData, ChatSweepSelect, WriteRows, exportVars
  <2>3. QED
    BY <2>1, <2>2
<1>2. UNCHANGED <<ws, due, receipts, rows>>
  BY DEF ExpiryStep, CreateExport, ExpireObject, ExpireRow, StoreStep, UploadObject, InsertArtifact,
    DeleteRefused, UploadCrash, ArtifactExpires, UpdateRetentionPolicy, SweepSelect, SweepObject, SweepRow,
    SweepOperationalData, ThreadGoesStale, ChatSweepSelect, ChatSweepPurge, ChatSweepMark, WriteRows, WriteMessage,
    wsVars, dataVars
<1>3. QED
  BY <1>1, <1>2 DEF Kept

LEMMA JobsAside ==
  ASSUME NEW w \in Workers, NEW j \in Jobs,
         SelectJob(w, j) \/ CheckQuiescence(w, j) \/ ClaimJob(w, j) \/ RecordFailure(w, j)
  PROVE  Kept
  BY DEF SelectJob, CheckQuiescence, ClaimJob, RecordFailure, Kept, wsVars, dataVars, exportVars

LEMMA PurgeStepRefines ==
  ASSUME IInv, NEW w \in Workers, NEW p \in Purges, PurgeStep(w, p)
  PROVE  LifecycleStep
<1>t. TThread /\ PastRecovery /\ ReadBefore /\ ReceiptInv
  BY DEF IInv, Types, Inv, ErasureInv
<1>1. CASE PurgeCheck(w, p) \/ PurgeCredentials(w, p) \/ PurgeObjects(w, p) \/ PurgeCheckpoint(w, p)
  BY <1>1, KeptIsAStutter
  DEF PurgeCheck, PurgeCredentials, PurgeObjects, PurgeCheckpoint, Kept, wsVars, dataVars, exportVars
<1>2. QED
  BY <1>t, <1>1, BeginRefines, ThreadRefines, RowsRefine, ExhaustedRefines DEF PurgeStep

LEMMA DeletionStepRefines ==
  ASSUME IInv, DeletionStep
  PROVE  LifecycleStep
<1>1. CASE DeletionRead \/ DeletionRevoke \/ RetryRevocation \/ RecoveryRead
  BY <1>1, KeptIsAStutter
  DEF DeletionRead, DeletionRevoke, RetryRevocation, RecoveryRead, Kept, wsVars, dataVars, exportVars
<1>2. RecoveredIntact
  BY DEF IInv, Inv
<1>3. QED
  BY <1>1, <1>2, RequestRefines, RecoveryRefines, PeriodRefines, RetryRefines DEF DeletionStep

(* Whatever the workers, requests, leases and failures are, the deletion   *)
(* goes as its owner was told (purgeWorkspace, handleRecoverWorkspace): a  *)
(* workspace is taken back whole or not at all, nothing is destroyed       *)
(* before the period is over and the purge has begun, a purge that failed  *)
(* is taken up again, and only one that was under way ends in a receipt.   *)
THEOREM DeletionKeepsPromise == Spec => Lifecycle!Spec
<1>1. WorkspaceInit => Lifecycle!Init
  BY DEF WorkspaceInit, Lifecycle!Init
<1>2. IInv /\ [Next]_vars => [Lifecycle!Next]_(Lifecycle!vars)
  <2> SUFFICES ASSUME IInv, [Next]_vars PROVE LifecycleStep
    BY DEF LifecycleStep
  <2>t. TThread
    BY DEF IInv, Types
  <2>1. CASE ExpiryStep \/ StoreStep \/ WriteRows \/ WriteMessage
    BY <2>t, <2>1, StoreAside, KeptIsAStutter
  <2>2. ASSUME NEW w \in Workers, WorkerStep(w)
        PROVE  LifecycleStep
    <3>1. CASE \E p \in Purges : PurgeStep(w, p)
      BY <3>1, PurgeStepRefines
    <3>2. CASE \E e \in Exports : ExportStep(w, e)
      BY <2>t, <3>2, ExportsAside, KeptIsAStutter
    <3>3. CASE \E j \in Jobs : SelectJob(w, j) \/ CheckQuiescence(w, j) \/ ClaimJob(w, j) \/ RecordFailure(w, j)
      BY <3>3, JobsAside, KeptIsAStutter
    <3>4. QED
      BY <2>2, <3>1, <3>2, <3>3 DEF WorkerStep
  <2>3. CASE \/ \E w \in Workers : CallFails(w) \/ WorkerCrash(w)
             \/ ExecutionEnds \/ RequestCrash
             \/ \E j \in Jobs : JobLeaseExpires(j)
             \/ \E e \in Exports : FenceLeaseExpires(e)
             \/ UNCHANGED vars
    BY <2>3, KeptIsAStutter DEF CallFails, WorkerCrash, ExecutionEnds, RequestCrash, JobLeaseExpires,
      FenceLeaseExpires, Kept, wsVars, dataVars, exportVars, vars
  <2>4. QED
    BY <2>1, <2>2, <2>3, DeletionStepRefines DEF Next
<1>3. QED
  BY <1>1, <1>2, Initially, NextKeeps, PTL DEF Spec, Lifecycle!Spec
===============================================================================
