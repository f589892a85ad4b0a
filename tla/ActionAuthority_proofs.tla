----------------------- MODULE ActionAuthority_proofs -----------------------
(***************************************************************************)
(* Theorems about ActionAuthority for every number of proposals,           *)
(* approvals, handlers and switches: one dispatch, no reopening, what the  *)
(* ledger tells, that the handlers implement ActionLifecycle, and that     *)
(* approvals, runs, proposals and calls agree.                             *)
(***************************************************************************)
EXTENDS ActionAuthority, TLAPS

USE ConstantsAssumption

-----------------------------------------------------------------------------
(* Types of the building blocks of the actions.                            *)

LocalType == pc \in [Handlers -> Labels] /\ job \in [Handlers -> Jobs]
RowType ==
  /\ status \in [Proposals -> Statuses]
  /\ version \in [Proposals -> Nat]
  /\ ledger \in [Proposals -> Seq(Entries)]
ApprovalType ==
  /\ approval \in [Approvals -> ApprovalStatuses]
  /\ subject \in [Approvals -> Proposals \cup {None}]
  /\ run \in [Approvals -> {"none"} \cup ActiveRun \cup TerminalRun]

\* An idle handler's empty job is a job.
LEMMA NoJobTyped == NoJob \in Jobs
  BY DEF NoJob, Jobs

\* Moving a handler to a label with a job that fits it keeps all handlers typed.
LEMMA GotoTyped ==
  ASSUME LocalType, JobInv, NEW h \in Handlers, NEW l \in Labels, NEW j \in Jobs,
         Fits(l, j), GotoWith(h, l, j)
  PROVE  LocalType' /\ JobInv'
<1>1. LocalType'
  BY DEF LocalType, GotoWith
<1>2. ASSUME NEW g \in Handlers PROVE Fits(pc'[g], job'[g])
  BY DEF LocalType, GotoWith, JobInv
<1>3. QED
  BY <1>1, <1>2 DEF JobInv, Fits

\* Moving it on with the job it has.
LEMMA KeepJobTyped ==
  ASSUME LocalType, JobInv, NEW h \in Handlers, NEW l \in Labels, Fits(l, job[h]), Goto(h, l)
  PROVE  LocalType' /\ JobInv'
<1>1. GotoWith(h, l, job[h])
  BY DEF LocalType, Goto, GotoWith
<1>2. job[h] \in Jobs
  BY DEF LocalType
<1>3. QED
  BY <1>1, <1>2, GotoTyped

\* Ending it.
LEMMA EndTyped ==
  ASSUME LocalType, JobInv, NEW h \in Handlers, End(h)
  PROVE  LocalType' /\ JobInv'
<1>1. "idle" \in Labels /\ Fits("idle", NoJob)
  BY DEF Labels, Fits, ProposalLabels, ApprovalLabels
<1>2. QED
  BY <1>1, GotoTyped, NoJobTyped DEF End

\* A status change keeps the row and its ledger typed.
LEMMA MoveTyped ==
  ASSUME RowType, NEW p \in Proposals, NEW s \in Statuses \ {"none"}, Move(p, s)
  PROVE  RowType'
<1>1. EntryFor(s) \in Entries
  BY DEF EntryFor, Statuses, Entries, Pending, Terminal
<1>2. status' \in [Proposals -> Statuses]
  BY DEF RowType, Move
<1>3. version' \in [Proposals -> Nat]
  BY DEF RowType, Move
<1>4. ledger' \in [Proposals -> Seq(Entries)]
  BY <1>1 DEF RowType, Move
<1>5. QED
  BY <1>2, <1>3, <1>4 DEF RowType

\* A guarded change, which happens or not.
LEMMA MoveOrStayTyped ==
  ASSUME RowType, NEW p \in Proposals, NEW s \in Statuses \ {"none"}, Move(p, s) \/ Stay
  PROVE  RowType'
<1>1. CASE Stay
  BY <1>1 DEF Stay, RowType
<1>2. QED
  BY <1>1, MoveTyped

\* So does a change of several rows.
LEMMA MoveAllTyped ==
  ASSUME RowType, NEW S, NEW s \in Statuses \ {"none"}, MoveAll(S, s)
  PROVE  RowType'
<1>1. EntryFor(s) \in Entries
  BY DEF EntryFor, Statuses, Entries, Pending, Terminal
<1>2. QED
  BY <1>1 DEF RowType, MoveAll

-----------------------------------------------------------------------------
(* Type correctness.                                                       *)

TypeInv == TypeOK /\ JobInv /\ SubjectInv

\* TypeOK by parts.
LEMMA TypeParts ==
  TypeOK <=>
    /\ LocalType
    /\ RowType
    /\ ApprovalType
    /\ approvalOf \in [Proposals -> Approvals \cup {None}]
    /\ enabled \in SUBSET Switches
    /\ workspace \in {"active", "quarantined"}
    /\ provider \in [Proposals -> {"none", "called", "accepted", "rejected"}]
    /\ dispatches \in [Proposals -> Nat]
  BY DEF TypeOK, LocalType, RowType, ApprovalType

\* All but the handlers.
Rest == <<proposalRow, ledger, approvalRow, controls, external>>

\* A step that only starts, moves or ends handlers keeps all types.
LEMMA RestTyped ==
  ASSUME TypeInv, LocalType', JobInv', UNCHANGED Rest
  PROVE  TypeInv'
  BY TypeParts DEF TypeInv, TypeOK, LocalType, SubjectInv, Rest, proposalRow, approvalRow,
     controls, external

\* A request starts with a job that fits its first label.
LEMMA StartTyped ==
  ASSUME TypeInv, NEW h \in Handlers, Start(h)
  PROVE  TypeInv'
<1> USE TypeParts DEF TypeInv
<1>1. ASSUME NEW l \in Labels, NEW j \in Jobs, Fits(l, j), Begin(h, l, j), UNCHANGED Rest
      PROVE  TypeInv'
  BY <1>1, GotoTyped, RestTyped DEF Begin, GotoWith
<1>2. ASSUME NEW p \in Proposals, RequestRead(h, p) PROVE TypeInv'
  <2>1. [NoJob EXCEPT !.proposal = p] \in Jobs
    BY DEF NoJob, Jobs
  <2>2. Fits("request_preflight", [NoJob EXCEPT !.proposal = p])
    BY DEF Fits, ApprovalLabels, NoJob
  <2>3. QED
    BY <1>1, <1>2, <2>1, <2>2 DEF RequestRead, Labels, Rest
<1>3. ASSUME NEW p \in Proposals, PortExecute(h, p) PROVE TypeInv'
  <2>1. [NoJob EXCEPT !.proposal = p, !.version = version[p]] \in Jobs
    BY DEF NoJob, Jobs, RowType
  <2>2. Fits("execute_preflight", [NoJob EXCEPT !.proposal = p, !.version = version[p]])
    BY DEF Fits, ApprovalLabels, NoJob
  <2>3. QED
    BY <1>1, <1>3, <2>1, <2>2 DEF PortExecute, Labels, Rest
<1>4. ASSUME NEW p \in Proposals, ReconcileRead(h, p) PROVE TypeInv'
  <2>1. [NoJob EXCEPT !.proposal = p] \in Jobs
    BY DEF NoJob, Jobs
  <2>2. Fits("reconcile_call", [NoJob EXCEPT !.proposal = p])
    BY DEF Fits, ApprovalLabels, NoJob
  <2>3. QED
    BY <1>1, <1>4, <2>1, <2>2 DEF ReconcileRead, Labels, Rest
<1>5. ASSUME NEW a \in Approvals, ApproveRead(h, a) \/ DenyRead(h, a) PROVE TypeInv'
  <2> DEFINE j == [NoJob EXCEPT !.approval = a, !.proposal = subject[a]]
  <2>1. subject[a] \in Proposals
    BY <1>5 DEF ApproveRead, DenyRead, SubjectInv
  <2>2. j \in Jobs
    BY <2>1 DEF NoJob, Jobs
  <2>3. Fits("approve_row", j) /\ Fits("deny_commit", j)
    BY <2>1 DEF Fits, NoJob
  <2>4. QED
    BY <1>1, <1>5, <2>2, <2>3 DEF ApproveRead, DenyRead, Labels, Rest
<1>6. ASSUME NEW s \in Switches, KillRead(h, s) PROVE TypeInv'
  <2> DEFINE S == {<<p, approvalOf[p]>> :
                     p \in {q \in Proposals : status[q] \in Pending /\ s \in Covers[q]}}
             j == [NoJob EXCEPT !.switch = s, !.affected = S]
  <2>1. S \in SUBSET (Proposals \X (Approvals \cup {None}))
    OBVIOUS
  <2>2. j \in Jobs
    BY <2>1 DEF NoJob, Jobs
  <2>3. Fits("kill_commit", j)
    BY DEF Fits, NoJob, ProposalLabels, ApprovalLabels
  <2>4. QED
    BY <1>1, <1>6, <2>2, <2>3 DEF KillRead, Labels, Rest
<1>7. ASSUME QuarantineRead(h) PROVE TypeInv'
  <2>1. Fits("quarantine_commit", NoJob)
    BY DEF Fits, ProposalLabels, ApprovalLabels
  <2>2. QED
    BY <1>1, <1>7, <2>1, NoJobTyped DEF QuarantineRead, Labels, Rest
<1>8. QED
  BY <1>2, <1>3, <1>4, <1>5, <1>6, <1>7 DEF Start

\* The steps that change no row.
LEMMA QuietStepsTyped ==
  ASSUME TypeInv, NEW h \in Handlers,
         \/ RequestPreflight(h) \/ ApproveRow(h) \/ ExecuteRow(h) \/ ExecutePreflight(h)
         \/ \E answer \in Answers : Answered(h, answer)
         \/ \E answer \in {"reconciled", "reviewed"} : ReconcileCall(h, answer)
         \/ Refuse(h) \/ Crash(h)
  PROVE  TypeInv'
<1> USE TypeParts DEF TypeInv
<1>1. Fits(pc[h], job[h]) /\ job[h] \in Jobs
  BY DEF JobInv, LocalType
<1>2. CASE RequestPreflight(h)
  BY <1>1, <1>2, KeepJobTyped, RestTyped
     DEF RequestPreflight, Fits, Labels, ProposalLabels, ApprovalLabels, Rest
<1>3. CASE ApproveRow(h)
  BY <1>1, <1>3, KeepJobTyped, EndTyped, RestTyped
     DEF ApproveRow, Fits, Labels, ProposalLabels, ApprovalLabels, Rest
<1>4. CASE ExecuteRow(h)
  <2> DEFINE j == [job[h] EXCEPT !.version = version[job[h].proposal]]
  <2>1. job[h].proposal \in Proposals /\ job[h].approval \in Approvals
    BY <1>1, <1>4 DEF ExecuteRow, Fits, Labels, ProposalLabels, ApprovalLabels
  <2>2. j \in Jobs
    BY <1>1, <2>1 DEF Jobs, RowType
  <2>3. Fits("execute_preflight", j)
    BY <1>1, <2>1 DEF Fits, Jobs, ApprovalLabels
  <2>4. QED
    BY <1>4, <2>2, <2>3, GotoTyped, EndTyped, RestTyped DEF ExecuteRow, Labels, Rest
<1>5. CASE ExecutePreflight(h)
  BY <1>1, <1>5, KeepJobTyped, RestTyped
     DEF ExecutePreflight, Fits, Labels, ProposalLabels, ApprovalLabels, Rest
<1>6. ASSUME NEW answer \in Answers, Answered(h, answer) PROVE TypeInv'
  <2> DEFINE j == [job[h] EXCEPT !.answer = answer]
  <2>1. j \in Jobs
    BY <1>1, <1>6 DEF Jobs
  <2>2. Fits("publish", j)
    BY <1>1, <1>6 DEF Answered, Fits, Jobs, Labels, ProposalLabels, ApprovalLabels
  <2>3. QED
    BY <1>6, <2>1, <2>2, GotoTyped, RestTyped DEF Answered, Labels, Rest
<1>7. ASSUME NEW answer \in {"reconciled", "reviewed"}, ReconcileCall(h, answer) PROVE TypeInv'
  <2> DEFINE j == [job[h] EXCEPT !.answer = answer]
  <2>1. j \in Jobs
    BY <1>1, <1>7 DEF Jobs, Answers
  <2>2. Fits("reconcile_commit", j)
    BY <1>1, <1>7 DEF ReconcileCall, Fits, Jobs, Labels, ProposalLabels, ApprovalLabels
  <2>3. QED
    BY <1>7, <2>1, <2>2, GotoTyped, RestTyped DEF ReconcileCall, Labels, Rest
<1>8. CASE Refuse(h) \/ Crash(h)
  BY <1>8, EndTyped, RestTyped DEF Refuse, Crash, Rest
<1>9. QED
  BY <1>2, <1>3, <1>4, <1>5, <1>6, <1>7, <1>8

\* Requesting and approving.
LEMMA ApprovalStepsTyped ==
  ASSUME TypeInv, NEW h \in Handlers,
         (\E a \in Approvals : RequestCommit(h, a)) \/ ApproveCommit(h) \/ DenyCommit(h)
  PROVE  TypeInv'
<1> USE TypeParts DEF TypeInv
<1>1. Fits(pc[h], job[h]) /\ job[h] \in Jobs
  BY DEF JobInv, LocalType
<1>2. ASSUME NEW a \in Approvals, RequestCommit(h, a) PROVE TypeInv'
  <2> DEFINE p == job[h].proposal
  <2>1. p \in Proposals
    BY <1>1, <1>2 DEF RequestCommit, Fits, Labels, ProposalLabels
  <2>2. RowType' /\ approvalOf' \in [Proposals -> Approvals \cup {None}]
    <3>1. Move(p, "approval_requested") \/ Stay
      BY <1>2 DEF RequestCommit
    <3>2. RowType'
      BY <2>1, <3>1, MoveOrStayTyped DEF Statuses, Pending
    <3>3. approvalOf' \in [Proposals -> Approvals \cup {None}]
      BY <1>2, <2>1 DEF RequestCommit
    <3>4. QED
      BY <3>2, <3>3
  <2>3. ApprovalType' /\ SubjectInv'
    BY <1>2, <2>1 DEF RequestCommit, ApprovalType, SubjectInv, ApprovalStatuses, ActiveRun
  <2>4. LocalType' /\ JobInv'
    BY <1>2, EndTyped DEF RequestCommit
  <2>5. QED
    BY <1>2, <2>2, <2>3, <2>4 DEF RequestCommit, TypeOK, RowType, ApprovalType, LocalType,
       controls, external
<1>3. CASE ApproveCommit(h)
  <2> DEFINE p == job[h].proposal
  <2>1. p \in Proposals /\ job[h].approval \in Approvals
    BY <1>1, <1>3 DEF ApproveCommit, Fits, Labels, ProposalLabels, ApprovalLabels
  <2>2. RowType'
    BY <1>3, <2>1, MoveOrStayTyped DEF ApproveCommit, Statuses, Pending
  <2>3. ApprovalType' /\ SubjectInv'
    BY <1>3, <2>1 DEF ApproveCommit, ApprovalType, SubjectInv, ApprovalStatuses, ActiveRun
  <2>4. Fits("execute_row", job[h])
    BY <2>1 DEF Fits
  <2>5. LocalType' /\ JobInv'
    BY <1>3, <2>4, EndTyped, KeepJobTyped DEF ApproveCommit, Labels
  <2>6. QED
    BY <1>3, <2>2, <2>3, <2>5 DEF ApproveCommit, TypeOK, RowType, ApprovalType, LocalType,
       controls, external
<1>4. CASE DenyCommit(h)
  <2>1. job[h].proposal \in Proposals /\ job[h].approval \in Approvals
    BY <1>1, <1>4 DEF DenyCommit, Fits, Labels, ProposalLabels, ApprovalLabels
  <2>2. ApprovalType' /\ SubjectInv'
    BY <1>4, <2>1 DEF DenyCommit, ApprovalType, SubjectInv, ApprovalStatuses, TerminalRun
  <2>3. Fits("deny_cancel", job[h])
    BY <2>1 DEF Fits
  <2>4. LocalType' /\ JobInv'
    BY <1>4, <2>3, EndTyped, KeepJobTyped DEF DenyCommit, Labels
  <2>5. QED
    BY <1>4, <2>2, <2>4 DEF DenyCommit, TypeOK, RowType, ApprovalType, LocalType,
       proposalRow, controls, external
<1>5. QED
  BY <1>2, <1>3, <1>4

\* Claiming, calling, publishing, revoking and closing the run.
LEMMA ExecutionStepsTyped ==
  ASSUME TypeInv, NEW h \in Handlers,
         ExecuteClaim(h) \/ Dispatch(h) \/ Publish(h) \/ Revoke(h) \/ FinishRun(h)
  PROVE  TypeInv'
<1> DEFINE p == job[h].proposal
<1> USE TypeParts DEF TypeInv
<1>1. Fits(pc[h], job[h]) /\ job[h] \in Jobs
  BY DEF JobInv, LocalType
<1>2. ASSUME NEW answer \in Answers, AfterExecution(h, answer) PROVE LocalType' /\ JobInv'
  <2> DEFINE j == [job[h] EXCEPT !.answer = answer]
  <2>1. CASE job[h].approval # None
    <3>1. j \in Jobs
      BY <1>1 DEF Jobs
    <3>2. Fits("finish", j)
      BY <1>1, <2>1 DEF Fits, Jobs, ProposalLabels, ApprovalLabels
    <3>3. QED
      BY <1>2, <2>1, <3>1, <3>2, GotoTyped DEF AfterExecution, Labels
  <2>2. CASE job[h].approval = None
    BY <1>2, <2>2, EndTyped DEF AfterExecution
  <2>3. QED
    BY <2>1, <2>2
<1>3. CASE ExecuteClaim(h)
  <2>1. p \in Proposals
    BY <1>1, <1>3 DEF ExecuteClaim, Fits, Labels, ProposalLabels
  <2>2. RowType'
    BY <1>3, <2>1, MoveOrStayTyped DEF ExecuteClaim, Statuses
  <2>3. Fits("dispatch", job[h])
    BY <2>1 DEF Fits, ApprovalLabels
  <2>4. LocalType' /\ JobInv'
    BY <1>3, <2>3, EndTyped, KeepJobTyped DEF ExecuteClaim, Labels
  <2>5. QED
    BY <1>3, <2>2, <2>4 DEF ExecuteClaim, TypeOK, RowType, ApprovalType, SubjectInv, LocalType,
       approvalRow, controls, external
<1>4. CASE Dispatch(h)
  <2>1. p \in Proposals
    BY <1>1, <1>4 DEF Dispatch, Fits, Labels, ProposalLabels
  <2>2. LocalType' /\ JobInv'
    BY <1>4, <2>1, KeepJobTyped DEF Dispatch, Labels, Fits, ApprovalLabels
  <2>3. QED
    BY <1>4, <2>1, <2>2 DEF Dispatch, TypeOK, RowType, ApprovalType, SubjectInv, LocalType,
       proposalRow, approvalRow, controls
<1>5. CASE Publish(h)
  <2>1. p \in Proposals /\ job[h].answer \in Answers
    BY <1>1, <1>5 DEF Publish, Fits, Labels, ProposalLabels
  <2>2. RowType'
    BY <1>5, <2>1, MoveOrStayTyped DEF Publish, Statuses, Answers, Terminal
  <2>3. Fits("revoke", job[h])
    BY <2>1 DEF Fits, ApprovalLabels
  <2>4. LocalType' /\ JobInv'
    BY <1>2, <1>5, <2>1, <2>3, KeepJobTyped DEF Publish, Labels
  <2>5. QED
    BY <1>5, <2>2, <2>4 DEF Publish, TypeOK, RowType, ApprovalType, SubjectInv, LocalType,
       approvalRow, controls, external
<1>6. CASE Revoke(h)
  <2>1. p \in Proposals
    BY <1>1, <1>6 DEF Revoke, Fits, Labels, ProposalLabels
  <2>2. RowType'
    BY <1>6, <2>1, MoveOrStayTyped DEF Revoke, Statuses
  <2>3. LocalType' /\ JobInv'
    BY <1>2, <1>6 DEF Revoke, Answers
  <2>4. QED
    BY <1>6, <2>2, <2>3 DEF Revoke, TypeOK, RowType, ApprovalType, SubjectInv, LocalType,
       approvalRow, controls, external
<1>7. CASE FinishRun(h)
  <2>1. job[h].approval \in Approvals
    BY <1>1, <1>7 DEF FinishRun, Fits, ApprovalLabels
  <2>2. ApprovalType' /\ SubjectInv'
    BY <1>7, <2>1 DEF FinishRun, RunResult, ApprovalType, SubjectInv, TerminalRun
  <2>3. LocalType' /\ JobInv'
    BY <1>7, EndTyped DEF FinishRun
  <2>4. QED
    BY <1>7, <2>2, <2>3 DEF FinishRun, TypeOK, RowType, ApprovalType, LocalType,
       proposalRow, controls, external
<1>8. QED
  BY <1>3, <1>4, <1>5, <1>6, <1>7

\* Withdrawing proposals and reconciling them.
LEMMA WithdrawalStepsTyped ==
  ASSUME TypeInv, NEW h \in Handlers,
         DenyCancel(h) \/ KillCommit(h) \/ ReconcileCommit(h) \/ QuarantineCommit(h)
  PROVE  TypeInv'
<1> DEFINE p == job[h].proposal
<1> USE TypeParts DEF TypeInv
<1>1. Fits(pc[h], job[h]) /\ job[h] \in Jobs
  BY DEF JobInv, LocalType
<1>2. LocalType' /\ JobInv'
  BY EndTyped DEF DenyCancel, KillCommit, ReconcileCommit, QuarantineCommit
<1>3. CASE DenyCancel(h)
  <2>1. p \in Proposals
    BY <1>1, <1>3 DEF DenyCancel, Fits, Labels, ProposalLabels
  <2>2. RowType'
    BY <1>3, <2>1, MoveOrStayTyped DEF DenyCancel, Statuses, Terminal
  <2>3. QED
    BY <1>2, <1>3, <2>2 DEF DenyCancel, TypeOK, RowType, ApprovalType, SubjectInv, LocalType,
       approvalRow, controls, external
<1>4. CASE KillCommit(h)
  <2>1. job[h].switch \in Switches
    BY <1>1, <1>4 DEF KillCommit, Fits
  <2>2. RowType'
    BY <1>4, MoveAllTyped DEF KillCommit, Statuses, Terminal
  <2>3. ApprovalType' /\ SubjectInv'
    BY <1>4 DEF KillCommit, ApprovalType, SubjectInv, ApprovalStatuses, TerminalRun
  <2>4. QED
    BY <1>2, <1>4, <2>1, <2>2, <2>3 DEF KillCommit, TypeOK, RowType, ApprovalType, LocalType,
       external
<1>5. CASE ReconcileCommit(h)
  <2>1. p \in Proposals
    BY <1>1, <1>5 DEF ReconcileCommit, Fits, Labels, ProposalLabels
  <2>2. RowType'
    <3>1. CASE job[h].answer = "reviewed"
      <4>1. "reviewed" \in Entries /\ ledger[p] \in Seq(Entries)
        BY <2>1 DEF Entries, RowType
      <4>2. Append(ledger[p], "reviewed") \in Seq(Entries)
        BY <4>1
      <4>3. ledger' \in [Proposals -> Seq(Entries)]
        BY <1>5, <3>1, <4>2 DEF ReconcileCommit, RowType
      <4>4. QED
        BY <1>5, <3>1, <4>3 DEF ReconcileCommit, RowType
    <3>2. CASE job[h].answer # "reviewed"
      BY <1>5, <2>1, <3>2, MoveOrStayTyped DEF ReconcileCommit, Statuses, Terminal
    <3>3. QED
      BY <3>1, <3>2
  <2>3. QED
    BY <1>2, <1>5, <2>2 DEF ReconcileCommit, TypeOK, RowType, ApprovalType, SubjectInv,
       LocalType, approvalRow, controls, external
<1>6. CASE QuarantineCommit(h)
  <2>1. RowType'
    BY <1>6, MoveAllTyped DEF QuarantineCommit, Statuses, Terminal
  <2>2. ApprovalType' /\ SubjectInv'
    BY <1>6 DEF QuarantineCommit, ApprovalType, SubjectInv, ApprovalStatuses, ActiveRun,
       TerminalRun
  <2>3. enabled' \in SUBSET Switches
    BY <1>6 DEF QuarantineCommit
  <2>4. QED
    BY <1>2, <1>6, <2>1, <2>2, <2>3 DEF QuarantineCommit, TypeOK, RowType, ApprovalType,
       LocalType, external
<1>7. QED
  BY <1>3, <1>4, <1>5, <1>6

\* The steps no handler takes.
LEMMA OtherStepsTyped ==
  ASSUME TypeInv,
         \/ \E p \in Proposals : Propose(p) \/ ProviderDecides(p)
         \/ \E a \in Approvals : CancelRun(a)
         \/ \E s \in Switches : KillRelease(s)
  PROVE  TypeInv'
<1> USE TypeParts DEF TypeInv
<1>1. ASSUME NEW p \in Proposals, Propose(p) PROVE TypeInv'
  <2>1. RowType'
    BY <1>1, MoveTyped DEF Propose, Statuses, Pending
  <2>2. LocalType' /\ JobInv' /\ ApprovalType' /\ SubjectInv'
    BY <1>1 DEF Propose, LocalType, JobInv, ApprovalType, SubjectInv, local, approvalRow
  <2>3. QED
    BY <1>1, <2>1, <2>2 DEF Propose, TypeOK, RowType, ApprovalType, LocalType,
       controls, external
<1>2. ASSUME NEW p \in Proposals, ProviderDecides(p) PROVE TypeInv'
  BY <1>2 DEF ProviderDecides, TypeOK, JobInv, SubjectInv, proposalRow, approvalRow, controls,
     local
<1>3. ASSUME NEW a \in Approvals, CancelRun(a) PROVE TypeInv'
  <2>1. SubjectInv'
    BY <1>3 DEF CancelRun, ApprovalType, SubjectInv, ActiveRun
  <2>2. QED
    BY <1>3, <2>1 DEF CancelRun, TypeOK, JobInv, TerminalRun, proposalRow, controls, external,
       local
<1>4. ASSUME NEW s \in Switches, KillRelease(s) PROVE TypeInv'
  BY <1>4 DEF KillRelease, TypeOK, JobInv, SubjectInv, proposalRow, approvalRow, external,
     local
<1>5. QED
  BY <1>1, <1>2, <1>3, <1>4

\* Every reachable state has the declared types, whatever the constants, and a
\* suspended handler always has the row, approval and answer its next step uses.
THEOREM TypeCorrect == Spec => []TypeInv
<1>1. Init => TypeInv
  BY NoJobTyped DEF Init, TypeInv, TypeOK, JobInv, SubjectInv, Fits, Labels, ProposalLabels,
     ApprovalLabels, Statuses, ApprovalStatuses
<1>2. TypeInv /\ [Next]_vars => TypeInv'
  <2> SUFFICES ASSUME TypeInv, [Next]_vars PROVE TypeInv'
    OBVIOUS
  <2>1. CASE UNCHANGED vars
    BY <2>1 DEF TypeInv, TypeOK, JobInv, SubjectInv, vars, proposalRow, approvalRow, controls,
       external, local
  <2>2. ASSUME NEW h \in Handlers, Start(h) PROVE TypeInv'
    BY <2>2, StartTyped
  <2>3. ASSUME NEW h \in Handlers, Continue(h) \/ Crash(h) PROVE TypeInv'
    BY <2>3, QuietStepsTyped, ApprovalStepsTyped, ExecutionStepsTyped, WithdrawalStepsTyped
       DEF Continue
  <2>4. QED
    BY <2>1, <2>2, <2>3, OtherStepsTyped DEF Next
<1>3. QED
  BY <1>1, <1>2, PTL DEF Spec

\* Every variable has its type in every reachable state.
THEOREM TypeSafety == Spec => []TypeOK
  BY TypeCorrect, PTL DEF TypeInv

-----------------------------------------------------------------------------
(* One claim, one executor, one call.                                      *)

ClaimsInv == ClaimInv /\ ExecutorInv /\ DispatchAtMostOnce

\* What an appended ledger records.
LEMMA AppendRecords ==
  ASSUME NEW s \in Seq(Entries), NEW e \in Entries, NEW x
  PROVE  Contains(Append(s, e), x) <=> Contains(s, x) \/ e = x
<1>1. Len(Append(s, e)) = Len(s) + 1 /\ DOMAIN Append(s, e) = 1 .. Len(s) + 1
  OBVIOUS
<1>2. Append(s, e)[Len(s) + 1] = e /\ \A i \in 1 .. Len(s) : Append(s, e)[i] = s[i]
  OBVIOUS
<1>3. DOMAIN s = 1 .. Len(s) /\ Len(s) \in Nat
  OBVIOUS
<1>4. QED
  BY <1>1, <1>2, <1>3 DEF Contains

\* A status change records its own entry and nothing else.
LEMMA MoveRecords ==
  ASSUME RowType, NEW p \in Proposals, NEW s \in Statuses \ {"none"}, Move(p, s),
         NEW q \in Proposals
  PROVE  Recorded(q, "executing")' <=> Recorded(q, "executing") \/ (q = p /\ s = "executing")
<1>1. EntryFor(s) \in Entries /\ (EntryFor(s) = "executing" <=> s = "executing")
  BY DEF EntryFor, Statuses, Entries, Pending, Terminal
<1>2. CASE q = p
  <2>1. ledger'[q] = Append(ledger[q], EntryFor(s)) /\ ledger[q] \in Seq(Entries)
    BY <1>2 DEF Move, RowType
  <2>2. QED
    BY <1>1, <1>2, <2>1, AppendRecords DEF Recorded
<1>3. CASE q # p
  BY <1>3 DEF Move, RowType, Recorded
<1>4. QED
  BY <1>2, <1>3

\* A step that neither claims nor calls.
KeepsClaims ==
  /\ \A p \in Proposals : status'[p] \in Unclaimed =>
       status[p] \in Unclaimed
  /\ \A p \in Proposals : Recorded(p, "executing")' <=> Recorded(p, "executing")
  /\ dispatches' = dispatches
  /\ \A h \in Handlers : pc'[h] \in ExecutorLabels =>
       /\ pc[h] \in ExecutorLabels
       /\ pc'[h] = "dispatch" <=> pc[h] = "dispatch"
       /\ job'[h].proposal = job[h].proposal

\* It keeps the invariant of claims.
LEMMA KeepsClaimsPreserves ==
  ASSUME TypeInv, TypeInv', ClaimsInv, KeepsClaims
  PROVE  ClaimsInv'
<1>1. \A h \in Handlers : pc[h] \in ExecutorLabels => job[h].proposal \in Proposals
  BY DEF TypeInv, JobInv, Fits, ProposalLabels, ExecutorLabels, Labels
<1>2. ClaimInv'
  BY <1>1 DEF ClaimsInv, ClaimInv, KeepsClaims
<1>3. ExecutorInv'
  BY DEF ClaimsInv, ExecutorInv, KeepsClaims
<1>4. DispatchAtMostOnce'
  BY DEF ClaimsInv, DispatchAtMostOnce, KeepsClaims
<1>5. QED
  BY <1>2, <1>3, <1>4 DEF ClaimsInv

\* What a status change that is not a claim leaves alone.
LEMMA MoveKeepsClaims ==
  ASSUME RowType, NEW p \in Proposals, NEW s \in Statuses \ {"none", "executing"},
         s \in Unclaimed => status[p] \in Unclaimed,
         Move(p, s) \/ Stay
  PROVE  /\ \A q \in Proposals : status'[q] \in Unclaimed => status[q] \in Unclaimed
         /\ \A q \in Proposals : Recorded(q, "executing")' <=> Recorded(q, "executing")
<1>1. CASE Stay
  BY <1>1 DEF Stay, Recorded
<1>2. CASE Move(p, s)
  <2>1. \A q \in Proposals : status'[q] \in Unclaimed => status[q] \in Unclaimed
    BY <1>2 DEF Move, RowType
  <2>2. QED
    BY <1>2, <2>1, MoveRecords
<1>3. QED
  BY <1>1, <1>2

\* Withdrawing several proposals records no execution either.
LEMMA WithdrawKeepsClaims ==
  ASSUME RowType, NEW S, MoveAll(S, "cancelled")
  PROVE  /\ \A q \in Proposals : status'[q] \in Unclaimed => status[q] \in Unclaimed
         /\ \A q \in Proposals : Recorded(q, "executing")' <=> Recorded(q, "executing")
<1>1. EntryFor("cancelled") = "cancelled" /\ "cancelled" \in Entries
  BY DEF EntryFor, Entries
<1>2. \A q \in Proposals : status'[q] \in Unclaimed => status[q] \in Unclaimed
  BY DEF MoveAll, Unclaimed, Pending
<1>3. ASSUME NEW q \in Proposals PROVE Recorded(q, "executing")' <=> Recorded(q, "executing")
  <2>1. CASE q \in S
    <3>1. ledger'[q] = Append(ledger[q], "cancelled") /\ ledger[q] \in Seq(Entries)
      BY <1>1, <2>1 DEF MoveAll, RowType
    <3>2. QED
      BY <1>1, <3>1, AppendRecords DEF Recorded
  <2>2. CASE q \notin S
    BY <2>2 DEF MoveAll, Recorded
  <2>3. QED
    BY <2>1, <2>2
<1>4. QED
  BY <1>2, <1>3

\* A step that writes no proposal and calls no provider.
RowsKept == UNCHANGED <<status, ledger, dispatches>>

\* The steps that write no proposal.
LEMMA QuietStepsKeepClaims ==
  ASSUME TypeInv, NEW h \in Handlers,
         \/ Start(h)
         \/ RequestPreflight(h) \/ ApproveRow(h) \/ ExecuteRow(h) \/ ExecutePreflight(h)
         \/ \E answer \in Answers : Answered(h, answer)
         \/ \E answer \in {"reconciled", "reviewed"} : ReconcileCall(h, answer)
         \/ Refuse(h) \/ Crash(h) \/ DenyCommit(h) \/ FinishRun(h)
  PROVE  KeepsClaims
<1>1. LocalType /\ RowType
  BY TypeParts DEF TypeInv
<1>2. ASSUME RowsKept,
             \A g \in Handlers : pc'[g] \in ExecutorLabels =>
               /\ pc[g] \in ExecutorLabels
               /\ pc'[g] = "dispatch" <=> pc[g] = "dispatch"
               /\ job'[g].proposal = job[g].proposal
      PROVE  KeepsClaims
  BY <1>2 DEF RowsKept, KeepsClaims, Recorded
<1>3. CASE Start(h)
  <2>1. ASSUME NEW l \in Labels \ ExecutorLabels, NEW j, Begin(h, l, j)
        PROVE  \A g \in Handlers : pc'[g] \in ExecutorLabels =>
                 /\ pc[g] \in ExecutorLabels
                 /\ pc'[g] = "dispatch" <=> pc[g] = "dispatch"
                 /\ job'[g].proposal = job[g].proposal
    BY <1>1, <2>1 DEF Begin, LocalType
  <2>2. \E l \in Labels \ ExecutorLabels : \E j : Begin(h, l, j)
    BY <1>3 DEF Start, RequestRead, PortExecute, ReconcileRead, ApproveRead, DenyRead, KillRead,
       QuarantineRead, Labels, ExecutorLabels
  <2>3. RowsKept
    BY <1>3 DEF Start, RequestRead, PortExecute, ReconcileRead, ApproveRead, DenyRead, KillRead,
       QuarantineRead, RowsKept, proposalRow, external
  <2>4. QED
    BY <1>2, <2>1, <2>2, <2>3
<1>4. CASE RequestPreflight(h) \/ ApproveRow(h) \/ ExecuteRow(h) \/ ExecutePreflight(h)
  BY <1>1, <1>2, <1>4 DEF RequestPreflight, ApproveRow, ExecuteRow, ExecutePreflight, RowsKept,
     proposalRow, external, Goto, GotoWith, End, LocalType, ExecutorLabels
<1>5. ASSUME NEW answer \in Answers, Answered(h, answer) PROVE KeepsClaims
  BY <1>1, <1>2, <1>5 DEF Answered, RowsKept, proposalRow, external, GotoWith, LocalType, Jobs,
     ExecutorLabels
<1>6. ASSUME NEW answer \in {"reconciled", "reviewed"}, ReconcileCall(h, answer)
      PROVE  KeepsClaims
  BY <1>1, <1>2, <1>6 DEF ReconcileCall, RowsKept, proposalRow, external, GotoWith, LocalType,
     ExecutorLabels
<1>7. CASE Refuse(h) \/ Crash(h) \/ DenyCommit(h) \/ FinishRun(h)
  BY <1>1, <1>2, <1>7 DEF Refuse, Crash, DenyCommit, FinishRun, RowsKept, proposalRow, external,
     Goto, GotoWith, End, LocalType, ExecutorLabels
<1>8. QED
  BY <1>3, <1>4, <1>5, <1>6, <1>7

\* The steps that change a proposal without claiming it.
LEMMA RowStepsKeepClaims ==
  ASSUME TypeInv, NEW h \in Handlers,
         \/ \E a \in Approvals : RequestCommit(h, a)
         \/ ApproveCommit(h) \/ Publish(h) \/ Revoke(h) \/ DenyCancel(h)
         \/ KillCommit(h) \/ ReconcileCommit(h) \/ QuarantineCommit(h)
  PROVE  KeepsClaims
<1> DEFINE p == job[h].proposal
           ExecutorsKept ==
             \A g \in Handlers : pc'[g] \in ExecutorLabels =>
               /\ pc[g] \in ExecutorLabels
               /\ pc'[g] = "dispatch" <=> pc[g] = "dispatch"
               /\ job'[g].proposal = job[g].proposal
           ProposalsKept ==
             /\ \A q \in Proposals : status'[q] \in Unclaimed => status[q] \in Unclaimed
             /\ \A q \in Proposals : Recorded(q, "executing")' <=> Recorded(q, "executing")
<1>1. LocalType /\ RowType /\ Fits(pc[h], job[h])
  BY TypeParts DEF TypeInv, JobInv
<1>2. pc[h] \in ProposalLabels => p \in Proposals
  BY <1>1 DEF Fits
<1>3. ASSUME ExecutorsKept, ProposalsKept, dispatches' = dispatches PROVE KeepsClaims
  BY <1>3 DEF KeepsClaims
<1>4. ASSUME NEW a \in Approvals, RequestCommit(h, a) PROVE KeepsClaims
  <2>1. p \in Proposals
    BY <1>2, <1>4 DEF RequestCommit, Labels, ProposalLabels
  <2>2. ProposalsKept
    BY <1>1, <1>4, <2>1, MoveKeepsClaims DEF RequestCommit, Statuses, Pending, Unclaimed
  <2>3. ExecutorsKept
    BY <1>1, <1>4 DEF RequestCommit, End, GotoWith, LocalType, ExecutorLabels
  <2>4. QED
    BY <1>3, <1>4, <2>2, <2>3 DEF RequestCommit, external
<1>5. CASE ApproveCommit(h)
  <2>1. p \in Proposals
    BY <1>2, <1>5 DEF ApproveCommit, Labels, ProposalLabels
  <2>2. ProposalsKept
    BY <1>1, <1>5, <2>1, MoveKeepsClaims DEF ApproveCommit, Statuses, Pending, Unclaimed
  <2>3. ExecutorsKept
    BY <1>1, <1>5 DEF ApproveCommit, Goto, End, GotoWith, LocalType, ExecutorLabels
  <2>4. QED
    BY <1>3, <1>5, <2>2, <2>3 DEF ApproveCommit, external
<1>6. CASE Publish(h)
  <2>1. p \in Proposals /\ job[h].answer \in Answers
    BY <1>1, <1>2, <1>6 DEF Publish, Labels, ProposalLabels, Fits
  <2>2. job[h].answer \in Statuses \ {"none", "executing"} /\ job[h].answer \notin Unclaimed
    BY <2>1 DEF Answers, Statuses, Terminal, Unclaimed, Pending
  <2>3. ProposalsKept
    BY <1>1, <1>6, <2>1, <2>2, MoveKeepsClaims DEF Publish
  <2>4. ExecutorsKept
    BY <1>1, <1>6 DEF Publish, AfterExecution, Goto, End, GotoWith, LocalType, ExecutorLabels
  <2>5. QED
    BY <1>3, <1>6, <2>3, <2>4 DEF Publish, external
<1>7. CASE Revoke(h)
  <2>1. p \in Proposals
    BY <1>2, <1>7 DEF Revoke, Labels, ProposalLabels
  <2>2. ProposalsKept
    BY <1>1, <1>7, <2>1, MoveKeepsClaims DEF Revoke, Statuses, Unclaimed, Pending
  <2>3. ExecutorsKept
    BY <1>1, <1>7 DEF Revoke, AfterExecution, End, GotoWith, LocalType, ExecutorLabels
  <2>4. QED
    BY <1>3, <1>7, <2>2, <2>3 DEF Revoke, external
<1>8. CASE DenyCancel(h)
  <2>1. p \in Proposals
    BY <1>2, <1>8 DEF DenyCancel, Labels, ProposalLabels
  <2>2. ProposalsKept
    BY <1>1, <1>8, <2>1, MoveKeepsClaims DEF DenyCancel, Statuses, Terminal, Unclaimed, Pending
  <2>3. ExecutorsKept
    BY <1>1, <1>8 DEF DenyCancel, End, GotoWith, LocalType, ExecutorLabels
  <2>4. QED
    BY <1>3, <1>8, <2>2, <2>3 DEF DenyCancel, external
<1>9. CASE KillCommit(h) \/ QuarantineCommit(h)
  <2>1. ProposalsKept
    BY <1>1, <1>9, WithdrawKeepsClaims DEF KillCommit, QuarantineCommit
  <2>2. ExecutorsKept
    BY <1>1, <1>9 DEF KillCommit, QuarantineCommit, End, GotoWith, LocalType, ExecutorLabels
  <2>3. QED
    BY <1>3, <1>9, <2>1, <2>2 DEF KillCommit, QuarantineCommit, external
<1>10. CASE ReconcileCommit(h)
  <2>1. p \in Proposals
    BY <1>2, <1>10 DEF ReconcileCommit, Labels, ProposalLabels
  <2>2. ProposalsKept
    <3>1. CASE job[h].answer = "reviewed"
      <4>1. UNCHANGED status
        BY <1>10, <3>1 DEF ReconcileCommit
      <4>2. "reviewed" \in Entries /\ \A q \in Proposals : ledger[q] \in Seq(Entries)
        BY <1>1 DEF Entries, RowType
      <4>3. ASSUME NEW q \in Proposals
            PROVE  Recorded(q, "executing")' <=> Recorded(q, "executing")
        <5>1. ledger'[q] = ledger[q] \/ ledger'[q] = Append(ledger[q], "reviewed")
          BY <1>1, <1>10, <3>1 DEF ReconcileCommit, RowType
        <5>2. Contains(Append(ledger[q], "reviewed"), "executing")
                <=> Contains(ledger[q], "executing")
          BY <4>2, AppendRecords
        <5>3. QED
          BY <5>1, <5>2 DEF Recorded
      <4>4. QED
        BY <4>1, <4>3
    <3>2. CASE job[h].answer # "reviewed"
      BY <1>1, <1>10, <2>1, <3>2, MoveKeepsClaims
         DEF ReconcileCommit, Statuses, Terminal, Unclaimed, Pending
    <3>3. QED
      BY <3>1, <3>2
  <2>3. ExecutorsKept
    BY <1>1, <1>10 DEF ReconcileCommit, End, GotoWith, LocalType, ExecutorLabels
  <2>4. QED
    BY <1>3, <1>10, <2>2, <2>3 DEF ReconcileCommit, external
<1>11. QED
  BY <1>4, <1>5, <1>6, <1>7, <1>8, <1>9, <1>10

\* The claim makes the handler the one executor of an unclaimed proposal.
LEMMA ClaimKeepsInv ==
  ASSUME TypeInv, ClaimsInv, NEW h \in Handlers, ExecuteClaim(h)
  PROVE  ClaimsInv'
<1> DEFINE p == job[h].proposal
<1>1. LocalType /\ RowType /\ p \in Proposals
  BY TypeParts DEF TypeInv, JobInv, ExecuteClaim, Fits, Labels, ProposalLabels
<1>2. \A g \in Handlers : pc[g] \in ExecutorLabels => job[g].proposal \in Proposals
  BY DEF TypeInv, JobInv, Fits, ProposalLabels, ExecutorLabels, Labels
<1>3. CASE ~Claimable(h)
  <2>1. UNCHANGED <<status, ledger, dispatches>>
    BY <1>3 DEF ExecuteClaim, Stay, external
  <2>2. \A g \in Handlers : pc'[g] \in ExecutorLabels =>
          pc'[g] = pc[g] /\ job'[g] = job[g]
    BY <1>1, <1>3 DEF ExecuteClaim, End, GotoWith, LocalType, ExecutorLabels
  <2>3. QED
    BY <2>1, <2>2 DEF ClaimsInv, ClaimInv, ExecutorInv, DispatchAtMostOnce, Recorded
<1>4. CASE Claimable(h)
  <2>1. status[p] \in Unclaimed /\ dispatches[p] = 0
    BY <1>1, <1>4 DEF Claimable, Unclaimed, Pending, ClaimsInv, ClaimInv
  <2>2. \A g \in Handlers : pc[g] \in ExecutorLabels => job[g].proposal # p
    BY <2>1 DEF ClaimsInv, ClaimInv
  <2>3. status' = [status EXCEPT ![p] = "executing"] /\ Move(p, "executing")
    BY <1>4 DEF ExecuteClaim, Move
  <2>4. \A q \in Proposals :
          Recorded(q, "executing")' <=> Recorded(q, "executing") \/ q = p
    BY <1>1, <2>3, MoveRecords DEF Statuses
  <2>5. /\ pc' = [pc EXCEPT ![h] = "dispatch"]
        /\ UNCHANGED <<job, dispatches>>
    BY <1>4 DEF ExecuteClaim, Goto, external
  <2>6. ClaimInv'
    <3>1. ASSUME NEW q \in Proposals, status'[q] \in Unclaimed
          PROVE  dispatches'[q] = 0 /\ ~Recorded(q, "executing")'
      <4>1. q # p /\ status[q] \in Unclaimed
        BY <1>1, <2>3, <3>1 DEF Unclaimed, Pending, RowType
      <4>2. QED
        BY <2>4, <2>5, <4>1 DEF ClaimsInv, ClaimInv
    <3>2. ASSUME NEW g \in Handlers, pc'[g] \in ExecutorLabels
          PROVE  /\ status'[job'[g].proposal] \notin Unclaimed
                 /\ Recorded(job[g].proposal, "executing")'
                 /\ dispatches'[job'[g].proposal] = IF pc'[g] = "dispatch" THEN 0 ELSE 1
      <4>1. CASE g = h
        BY <1>1, <2>1, <2>3, <2>4, <2>5, <4>1 DEF Unclaimed, Pending, RowType, LocalType
      <4>2. CASE g # h
        <5>1. pc[g] \in ExecutorLabels /\ pc'[g] = pc[g]
          BY <1>1, <2>5, <3>2, <4>2 DEF LocalType
        <5>2. job[g].proposal \in Proposals /\ job[g].proposal # p
          BY <1>2, <2>2, <5>1
        <5>3. QED
          BY <1>1, <2>3, <2>4, <2>5, <5>1, <5>2 DEF ClaimsInv, ClaimInv, RowType
      <4>3. QED
        BY <4>1, <4>2
    <3>3. QED
      BY <2>5, <3>1, <3>2 DEF ClaimInv
  <2>7. ExecutorInv'
    BY <1>1, <2>2, <2>5 DEF ClaimsInv, ExecutorInv, LocalType
  <2>8. QED
    BY <2>5, <2>6, <2>7 DEF ClaimsInv, DispatchAtMostOnce
<1>5. QED
  BY <1>3, <1>4

\* The one executor calls the provider for the first time.
LEMMA DispatchKeepsInv ==
  ASSUME TypeInv, ClaimsInv, NEW h \in Handlers, Dispatch(h)
  PROVE  ClaimsInv'
<1> DEFINE p == job[h].proposal
<1>1. LocalType /\ RowType /\ p \in Proposals /\ dispatches \in [Proposals -> Nat]
  BY TypeParts DEF TypeInv, JobInv, Dispatch, Fits, Labels, ProposalLabels
<1>2. \A g \in Handlers : pc[g] \in ExecutorLabels => job[g].proposal \in Proposals
  BY DEF TypeInv, JobInv, Fits, ProposalLabels, ExecutorLabels, Labels
<1>3. pc[h] = "dispatch" /\ pc[h] \in ExecutorLabels
  BY DEF Dispatch, ExecutorLabels
<1>4. status[p] \notin Unclaimed /\ Recorded(p, "executing") /\ dispatches[p] = 0
  BY <1>3 DEF ClaimsInv, ClaimInv
<1>5. \A g \in Handlers : g # h /\ pc[g] \in ExecutorLabels => job[g].proposal # p
  BY <1>3 DEF ClaimsInv, ExecutorInv
<1>6. /\ dispatches' = [dispatches EXCEPT ![p] = 1]
      /\ pc' = [pc EXCEPT ![h] = "await"]
      /\ UNCHANGED <<job, status, ledger>>
  BY <1>4 DEF Dispatch, Goto, proposalRow
<1>7. ClaimInv'
  <2>1. ASSUME NEW q \in Proposals, status'[q] \in Unclaimed
        PROVE  dispatches'[q] = 0 /\ ~Recorded(q, "executing")'
    BY <1>1, <1>4, <1>6, <2>1 DEF ClaimsInv, ClaimInv, Recorded
  <2>2. ASSUME NEW g \in Handlers, pc'[g] \in ExecutorLabels
        PROVE  /\ status'[job'[g].proposal] \notin Unclaimed
               /\ Recorded(job[g].proposal, "executing")'
               /\ dispatches'[job'[g].proposal] = IF pc'[g] = "dispatch" THEN 0 ELSE 1
    <3>1. CASE g = h
      BY <1>1, <1>4, <1>6, <3>1 DEF Recorded, LocalType
    <3>2. CASE g # h
      BY <1>1, <1>2, <1>5, <1>6, <2>2, <3>2 DEF ClaimsInv, ClaimInv, Recorded, LocalType
    <3>3. QED
      BY <3>1, <3>2
  <2>3. QED
    BY <1>6, <2>1, <2>2 DEF ClaimInv
<1>8. ExecutorInv'
  BY <1>1, <1>3, <1>6 DEF ClaimsInv, ExecutorInv, LocalType
<1>9. DispatchAtMostOnce'
  BY <1>1, <1>6 DEF ClaimsInv, DispatchAtMostOnce
<1>10. QED
  BY <1>7, <1>8, <1>9 DEF ClaimsInv

\* The steps no handler takes neither claim nor call.
LEMMA OtherStepsKeepClaims ==
  ASSUME TypeInv,
         \/ \E p \in Proposals : Propose(p) \/ ProviderDecides(p)
         \/ \E a \in Approvals : CancelRun(a)
         \/ \E s \in Switches : KillRelease(s)
         \/ UNCHANGED vars
  PROVE  KeepsClaims
<1>1. LocalType /\ RowType
  BY TypeParts DEF TypeInv
<1>2. ASSUME RowsKept, UNCHANGED local PROVE KeepsClaims
  BY <1>2 DEF RowsKept, local, KeepsClaims, Recorded
<1>3. ASSUME NEW p \in Proposals, Propose(p) PROVE KeepsClaims
  <2>1. status[p] \in Unclaimed /\ Move(p, "proposed")
    BY <1>3 DEF Propose, Unclaimed
  <2>2. /\ \A q \in Proposals : status'[q] \in Unclaimed => status[q] \in Unclaimed
        /\ \A q \in Proposals : Recorded(q, "executing")' <=> Recorded(q, "executing")
    BY <1>1, <2>1, MoveKeepsClaims DEF Statuses, Pending
  <2>3. QED
    BY <1>3, <2>2 DEF Propose, KeepsClaims, local, external
<1>4. QED
  BY <1>2, <1>3 DEF ProviderDecides, CancelRun, KillRelease, RowsKept, proposalRow, external,
     vars

\* The conjunction of types and claims is inductive.
LEMMA ClaimsStep == TypeInv /\ ClaimsInv /\ TypeInv' /\ [Next]_vars => ClaimsInv'
<1> SUFFICES ASSUME TypeInv, ClaimsInv, TypeInv', [Next]_vars PROVE ClaimsInv'
  OBVIOUS
<1>1. ASSUME NEW h \in Handlers, Start(h) \/ Continue(h) \/ Crash(h) PROVE ClaimsInv'
  BY <1>1, QuietStepsKeepClaims, RowStepsKeepClaims, KeepsClaimsPreserves, ClaimKeepsInv,
     DispatchKeepsInv DEF Continue
<1>2. CASE \/ \E p \in Proposals : Propose(p) \/ ProviderDecides(p)
           \/ \E a \in Approvals : CancelRun(a)
           \/ \E s \in Switches : KillRelease(s)
           \/ UNCHANGED vars
  BY <1>2, OtherStepsKeepClaims, KeepsClaimsPreserves
<1>3. QED
  BY <1>1, <1>2 DEF Next

\* The inductive invariant holds in every reachable state.
THEOREM Inductive == Spec => []IndInv
<1>1. Init => ClaimsInv
  BY DEF Init, ClaimsInv, ClaimInv, ExecutorInv, DispatchAtMostOnce, ExecutorLabels, Recorded,
     Contains
<1>2. TypeInv /\ ClaimsInv => IndInv
  BY DEF TypeInv, ClaimsInv, IndInv
<1>3. QED
  BY <1>1, <1>2, TypeCorrect, ClaimsStep, PTL DEF Spec

\* However many handlers race for a proposal, its mutation is handed to the
\* provider at most once.
THEOREM OneDispatch == Spec => []DispatchAtMostOnce
  BY Inductive, PTL DEF IndInv

-----------------------------------------------------------------------------
(* Nothing reopens.                                                        *)

RowsClosed ==
  \A p \in Proposals :
    /\ status[p] \in Terminal => status'[p] = status[p]
    /\ status[p] = "outcome_unknown" => status'[p] \in {"outcome_unknown", "reconciled"}
ApprovalsClosed ==
  \A a \in Approvals :
    /\ run[a] \in TerminalRun => run'[a] = run[a]
    /\ approval[a] \notin {"none", "requested"} => approval'[a] = approval[a]

\* A status that may still be left.
Open == {"none", "executing"} \cup Pending

\* A status change from an open status.
LEMMA MoveCloses ==
  ASSUME RowType, NEW p \in Proposals, NEW s \in Statuses, Move(p, s), status[p] \in Open
  PROVE  RowsClosed
  BY DEF RowType, Move, Open, Pending, Terminal, RowsClosed

\* The reconciliation of an unknown one.
LEMMA ReconciliationCloses ==
  ASSUME RowType, NEW p \in Proposals, Move(p, "reconciled"), status[p] = "outcome_unknown"
  PROVE  RowsClosed
  BY DEF RowType, Move, Terminal, RowsClosed

\* A status that stays.
LEMMA StayCloses ==
  ASSUME Stay
  PROVE  RowsClosed
  BY DEF Stay, RowsClosed

\* The withdrawal of several open proposals.
LEMMA MoveAllCloses ==
  ASSUME NEW S, NEW s, MoveAll(S, s), \A p \in S : status[p] \in Open
  PROVE  RowsClosed
  BY DEF MoveAll, Open, Pending, Terminal, RowsClosed

\* A step of a handler reopens nothing.
LEMMA HandlerStepsClose ==
  ASSUME TypeInv, NEW h \in Handlers, Start(h) \/ Continue(h) \/ Crash(h)
  PROVE  RowsClosed /\ ApprovalsClosed
<1> DEFINE p == job[h].proposal
<1>1. RowType /\ ApprovalType
  BY TypeParts DEF TypeInv
<1>2. Fits(pc[h], job[h])
  BY DEF TypeInv, JobInv
<1>3. ASSUME UNCHANGED status PROVE RowsClosed
  BY <1>3 DEF RowsClosed
<1>4. ASSUME UNCHANGED <<approval, run>> PROVE ApprovalsClosed
  BY <1>4 DEF ApprovalsClosed
<1>5. CASE UNCHANGED Rest
  BY <1>3, <1>4, <1>5 DEF Rest, proposalRow, approvalRow
<1>6. ASSUME NEW a \in Approvals, RequestCommit(h, a) PROVE RowsClosed /\ ApprovalsClosed
  <2>1. p \in Proposals
    BY <1>2, <1>6 DEF RequestCommit, Fits, Labels, ProposalLabels
  <2>2. RowsClosed
    BY <1>1, <1>6, <2>1, MoveCloses, StayCloses DEF RequestCommit, Open, Pending, Statuses
  <2>3. run[a] = "none"
    BY <1>6 DEF RequestCommit, TypeInv, SubjectInv
  <2>4. ApprovalsClosed
    BY <1>1, <1>6, <2>3 DEF RequestCommit, ApprovalsClosed, ApprovalType, TerminalRun
  <2>5. QED
    BY <2>2, <2>4
<1>7. CASE ApproveCommit(h)
  <2>1. p \in Proposals /\ job[h].approval \in Approvals
    BY <1>2, <1>7 DEF ApproveCommit, Fits, Labels, ProposalLabels, ApprovalLabels
  <2>2. RowsClosed
    BY <1>1, <1>7, <2>1, MoveCloses, StayCloses DEF ApproveCommit, Open, Pending, Statuses
  <2>3. ApprovalsClosed
    BY <1>1, <1>7, <2>1 DEF ApproveCommit, ApprovalsClosed, ApprovalType, TerminalRun
  <2>4. QED
    BY <2>2, <2>3
<1>8. CASE ExecuteClaim(h)
  <2>1. p \in Proposals
    BY <1>2, <1>8 DEF ExecuteClaim, Fits, Labels, ProposalLabels
  <2>2. RowsClosed
    BY <1>1, <1>8, <2>1, MoveCloses, StayCloses DEF ExecuteClaim, Claimable, Open, Pending, Statuses, Terminal
  <2>3. QED
    BY <1>4, <1>8, <2>2 DEF ExecuteClaim, approvalRow
<1>9. CASE Publish(h)
  <2>1. p \in Proposals
    BY <1>2, <1>9 DEF Publish, Fits, Labels, ProposalLabels
  <2>2. job[h].answer \in Statuses
    BY <1>2, <1>9 DEF Publish, Fits, Answers, Statuses, Terminal
  <2>3. RowsClosed
    BY <1>1, <1>9, <2>1, <2>2, MoveCloses, StayCloses DEF Publish, Publishable, Open
  <2>4. QED
    BY <1>4, <1>9, <2>3 DEF Publish, approvalRow
<1>10. CASE Revoke(h)
  <2>1. p \in Proposals
    BY <1>2, <1>10 DEF Revoke, Fits, Labels, ProposalLabels
  <2>2. RowsClosed
    BY <1>1, <1>10, <2>1, MoveCloses, StayCloses DEF Revoke, Revocable, Open, Statuses
  <2>3. QED
    BY <1>4, <1>10, <2>2 DEF Revoke, approvalRow
<1>11. CASE FinishRun(h)
  <2>1. ApprovalsClosed
    BY <1>1, <1>11 DEF FinishRun, ApprovalsClosed, ApprovalType, TerminalRun
  <2>2. QED
    BY <1>3, <1>11, <2>1 DEF FinishRun, proposalRow
<1>12. CASE DenyCommit(h)
  <2>1. ApprovalsClosed
    BY <1>1, <1>12 DEF DenyCommit, ApprovalsClosed, ApprovalType, TerminalRun
  <2>2. QED
    BY <1>3, <1>12, <2>1 DEF DenyCommit, proposalRow
<1>13. CASE DenyCancel(h)
  <2>1. p \in Proposals
    BY <1>2, <1>13 DEF DenyCancel, Fits, Labels, ProposalLabels
  <2>2. RowsClosed
    BY <1>1, <1>13, <2>1, MoveCloses, StayCloses DEF DenyCancel, Deniable, Open, Pending, Statuses, Terminal
  <2>3. QED
    BY <1>4, <1>13, <2>2 DEF DenyCancel, approvalRow
<1>14. CASE KillCommit(h)
  <2>1. RowsClosed
    BY <1>14, MoveAllCloses DEF KillCommit, Killable, Open
  <2>2. ApprovalsClosed
    BY <1>14 DEF KillCommit, ApprovalsClosed, TerminalRun
  <2>3. QED
    BY <2>1, <2>2
<1>15. CASE ReconcileCommit(h)
  <2>1. p \in Proposals
    BY <1>2, <1>15 DEF ReconcileCommit, Fits, Labels, ProposalLabels
  <2>2. RowsClosed
    BY <1>1, <1>3, <1>15, <2>1, ReconciliationCloses, StayCloses DEF ReconcileCommit, Statuses, Terminal
  <2>3. QED
    BY <1>4, <1>15, <2>2 DEF ReconcileCommit, approvalRow
<1>16. CASE QuarantineCommit(h)
  <2>1. RowsClosed
    BY <1>16, MoveAllCloses DEF QuarantineCommit, Open
  <2>2. ApprovalsClosed
    BY <1>16 DEF QuarantineCommit, ApprovalsClosed, ActiveRun, TerminalRun
  <2>3. QED
    BY <2>1, <2>2
<1>17. CASE Dispatch(h)
  BY <1>3, <1>4, <1>17 DEF Dispatch, proposalRow, approvalRow
<1>18. \/ UNCHANGED Rest
       \/ \E a \in Approvals : RequestCommit(h, a)
       \/ ApproveCommit(h) \/ ExecuteClaim(h) \/ Dispatch(h) \/ Publish(h) \/ Revoke(h)
       \/ FinishRun(h) \/ DenyCommit(h) \/ DenyCancel(h) \/ KillCommit(h)
       \/ ReconcileCommit(h) \/ QuarantineCommit(h)
  BY DEF Start, Continue, Rest, RequestRead, PortExecute, ReconcileRead, ApproveRead, DenyRead,
     KillRead, QuarantineRead, RequestPreflight, ApproveRow, ExecuteRow, ExecutePreflight,
     Answered, ReconcileCall, Refuse, Crash
<1>19. QED
  BY <1>5, <1>6, <1>7, <1>8, <1>9, <1>10, <1>11, <1>12, <1>13, <1>14, <1>15, <1>16, <1>17,
     <1>18

\* Terminal proposals, terminal runs and decided approvals never change, however
\* the eight handlers that write them interleave.
THEOREM NoReopening == Spec => NothingReopens
<1>1. TypeInv /\ [Next]_vars => [Closed]_vars
  <2> SUFFICES ASSUME TypeInv, Next PROVE RowsClosed /\ ApprovalsClosed
    BY DEF RowsClosed, ApprovalsClosed, Closed
  <2>1. RowType /\ ApprovalType
    BY TypeParts DEF TypeInv
  <2>2. ASSUME NEW p \in Proposals, Propose(p) PROVE RowsClosed /\ ApprovalsClosed
    <3>1. RowsClosed
      BY <2>1, <2>2, MoveCloses DEF Propose, Open, Statuses, Pending
    <3>2. QED
      BY <2>2, <3>1 DEF Propose, ApprovalsClosed, approvalRow
  <2>3. ASSUME NEW p \in Proposals, ProviderDecides(p) PROVE RowsClosed /\ ApprovalsClosed
    BY <2>3 DEF ProviderDecides, RowsClosed, ApprovalsClosed, proposalRow, approvalRow
  <2>4. ASSUME NEW a \in Approvals, CancelRun(a) PROVE RowsClosed /\ ApprovalsClosed
    BY <2>1, <2>4 DEF CancelRun, RowsClosed, ApprovalsClosed, ApprovalType, ActiveRun,
       TerminalRun, proposalRow
  <2>5. ASSUME NEW s \in Switches, KillRelease(s) PROVE RowsClosed /\ ApprovalsClosed
    BY <2>5 DEF KillRelease, RowsClosed, ApprovalsClosed, proposalRow, approvalRow
  <2>6. QED
    BY <2>2, <2>3, <2>4, <2>5, HandlerStepsClose DEF Next
<1>2. QED
  BY <1>1, TypeCorrect, PTL DEF Spec, NothingReopens

-----------------------------------------------------------------------------
(* The ledger and the status.                                              *)

Tells(p) ==
  status[p] # "none" =>
    /\ ledger[p] # <<>>
    /\ \/ Last(ledger[p]) = EntryFor(status[p])
       \/ Last(ledger[p]) = "reviewed" /\ status[p] = "outcome_unknown"

\* The last entry is the appended one.
LEMMA LastAppended ==
  ASSUME NEW s \in Seq(Entries), NEW e \in Entries
  PROVE  Append(s, e) # <<>> /\ Last(Append(s, e)) = e
  BY DEF Last

\* Moving one proposal, or leaving all as they are.
LEMMA MoveTells ==
  ASSUME RowType, LedgerTellsStatus, NEW p \in Proposals, NEW s \in Statuses \ {"none"},
         Move(p, s) \/ Stay
  PROVE  LedgerTellsStatus'
<1>1. CASE Stay
  BY <1>1 DEF Stay, LedgerTellsStatus
<1>2. CASE Move(p, s)
  <2>1. EntryFor(s) \in Entries
    BY DEF EntryFor, Statuses, Entries, Pending, Terminal
  <2>2. ASSUME NEW q \in Proposals PROVE Tells(q)'
    <3>1. CASE q = p
      <4>1. status'[q] = s /\ ledger'[q] = Append(ledger[q], EntryFor(s))
        BY <1>2, <3>1 DEF Move, RowType
      <4>2. ledger'[q] # <<>> /\ Last(ledger'[q]) = EntryFor(status'[q])
        BY <2>1, <4>1, LastAppended DEF RowType
      <4>3. QED
        BY <4>2 DEF Tells
    <3>2. CASE q # p
      <4>1. status'[q] = status[q] /\ ledger'[q] = ledger[q] /\ Tells(q)
        BY <1>2, <3>2 DEF Move, RowType, LedgerTellsStatus, Tells
      <4>2. QED
        BY <4>1 DEF Tells
    <3>3. QED
      BY <3>1, <3>2
  <2>3. QED
    BY <2>2 DEF LedgerTellsStatus, Tells
<1>3. QED
  BY <1>1, <1>2

\* Withdrawing several.
LEMMA WithdrawTells ==
  ASSUME RowType, LedgerTellsStatus, NEW S, MoveAll(S, "cancelled")
  PROVE  LedgerTellsStatus'
<1>1. "cancelled" \in Entries /\ EntryFor("cancelled") = "cancelled"
  BY DEF EntryFor, Entries
<1>2. ASSUME NEW q \in Proposals PROVE Tells(q)'
  <2>1. CASE q \in S
    <3>1. status'[q] = "cancelled" /\ ledger'[q] = Append(ledger[q], "cancelled")
      BY <1>1, <2>1 DEF MoveAll
    <3>2. ledger'[q] # <<>> /\ Last(ledger'[q]) = "cancelled"
      BY <1>1, <3>1, LastAppended DEF RowType
    <3>3. QED
      BY <1>1, <3>1, <3>2 DEF Tells
  <2>2. CASE q \notin S
    <3>1. status'[q] = status[q] /\ ledger'[q] = ledger[q] /\ Tells(q)
      BY <2>2 DEF MoveAll, LedgerTellsStatus, Tells
    <3>2. QED
      BY <3>1 DEF Tells
  <2>3. QED
    BY <2>1, <2>2
<1>3. QED
  BY <1>2 DEF LedgerTellsStatus, Tells

\* Recording an inconclusive review.
LEMMA ReviewTells ==
  ASSUME TypeInv, LedgerTellsStatus, NEW h \in Handlers, ReconcileCommit(h)
  PROVE  LedgerTellsStatus'
<1> DEFINE p == job[h].proposal
<1>1. RowType /\ p \in Proposals
  BY TypeParts DEF TypeInv, JobInv, ReconcileCommit, Fits, Labels, ProposalLabels
<1>2. CASE job[h].answer = "reviewed"
  <2>1. ASSUME NEW q \in Proposals PROVE Tells(q)'
    <3>1. status'[q] = status[q] /\ Tells(q)
      BY <1>2 DEF ReconcileCommit, LedgerTellsStatus, Tells
    <3>2. CASE q = p /\ Reviewable(p)
      <4>1. ledger'[q] = Append(ledger[q], "reviewed") /\ status[q] = "outcome_unknown"
        BY <1>1, <1>2, <3>2 DEF ReconcileCommit, Reviewable, RowType
      <4>2. "reviewed" \in Entries
        BY DEF Entries
      <4>3. ledger'[q] # <<>> /\ Last(ledger'[q]) = "reviewed"
        BY <1>1, <4>1, <4>2, LastAppended DEF RowType
      <4>4. QED
        BY <3>1, <4>1, <4>3 DEF Tells
    <3>3. CASE ~(q = p /\ Reviewable(p))
      <4>1. ledger'[q] = ledger[q]
        BY <1>1, <1>2, <3>3 DEF ReconcileCommit, RowType
      <4>2. QED
        BY <3>1, <4>1 DEF Tells
    <3>4. QED
      BY <3>2, <3>3
  <2>2. QED
    BY <2>1 DEF LedgerTellsStatus, Tells
<1>3. CASE job[h].answer # "reviewed"
  BY <1>1, <1>3, MoveTells DEF ReconcileCommit, Statuses, Terminal
<1>4. QED
  BY <1>2, <1>3

\* A step of a handler leaves the ledger telling the status.
LEMMA HandlerStepsTell ==
  ASSUME TypeInv, LedgerTellsStatus, NEW h \in Handlers, Start(h) \/ Continue(h) \/ Crash(h)
  PROVE  LedgerTellsStatus'
<1> DEFINE p == job[h].proposal
<1>1. RowType /\ Fits(pc[h], job[h])
  BY TypeParts DEF TypeInv, JobInv
<1>2. pc[h] \in ProposalLabels => p \in Proposals
  BY <1>1 DEF Fits
<1>3. \A s \in Statuses \ {"none"} :
        p \in Proposals /\ (Move(p, s) \/ Stay) => LedgerTellsStatus'
  BY <1>1, MoveTells
<1>4. CASE UNCHANGED <<status, ledger>>
  BY <1>4 DEF LedgerTellsStatus
<1>5. ASSUME NEW a \in Approvals, RequestCommit(h, a) PROVE LedgerTellsStatus'
  BY <1>2, <1>3, <1>5 DEF RequestCommit, Labels, ProposalLabels, Statuses, Pending
<1>6. CASE ApproveCommit(h)
  BY <1>2, <1>3, <1>6 DEF ApproveCommit, Labels, ProposalLabels, Statuses, Pending
<1>7. CASE ExecuteClaim(h)
  BY <1>2, <1>3, <1>7 DEF ExecuteClaim, Labels, ProposalLabels, Statuses
<1>8. CASE Publish(h)
  <2>1. job[h].answer \in Statuses \ {"none"} /\ p \in Proposals
    BY <1>1, <1>2, <1>8 DEF Publish, Fits, Answers, Statuses, Terminal, Labels, ProposalLabels
  <2>2. QED
    BY <1>3, <1>8, <2>1 DEF Publish
<1>9. CASE Revoke(h)
  BY <1>2, <1>3, <1>9 DEF Revoke, Labels, ProposalLabels, Statuses
<1>10. CASE DenyCancel(h)
  BY <1>2, <1>3, <1>10 DEF DenyCancel, Labels, ProposalLabels, Statuses, Terminal
<1>11. CASE KillCommit(h) \/ QuarantineCommit(h)
  BY <1>1, <1>11, WithdrawTells DEF KillCommit, QuarantineCommit
<1>12. CASE ReconcileCommit(h)
  BY <1>12, ReviewTells
<1>13. \/ UNCHANGED <<status, ledger>>
       \/ \E a \in Approvals : RequestCommit(h, a)
       \/ ApproveCommit(h) \/ ExecuteClaim(h) \/ Publish(h) \/ Revoke(h) \/ DenyCancel(h)
       \/ KillCommit(h) \/ ReconcileCommit(h) \/ QuarantineCommit(h)
  BY DEF Start, Continue, RequestRead, PortExecute, ReconcileRead, ApproveRead, DenyRead,
     KillRead, QuarantineRead, RequestPreflight, ApproveRow, ExecuteRow, ExecutePreflight,
     Answered, ReconcileCall, Refuse, Crash, Dispatch, FinishRun, DenyCommit, proposalRow
<1>14. QED
  BY <1>4, <1>5, <1>6, <1>7, <1>8, <1>9, <1>10, <1>11, <1>12, <1>13

\* The newest ledger entry tells the proposal's status: no batch of any handler
\* appends an entry whose update it does not win, or the other way round.
THEOREM LedgerTold == Spec => []LedgerTellsStatus
<1>1. Init => LedgerTellsStatus
  BY DEF Init, LedgerTellsStatus
<1>2. TypeInv /\ LedgerTellsStatus /\ [Next]_vars => LedgerTellsStatus'
  <2> SUFFICES ASSUME TypeInv, LedgerTellsStatus, [Next]_vars PROVE LedgerTellsStatus'
    OBVIOUS
  <2>1. CASE UNCHANGED <<status, ledger>>
    BY <2>1 DEF LedgerTellsStatus
  <2>2. ASSUME NEW p \in Proposals, Propose(p) PROVE LedgerTellsStatus'
    BY <2>2, TypeParts, MoveTells DEF TypeInv, Propose, Statuses, Pending
  <2>3. QED
    BY <2>1, <2>2, HandlerStepsTell DEF Next, ProviderDecides, CancelRun, KillRelease, vars,
       proposalRow
<1>3. QED
  BY <1>1, <1>2, TypeCorrect, PTL DEF Spec

-----------------------------------------------------------------------------
(* ActionAuthority implements ActionLifecycle for every number of          *)
(* proposals, approvals, handlers and switches.                            *)

AbstractStep == Lifecycle!Next \/ UNCHANGED <<status, Effect>>

\* A step that neither claims nor calls leaves the right to call as it is.
LEMMA EffectKept ==
  ASSUME KeepsClaims
  PROVE  Effect' = Effect
  BY DEF KeepsClaims, Effect

\* A change of one proposal's status is an abstract one.
LEMMA MoveAdvances ==
  ASSUME RowType, NEW p \in Proposals, NEW from, NEW to, status[p] = from, Move(p, to),
         Effect' = Effect
  PROVE  Lifecycle!Advance(p, from, to)
  BY DEF Move, Lifecycle!Advance

\* The withdrawal of several proposals is one abstract step.
LEMMA MoveAllWithdraws ==
  ASSUME NEW S \in SUBSET Proposals, MoveAll(S, "cancelled"), Effect' = Effect,
         \A p \in S : status[p] \in Pending \cup {"executing"}
  PROVE  AbstractStep
<1>1. Lifecycle!Withdraw(S)
  BY DEF MoveAll, Pending, Lifecycle!Withdraw, Lifecycle!Withdrawable
<1>2. QED
  BY <1>1 DEF AbstractStep, Lifecycle!Next

\* The steps that write no proposal map to a stutter.
LEMMA QuietStepsStutter ==
  ASSUME KeepsClaims, UNCHANGED status
  PROVE  AbstractStep
  BY EffectKept DEF AbstractStep

\* Every step of a handler maps to one abstract step or to a stutter.
LEMMA HandlerStepsRefine ==
  ASSUME TypeInv, ClaimsInv, NEW h \in Handlers, Start(h) \/ Continue(h) \/ Crash(h)
  PROVE  AbstractStep
<1> DEFINE p == job[h].proposal
<1>1. RowType /\ Fits(pc[h], job[h]) /\ dispatches \in [Proposals -> Nat]
  BY TypeParts DEF TypeInv, JobInv
<1>2. pc[h] \in ProposalLabels => p \in Proposals
  BY <1>1 DEF Fits
<1>3. CASE \/ Start(h)
           \/ RequestPreflight(h) \/ ApproveRow(h) \/ ExecuteRow(h) \/ ExecutePreflight(h)
           \/ \E answer \in Answers : Answered(h, answer)
           \/ \E answer \in {"reconciled", "reviewed"} : ReconcileCall(h, answer)
           \/ Refuse(h) \/ Crash(h) \/ DenyCommit(h) \/ FinishRun(h)
  <2>1. KeepsClaims
    BY <1>3, QuietStepsKeepClaims
  <2>2. UNCHANGED status
    BY <1>3 DEF Start, RequestRead, PortExecute, ReconcileRead, ApproveRead, DenyRead, KillRead,
       QuarantineRead, RequestPreflight, ApproveRow, ExecuteRow, ExecutePreflight, Answered,
       ReconcileCall, Refuse, Crash, DenyCommit, FinishRun, proposalRow
  <2>3. QED
    BY <2>1, <2>2, QuietStepsStutter
<1>4. ASSUME NEW a \in Approvals, RequestCommit(h, a) PROVE AbstractStep
  <2>1. p \in Proposals
    BY <1>2, <1>4 DEF RequestCommit, Labels, ProposalLabels
  <2>2. KeepsClaims /\ Effect' = Effect
    BY <1>4, RowStepsKeepClaims, EffectKept
  <2>3. CASE status[p] = "proposed"
    <3>1. Move(p, "approval_requested")
      BY <1>4, <2>3 DEF RequestCommit
    <3>2. Lifecycle!RequestApproval(p)
      BY <1>1, <2>1, <2>2, <2>3, <3>1, MoveAdvances DEF Lifecycle!RequestApproval
    <3>3. QED
      BY <2>1, <3>2 DEF AbstractStep, Lifecycle!Next
  <2>4. CASE status[p] # "proposed"
    BY <1>4, <2>2, <2>4, QuietStepsStutter DEF RequestCommit, Stay
  <2>5. QED
    BY <2>3, <2>4
<1>5. CASE ApproveCommit(h)
  <2>1. p \in Proposals
    BY <1>2, <1>5 DEF ApproveCommit, Labels, ProposalLabels
  <2>2. KeepsClaims /\ Effect' = Effect
    BY <1>5, RowStepsKeepClaims, EffectKept
  <2>3. CASE status[p] = "approval_requested"
    <3>1. Move(p, "approved")
      BY <1>5, <2>3 DEF ApproveCommit
    <3>2. Lifecycle!Approve(p)
      BY <1>1, <2>1, <2>2, <2>3, <3>1, MoveAdvances DEF Lifecycle!Approve
    <3>3. QED
      BY <2>1, <3>2 DEF AbstractStep, Lifecycle!Next
  <2>4. CASE status[p] # "approval_requested"
    BY <1>5, <2>2, <2>4, QuietStepsStutter DEF ApproveCommit, Stay
  <2>5. QED
    BY <2>3, <2>4
<1>6. CASE ExecuteClaim(h)
  <2>1. p \in Proposals
    BY <1>2, <1>6 DEF ExecuteClaim, Labels, ProposalLabels
  <2>2. CASE Claimable(h)
    <3>1. Move(p, "executing") /\ UNCHANGED dispatches
      BY <1>6, <2>2 DEF ExecuteClaim, external
    <3>2. status[p] = "approved" /\ dispatches[p] = 0 /\ ~Recorded(p, "executing")
      BY <2>1, <2>2 DEF Claimable, Unclaimed, Pending, ClaimsInv, ClaimInv
    <3>3. \A q \in Proposals :
            Recorded(q, "executing")' <=> Recorded(q, "executing") \/ q = p
      BY <1>1, <2>1, <3>1, MoveRecords DEF Statuses
    <3>4. Effect[p] = "none" /\ Effect' = [Effect EXCEPT ![p] = "authorized"]
      BY <2>1, <3>1, <3>2, <3>3 DEF Effect
    <3>5. Lifecycle!Claim(p)
      BY <3>1, <3>2, <3>4 DEF Move, Lifecycle!Claim
    <3>6. QED
      BY <2>1, <3>5 DEF AbstractStep, Lifecycle!Next
  <2>3. CASE ~Claimable(h)
    BY <1>6, <2>3 DEF ExecuteClaim, Stay, external, AbstractStep, Effect, Recorded
  <2>4. QED
    BY <2>2, <2>3
<1>7. CASE Dispatch(h)
  <2>1. p \in Proposals
    BY <1>2, <1>7 DEF Dispatch, Labels, ProposalLabels
  <2>2. dispatches[p] = 0 /\ Recorded(p, "executing")
    BY <1>7 DEF Dispatch, ExecutorLabels, ClaimsInv, ClaimInv
  <2>3. /\ dispatches' = [dispatches EXCEPT ![p] = 1]
        /\ UNCHANGED <<status, ledger>>
    BY <1>7, <2>2 DEF Dispatch, proposalRow
  <2>4. Effect[p] = "authorized" /\ Effect' = [Effect EXCEPT ![p] = "dispatched"]
    BY <1>1, <2>1, <2>2, <2>3 DEF Effect, Recorded
  <2>5. Lifecycle!Dispatch(p)
    BY <2>3, <2>4 DEF Lifecycle!Dispatch
  <2>6. QED
    BY <2>1, <2>5 DEF AbstractStep, Lifecycle!Next
<1>8. CASE Publish(h) \/ Revoke(h)
  <2>1. p \in Proposals
    BY <1>2, <1>8 DEF Publish, Revoke, Labels, ProposalLabels
  <2>2. KeepsClaims /\ Effect' = Effect
    BY <1>8, RowStepsKeepClaims, EffectKept
  <2>3. Effect[p] = "dispatched"
    BY <1>1, <1>8, <2>1 DEF Publish, Revoke, ExecutorLabels, ClaimsInv, ClaimInv, Effect
  <2>4. CASE Stay
    BY <2>2, <2>4, QuietStepsStutter DEF Stay
  <2>5. ASSUME NEW s \in Answers, Move(p, s), status[p] = "executing" PROVE AbstractStep
    <3>1. Lifecycle!Advance(p, "executing", s)
      BY <1>1, <2>1, <2>2, <2>5, MoveAdvances
    <3>2. Lifecycle!Settle(p, s) /\ s \in Lifecycle!Results
      BY <2>3, <3>1 DEF Lifecycle!Settle, Lifecycle!Results, Answers
    <3>3. QED
      BY <2>1, <3>2 DEF AbstractStep, Lifecycle!Next
  <2>6. CASE Publish(h)
    <3>1. job[h].answer \in Answers
      BY <1>1, <2>6 DEF Publish, Fits
    <3>2. QED
      BY <2>4, <2>5, <2>6, <3>1 DEF Publish, Publishable
  <2>7. CASE Revoke(h)
    BY <2>4, <2>5, <2>7 DEF Revoke, Revocable, Answers
  <2>8. QED
    BY <1>8, <2>6, <2>7
<1>9. CASE DenyCancel(h)
  <2>1. p \in Proposals
    BY <1>2, <1>9 DEF DenyCancel, Labels, ProposalLabels
  <2>2. KeepsClaims /\ Effect' = Effect
    BY <1>9, RowStepsKeepClaims, EffectKept
  <2>3. CASE Deniable(p)
    <3>1. Move(p, "cancelled")
      BY <1>9, <2>3 DEF DenyCancel
    <3>2. status' = [q \in Proposals |-> IF q \in {p} THEN "cancelled" ELSE status[q]]
      BY <1>1, <2>1, <3>1 DEF Move, RowType
    <3>3. Lifecycle!Withdraw({p}) /\ {p} \in SUBSET Proposals
      BY <2>1, <2>2, <2>3, <3>2 DEF Deniable, Lifecycle!Withdraw, Lifecycle!Withdrawable
    <3>4. QED
      BY <3>3 DEF AbstractStep, Lifecycle!Next
  <2>4. CASE ~Deniable(p)
    BY <1>9, <2>2, <2>4, QuietStepsStutter DEF DenyCancel, Stay
  <2>5. QED
    BY <2>3, <2>4
<1>10. CASE KillCommit(h) \/ QuarantineCommit(h)
  <2>1. KeepsClaims /\ Effect' = Effect
    BY <1>10, RowStepsKeepClaims, EffectKept
  <2>2. PICK S \in SUBSET Proposals :
          MoveAll(S, "cancelled") /\ \A q \in S : status[q] \in Pending \cup {"executing"}
    <3>1. CASE KillCommit(h)
      <4> DEFINE affected == {q \in Proposals : \E a \in Approvals \cup {None} :
                                <<q, a>> \in job[h].affected}
                 S == {q \in affected : Killable(q)}
      <4>1. MoveAll(S, "cancelled") /\ S \in SUBSET Proposals
        BY <3>1 DEF KillCommit
      <4>2. \A q \in S : status[q] \in Pending
        BY DEF Killable
      <4>3. QED
        BY <4>1, <4>2
    <3>2. CASE QuarantineCommit(h)
      <4> DEFINE S == {q \in Proposals : status[q] \in Pending \cup {"executing"}}
      <4>1. MoveAll(S, "cancelled")
        BY <3>2 DEF QuarantineCommit
      <4>2. QED
        BY <4>1
    <3>3. QED
      BY <1>10, <3>1, <3>2
  <2>3. QED
    BY <2>1, <2>2, MoveAllWithdraws
<1>11. CASE ReconcileCommit(h)
  <2>1. p \in Proposals
    BY <1>2, <1>11 DEF ReconcileCommit, Labels, ProposalLabels
  <2>2. KeepsClaims /\ Effect' = Effect
    BY <1>11, RowStepsKeepClaims, EffectKept
  <2>3. CASE UNCHANGED status
    BY <2>2, <2>3, QuietStepsStutter
  <2>4. CASE status[p] = "outcome_unknown" /\ Move(p, "reconciled")
    <3>1. Lifecycle!Reconcile(p)
      BY <1>1, <2>1, <2>2, <2>4, MoveAdvances DEF Lifecycle!Reconcile
    <3>2. QED
      BY <2>1, <3>1 DEF AbstractStep, Lifecycle!Next
  <2>5. QED
    BY <1>11, <2>3, <2>4 DEF ReconcileCommit, Stay
<1>12. QED
  BY <1>3, <1>4, <1>5, <1>6, <1>7, <1>8, <1>9, <1>10, <1>11 DEF Continue

\* So does every step no handler takes.
LEMMA OtherStepsRefine ==
  ASSUME TypeInv,
         \/ \E p \in Proposals : Propose(p) \/ ProviderDecides(p)
         \/ \E a \in Approvals : CancelRun(a)
         \/ \E s \in Switches : KillRelease(s)
         \/ UNCHANGED vars
  PROVE  AbstractStep
<1>1. RowType
  BY TypeParts DEF TypeInv
<1>2. KeepsClaims /\ Effect' = Effect
  BY OtherStepsKeepClaims, EffectKept
<1>3. ASSUME NEW p \in Proposals, Propose(p) PROVE AbstractStep
  <2>1. Lifecycle!Propose(p)
    BY <1>1, <1>2, <1>3, MoveAdvances DEF Propose, Lifecycle!Propose
  <2>2. QED
    BY <2>1 DEF AbstractStep, Lifecycle!Next
<1>4. CASE UNCHANGED status
  BY <1>2, <1>4, QuietStepsStutter
<1>5. QED
  BY <1>3, <1>4 DEF ProviderDecides, CancelRun, KillRelease, vars, proposalRow

\* The handlers, however they interleave, crash or read stale rows, implement the
\* lifecycle: nothing is handed over without a claim of an approved proposal, no
\* claim is used twice, and no result is recorded without a call.
THEOREM Refinement == Spec => ImplementsLifecycle
<1>1. Init => Lifecycle!Init
  BY DEF Init, Lifecycle!Init, Effect, Recorded, Contains
<1>2. IndInv /\ [Next]_vars => [Lifecycle!Next]_(Lifecycle!vars)
  <2> SUFFICES ASSUME IndInv, [Next]_vars PROVE AbstractStep
    BY DEF AbstractStep, Lifecycle!vars
  <2>1. TypeInv /\ ClaimsInv
    BY DEF IndInv, TypeInv, ClaimsInv
  <2>2. QED
    BY <2>1, HandlerStepsRefine, OtherStepsRefine DEF Next
<1>3. QED
  BY <1>1, <1>2, Inductive, PTL DEF Spec, ImplementsLifecycle, Lifecycle!Spec
-----------------------------------------------------------------------------
(* Approvals, runs, proposals and calls tell the same story, with lost     *)
(* invocations and with the deletion of the workspace. The rows are        *)
(* written by different batches of different handlers; what makes them     *)
(* agree is what each handler knows between two of its batches.            *)

\* Where a handler is after its approval was granted.
AfterApproval == {"execute_row", "execute_preflight", "execute_claim", "finish"} \cup ExecutorLabels

\* A run closed with a result fits its proposal's status.
Fitting(s, result) ==
  IF result = "completed" THEN s \in {"executed", "reconciled"}
  ELSE s \in {"failed", "outcome_unknown", "reconciled"}

\* What the rows owe to each other.
RowAccount ==
  /\ \A p \in Proposals : status[p] \in {"none", "proposed"} => approvalOf[p] = None
  /\ \A a \in Approvals : approval[a] # "none" => run[a] # "none"
  /\ OnlyNamedApprovalAuthorizes
  /\ RunOutcomeAgrees

\* What a handler with an approval in hand knows of it: the approval is that of its
\* proposal; once it has been found to be the one the proposal names, it stays so;
\* and while the run is under way, nobody but the executor ends the execution.
HandlerAccount(h) ==
  job[h].approval # None =>
    /\ approval[job[h].approval] # "none"
    /\ subject[job[h].approval] = job[h].proposal
    /\ pc[h] \in {"approve_commit"} \cup AfterApproval =>
         approvalOf[job[h].proposal] = job[h].approval
    /\ pc[h] \in AfterApproval => run[job[h].approval] # "interrupted"
    /\ run[job[h].approval] = "running" =>
         /\ pc[h] \in ExecutorLabels => status[job[h].proposal] = "executing"
         /\ pc[h] = "finish" => Fitting(status[job[h].proposal], RunResult(job[h].answer))

AccountInv == RowAccount /\ \A h \in Handlers : HandlerAccount(h)

\* Approvals are never taken back or given another subject, the one a proposal
\* names is never replaced, and runs do not go back to waiting.
Advances ==
  /\ \A p \in Proposals : approvalOf[p] # None => approvalOf'[p] = approvalOf[p]
  /\ \A a \in Approvals :
       /\ approval[a] # "none" => approval'[a] # "none" /\ subject'[a] = subject[a]
       /\ run[a] # "none" => run'[a] # "none" /\ (run'[a] = "interrupted" => run[a] = "interrupted")
       /\ run'[a] = "running" => run[a] \in {"running", "interrupted"}

\* An approval that is granted is the one its proposal names, a run that is closed
\* with a result fits its proposal, and a proposal gets a name only when it leaves
\* "proposed".
RowsAccountFor ==
  /\ \A p \in Proposals : status'[p] \in {"none", "proposed"} =>
       status[p] \in {"none", "proposed"} /\ approvalOf'[p] = approvalOf[p]
  /\ \A a \in Approvals :
       /\ approval'[a] # "none" => approval[a] # "none" \/ run'[a] # "none"
       /\ approval'[a] = "approved" => approval[a] = "approved" \/ approvalOf'[subject'[a]] = a
       /\ run'[a] \in {"completed", "failed"} =>
            run'[a] = run[a] \/ Fitting(status'[subject'[a]], run'[a])

\* The rows keep their account.
LEMMA RowsKeepAccount ==
  ASSUME TypeInv, RowAccount, Advances, RowsClosed, RowsAccountFor
  PROVE  RowAccount'
<1>1. ApprovalType /\ SubjectInv
  BY TypeParts DEF TypeInv
<1>2. ASSUME NEW p \in Proposals, status'[p] \in {"none", "proposed"} PROVE approvalOf'[p] = None
  BY <1>2 DEF RowAccount, RowsAccountFor
<1>3. ASSUME NEW a \in Approvals, approval'[a] # "none" PROVE run'[a] # "none"
  BY <1>3 DEF RowAccount, RowsAccountFor, Advances
<1>4. ASSUME NEW a \in Approvals, approval'[a] = "approved" PROVE approvalOf'[subject'[a]] = a
  <2>1. CASE approval[a] = "approved"
    <3>1. subject'[a] = subject[a] /\ subject[a] \in Proposals
      BY <1>1, <2>1 DEF Advances, SubjectInv
    <3>2. approvalOf[subject[a]] = a /\ a # None
      BY <2>1 DEF RowAccount, OnlyNamedApprovalAuthorizes
    <3>3. QED
      BY <3>1, <3>2 DEF Advances
  <2>2. QED
    BY <1>4, <2>1 DEF RowsAccountFor
<1>5. ASSUME NEW a \in Approvals, run'[a] \in {"completed", "failed"}
      PROVE  Fitting(status'[subject'[a]], run'[a])
  <2>1. CASE run'[a] = run[a]
    <3>1. subject'[a] = subject[a] /\ subject[a] \in Proposals
      BY <1>1, <1>5, <2>1 DEF Advances, SubjectInv
    <3>2. Fitting(status[subject[a]], run[a])
      BY <1>5, <2>1 DEF RowAccount, RunOutcomeAgrees, Fitting
    <3>3. QED
      BY <2>1, <3>1, <3>2 DEF RowsClosed, Fitting, Terminal
  <2>2. QED
    BY <1>5, <2>1 DEF RowsAccountFor
<1>6. OnlyNamedApprovalAuthorizes'
  BY <1>4 DEF OnlyNamedApprovalAuthorizes
<1>7. RunOutcomeAgrees'
  BY <1>5 DEF RunOutcomeAgrees, Fitting
<1>8. QED
  BY <1>2, <1>3, <1>6, <1>7 DEF RowAccount

\* A handler that does not move keeps its account, if nobody ends its execution
\* while its run goes on.
LEMMA OthersKeepAccount ==
  ASSUME TypeInv, RowAccount, Advances, RowsClosed, NEW g \in Handlers, HandlerAccount(g),
         pc'[g] = pc[g], job'[g] = job[g],
         pc[g] \in ExecutorLabels /\ status[job[g].proposal] = "executing" =>
           status'[job[g].proposal] = "executing" \/ \A a \in Approvals : run'[a] # "running"
  PROVE  HandlerAccount(g)'
<1> DEFINE a == job[g].approval
           p == job[g].proposal
<1> SUFFICES ASSUME a # None PROVE HandlerAccount(g)'
  BY DEF HandlerAccount
<1>1. a \in Approvals /\ approval[a] # "none" /\ subject[a] = p /\ p \in Proposals
  BY TypeParts DEF TypeInv, LocalType, Jobs, HandlerAccount, SubjectInv
<1>2. run[a] # "none"
  BY <1>1 DEF RowAccount
<1>3. approval'[a] # "none" /\ subject'[a] = p
  BY <1>1 DEF Advances
<1>4. pc[g] \in {"approve_commit"} \cup AfterApproval => approvalOf'[p] = a
  BY <1>1 DEF HandlerAccount, Advances
<1>5. pc[g] \in AfterApproval => run'[a] # "interrupted"
  BY <1>1, <1>2 DEF HandlerAccount, Advances
<1>6. ASSUME run'[a] = "running", pc[g] \in ExecutorLabels PROVE status'[p] = "executing"
  <2>1. run[a] = "running"
    BY <1>1, <1>6 DEF Advances, HandlerAccount, AfterApproval
  <2>2. QED
    BY <1>1, <1>6, <2>1 DEF HandlerAccount
<1>7. ASSUME run'[a] = "running", pc[g] = "finish"
      PROVE  Fitting(status'[p], RunResult(job[g].answer))
  <2>1. run[a] = "running"
    BY <1>1, <1>7 DEF Advances, HandlerAccount, AfterApproval
  <2>2. Fitting(status[p], RunResult(job[g].answer))
    BY <1>7, <2>1 DEF HandlerAccount
  <2>3. QED
    BY <1>1, <2>2 DEF RowsClosed, Fitting, Terminal
<1>8. QED
  BY <1>3, <1>4, <1>5, <1>6, <1>7 DEF HandlerAccount

\* A handler that ends, or starts with no approval, owes nothing.
LEMMA NothingHeld ==
  ASSUME TypeInv, NEW h \in Handlers, job'[h].approval = None
  PROVE  HandlerAccount(h)'
  BY DEF HandlerAccount

\* So does one that ends.
LEMMA EndOwesNothing ==
  ASSUME TypeInv, NEW h \in Handlers, End(h)
  PROVE  HandlerAccount(h)'
<1>1. job'[h] = NoJob
  BY TypeParts DEF TypeInv, LocalType, End, GotoWith
<1>2. QED
  BY <1>1, NothingHeld DEF NoJob

\* What a step of handler h has to show.
Accounts(h) ==
  /\ Advances
  /\ RowsAccountFor
  /\ HandlerAccount(h)'
  /\ \A g \in Handlers \ {h} : pc'[g] = pc[g] /\ job'[g] = job[g]
  /\ \A g \in Handlers \ {h} :
       pc[g] \in ExecutorLabels /\ status[job[g].proposal] = "executing" =>
         status'[job[g].proposal] = "executing" \/ \A a \in Approvals : run'[a] # "running"

\* It is enough.
LEMMA AccountsKeeps ==
  ASSUME TypeInv, AccountInv, RowsClosed, NEW h \in Handlers, Accounts(h)
  PROVE  AccountInv'
<1>1. RowAccount'
  BY RowsKeepAccount DEF AccountInv, Accounts
<1>2. ASSUME NEW g \in Handlers PROVE HandlerAccount(g)'
  <2>1. CASE g = h
    BY <2>1 DEF Accounts
  <2>2. CASE g # h
    BY <2>2, OthersKeepAccount DEF AccountInv, Accounts
  <2>3. QED
    BY <2>1, <2>2
<1>3. QED
  BY <1>1, <1>2 DEF AccountInv

\* Rows that stay give no trouble.
LEMMA RowsStay ==
  ASSUME UNCHANGED <<status, approvalOf, approval, subject, run>>, TypeInv, RowAccount
  PROVE  Advances /\ RowsAccountFor
  BY DEF Advances, RowsAccountFor

\* A handler that reads on with the approval it has.
LEMMA ReadsOn ==
  ASSUME TypeInv, AccountInv, NEW h \in Handlers,
         UNCHANGED <<status, approvalOf, approval, subject, run>>,
         job'[h].approval = job[h].approval, job'[h].proposal = job[h].proposal,
         pc'[h] \in {"approve_commit"} \cup AfterApproval =>
           \/ pc[h] \in {"approve_commit"} \cup AfterApproval
           \/ approvalOf[job[h].proposal] = job[h].approval,
         pc'[h] \in AfterApproval => pc[h] \in AfterApproval,
         pc'[h] \in ExecutorLabels => pc[h] \in ExecutorLabels,
         pc'[h] # "finish"
  PROVE  HandlerAccount(h)'
<1>1. HandlerAccount(h)
  BY DEF AccountInv
<1>2. QED
  BY <1>1 DEF HandlerAccount

\* Moving a handler moves no other.
LEMMA Moves ==
  ASSUME LocalType, NEW h \in Handlers, NEW l, NEW j, GotoWith(h, l, j)
  PROVE  /\ pc'[h] = l /\ job'[h] = j
         /\ \A g \in Handlers \ {h} : pc'[g] = pc[g] /\ job'[g] = job[g]
  BY DEF LocalType, GotoWith

\* Moving on with the job it has is such a move.
LEMMA GotoIsGotoWith ==
  ASSUME LocalType, NEW h \in Handlers, NEW l, Goto(h, l)
  PROVE  GotoWith(h, l, job[h])
  BY DEF LocalType, Goto, GotoWith

\* The steps of handler h that only read.
Reads(h) ==
  \/ Start(h) \/ RequestPreflight(h) \/ ApproveRow(h) \/ ExecuteRow(h) \/ ExecutePreflight(h)
  \/ \E answer \in Answers : Answered(h, answer)
  \/ \E answer \in {"reconciled", "reviewed"} : ReconcileCall(h, answer)
  \/ Refuse(h) \/ Crash(h)

\* They leave all rows alone.
LEMMA ReadsChangeNoRow ==
  ASSUME NEW h \in Handlers, Reads(h)
  PROVE  UNCHANGED Rest
  BY DEF Reads, Start, Rest, RequestRead, PortExecute, ReconcileRead, ApproveRead, DenyRead,
     KillRead, QuarantineRead, RequestPreflight, ApproveRow, ExecuteRow, ExecutePreflight,
     Answered, ReconcileCall, Refuse, Crash

\* And they account for themselves.
LEMMA ReadsKeepAccount ==
  ASSUME TypeInv, AccountInv, NEW h \in Handlers, Reads(h)
  PROVE  Accounts(h)
<1> DEFINE a == job[h].approval
           p == job[h].proposal
<1> USE DEF AfterApproval, ExecutorLabels
<1>1. LocalType /\ RowType /\ ApprovalType
  BY TypeParts DEF TypeInv
<1>2. UNCHANGED <<status, approvalOf, approval, subject, run>>
  BY ReadsChangeNoRow DEF Rest, proposalRow, approvalRow
<1>3. Advances /\ RowsAccountFor
  BY <1>2, RowsStay DEF AccountInv
<1>4. job[h] \in Jobs
  BY <1>1 DEF LocalType
<1>5. ASSUME NEW l, NEW j, GotoWith(h, l, j), HandlerAccount(h)'
      PROVE  Accounts(h)
  BY <1>1, <1>2, <1>3, <1>5, Moves DEF Accounts
<1>6. ASSUME NEW l, NEW j, Begin(h, l, j), j.approval = None PROVE Accounts(h)
  <2>1. GotoWith(h, l, j)
    BY <1>6 DEF Begin, GotoWith
  <2>2. job'[h] = j
    BY <1>1, <2>1, Moves
  <2>3. QED
    BY <1>5, <1>6, <2>1, <2>2, NothingHeld
<1>7. CASE End(h)
  BY <1>5, <1>7, EndOwesNothing DEF End
<1>8. CASE Start(h)
  <2>1. ASSUME NEW b \in Approvals, NEW l, l \in {"approve_row", "deny_commit"},
               approval[b] = "requested",
               Begin(h, l, [NoJob EXCEPT !.approval = b, !.proposal = subject[b]])
        PROVE  Accounts(h)
    <3>1. GotoWith(h, l, [NoJob EXCEPT !.approval = b, !.proposal = subject[b]])
      BY <2>1 DEF Begin, GotoWith
    <3>2. pc'[h] = l /\ job'[h] = [NoJob EXCEPT !.approval = b, !.proposal = subject[b]]
      BY <1>1, <3>1, Moves
    <3>3. HandlerAccount(h)'
      BY <1>2, <2>1, <3>2 DEF HandlerAccount, NoJob
    <3>4. QED
      BY <1>5, <3>1, <3>3
  <2>2. QED
    BY <1>6, <1>8, <2>1 DEF Start, RequestRead, PortExecute, ReconcileRead, ApproveRead, DenyRead,
       KillRead, QuarantineRead, NoJob
<1>9. ASSUME NEW l, NEW j, GotoWith(h, l, j), j.approval = a, j.proposal = p,
             \/ pc[h] \in {"request_preflight", "reconcile_call"} /\ l \in {"request_commit", "reconcile_commit"}
             \/ pc[h] = "approve_row" /\ l = "approve_commit" /\ Awaits(p, a)
             \/ pc[h] = "execute_row" /\ l = "execute_preflight"
             \/ pc[h] = "execute_preflight" /\ l = "execute_claim"
             \/ pc[h] = "await" /\ l = "publish"
      PROVE  Accounts(h)
  <2>1. pc'[h] = l /\ job'[h].approval = a /\ job'[h].proposal = p
    BY <1>1, <1>9, Moves
  <2>2. HandlerAccount(h)'
    BY <1>2, <1>9, <2>1, ReadsOn DEF Awaits
  <2>3. QED
    BY <1>5, <1>9, <2>2
<1>10. ASSUME NEW l, Goto(h, l) PROVE GotoWith(h, l, job[h])
  BY <1>1, <1>10, GotoIsGotoWith
<1>11. CASE RequestPreflight(h)
  BY <1>9, <1>10, <1>11 DEF RequestPreflight
<1>12. CASE ApproveRow(h)
  BY <1>7, <1>9, <1>10, <1>12 DEF ApproveRow
<1>13. CASE ExecuteRow(h)
  BY <1>4, <1>7, <1>9, <1>13 DEF ExecuteRow, Jobs
<1>14. CASE ExecutePreflight(h)
  BY <1>9, <1>10, <1>14 DEF ExecutePreflight
<1>15. ASSUME NEW answer \in Answers, Answered(h, answer) PROVE Accounts(h)
  BY <1>4, <1>9, <1>15 DEF Answered, Jobs
<1>16. ASSUME NEW answer \in {"reconciled", "reviewed"}, ReconcileCall(h, answer) PROVE Accounts(h)
  BY <1>4, <1>9, <1>16 DEF ReconcileCall, Jobs
<1>17. CASE Refuse(h) \/ Crash(h)
  BY <1>7, <1>17 DEF Refuse, Crash
<1>18. QED
  BY <1>8, <1>11, <1>12, <1>13, <1>14, <1>15, <1>16, <1>17 DEF Reads

\* A request names its approval only if the proposal had none.
LEMMA RequestKeepsAccount ==
  ASSUME TypeInv, AccountInv, NEW h \in Handlers, NEW a \in Approvals, RequestCommit(h, a)
  PROVE  Accounts(h)
<1> DEFINE p == job[h].proposal
<1>1. LocalType /\ RowType /\ ApprovalType /\ approvalOf \in [Proposals -> Approvals \cup {None}]
  BY TypeParts DEF TypeInv
<1>2. p \in Proposals
  BY DEF TypeInv, JobInv, RequestCommit, Fits, Labels, ProposalLabels
<1>3. run[a] = "none" /\ approval[a] = "none" /\ End(h)
  BY DEF RequestCommit, TypeInv, SubjectInv
<1>4. /\ approval' = [approval EXCEPT ![a] = "requested"]
      /\ subject' = [subject EXCEPT ![a] = p]
      /\ run' = [run EXCEPT ![a] = "interrupted"]
  BY DEF RequestCommit
<1>5. ASSUME NEW q \in Proposals PROVE
        \/ status'[q] = status[q] /\ approvalOf'[q] = approvalOf[q]
        \/ status[q] = "proposed" /\ status'[q] = "approval_requested"
  BY <1>1, <1>2 DEF RequestCommit, RowType, Move, Stay
<1>6. Advances
  BY <1>1, <1>3, <1>4, <1>5 DEF Advances, ApprovalType, AccountInv, RowAccount
<1>7. RowsAccountFor
  BY <1>1, <1>3, <1>4, <1>5 DEF RowsAccountFor, ApprovalType
<1>8. ASSUME NEW g \in Handlers, g # h, pc[g] \in ExecutorLabels, status[job[g].proposal] = "executing"
      PROVE  status'[job[g].proposal] = "executing"
  <2>1. job[g].proposal \in Proposals
    BY <1>8 DEF TypeInv, JobInv, Fits, ExecutorLabels, Labels, ProposalLabels
  <2>2. QED
    BY <1>5, <1>8, <2>1
<1>9. QED
  BY <1>1, <1>3, <1>6, <1>7, <1>8, EndOwesNothing, Moves DEF Accounts, End

\* What is approved is what the handler found the proposal to name.
LEMMA ApproveKeepsAccount ==
  ASSUME TypeInv, AccountInv, NEW h \in Handlers, ApproveCommit(h)
  PROVE  Accounts(h)
<1> DEFINE p == job[h].proposal
           a == job[h].approval
<1>1. LocalType /\ RowType /\ ApprovalType
  BY TypeParts DEF TypeInv
<1>2. p \in Proposals /\ a \in Approvals /\ a # None
  BY DEF TypeInv, JobInv, ApproveCommit, Fits, Labels, ProposalLabels, ApprovalLabels
<1>3. approval[a] # "none" /\ subject[a] = p /\ approvalOf[p] = a /\ run[a] # "none"
  BY <1>2 DEF AccountInv, RowAccount, HandlerAccount, ApproveCommit
<1>4. /\ approval' = [approval EXCEPT ![a] = IF @ = "requested" THEN "approved" ELSE @]
      /\ run' = [run EXCEPT ![a] = IF @ = "interrupted" THEN "running" ELSE @]
      /\ UNCHANGED <<approvalOf, subject>>
  BY DEF ApproveCommit
<1>5. ASSUME NEW q \in Proposals PROVE
        \/ status'[q] = status[q]
        \/ status[q] = "approval_requested" /\ status'[q] = "approved"
  BY <1>1, <1>2 DEF ApproveCommit, RowType, Move, Stay
<1>6. Advances
  BY <1>1, <1>2, <1>3, <1>4 DEF Advances, ApprovalType
<1>7. RowsAccountFor
  BY <1>1, <1>2, <1>3, <1>4, <1>5 DEF RowsAccountFor, ApprovalType
<1>8. ASSUME NEW g \in Handlers, g # h, pc[g] \in ExecutorLabels, status[job[g].proposal] = "executing"
      PROVE  status'[job[g].proposal] = "executing"
  <2>1. job[g].proposal \in Proposals
    BY <1>8 DEF TypeInv, JobInv, Fits, ExecutorLabels, Labels, ProposalLabels
  <2>2. QED
    BY <1>5, <1>8, <2>1
<1>9. CASE End(h)
  BY <1>1, <1>6, <1>7, <1>8, <1>9, EndOwesNothing, Moves DEF Accounts, End
<1>10. CASE Goto(h, "execute_row")
  <2>1. GotoWith(h, "execute_row", job[h])
    BY <1>1, <1>10, GotoIsGotoWith
  <2>2. pc'[h] = "execute_row" /\ job'[h] = job[h]
    BY <1>1, <2>1, Moves
  <2>3. HandlerAccount(h)'
    BY <1>1, <1>2, <1>3, <1>4, <2>2 DEF HandlerAccount, AfterApproval, ExecutorLabels, ApprovalType
  <2>4. QED
    BY <1>1, <1>6, <1>7, <1>8, <2>1, <2>3, Moves DEF Accounts
<1>11. QED
  BY <1>9, <1>10 DEF ApproveCommit

\* A step of handler h changes only its own proposal's status while that executes.
StatusStep(h) ==
  \A q \in Proposals :
    \/ status'[q] = status[q]
    \/ /\ status'[q] \notin {"none", "proposed"}
       /\ status[q] # "executing" \/ (pc[h] \in ExecutorLabels /\ q = job[h].proposal)

\* A guarded change of one proposal is one.
LEMMA MoveIsStatusStep ==
  ASSUME RowType, NEW h \in Handlers, NEW p \in Proposals, NEW s \in Statuses \ {"none", "proposed"},
         \/ Stay
         \/ Move(p, s) /\ (status[p] # "executing" \/ (pc[h] \in ExecutorLabels /\ p = job[h].proposal))
  PROVE  StatusStep(h)
<1>1. CASE Stay
  BY <1>1 DEF Stay, StatusStep
<1>2. CASE Move(p, s)
  <2>1. \A q \in Proposals : status'[q] = IF q = p THEN s ELSE status[q]
    BY <1>2 DEF Move, RowType
  <2>2. CASE UNCHANGED status
    BY <2>2 DEF StatusStep
  <2>3. QED
    BY <2>1, <2>2 DEF StatusStep, Stay
<1>3. QED
  BY <1>1, <1>2

\* Such a step that changes no approval and no run.
LEMMA StatusStepAccounts ==
  ASSUME TypeInv, AccountInv, IndInv, NEW h \in Handlers, NEW l, NEW j, GotoWith(h, l, j),
         UNCHANGED <<approvalOf, approval, subject, run>>, HandlerAccount(h)',
         StatusStep(h)
  PROVE  Accounts(h)
<1>1. LocalType
  BY TypeParts DEF TypeInv
<1>2. Advances
  BY DEF Advances
<1>3. RowsAccountFor
  BY DEF RowsAccountFor, StatusStep
<1>4. ASSUME NEW g \in Handlers, g # h, pc[g] \in ExecutorLabels, status[job[g].proposal] = "executing"
      PROVE  status'[job[g].proposal] = "executing"
  <2>1. job[g].proposal \in Proposals
    BY <1>4 DEF TypeInv, JobInv, Fits, ExecutorLabels, Labels, ProposalLabels
  <2>2. pc[h] \in ExecutorLabels => job[g].proposal # job[h].proposal
    BY <1>4 DEF IndInv, ExecutorInv
  <2>3. QED
    BY <1>4, <2>1, <2>2 DEF StatusStep
<1>5. QED
  BY <1>1, <1>2, <1>3, <1>4, Moves DEF Accounts

\* The claim.
LEMMA ClaimKeepsAccount ==
  ASSUME TypeInv, AccountInv, IndInv, NEW h \in Handlers, ExecuteClaim(h)
  PROVE  Accounts(h)
<1> DEFINE p == job[h].proposal
<1>1. LocalType /\ RowType
  BY TypeParts DEF TypeInv
<1>2. p \in Proposals
  BY DEF TypeInv, JobInv, ExecuteClaim, Fits, Labels, ProposalLabels
<1>3. UNCHANGED <<approvalOf, approval, subject, run>>
  BY DEF ExecuteClaim, approvalRow
<1>4. StatusStep(h)
  BY <1>1, <1>2, MoveIsStatusStep DEF ExecuteClaim, Claimable, Statuses, Pending
<1>5. CASE End(h)
  BY <1>3, <1>4, <1>5, EndOwesNothing, StatusStepAccounts DEF End
<1>6. CASE Goto(h, "dispatch") /\ status'[p] = "executing"
  <2>1. GotoWith(h, "dispatch", job[h])
    BY <1>1, <1>6, GotoIsGotoWith
  <2>2. pc'[h] = "dispatch" /\ job'[h] = job[h]
    BY <1>1, <2>1, Moves
  <2>3. HandlerAccount(h)'
    BY <1>3, <1>6, <2>2 DEF HandlerAccount, AfterApproval, ExecutorLabels, AccountInv, ExecuteClaim
  <2>4. QED
    BY <1>3, <1>4, <2>1, <2>3, StatusStepAccounts
<1>7. QED
  BY <1>1, <1>2, <1>5, <1>6 DEF ExecuteClaim, RowType, Move

\* The call.
LEMMA DispatchKeepsAccount ==
  ASSUME TypeInv, AccountInv, IndInv, NEW h \in Handlers, Dispatch(h)
  PROVE  Accounts(h)
<1>1. LocalType
  BY TypeParts DEF TypeInv
<1>2. UNCHANGED <<status, approvalOf, approval, subject, run>>
  BY DEF Dispatch, approvalRow, proposalRow
<1>3. GotoWith(h, "await", job[h])
  BY <1>1, GotoIsGotoWith DEF Dispatch
<1>4. pc'[h] = "await" /\ job'[h] = job[h]
  BY <1>1, <1>3, Moves
<1>5. HandlerAccount(h)'
  BY <1>2, <1>4 DEF HandlerAccount, AfterApproval, ExecutorLabels, AccountInv, Dispatch
<1>6. QED
  BY <1>2, <1>3, <1>5, StatusStepAccounts DEF StatusStep

\* After the execution the approver holds the answer its run is closed with.
LEMMA AnswerKeepsAccount ==
  ASSUME TypeInv, AccountInv, NEW h \in Handlers, NEW answer \in Answers,
         pc[h] \in ExecutorLabels, AfterExecution(h, answer),
         UNCHANGED <<approvalOf, approval, subject, run>>,
         job[h].approval # None /\ run[job[h].approval] = "running" =>
           Fitting(status'[job[h].proposal], RunResult(answer))
  PROVE  HandlerAccount(h)'
<1>1. LocalType /\ job[h] \in Jobs
  BY TypeParts DEF TypeInv, LocalType
<1>2. CASE job[h].approval = None
  BY <1>2, EndOwesNothing DEF AfterExecution
<1>3. CASE job[h].approval # None
  <2>1. pc'[h] = "finish" /\ job'[h] = [job[h] EXCEPT !.answer = answer]
    BY <1>1, <1>3, Moves DEF AfterExecution
  <2>2. job'[h].approval = job[h].approval /\ job'[h].proposal = job[h].proposal /\ job'[h].answer = answer
    BY <1>1, <2>1 DEF Jobs
  <2>3. QED
    BY <2>1, <2>2 DEF HandlerAccount, AfterApproval, ExecutorLabels, AccountInv
<1>4. QED
  BY <1>2, <1>3

\* The publication, or the way to its revocation.
LEMMA PublishKeepsAccount ==
  ASSUME TypeInv, AccountInv, IndInv, NEW h \in Handlers, Publish(h)
  PROVE  Accounts(h)
<1> DEFINE p == job[h].proposal
           answer == job[h].answer
<1>1. LocalType /\ RowType
  BY TypeParts DEF TypeInv
<1>2. p \in Proposals /\ answer \in Answers /\ pc[h] = "publish"
  BY DEF TypeInv, JobInv, Publish, Fits, Labels, ProposalLabels
<1>3. UNCHANGED <<approvalOf, approval, subject, run>>
  BY DEF Publish, approvalRow
<1>4. StatusStep(h)
  <2>1. answer \in Statuses \ {"none", "proposed"}
    BY <1>2 DEF Answers, Statuses, Pending, Terminal
  <2>2. QED
    BY <1>1, <1>2, <2>1, MoveIsStatusStep DEF Publish, ExecutorLabels
<1>5. CASE Publishable(p)
  <2>1. status'[p] = answer /\ AfterExecution(h, answer)
    BY <1>1, <1>2, <1>5 DEF Publish, RowType, Move
  <2>2. Fitting(status'[p], RunResult(answer))
    BY <1>2, <2>1 DEF Fitting, RunResult, Answers
  <2>3. HandlerAccount(h)'
    BY <1>2, <1>3, <2>1, <2>2, AnswerKeepsAccount DEF ExecutorLabels
  <2>4. QED
    BY <1>2, <1>3, <1>4, <2>1, <2>3, StatusStepAccounts DEF AfterExecution, End, ExecutorLabels
<1>6. CASE ~Publishable(p)
  <2>1. UNCHANGED status /\ GotoWith(h, "revoke", job[h])
    BY <1>1, <1>6, GotoIsGotoWith DEF Publish, Stay
  <2>2. pc'[h] = "revoke" /\ job'[h] = job[h]
    BY <1>1, <2>1, Moves
  <2>3. HandlerAccount(h)'
    BY <1>2, <1>3, <2>1, <2>2 DEF HandlerAccount, AfterApproval, ExecutorLabels, AccountInv
  <2>4. QED
    BY <1>3, <1>4, <2>1, <2>3, StatusStepAccounts
<1>7. QED
  BY <1>5, <1>6

\* The revocation.
LEMMA RevokeKeepsAccount ==
  ASSUME TypeInv, AccountInv, IndInv, NEW h \in Handlers, Revoke(h)
  PROVE  Accounts(h)
<1> DEFINE p == job[h].proposal
           a == job[h].approval
<1>1. LocalType /\ RowType
  BY TypeParts DEF TypeInv
<1>2. p \in Proposals /\ pc[h] = "revoke" /\ AfterExecution(h, "outcome_unknown")
  BY DEF TypeInv, JobInv, Revoke, Fits, Labels, ProposalLabels
<1>3. UNCHANGED <<approvalOf, approval, subject, run>>
  BY DEF Revoke, approvalRow
<1>4. StatusStep(h)
  BY <1>1, <1>2, MoveIsStatusStep DEF Revoke, ExecutorLabels, Statuses, Pending
<1>5. ASSUME a # None, run[a] = "running"
      PROVE  Fitting(status'[p], RunResult("outcome_unknown"))
  <2>1. status[p] = "executing"
    BY <1>2, <1>5 DEF AccountInv, HandlerAccount, ExecutorLabels
  <2>2. status'[p] = "outcome_unknown"
    BY <1>1, <1>2, <2>1 DEF Revoke, Revocable, RowType, Move
  <2>3. QED
    BY <2>2 DEF Fitting, RunResult
<1>6. HandlerAccount(h)'
  BY <1>2, <1>3, <1>5, AnswerKeepsAccount DEF ExecutorLabels, Answers
<1>7. QED
  BY <1>2, <1>3, <1>4, <1>6, StatusStepAccounts DEF AfterExecution, End, ExecutorLabels

\* The run is closed with a result that fits.
LEMMA FinishKeepsAccount ==
  ASSUME TypeInv, AccountInv, NEW h \in Handlers, FinishRun(h)
  PROVE  Accounts(h)
<1> DEFINE p == job[h].proposal
           a == job[h].approval
           result == RunResult(job[h].answer)
<1>1. LocalType /\ ApprovalType
  BY TypeParts DEF TypeInv
<1>2. a \in Approvals /\ a # None /\ pc[h] = "finish" /\ End(h)
  BY DEF TypeInv, JobInv, FinishRun, Fits, ApprovalLabels
<1>3. approval[a] # "none" /\ subject[a] = p /\ (run[a] = "running" => Fitting(status[p], result))
  BY <1>2 DEF AccountInv, HandlerAccount
<1>4. /\ run' = [run EXCEPT ![a] = IF @ = "running" THEN result ELSE @]
      /\ UNCHANGED <<status, approvalOf, approval, subject>>
  BY DEF FinishRun, proposalRow
<1>5. result \in {"completed", "failed"}
  BY DEF RunResult
<1>6. Advances
  BY <1>1, <1>2, <1>4, <1>5 DEF Advances, ApprovalType
<1>7. RowsAccountFor
  BY <1>1, <1>2, <1>3, <1>4, <1>5 DEF RowsAccountFor, ApprovalType
<1>8. QED
  BY <1>1, <1>2, <1>4, <1>6, <1>7, EndOwesNothing, Moves DEF Accounts, End

\* A denial.
LEMMA DenyKeepsAccount ==
  ASSUME TypeInv, AccountInv, NEW h \in Handlers, DenyCommit(h)
  PROVE  Accounts(h)
<1> DEFINE p == job[h].proposal
           a == job[h].approval
<1>1. LocalType /\ ApprovalType
  BY TypeParts DEF TypeInv
<1>2. a \in Approvals /\ a # None
  BY DEF TypeInv, JobInv, DenyCommit, Fits, ApprovalLabels
<1>3. approval[a] # "none" /\ subject[a] = p
  BY <1>2 DEF AccountInv, HandlerAccount
<1>4. UNCHANGED <<status, approvalOf, subject>>
  BY DEF DenyCommit, proposalRow
<1>5. \/ approval' = approval /\ run' = run
      \/ /\ approval' = [approval EXCEPT ![a] = IF @ = "requested" THEN "denied" ELSE @]
         /\ run' = [run EXCEPT ![a] = "cancelled"]
         /\ run[a] = "interrupted"
  BY DEF DenyCommit
<1>6. Advances
  BY <1>1, <1>2, <1>3, <1>4, <1>5 DEF Advances, ApprovalType
<1>7. RowsAccountFor
  BY <1>1, <1>2, <1>3, <1>4, <1>5 DEF RowsAccountFor, ApprovalType
<1>8. CASE End(h)
  BY <1>1, <1>4, <1>6, <1>7, <1>8, EndOwesNothing, Moves DEF Accounts, End
<1>9. CASE Goto(h, "deny_cancel")
  <2>1. GotoWith(h, "deny_cancel", job[h])
    BY <1>1, <1>9, GotoIsGotoWith
  <2>2. pc'[h] = "deny_cancel" /\ job'[h] = job[h]
    BY <1>1, <2>1, Moves
  <2>3. HandlerAccount(h)'
    BY <1>2, <1>3, <1>6, <2>2 DEF HandlerAccount, AfterApproval, ExecutorLabels, Advances
  <2>4. QED
    BY <1>1, <1>4, <1>6, <1>7, <2>1, <2>3, Moves DEF Accounts
<1>10. QED
  BY <1>8, <1>9 DEF DenyCommit

\* The withdrawal that follows it.
LEMMA DenyCancelKeepsAccount ==
  ASSUME TypeInv, AccountInv, IndInv, NEW h \in Handlers, DenyCancel(h)
  PROVE  Accounts(h)
<1>1. RowType /\ job[h].proposal \in Proposals
  BY TypeParts DEF TypeInv, JobInv, DenyCancel, Fits, Labels, ProposalLabels
<1>2. StatusStep(h)
  BY <1>1, MoveIsStatusStep DEF DenyCancel, Deniable, Statuses, Pending, Terminal
<1>3. UNCHANGED <<approvalOf, approval, subject, run>> /\ End(h)
  BY DEF DenyCancel, approvalRow
<1>4. QED
  BY <1>2, <1>3, EndOwesNothing, StatusStepAccounts DEF End

\* A reconciliation.
LEMMA ReconcileKeepsAccount ==
  ASSUME TypeInv, AccountInv, IndInv, NEW h \in Handlers, ReconcileCommit(h)
  PROVE  Accounts(h)
<1>1. RowType /\ job[h].proposal \in Proposals
  BY TypeParts DEF TypeInv, JobInv, ReconcileCommit, Fits, Labels, ProposalLabels
<1>2. StatusStep(h)
  <2>1. CASE UNCHANGED status
    BY <2>1 DEF StatusStep
  <2>2. QED
    BY <1>1, <2>1, MoveIsStatusStep DEF ReconcileCommit, Statuses, Pending, Terminal
<1>3. UNCHANGED <<approvalOf, approval, subject, run>> /\ End(h)
  BY DEF ReconcileCommit, approvalRow
<1>4. QED
  BY <1>2, <1>3, EndOwesNothing, StatusStepAccounts DEF End

\* A kill switch withdraws what is pending, and a deletion of the workspace what is
\* under way too, but then no run goes on.
LEMMA WithdrawalKeepsAccount ==
  ASSUME TypeInv, AccountInv, NEW h \in Handlers, KillCommit(h) \/ QuarantineCommit(h)
  PROVE  Accounts(h)
<1>1. LocalType /\ ApprovalType /\ RowType
  BY TypeParts DEF TypeInv
<1>2. UNCHANGED <<approvalOf, subject>> /\ End(h)
  BY DEF KillCommit, QuarantineCommit
<1>3. \A q \in Proposals : status'[q] \in {status[q], "cancelled"}
  BY DEF KillCommit, QuarantineCommit, MoveAll
<1>4. \A b \in Approvals : \/ approval'[b] = approval[b]
                           \/ approval[b] = "requested" /\ approval'[b] = "cancelled"
  BY DEF KillCommit, QuarantineCommit
<1>5. \A b \in Approvals : \/ run'[b] = run[b]
                           \/ run[b] \in ActiveRun /\ run'[b] = "cancelled"
  BY DEF KillCommit, QuarantineCommit, ActiveRun
<1>6. Advances
  BY <1>1, <1>2, <1>4, <1>5 DEF Advances, ActiveRun
<1>7. RowsAccountFor
  BY <1>1, <1>2, <1>3, <1>4, <1>5 DEF RowsAccountFor
<1>8. ASSUME NEW g \in Handlers, g # h, pc[g] \in ExecutorLabels, status[job[g].proposal] = "executing"
      PROVE  status'[job[g].proposal] = "executing" \/ \A b \in Approvals : run'[b] # "running"
  <2>1. CASE QuarantineCommit(h)
    BY <2>1 DEF QuarantineCommit, ActiveRun
  <2>2. CASE KillCommit(h)
    <3>1. job[g].proposal \in Proposals
      BY <1>8 DEF TypeInv, JobInv, Fits, ExecutorLabels, Labels, ProposalLabels
    <3>2. QED
      BY <1>8, <2>2, <3>1 DEF KillCommit, MoveAll, Killable, Pending
  <2>3. QED
    BY <2>1, <2>2
<1>9. QED
  BY <1>1, <1>2, <1>6, <1>7, <1>8, EndOwesNothing, Moves DEF Accounts, End

\* So every step of a handler keeps the account.
LEMMA HandlerStepsKeepAccount ==
  ASSUME TypeInv, AccountInv, IndInv, NEW h \in Handlers, Start(h) \/ Continue(h) \/ Crash(h)
  PROVE  AccountInv'
<1>1. RowsClosed
  BY HandlerStepsClose
<1>2. ASSUME NEW a \in Approvals, RequestCommit(h, a) PROVE Accounts(h)
  BY <1>2, RequestKeepsAccount
<1>3. Accounts(h)
  BY <1>2, ReadsKeepAccount, ApproveKeepsAccount, ClaimKeepsAccount, DispatchKeepsAccount,
     PublishKeepsAccount, RevokeKeepsAccount, FinishKeepsAccount, DenyKeepsAccount,
     DenyCancelKeepsAccount, ReconcileKeepsAccount, WithdrawalKeepsAccount DEF Continue, Reads
<1>4. QED
  BY <1>1, <1>3, AccountsKeeps

\* What the steps that no handler takes do to the rows.
OnlyProposes ==
  \A p \in Proposals : status'[p] = status[p] \/ (status[p] = "none" /\ status'[p] = "proposed")
OnlyCancelsRuns ==
  \A a \in Approvals : run'[a] = run[a] \/ (run[a] \in ActiveRun /\ run'[a] = "cancelled")

\* They keep it too.
LEMMA OtherStepsKeepAccount ==
  ASSUME TypeInv, AccountInv, UNCHANGED <<pc, job, approvalOf, approval, subject>>,
         OnlyProposes, OnlyCancelsRuns
  PROVE  AccountInv'
<1>1. Advances
  BY DEF Advances, ActiveRun, OnlyCancelsRuns
<1>2. RowsClosed
  BY DEF RowsClosed, Terminal, OnlyProposes
<1>3. RowsAccountFor
  BY DEF RowsAccountFor, ActiveRun, OnlyProposes, OnlyCancelsRuns
<1>4. RowAccount'
  BY <1>1, <1>2, <1>3, RowsKeepAccount DEF AccountInv
<1>5. ASSUME NEW g \in Handlers PROVE HandlerAccount(g)'
  <2>1. ASSUME pc[g] \in ExecutorLabels, status[job[g].proposal] = "executing"
        PROVE  status'[job[g].proposal] = "executing"
    <3>1. job[g].proposal \in Proposals
      BY <2>1 DEF TypeInv, JobInv, Fits, ExecutorLabels, Labels, ProposalLabels
    <3>2. QED
      BY <2>1, <3>1 DEF OnlyProposes
  <2>2. QED
    BY <1>1, <1>2, <2>1, OthersKeepAccount DEF AccountInv
<1>6. QED
  BY <1>4, <1>5 DEF AccountInv

\* Every step does.
LEMMA NextKeepsAccount ==
  ASSUME IndInv, AccountInv, [Next]_vars
  PROVE  AccountInv'
<1>1. TypeInv /\ RowType /\ ApprovalType
  BY TypeParts DEF IndInv, TypeInv
<1>2. CASE UNCHANGED vars
  <2>1. OnlyProposes /\ OnlyCancelsRuns
    BY <1>2 DEF vars, proposalRow, approvalRow, OnlyProposes, OnlyCancelsRuns
  <2>2. QED
    BY <1>1, <1>2, <2>1, OtherStepsKeepAccount DEF vars, proposalRow, approvalRow, local
<1>3. ASSUME NEW p \in Proposals, Propose(p) PROVE AccountInv'
  <2>1. OnlyProposes /\ OnlyCancelsRuns
    BY <1>1, <1>3 DEF Propose, Move, RowType, approvalRow, OnlyProposes, OnlyCancelsRuns
  <2>2. QED
    BY <1>1, <1>3, <2>1, OtherStepsKeepAccount DEF Propose, approvalRow, local
<1>4. ASSUME NEW p \in Proposals, ProviderDecides(p) PROVE AccountInv'
  <2>1. OnlyProposes /\ OnlyCancelsRuns
    BY <1>4 DEF ProviderDecides, proposalRow, approvalRow, OnlyProposes, OnlyCancelsRuns
  <2>2. QED
    BY <1>1, <1>4, <2>1, OtherStepsKeepAccount DEF ProviderDecides, proposalRow, approvalRow, local
<1>5. ASSUME NEW a \in Approvals, CancelRun(a) PROVE AccountInv'
  <2>1. OnlyProposes /\ OnlyCancelsRuns
    BY <1>1, <1>5 DEF CancelRun, ApprovalType, proposalRow, OnlyProposes, OnlyCancelsRuns
  <2>2. QED
    BY <1>1, <1>5, <2>1, OtherStepsKeepAccount DEF CancelRun, proposalRow, local
<1>6. ASSUME NEW s \in Switches, KillRelease(s) PROVE AccountInv'
  <2>1. OnlyProposes /\ OnlyCancelsRuns
    BY <1>6 DEF KillRelease, proposalRow, approvalRow, OnlyProposes, OnlyCancelsRuns
  <2>2. QED
    BY <1>1, <1>6, <2>1, OtherStepsKeepAccount DEF KillRelease, proposalRow, approvalRow, local
<1>7. QED
  BY <1>1, <1>2, <1>3, <1>4, <1>5, <1>6, HandlerStepsKeepAccount DEF Next

\* The account is an invariant.
THEOREM AccountKept == Spec => []AccountInv
<1>1. Init => AccountInv
  BY DEF Init, AccountInv, RowAccount, HandlerAccount, OnlyNamedApprovalAuthorizes,
     RunOutcomeAgrees, NoJob
<1>2. IndInv /\ AccountInv /\ [Next]_vars => AccountInv'
  BY NextKeepsAccount
<1>3. QED
  BY <1>1, <1>2, Inductive, PTL DEF Spec

\* Duplicate requests leave approvals that a proposal does not wait for; whatever
\* approves them, the approved one is the one the proposal names.
THEOREM NamedApproval == Spec => []OnlyNamedApprovalAuthorizes
<1>1. AccountInv => OnlyNamedApprovalAuthorizes
  BY DEF AccountInv, RowAccount
<1>2. QED
  BY <1>1, AccountKept, PTL

\* A run and its proposal are closed by different batches, and they agree.
THEOREM RunOutcome == Spec => []RunOutcomeAgrees
<1>1. AccountInv => RunOutcomeAgrees
  BY DEF AccountInv, RowAccount
<1>2. QED
  BY <1>1, AccountKept, PTL

-----------------------------------------------------------------------------
(* Withdrawing and handing over exclude each other.                        *)

\* Only the deletion of a workspace takes a proposal away from its executor.
WithdrawInv ==
  workspace = "active" =>
    /\ CancelledNeverDispatched
    /\ \A h \in Handlers : pc[h] = "dispatch" => status[job[h].proposal] = "executing"

\* Without a deletion the workspace stays active.
DeletionInv ==
  ~MayQuarantine => workspace = "active" /\ \A h \in Handlers : pc[h] # "quarantine_commit"

\* Whether a step keeps WithdrawInv is a question about the status of a withdrawn
\* proposal's call, and about executors that have not called yet.
WithdrawStep ==
  /\ \A p \in Proposals : status'[p] = "cancelled" /\ status[p] # "cancelled" => dispatches[p] = 0
  /\ \A p \in Proposals : dispatches'[p] # dispatches[p] => status[p] = "executing" /\ status'[p] = status[p]
  /\ \A g \in Handlers : pc'[g] = "dispatch" =>
       \/ status'[job'[g].proposal] = "executing"
       \/ pc[g] = "dispatch" /\ job'[g] = job[g] /\ status[job[g].proposal] # "executing"

\* Such a step keeps it.
LEMMA WithdrawKept ==
  ASSUME TypeInv, WithdrawInv, WithdrawStep, workspace' = "active" => workspace = "active"
  PROVE  WithdrawInv'
<1> SUFFICES ASSUME workspace' = "active", workspace = "active"
             PROVE  /\ CancelledNeverDispatched'
                    /\ \A h \in Handlers : pc'[h] = "dispatch" => status'[job'[h].proposal] = "executing"
  BY DEF WithdrawInv
<1>1. ASSUME NEW p \in Proposals, status'[p] = "cancelled" PROVE dispatches'[p] = 0
  BY <1>1 DEF WithdrawStep, WithdrawInv, CancelledNeverDispatched
<1>2. ASSUME NEW h \in Handlers, pc'[h] = "dispatch" PROVE status'[job'[h].proposal] = "executing"
  BY <1>2 DEF WithdrawStep, WithdrawInv
<1>3. QED
  BY <1>1, <1>2 DEF CancelledNeverDispatched

\* An executor that has not called, and whose proposal nobody takes away.
LEMMA StatusStepWithdraws ==
  ASSUME IndInv, NEW h \in Handlers, NEW l, NEW j, GotoWith(h, l, j), l # "dispatch",
         UNCHANGED dispatches, StatusStep(h),
         \A p \in Proposals : status'[p] = "cancelled" /\ status[p] # "cancelled" => dispatches[p] = 0
  PROVE  WithdrawStep
<1>1. LocalType
  BY TypeParts DEF IndInv
<1>2. ASSUME NEW g \in Handlers, pc'[g] = "dispatch"
      PROVE  \/ status'[job'[g].proposal] = "executing"
             \/ pc[g] = "dispatch" /\ job'[g] = job[g] /\ status[job[g].proposal] # "executing"
  <2>1. g # h /\ pc[g] = "dispatch" /\ job'[g] = job[g]
    BY <1>1, <1>2, Moves
  <2>2. job[g].proposal \in Proposals
    BY <2>1 DEF IndInv, JobInv, Fits, Labels, ProposalLabels
  <2>3. pc[h] \in ExecutorLabels => job[g].proposal # job[h].proposal
    BY <2>1 DEF IndInv, ExecutorInv, ExecutorLabels
  <2>4. QED
    BY <2>1, <2>2, <2>3 DEF StatusStep
<1>3. QED
  BY <1>2 DEF WithdrawStep

\* What is withdrawn was pending, and what is pending was not handed over.
LEMMA PendingNotDispatched ==
  ASSUME IndInv, NEW p \in Proposals, status[p] \in Pending
  PROVE  dispatches[p] = 0
  BY DEF IndInv, ClaimInv, Unclaimed

\* A step that changes no status withdraws nothing,
LEMMA NoWithdrawal ==
  ASSUME UNCHANGED status
  PROVE  \A p \in Proposals : status'[p] = "cancelled" /\ status[p] # "cancelled" => dispatches[p] = 0
  OBVIOUS

\* and is a status step.
LEMMA NoStatusStep ==
  ASSUME UNCHANGED status, NEW h \in Handlers
  PROVE  StatusStep(h)
  BY DEF StatusStep

\* Every step of a handler keeps it.
LEMMA HandlerStepsWithdraw ==
  ASSUME IndInv, WithdrawInv, NEW h \in Handlers, Start(h) \/ Continue(h) \/ Crash(h)
  PROVE  WithdrawInv'
<1> DEFINE p == job[h].proposal
           Sound == \A q \in Proposals :
             status'[q] = "cancelled" /\ status[q] # "cancelled" => dispatches[q] = 0
<1>1. TypeInv /\ LocalType /\ RowType
  BY TypeParts DEF IndInv, TypeInv
<1>2. Fits(pc[h], job[h]) /\ (pc[h] \in ProposalLabels => p \in Proposals)
  BY DEF IndInv, JobInv, Fits
<1>3. ASSUME NEW l, NEW j, GotoWith(h, l, j), l # "dispatch", UNCHANGED <<dispatches, workspace>>,
             StatusStep(h), Sound
      PROVE  WithdrawInv'
  BY <1>1, <1>3, StatusStepWithdraws, WithdrawKept
<1>4. ASSUME NEW l, Goto(h, l) PROVE GotoWith(h, l, job[h])
  BY <1>1, <1>4, GotoIsGotoWith
<1>5. End(h) => GotoWith(h, "idle", NoJob)
  BY DEF End
<1>6. ASSUME NEW s \in Statuses \ {"none", "proposed", "cancelled"}, p \in Proposals,
             \/ Stay
             \/ Move(p, s) /\ (status[p] # "executing" \/ pc[h] \in ExecutorLabels)
      PROVE  StatusStep(h) /\ Sound
  <2>1. StatusStep(h)
    BY <1>1, <1>6, MoveIsStatusStep
  <2>2. Sound
    BY <1>1, <1>6 DEF Move, Stay, RowType
  <2>3. QED
    BY <2>1, <2>2
<1>7. CASE Reads(h)
  <2>1. UNCHANGED <<status, dispatches, workspace>>
    BY <1>7, ReadsChangeNoRow DEF Rest, proposalRow, controls, external
  <2>2. \E l \in Labels \ {"dispatch"} : \E j : GotoWith(h, l, j)
    <3>1. CASE Start(h)
      BY <3>1 DEF Start, RequestRead, PortExecute, ReconcileRead, ApproveRead, DenyRead, KillRead,
         QuarantineRead, Begin, GotoWith, Labels
    <3>2. CASE RequestPreflight(h) \/ ApproveRow(h) \/ ExecuteRow(h) \/ ExecutePreflight(h)
      BY <1>4, <1>5, <3>2 DEF RequestPreflight, ApproveRow, ExecuteRow, ExecutePreflight, Labels
    <3>3. QED
      BY <1>5, <1>7, <3>1, <3>2 DEF Reads, Answered, ReconcileCall, Refuse, Crash, Labels
  <2>3. StatusStep(h) /\ Sound
    BY <2>1, NoStatusStep, NoWithdrawal
  <2>4. QED
    BY <1>3, <2>1, <2>2, <2>3
<1>8. ASSUME NEW a \in Approvals, RequestCommit(h, a) PROVE WithdrawInv'
  <2>1. p \in Proposals
    BY <1>2, <1>8 DEF RequestCommit, Labels, ProposalLabels
  <2>2. StatusStep(h) /\ Sound
    BY <1>6, <1>8, <2>1 DEF RequestCommit, Statuses, Pending
  <2>3. QED
    BY <1>3, <1>5, <1>8, <2>2 DEF RequestCommit, controls, external
<1>9. CASE ApproveCommit(h)
  <2>1. p \in Proposals
    BY <1>2, <1>9 DEF ApproveCommit, Labels, ProposalLabels
  <2>2. StatusStep(h) /\ Sound
    BY <1>6, <1>9, <2>1 DEF ApproveCommit, Statuses, Pending
  <2>3. QED
    BY <1>3, <1>4, <1>5, <1>9, <2>2 DEF ApproveCommit, controls, external
<1>10. CASE ExecuteClaim(h)
  <2>1. p \in Proposals /\ UNCHANGED <<dispatches, workspace>>
    BY <1>2, <1>10 DEF ExecuteClaim, Labels, ProposalLabels, controls, external
  <2>2. StatusStep(h) /\ Sound
    BY <1>6, <1>10, <2>1 DEF ExecuteClaim, Claimable, Statuses, Pending
  <2>3. CASE End(h)
    BY <1>3, <1>5, <2>1, <2>2, <2>3
  <2>4. CASE Move(p, "executing") /\ Goto(h, "dispatch")
    <3>1. pc'[h] = "dispatch" /\ job'[h] = job[h] /\ status'[p] = "executing"
      BY <1>1, <1>4, <2>1, <2>4, Moves DEF Move, RowType
    <3>2. ASSUME NEW g \in Handlers, pc'[g] = "dispatch", g # h
          PROVE  \/ status'[job'[g].proposal] = "executing"
                 \/ pc[g] = "dispatch" /\ job'[g] = job[g] /\ status[job[g].proposal] # "executing"
      <4>1. pc[g] = "dispatch" /\ job'[g] = job[g]
        BY <1>1, <1>4, <2>4, <3>2, Moves
      <4>2. job[g].proposal \in Proposals
        BY <4>1 DEF IndInv, JobInv, Fits, Labels, ProposalLabels
      <4>3. status[job[g].proposal] = "executing" => status'[job[g].proposal] = "executing"
        BY <1>1, <2>1, <2>4, <4>2 DEF Move, RowType
      <4>4. QED
        BY <4>1, <4>3
    <3>3. WithdrawStep
      BY <2>1, <2>2, <3>1, <3>2 DEF WithdrawStep
    <3>4. QED
      BY <1>1, <2>1, <3>3, WithdrawKept
  <2>5. QED
    BY <1>10, <2>3, <2>4 DEF ExecuteClaim
<1>11. CASE Dispatch(h)
  <2>1. p \in Proposals /\ pc[h] = "dispatch" /\ UNCHANGED <<status, workspace>>
    BY <1>2, <1>11 DEF Dispatch, Labels, ProposalLabels, proposalRow, controls
  <2>2. \A q \in Proposals : dispatches'[q] # dispatches[q] => q = p
    BY <1>1, <1>11 DEF Dispatch, TypeInv, TypeOK
  <2>3. ASSUME workspace = "active" PROVE WithdrawStep
    <3>1. status[p] = "executing"
      BY <2>1, <2>3 DEF WithdrawInv
    <3>2. GotoWith(h, "await", job[h])
      BY <1>4, <1>11 DEF Dispatch
    <3>3. ASSUME NEW g \in Handlers, pc'[g] = "dispatch"
          PROVE  pc[g] = "dispatch" /\ job'[g] = job[g]
      BY <1>1, <3>2, <3>3, Moves
    <3>4. QED
      BY <2>1, <2>2, <3>1, <3>3 DEF WithdrawStep
  <2>4. QED
    BY <1>1, <2>1, <2>3, WithdrawKept DEF WithdrawInv
<1>12. ASSUME NEW answer, AfterExecution(h, answer) PROVE \E l : l # "dispatch" /\ \E j : GotoWith(h, l, j)
  <2>1. "finish" # "dispatch" /\ "idle" # "dispatch"
    OBVIOUS
  <2>2. QED
    BY <1>5, <1>12, <2>1 DEF AfterExecution
<1>13. CASE Publish(h)
  <2>1. p \in Proposals /\ job[h].answer \in Answers /\ pc[h] = "publish"
    BY <1>2, <1>13 DEF Publish, Fits, Labels, ProposalLabels
  <2>2. job[h].answer \in Statuses \ {"none", "proposed", "cancelled"}
    BY <2>1 DEF Answers, Statuses, Pending, Terminal
  <2>3. StatusStep(h) /\ Sound
    BY <1>6, <1>13, <2>1, <2>2 DEF Publish, ExecutorLabels
  <2>4. \E l : l # "dispatch" /\ \E j : GotoWith(h, l, j)
    BY <1>4, <1>12, <1>13 DEF Publish
  <2>5. QED
    BY <1>3, <1>13, <2>3, <2>4 DEF Publish, controls, external
<1>14. CASE Revoke(h)
  <2>1. p \in Proposals /\ pc[h] = "revoke"
    BY <1>2, <1>14 DEF Revoke, Labels, ProposalLabels
  <2>2. StatusStep(h) /\ Sound
    BY <1>6, <1>14, <2>1 DEF Revoke, ExecutorLabels, Statuses, Pending
  <2>3. \E l : l # "dispatch" /\ \E j : GotoWith(h, l, j)
    BY <1>12, <1>14 DEF Revoke
  <2>4. QED
    BY <1>3, <1>14, <2>2, <2>3 DEF Revoke, controls, external
<1>15. CASE FinishRun(h) \/ DenyCommit(h)
  <2>1. UNCHANGED <<status, dispatches, workspace>>
    BY <1>15 DEF FinishRun, DenyCommit, proposalRow, controls, external
  <2>2. StatusStep(h) /\ Sound
    BY <2>1, NoStatusStep, NoWithdrawal
  <2>3. \E l : l # "dispatch" /\ \E j : GotoWith(h, l, j)
    BY <1>4, <1>5, <1>15 DEF FinishRun, DenyCommit
  <2>4. QED
    BY <1>3, <2>1, <2>2, <2>3
<1>16. CASE DenyCancel(h)
  <2>1. p \in Proposals
    BY <1>2, <1>16 DEF DenyCancel, Labels, ProposalLabels
  <2>2. StatusStep(h)
    BY <1>1, <1>16, <2>1, MoveIsStatusStep DEF DenyCancel, Deniable, Statuses, Pending, Terminal
  <2>3. Sound
    BY <1>1, <1>16, <2>1, PendingNotDispatched DEF DenyCancel, Deniable, Move, Stay, RowType, Pending
  <2>4. QED
    BY <1>3, <1>5, <1>16, <2>2, <2>3 DEF DenyCancel, controls, external
<1>17. CASE KillCommit(h)
  <2>1. \A q \in Proposals : status'[q] = status[q] \/ (status[q] \in Pending /\ status'[q] = "cancelled")
    BY <1>17 DEF KillCommit, MoveAll, Killable
  <2>2. StatusStep(h)
    BY <2>1 DEF StatusStep, Pending
  <2>3. Sound
    BY <2>1, PendingNotDispatched
  <2>4. QED
    BY <1>3, <1>5, <1>17, <2>2, <2>3 DEF KillCommit, external
<1>18. CASE ReconcileCommit(h)
  <2>1. p \in Proposals
    BY <1>2, <1>18 DEF ReconcileCommit, Labels, ProposalLabels
  <2>2. StatusStep(h) /\ Sound
    <3>1. CASE UNCHANGED status
      BY <3>1, NoStatusStep, NoWithdrawal
    <3>2. QED
      BY <1>6, <1>18, <2>1, <3>1 DEF ReconcileCommit, Statuses, Pending, Terminal
  <2>3. QED
    BY <1>3, <1>5, <1>18, <2>2 DEF ReconcileCommit, controls, external
<1>19. CASE QuarantineCommit(h)
  BY <1>19 DEF QuarantineCommit, WithdrawInv
<1>20. QED
  BY <1>7, <1>8, <1>9, <1>10, <1>11, <1>13, <1>14, <1>15, <1>16, <1>17, <1>18, <1>19
     DEF Continue, Reads

\* Every step does.
LEMMA NextKeepsWithdrawal ==
  ASSUME IndInv, WithdrawInv, [Next]_vars
  PROVE  WithdrawInv'
<1>1. TypeInv /\ RowType
  BY TypeParts DEF IndInv, TypeInv
<1>2. CASE /\ UNCHANGED <<dispatches, workspace, pc, job>>
           /\ \A p \in Proposals : status'[p] = status[p] \/ (status[p] = "none" /\ status'[p] = "proposed")
  <2>1. \A g \in Handlers : pc[g] = "dispatch" => job[g].proposal \in Proposals
    BY DEF IndInv, JobInv, Fits, Labels, ProposalLabels
  <2>2. WithdrawStep
    BY <1>2, <2>1 DEF WithdrawStep
  <2>3. QED
    BY <1>1, <1>2, <2>2, WithdrawKept
<1>3. ASSUME NEW p \in Proposals, Propose(p) PROVE WithdrawInv'
  <2>1. \A q \in Proposals : status'[q] = status[q] \/ (status[q] = "none" /\ status'[q] = "proposed")
    BY <1>1, <1>3 DEF Propose, Move, RowType
  <2>2. QED
    BY <1>2, <1>3, <2>1 DEF Propose, controls, external, local
<1>4. CASE UNCHANGED <<status, dispatches, workspace, pc, job>>
  BY <1>2, <1>4
<1>5. QED
  BY <1>3, <1>4, HandlerStepsWithdraw DEF Next, ProviderDecides, CancelRun, KillRelease, vars,
     proposalRow, controls, external, local

\* While its workspace is not being deleted, a proposal that was withdrawn is never
\* handed to its provider, and one that was handed over is never withdrawn.
THEOREM WithdrawnNotDispatched == Spec => [](workspace = "active" => CancelledNeverDispatched)
<1>1. Init => WithdrawInv
  BY DEF Init, WithdrawInv, CancelledNeverDispatched
<1>2. IndInv /\ WithdrawInv /\ [Next]_vars => WithdrawInv'
  BY NextKeepsWithdrawal
<1>3. WithdrawInv => (workspace = "active" => CancelledNeverDispatched)
  BY DEF WithdrawInv
<1>4. QED
  BY <1>1, <1>2, <1>3, Inductive, PTL DEF Spec

\* Where no workspace is ever deleted, that holds throughout.
THEOREM NeverDispatchedCancelled ==
  ASSUME ~MayQuarantine
  PROVE  Spec => []CancelledNeverDispatched
<1>1. Init => DeletionInv
  BY DEF Init, DeletionInv
<1>2. TypeInv /\ DeletionInv /\ [Next]_vars => DeletionInv'
  <2> SUFFICES ASSUME TypeInv, DeletionInv, [Next]_vars PROVE DeletionInv'
    OBVIOUS
  <2>1. LocalType
    BY TypeParts DEF TypeInv
  <2>2. ASSUME NEW h \in Handlers, NEW l, NEW j, GotoWith(h, l, j), l # "quarantine_commit",
               UNCHANGED workspace
        PROVE  DeletionInv'
    BY <2>1, <2>2, Moves DEF DeletionInv
  <2>3. ASSUME NEW h \in Handlers, NEW l, Goto(h, l) PROVE GotoWith(h, l, job[h])
    BY <2>1, <2>3, GotoIsGotoWith
  <2>4. ASSUME NEW h \in Handlers, Start(h) \/ Continue(h) \/ Crash(h)
        PROVE  /\ UNCHANGED workspace
               /\ \E l : l # "quarantine_commit" /\ \E j : GotoWith(h, l, j)
    <3>1. ~QuarantineRead(h) /\ ~QuarantineCommit(h)
      BY <2>4 DEF QuarantineRead, QuarantineCommit, DeletionInv
    <3>2. CASE Start(h)
      BY <3>1, <3>2 DEF Start, RequestRead, PortExecute, ReconcileRead, ApproveRead, DenyRead,
         KillRead, Begin, GotoWith, controls
    <3>3. CASE RequestPreflight(h) \/ ApproveRow(h) \/ ExecuteRow(h) \/ ExecutePreflight(h)
               \/ ApproveCommit(h) \/ ExecuteClaim(h) \/ Dispatch(h) \/ DenyCommit(h)
      BY <2>3, <3>3 DEF RequestPreflight, ApproveRow, ExecuteRow, ExecutePreflight, ApproveCommit,
         ExecuteClaim, Dispatch, DenyCommit, End, controls
    <3>4. CASE Publish(h) \/ Revoke(h)
      BY <2>3, <3>4 DEF Publish, Revoke, AfterExecution, End, controls
    <3>5. CASE \/ Refuse(h) \/ Crash(h) \/ FinishRun(h) \/ DenyCancel(h) \/ KillCommit(h)
               \/ ReconcileCommit(h) \/ \E a \in Approvals : RequestCommit(h, a)
      BY <3>5 DEF Refuse, Crash, FinishRun, DenyCancel, KillCommit, ReconcileCommit, RequestCommit,
         End, controls
    <3>6. CASE \/ \E answer \in Answers : Answered(h, answer)
               \/ \E answer \in {"reconciled", "reviewed"} : ReconcileCall(h, answer)
      BY <3>6 DEF Answered, ReconcileCall, controls
    <3>7. QED
      BY <2>4, <3>1, <3>2, <3>3, <3>4, <3>5, <3>6 DEF Continue
  <2>5. CASE UNCHANGED <<workspace, pc>>
    BY <2>5 DEF DeletionInv
  <2>6. QED
    BY <2>2, <2>4, <2>5 DEF Next, Propose, ProviderDecides, CancelRun, KillRelease, vars, controls,
       local
<1>3. DeletionInv /\ (workspace = "active" => CancelledNeverDispatched) => CancelledNeverDispatched
  BY DEF DeletionInv
<1>4. QED
  BY <1>1, <1>2, <1>3, TypeCorrect, WithdrawnNotDispatched, PTL DEF Spec
================================================================================
