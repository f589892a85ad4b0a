----------------------- MODULE TriggerDispatch_proofs -----------------------
(***************************************************************************)
(* Theorems about TriggerDispatch for every number of triggers,            *)
(* dispatches, runs and handlers, and every limit.                         *)
(*                                                                         *)
(* Twenty actions write the rows in seven ways. The proof first shows that *)
(* every step has one of these seven effects (StepEffect); what is true of *)
(* the rows is then proved once per effect, and only what relates the rows *)
(* to what the handlers remember goes through the actions.                 *)
(***************************************************************************)
EXTENDS TriggerDispatch, FiniteSetTheorems, TLAPS

USE ConstantsAssumption

-----------------------------------------------------------------------------
(* The type invariant.                                                     *)

LocalType ==
  /\ pc \in [Workers -> Labels]
  /\ job \in [Workers -> Jobs]
  /\ \A h \in Workers :
       /\ pc[h] \in {"read", "settle"} => job[h].current # None
       /\ pc[h] = "work" => job[h].run # None

DispatchType ==
  /\ status \in [Dispatches -> DispatchStatuses]
  /\ attempt \in [Dispatches -> Nat]
  /\ runId \in [Dispatches -> Runs \cup {None}]
  /\ previous \in [Dispatches -> Runs \cup {None}]
  /\ owner \in [Dispatches -> Workers \cup {None}]
  /\ lease \in [Dispatches -> Nat]
  /\ expired \in SUBSET Dispatches

RunType ==
  /\ run \in [Runs -> {"none", "running"} \cup TerminalRun]
  /\ origin \in [Runs -> Items \cup {None}]

RestType ==
  /\ trigger \in [Triggers -> {"enabled", "paused", "disabled"}]
  /\ alerted \in SUBSET Dispatches
  /\ crashes \in Nat

LEMMA TypeParts == TypeOK <=> LocalType /\ DispatchType /\ RunType /\ RestType
  BY DEF TypeOK, LocalType, DispatchType, RunType, RestType

LEMMA TypePartsNext == TypeOK' <=> LocalType' /\ DispatchType' /\ RunType' /\ RestType'
  BY DEF TypeOK, LocalType, DispatchType, RunType, RestType

\* A job fits a label.
Fits(label, j) ==
  /\ label \in {"read", "settle"} => j.current # None
  /\ label = "work" => j.run # None

\* Moving a handler to a label with a job that fits it keeps all handlers typed.
LEMMA GotoTyped ==
  ASSUME LocalType, NEW h \in Workers, NEW l \in Labels, NEW j \in Jobs,
         Fits(l, j), GotoWith(h, l, j)
  PROVE  LocalType'
<1>1. pc' \in [Workers -> Labels] /\ job' \in [Workers -> Jobs]
  BY DEF LocalType, GotoWith
<1>2. ASSUME NEW g \in Workers PROVE Fits(pc'[g], job'[g])
  BY DEF LocalType, GotoWith, Fits
<1>3. QED
  BY <1>1, <1>2 DEF LocalType, Fits

\* Resuming with typed work.
LEMMA ResumeTyped ==
  ASSUME LocalType, NEW h \in Workers, NEW todo \in SUBSET Dispatches,
         NEW items \in SUBSET Items, Resume(h, todo, items)
  PROVE  LocalType'
<1> DEFINE j == [NoJob EXCEPT !.todo = todo, !.items = items]
           k == [NoJob EXCEPT !.items = items]
<1>1. j \in Jobs /\ k \in Jobs /\ NoJob \in Jobs
  BY DEF NoJob, Jobs
<1>2. {"lease", "execute", "idle"} \subseteq Labels
  BY DEF Labels
<1>3. Fits("lease", j) /\ Fits("execute", k) /\ Fits("idle", NoJob)
  BY DEF Fits
<1>4. CASE todo # {}
  <2>1. GotoWith(h, "lease", j)
    BY <1>4 DEF Resume
  <2>2. QED
    BY <1>1, <1>2, <1>3, <2>1, GotoTyped
<1>5. CASE todo = {} /\ items # {}
  <2>1. GotoWith(h, "execute", k)
    BY <1>5 DEF Resume
  <2>2. QED
    BY <1>1, <1>2, <1>3, <2>1, GotoTyped
<1>6. CASE todo = {} /\ items = {}
  <2>1. GotoWith(h, "idle", NoJob)
    BY <1>6 DEF Resume
  <2>2. QED
    BY <1>1, <1>2, <1>3, <2>1, GotoTyped
<1>7. QED
  BY <1>4, <1>5, <1>6

\* Going on with the items that are left.
LEMMA NextItemTyped ==
  ASSUME LocalType, NEW h \in Workers, NextItem(h)
  PROVE  LocalType'
<1>1. job[h].items \in SUBSET Items
  BY DEF LocalType, Jobs
<1>2. QED
  BY <1>1, ResumeTyped DEF NextItem

\* Giving up an execution.
LEMMA AbandonTyped ==
  ASSUME LocalType, NEW h \in Workers, Abandon(h)
  PROVE  LocalType'
<1>1. CASE job[h].current # None
  <2>1. GotoWith(h, "settle", job[h])
    BY <1>1 DEF Abandon, Goto, GotoWith, LocalType
  <2>2. Fits("settle", job[h]) /\ job[h] \in Jobs /\ "settle" \in Labels
    BY <1>1 DEF Fits, LocalType, Labels
  <2>3. QED
    BY <2>1, <2>2, GotoTyped
<1>2. CASE job[h].current = None
  BY <1>2, NextItemTyped DEF Abandon
<1>3. QED
  BY <1>1, <1>2

\* Giving up leases keeps the dispatches typed.
LEMMA ReleaseTyped ==
  ASSUME DispatchType, NEW S, NEW s \in TerminalRun, Release(S, s)
  PROVE  DispatchType'
  BY DEF DispatchType, Release, TerminalRun, DispatchStatuses, Active

\* A run and the dispatches it has take the result.
LEMMA ConcludeTyped ==
  ASSUME DispatchType, RunType, NEW r \in Runs, NEW result \in TerminalRun,
         Conclude(r, result), UNCHANGED origin
  PROVE  DispatchType' /\ RunType'
<1>1. DispatchType'
  BY ReleaseTyped DEF Conclude
<1>2. RunType'
  BY DEF RunType, Conclude
<1>3. QED
  BY <1>1, <1>2

\* The initial state is typed.
LEMMA TypeInit == Init => TypeOK
<1>1. NoJob \in Jobs
  BY DEF NoJob, Jobs
<1>2. QED
  BY <1>1 DEF Init, TypeOK, DispatchStatuses, Labels

\* The step of a handler keeps the types.
LEMMA TypeContinue ==
  ASSUME TypeOK, NEW h \in Workers, Continue(h)
  PROVE  TypeOK'
<1> USE TypeParts, TypePartsNext
<1>0. job[h] \in Jobs
  BY DEF LocalType
<1>1. CASE Select(h)
  <2>1. {d \in job[h].todo : status[d] = "pending" /\ Enabled(d)} \in SUBSET Dispatches
    BY <1>0 DEF Jobs
  <2>2. LocalType'
    BY <1>1, <2>1, ResumeTyped DEF Select
  <2>3. QED
    BY <1>1, <2>2 DEF Select, dispatchRow, runRow, rest, DispatchType, RunType, RestType
<1>2. CASE Read(h)
  <2> DEFINE item == [dispatch |-> job[h].current, attempt |-> attempt[job[h].current]]
  <2>1. item \in Items
    <3>1. job[h].current \in Dispatches
      BY <1>0, <1>2 DEF Read, LocalType, Jobs
    <3>2. QED
      BY <3>1 DEF Items, DispatchType
  <2>2. job[h].todo \in SUBSET Dispatches /\ job[h].items \in SUBSET Items
    BY <1>0 DEF Jobs
  <2>3. LocalType'
    <3>1. PICK items \in SUBSET Items : Resume(h, job[h].todo, items)
      BY <1>2, <2>1, <2>2 DEF Read
    <3>2. QED
      BY <2>2, <3>1, ResumeTyped
  <2>4. QED
    BY <1>2, <2>3 DEF Read, dispatchRow, runRow, rest, DispatchType, RunType, RestType
<1>3. CASE Admit(h)
  <2>1. LocalType'
    BY <1>0, <1>3, GotoTyped, [job[h] EXCEPT !.live = job[h].current \notin expired] \in Jobs
       DEF Admit, Fits, Labels, Jobs
  <2>2. QED
    BY <1>3, <2>1 DEF Admit, dispatchRow, runRow, rest, DispatchType, RunType, RestType
<1>4. CASE Refuse(h)
  BY <1>4, AbandonTyped DEF Refuse, dispatchRow, runRow, rest, DispatchType, RunType, RestType
<1>5. CASE Settle(h)
  <2>1. LocalType'
    BY <1>5, NextItemTyped DEF Settle
  <2>2. job[h].current \in Dispatches
    BY <1>0, <1>5 DEF Settle, LocalType, Jobs
  <2>3. DispatchType' /\ alerted' \in SUBSET Dispatches
    <3>1. CASE Settleable(h)
      BY <1>5, <2>2, <3>1, ReleaseTyped DEF Settle, TerminalRun, RestType
    <3>2. CASE ~Settleable(h)
      BY <1>5, <3>2 DEF Settle, dispatchRow, DispatchType, RestType
    <3>3. QED
      BY <3>1, <3>2
  <2>4. QED
    BY <1>5, <2>1, <2>3 DEF Settle, runRow, RunType, RestType
<1>6. CASE RecoverSelect(h)
  <2> DEFINE rows == {[dispatch |-> d, run |-> runId[d], lease |-> lease[d]] :
                        d \in {e \in expired : status[e] \in Active}}
  <2>1. rows \in SUBSET Rows
    BY DEF Rows, DispatchType
  <2>2. [job[h] EXCEPT !.rows = rows] \in Jobs
    BY <1>0, <2>1 DEF Jobs
  <2>3. LocalType'
    BY <1>6, <2>2, GotoTyped DEF RecoverSelect, Fits, Labels
  <2>4. QED
    BY <1>6, <2>3 DEF RecoverSelect, dispatchRow, runRow, rest, DispatchType, RunType, RestType
<1>7. ASSUME NEW d \in Dispatches, Lease(h, d) PROVE TypeOK'
  <2>1. job[h].todo \in SUBSET Dispatches /\ job[h].items \in SUBSET Items
    BY <1>0 DEF Jobs
  <2>2. CASE Leasable(d)
    <3>1. [job[h] EXCEPT !.todo = @ \ {d}, !.current = d] \in Jobs
      BY <1>0 DEF Jobs
    <3>2. LocalType'
      <4>1. Fits("read", [job[h] EXCEPT !.todo = @ \ {d}, !.current = d])
        BY <1>0, <3>1 DEF Fits, Jobs
      <4>2. QED
        BY <1>7, <2>2, <3>1, <4>1, GotoTyped DEF Lease, Labels
    <3>3. DispatchType'
      BY <1>7, <2>2 DEF Lease, Grant, DispatchType, DispatchStatuses, Active
    <3>4. QED
      BY <1>7, <3>2, <3>3 DEF Lease, runRow, rest, RunType, RestType
  <2>3. CASE ~Leasable(d)
    <3>1. LocalType'
      BY <1>7, <2>1, <2>3, ResumeTyped DEF Lease
    <3>2. QED
      BY <1>7, <2>3, <3>1
         DEF Lease, dispatchRow, runRow, rest, DispatchType, RunType, RestType
  <2>4. QED
    BY <2>2, <2>3
<1>8. ASSUME NEW d \in Dispatches, InsertDue(h, d) PROVE TypeOK'
  BY <1>8 DEF InsertDue, Insert, LocalType, DispatchType, RunType, RestType,
       DispatchStatuses, runRow, rest, local
<1>9. ASSUME NEW item \in job[h].items, Execute(h, item) PROVE TypeOK'
  <2> DEFINE j == [job[h] EXCEPT !.items = @ \ {item}, !.current = item.dispatch,
                                 !.attempt = item.attempt]
  <2>1. item \in Items
    BY <1>0 DEF Jobs
  <2>2. j \in Jobs
    BY <1>0, <2>1 DEF Jobs, Items
  <2>3. LocalType'
    BY <1>9, <2>2, GotoTyped DEF Execute, Fits, Labels
  <2>4. QED
    BY <1>9, <2>3 DEF Execute, dispatchRow, runRow, rest, DispatchType, RunType, RestType
<1>10. ASSUME NEW row \in job[h].rows, RecoverRow(h, row) PROVE TypeOK'
  <2>1. row \in Rows
    BY <1>0 DEF Jobs
  <2>2. LocalType'
    <3>1. [job[h] EXCEPT !.rows = @ \ {row}] \in Jobs
      BY <1>0 DEF Jobs
    <3>2. QED
      BY <1>10, <3>1, GotoTyped DEF RecoverRow, Fits, Labels
  <2>3. DispatchType' /\ alerted' \in SUBSET Dispatches
    <3>1. CASE Overdue(row)
      BY <1>10, <2>1, <3>1, ReleaseTyped DEF RecoverRow, TerminalRun, RestType, Rows
    <3>2. CASE ~Overdue(row)
      BY <1>10, <3>2 DEF RecoverRow, dispatchRow, DispatchType, RestType
    <3>3. QED
      BY <3>1, <3>2
  <2>4. RunType'
    BY <1>10 DEF RecoverRow, RunType, TerminalRun
  <2>5. QED
    BY <1>10, <2>2, <2>3, <2>4 DEF RecoverRow, RestType
<1>11. ASSUME NEW r \in Runs, Start(h, r) PROVE TypeOK'
  <2>1. LocalType'
    <3>1. CASE job[h].current = None \/ Startable(h)
      <4>1. [job[h] EXCEPT !.run = r, !.live = FALSE] \in Jobs
        BY <1>0 DEF Jobs
      <4>2. Fits("work", [job[h] EXCEPT !.run = r, !.live = FALSE])
        BY <1>0 DEF Fits, Jobs
      <4>3. QED
        BY <1>11, <3>1, <4>1, <4>2, GotoTyped DEF Start, Labels
    <3>2. CASE ~(job[h].current = None \/ Startable(h))
      BY <1>11, <3>2, NextItemTyped DEF Start
    <3>3. QED
      BY <3>1, <3>2
  <2>2. [dispatch |-> job[h].current, attempt |-> job[h].attempt] \in Items
          \/ job[h].current = None
    BY <1>0 DEF Jobs, Items
  <2>3. DispatchType'
    BY <1>11 DEF Start, DispatchType, DispatchStatuses, Active
  <2>4. RunType'
    BY <1>11, <2>2 DEF Start, RunType
  <2>5. QED
    BY <1>11, <2>1, <2>3, <2>4 DEF Start, rest, RestType
<1>12. ASSUME NEW result \in {"completed", "failed"}, Finish(h, result) PROVE TypeOK'
  <2>1. LocalType'
    BY <1>12, NextItemTyped, AbandonTyped DEF Finish
  <2>2. job[h].run \in Runs
    BY <1>0, <1>12 DEF Finish, LocalType, Jobs
  <2>3. DispatchType' /\ RunType'
    <3>1. CASE Unfinished(job[h].run)
      BY <1>12, <2>2, <3>1, ConcludeTyped DEF Finish, TerminalRun
    <3>2. CASE ~Unfinished(job[h].run)
      BY <1>12, <3>2 DEF Finish, dispatchRow, DispatchType, RunType
    <3>3. QED
      BY <3>1, <3>2
  <2>4. QED
    BY <1>12, <2>1, <2>3 DEF Finish, rest, RestType
<1>13. QED
  BY <1>1, <1>2, <1>3, <1>4, <1>5, <1>6, <1>7, <1>8, <1>9, <1>10, <1>11, <1>12 DEF Continue

\* Every step keeps the types.
LEMMA TypeNext == TypeOK /\ [Next]_vars => TypeOK'
<1> SUFFICES ASSUME TypeOK, [Next]_vars PROVE TypeOK'
  OBVIOUS
<1> USE TypeParts, TypePartsNext
<1>0. NoJob \in Jobs /\ {"idle", "recover_select", "admit", "select", "read"} \subseteq Labels
  BY DEF NoJob, Jobs, Labels
<1>1. ASSUME NEW h \in Workers, Continue(h) PROVE TypeOK'
  BY <1>1, TypeContinue
<1>2. ASSUME NEW h \in Workers, Tick(h) PROVE TypeOK'
  <2>1. [NoJob EXCEPT !.todo = Dispatches] \in Jobs
    BY <1>0 DEF Jobs
  <2>2. LocalType'
    BY <1>0, <1>2, <2>1, GotoTyped DEF Tick, Begin, Fits
  <2>3. QED
    BY <1>2, <2>2 DEF Tick, dispatchRow, runRow, rest, DispatchType, RunType, RestType
<1>3. ASSUME NEW h \in Workers, UserRun(h) PROVE TypeOK'
  <2>1. LocalType'
    BY <1>0, <1>3, GotoTyped DEF UserRun, Begin, Fits
  <2>2. QED
    BY <1>3, <2>1 DEF UserRun, dispatchRow, runRow, rest, DispatchType, RunType, RestType
<1>4. ASSUME NEW h \in Workers, Throw(h) PROVE TypeOK'
  <2>1. LocalType'
    BY <1>4, AbandonTyped DEF Throw
  <2>2. QED
    BY <1>4, <2>1 DEF Throw, dispatchRow, runRow, rest, DispatchType, RunType, RestType
<1>5. ASSUME NEW h \in Workers, Crash(h) PROVE TypeOK'
  <2>1. LocalType'
    BY <1>0, <1>5, GotoTyped DEF Crash, Fits
  <2>2. QED
    BY <1>5, <2>1 DEF Crash, dispatchRow, runRow, DispatchType, RunType, RestType
<1>6. ASSUME NEW h \in Workers, NEW d \in Dispatches, Receive(h, d) PROVE TypeOK'
  <2>1. [NoJob EXCEPT !.todo = {d}] \in Jobs
    BY <1>0 DEF Jobs
  <2>2. LocalType'
    BY <1>0, <1>6, <2>1, GotoTyped DEF Receive, Begin, Fits
  <2>3. QED
    BY <1>6, <2>2
       DEF Receive, Insert, runRow, rest, DispatchType, RunType, RestType, DispatchStatuses
<1>7. ASSUME NEW h \in Workers, NEW d \in Dispatches, Replay(h, d) PROVE TypeOK'
  <2>1. [NoJob EXCEPT !.current = d] \in Jobs
    BY <1>0 DEF Jobs
  <2>2. [NoJob EXCEPT !.current = d].current = d
    BY DEF NoJob
  <2>3. LocalType'
    BY <1>0, <1>7, <2>1, <2>2, GotoTyped DEF Replay, Begin, Fits
  <2>4. DispatchType'
    BY <1>7 DEF Replay, Grant, DispatchType, DispatchStatuses, Active
  <2>5. QED
    BY <1>7, <2>3, <2>4 DEF Replay, runRow, rest, RunType, RestType
<1>8. ASSUME NEW r \in Runs, Progress(r) PROVE TypeOK'
  BY <1>8 DEF Progress, runRow, rest, local, LocalType, DispatchType, RunType, RestType
<1>9. ASSUME NEW r \in Runs, CancelRun(r) PROVE TypeOK'
  <2>1. DispatchType'
    BY <1>9, ReleaseTyped DEF CancelRun, TerminalRun
  <2>2. RunType'
    BY <1>9 DEF CancelRun, RunType, TerminalRun
  <2>3. QED
    BY <1>9, <2>1, <2>2 DEF CancelRun, rest, local, LocalType, RestType
<1>10. ASSUME NEW r \in Runs, NEW result \in {"completed", "failed"}, Callback(r, result)
       PROVE  TypeOK'
  <2>1. DispatchType' /\ RunType'
    BY <1>10, ConcludeTyped DEF Callback, TerminalRun
  <2>2. QED
    BY <1>10, <2>1 DEF Callback, rest, local, LocalType, RestType
<1>11. ASSUME NEW d \in Dispatches, Expire(d) PROVE TypeOK'
  BY <1>11 DEF Expire, runRow, rest, local, LocalType, DispatchType, RunType, RestType
<1>12. ASSUME NEW t \in Triggers, NEW s \in {"enabled", "paused", "disabled"},
              UpdateTrigger(t, s)
       PROVE  TypeOK'
  <2>1. DispatchType' /\ RunType'
    <3>1. CASE s = "disabled"
      BY <1>12, <3>1, ReleaseTyped DEF UpdateTrigger, RunType, TerminalRun
    <3>2. CASE s # "disabled"
      BY <1>12, <3>2 DEF UpdateTrigger, dispatchRow, DispatchType, RunType
    <3>3. QED
      BY <3>1, <3>2
  <2>2. QED
    BY <1>12, <2>1 DEF UpdateTrigger, rest, local, LocalType, RestType
<1>13. CASE Quarantine
  BY <1>13 DEF Quarantine, dispatchRow, rest, local, LocalType, DispatchType, RunType,
       RestType, TerminalRun
<1>14. CASE UNCHANGED vars
  BY <1>14 DEF vars, dispatchRow, runRow, rest, local, LocalType, DispatchType, RunType,
       RestType
<1>15. QED
  BY <1>1, <1>2, <1>3, <1>4, <1>5, <1>6, <1>7, <1>8, <1>9, <1>10, <1>11, <1>12, <1>13,
     <1>14 DEF Next

\* The state has its types: among others, whoever reads back or settles has a
\* dispatch in hand, and whoever works has a run.
THEOREM TypeSafety == Spec => []TypeOK
<1>1. QED
  BY TypeInit, TypeNext, PTL DEF Spec

-----------------------------------------------------------------------------
(* What a step does to the rows: nothing, or one of seven effects.         *)

Untouched == UNCHANGED <<trigger, dispatchRow, runRow>>

Inserted(d) == Insert(d) /\ UNCHANGED <<trigger, runRow>>

\* Handler h is granted a lease, on what is pending or on what is replayed.
Taken(h, d) ==
  /\ Enabled(d) /\ Room(TriggerOf[d])
  /\ Grant(h, d)
  /\ \/ status[d] = "pending" /\ UNCHANGED runId
     \/ status[d] \in {"failed", "cancelled"} /\ runId' = [runId EXCEPT ![d] = None]
  /\ UNCHANGED <<trigger, runRow>>

\* Handler h starts run r, of a user or of its dispatch.
Started(h, r) ==
  LET d == job[h].current IN
  /\ pc[h] = "start" /\ run[r] = "none"
  /\ run' = [run EXCEPT ![r] = "running"]
  /\ \/ d = None /\ UNCHANGED <<status, runId, origin>>
     \/ /\ d \in Dispatches /\ Startable(h)
        /\ status' = [status EXCEPT ![d] = "running"]
        /\ runId' = [runId EXCEPT ![d] = r]
        /\ origin' = [origin EXCEPT ![r] = [dispatch |-> d, attempt |-> job[h].attempt]]
  /\ UNCHANGED <<trigger, attempt, owner, lease, expired>>

Renewed(S) ==
  /\ lease' = [d \in Dispatches |-> IF d \in S THEN lease[d] + 1 ELSE lease[d]]
  /\ expired' = expired \ S
  /\ UNCHANGED <<trigger, status, attempt, runId, previous, owner, runRow>>

Lapsed(d) ==
  /\ expired' = expired \cup {d}
  /\ UNCHANGED <<trigger, status, attempt, runId, previous, owner, lease, runRow>>

\* The dispatches in S end with s, the runs in R with q. A disabled trigger's
\* dispatches are all in S. Success takes a run and its dispatches together, and
\* a dispatch is not cancelled without its run.
Closed(S, s, R, q) ==
  /\ run' = [r \in Runs |-> IF r \in R THEN q ELSE run[r]]
  /\ Release(S, s)
  /\ \A d \in S : status[d] \in Active \/ (status[d] = "pending" /\ s = "cancelled")
  /\ s = "completed" =>
       q = "completed" /\ \A d \in S : status[d] = "running" /\ runId[d] \in R
  /\ q = "completed" => \A d \in Dispatches : status[d] = "running" /\ runId[d] \in R => d \in S
  /\ s = "cancelled" =>
       \A d \in S : runId[d] \in LiveRuns => runId[d] \in R /\ q = "cancelled"
  /\ \A d \in Dispatches :
       /\ trigger'[TriggerOf[d]] = "disabled" /\ trigger[TriggerOf[d]] # "disabled"
       /\ status[d] \in {"pending"} \cup Active
       => d \in S
  /\ UNCHANGED origin

Effect ==
  \/ Untouched
  \/ \E d \in Dispatches : Inserted(d) \/ Lapsed(d)
  \/ \E h \in Workers, d \in Dispatches : Taken(h, d)
  \/ \E h \in Workers, r \in Runs : Started(h, r)
  \/ \E S \in SUBSET Dispatches : Renewed(S)
  \/ \E S \in SUBSET Dispatches, R \in SUBSET LiveRuns, s, q \in TerminalRun : Closed(S, s, R, q)

\* A handler that releases nobody has the empty closing effect.
LEMMA ReleaseNobody ==
  ASSUME TypeOK, UNCHANGED dispatchRow, NEW s PROVE Release({}, s)
  BY DEF TypeOK, Release, dispatchRow

\* The end of a run is a closing effect.
LEMMA ConcludeEffect ==
  ASSUME TypeOK, NEW r \in Runs, NEW result \in {"completed", "failed"}, Unfinished(r),
         Conclude(r, result), UNCHANGED <<trigger, origin>>
  PROVE  Effect
<1> DEFINE S == {d \in Dispatches : status[d] = "running" /\ runId[d] = r}
<1>1. S \in SUBSET Dispatches /\ {r} \in SUBSET LiveRuns /\ result \in TerminalRun
  BY DEF LiveRuns, Unfinished, TerminalRun
<1>2. run' = [x \in Runs |-> IF x \in {r} THEN result ELSE run[x]]
  BY DEF Conclude, TypeOK
<1>3. Closed(S, result, {r}, result)
  BY <1>2 DEF Conclude, Closed, Active
<1>4. QED
  BY <1>1, <1>3 DEF Effect

\* The step of a handler has an effect.
LEMMA ContinueEffect ==
  ASSUME TypeOK, NEW h \in Workers, Continue(h)
  PROVE  Effect
<1>0. job[h] \in Jobs
  BY DEF TypeOK
<1>1. CASE Select(h) \/ Read(h) \/ Admit(h) \/ Refuse(h) \/ RecoverSelect(h)
  BY <1>1 DEF Select, Read, Admit, Refuse, RecoverSelect, Effect, Untouched
<1>2. CASE Settle(h)
  <2>1. job[h].current \in Dispatches
    BY <1>0, <1>2 DEF Settle, TypeOK, Jobs
  <2>2. CASE Settleable(h)
    <3>1. run' = [r \in Runs |-> IF r \in {} THEN "failed" ELSE run[r]]
      BY <1>2 DEF Settle, runRow, TypeOK
    <3>2. Closed({job[h].current}, "failed", {}, "failed")
      BY <1>2, <2>2, <3>1 DEF Settle, Settleable, Closed, runRow
    <3>3. QED
      BY <2>1, <3>2 DEF Effect, TerminalRun
  <2>3. CASE ~Settleable(h)
    BY <1>2, <2>3 DEF Settle, Effect, Untouched
  <2>4. QED
    BY <2>2, <2>3
<1>3. ASSUME NEW d \in Dispatches, Lease(h, d) PROVE Effect
  <2>1. CASE Leasable(d)
    <3>1. Taken(h, d)
      BY <1>3, <2>1 DEF Lease, Leasable, Taken
    <3>2. QED
      BY <3>1 DEF Effect
  <2>2. CASE ~Leasable(d)
    BY <1>3, <2>2 DEF Lease, Effect, Untouched
  <2>3. QED
    BY <2>1, <2>2
<1>4. ASSUME NEW d \in Dispatches, InsertDue(h, d) PROVE Effect
  BY <1>4 DEF InsertDue, Inserted, Effect
<1>5. ASSUME NEW item \in job[h].items, Execute(h, item) PROVE Effect
  BY <1>5 DEF Execute, Effect, Untouched
<1>6. ASSUME NEW row \in job[h].rows, RecoverRow(h, row) PROVE Effect
  <2> DEFINE R == {row.run} \cap LiveRuns
             S == IF Overdue(row) THEN {row.dispatch} ELSE {}
  <2>1. row \in Rows
    BY <1>0 DEF Jobs
  <2>2. run' = [r \in Runs |-> IF r \in R THEN "failed" ELSE run[r]]
    <3>1. row.run \in Runs \cup {None}
      BY <2>1 DEF Rows
    <3>2. run \in [Runs -> {"none", "running"} \cup TerminalRun]
      BY DEF TypeOK
    <3>3. CASE row.run # None /\ Unfinished(row.run)
      BY <1>6, <3>1, <3>2, <3>3 DEF RecoverRow, LiveRuns, Unfinished
    <3>4. CASE ~(row.run # None /\ Unfinished(row.run))
      <4>1. R = {}
        BY <3>1, <3>4 DEF LiveRuns, Unfinished
      <4>2. run' = run
        BY <1>6, <3>4 DEF RecoverRow
      <4>3. QED
        BY <3>2, <4>1, <4>2
    <3>5. QED
      BY <3>3, <3>4
  <2>3. Release(S, "failed")
    BY <1>6, ReleaseNobody DEF RecoverRow
  <2>4. \A d \in S : status[d] \in Active
    BY DEF Overdue
  <2>5. Closed(S, "failed", R, "failed")
    BY <1>6, <2>2, <2>3, <2>4 DEF RecoverRow, Closed
  <2>6. S \in SUBSET Dispatches /\ R \in SUBSET LiveRuns
    BY <2>1 DEF Rows
  <2>7. QED
    BY <2>5, <2>6 DEF Effect, TerminalRun
<1>7. ASSUME NEW r \in Runs, Start(h, r) PROVE Effect
  <2>1. CASE job[h].current = None
    <3>1. Started(h, r)
      BY <1>7, <2>1 DEF Start, Started
    <3>2. QED
      BY <3>1 DEF Effect
  <2>2. CASE job[h].current # None /\ Startable(h)
    <3>1. job[h].current \in Dispatches
      BY <1>0, <2>2 DEF Jobs
    <3>2. Started(h, r)
      BY <1>7, <2>2, <3>1 DEF Start, Started
    <3>3. QED
      BY <3>2 DEF Effect
  <2>3. CASE job[h].current # None /\ ~Startable(h)
    BY <1>7, <2>3 DEF Start, Effect, Untouched, dispatchRow, runRow
  <2>4. QED
    BY <2>1, <2>2, <2>3
<1>8. ASSUME NEW result \in {"completed", "failed"}, Finish(h, result) PROVE Effect
  <2>1. job[h].run \in Runs
    BY <1>0, <1>8 DEF Finish, TypeOK, Jobs
  <2>2. CASE Unfinished(job[h].run)
    BY <1>8, <2>1, <2>2, ConcludeEffect DEF Finish
  <2>3. CASE ~Unfinished(job[h].run)
    BY <1>8, <2>3 DEF Finish, Effect, Untouched, runRow
  <2>4. QED
    BY <2>2, <2>3
<1>9. QED
  BY <1>1, <1>2, <1>3, <1>4, <1>5, <1>6, <1>7, <1>8 DEF Continue

\* Before its attempt starts a run, a dispatch has none.
Unstarted == \A d \in Dispatches : status[d] \in {"none", "pending", "leased"} => runId[d] = None

\* Every step has an effect.
LEMMA StepEffect ==
  ASSUME TypeOK, Unstarted, [Next]_vars
  PROVE  Effect
<1>1. ASSUME NEW h \in Workers, Continue(h) PROVE Effect
  BY <1>1, ContinueEffect
<1>2. ASSUME NEW h \in Workers, Tick(h) \/ UserRun(h) \/ Throw(h) \/ Crash(h) PROVE Effect
  BY <1>2 DEF Tick, UserRun, Throw, Crash, Effect, Untouched
<1>3. ASSUME NEW h \in Workers, NEW d \in Dispatches, Receive(h, d) PROVE Effect
  BY <1>3 DEF Receive, Inserted, Effect
<1>4. ASSUME NEW h \in Workers, NEW d \in Dispatches, Replay(h, d) PROVE Effect
  <2>1. Taken(h, d)
    BY <1>4 DEF Replay, Replayable, Taken
  <2>2. QED
    BY <2>1 DEF Effect
<1>5. ASSUME NEW r \in Runs, Progress(r) PROVE Effect
  <2>1. Renewed({d \in Dispatches : status[d] = "running" /\ runId[d] = r})
    BY <1>5 DEF Progress, Renewed
  <2>2. QED
    BY <2>1 DEF Effect
<1>6. ASSUME NEW r \in Runs, CancelRun(r) PROVE Effect
  <2> DEFINE R == {r} \cap LiveRuns
             S == {d \in Dispatches : /\ run[r] \in {"running", "cancelled"}
                                      /\ status[d] \in Active /\ runId[d] = r}
  <2>1. run' = [x \in Runs |-> IF x \in R THEN "cancelled" ELSE run[x]]
    BY <1>6 DEF CancelRun, LiveRuns, Unfinished, TypeOK
  <2>2. Closed(S, "cancelled", R, "cancelled")
    BY <1>6, <2>1 DEF CancelRun, Closed
  <2>3. QED
    BY <2>2 DEF Effect, TerminalRun
<1>7. ASSUME NEW r \in Runs, NEW result \in {"completed", "failed"}, Callback(r, result)
      PROVE  Effect
  BY <1>7, ConcludeEffect DEF Callback
<1>8. ASSUME NEW d \in Dispatches, Expire(d) PROVE Effect
  BY <1>8 DEF Expire, Lapsed, Effect
<1>9. ASSUME NEW t \in Triggers, NEW s \in {"enabled", "paused", "disabled"},
             UpdateTrigger(t, s)
      PROVE  Effect
  <2>1. CASE s = "disabled"
    <3> DEFINE R == {r \in LiveRuns : \E d \in ActiveOf(t) : runId[d] = r}
    <3>1. run' = [x \in Runs |-> IF x \in R THEN "cancelled" ELSE run[x]]
      BY <1>9, <2>1 DEF UpdateTrigger, LiveRuns, Unfinished
    <3>2. \A d \in Withdrawn(t) : runId[d] \in LiveRuns => runId[d] \in R
      <4>1. None \notin LiveRuns
        BY DEF LiveRuns
      <4>2. QED
        BY <4>1 DEF Withdrawn, ActiveOf, Unstarted
    <3>3. \A d \in Dispatches : trigger'[TriggerOf[d]] = "disabled"
                                 /\ trigger[TriggerOf[d]] # "disabled" => TriggerOf[d] = t
      BY <1>9 DEF UpdateTrigger, TypeOK
    <3>4. Closed(Withdrawn(t), "cancelled", R, "cancelled")
      BY <1>9, <2>1, <3>1, <3>2, <3>3 DEF UpdateTrigger, Closed, Withdrawn
    <3>5. Withdrawn(t) \in SUBSET Dispatches /\ R \in SUBSET LiveRuns
      BY DEF Withdrawn
    <3>6. QED
      BY <3>4, <3>5 DEF Effect, TerminalRun
  <2>2. CASE s # "disabled"
    <3>1. run' = [x \in Runs |-> IF x \in {} THEN "failed" ELSE run[x]]
      BY <1>9, <2>2 DEF UpdateTrigger, TypeOK
    <3>2. Release({}, "failed")
      BY <1>9, <2>2, ReleaseNobody DEF UpdateTrigger
    <3>3. \A d \in Dispatches :
            trigger'[TriggerOf[d]] = "disabled" => trigger[TriggerOf[d]] = "disabled"
      BY <1>9, <2>2 DEF UpdateTrigger, TypeOK
    <3>4. Closed({}, "failed", {}, "failed")
      BY <1>9, <3>1, <3>2, <3>3 DEF UpdateTrigger, Closed
    <3>5. QED
      BY <3>4 DEF Effect, TerminalRun
  <2>3. QED
    BY <2>1, <2>2
<1>10. CASE Quarantine
  <2>1. run' = [x \in Runs |-> IF x \in LiveRuns THEN "cancelled" ELSE run[x]]
    BY <1>10 DEF Quarantine, LiveRuns, Unfinished
  <2>2. Release({}, "failed")
    BY <1>10, ReleaseNobody DEF Quarantine
  <2>3. \A d \in Dispatches :
          trigger'[TriggerOf[d]] = "disabled" => trigger[TriggerOf[d]] = "disabled"
    BY <1>10 DEF Quarantine, TypeOK
  <2>4. Closed({}, "failed", LiveRuns, "cancelled")
    BY <1>10, <2>1, <2>2, <2>3 DEF Quarantine, Closed
  <2>5. QED
    BY <2>4 DEF Effect, TerminalRun
<1>11. CASE UNCHANGED vars
  BY <1>11 DEF vars, Effect, Untouched
<1>12. QED
  BY <1>1, <1>2, <1>3, <1>4, <1>5, <1>6, <1>7, <1>8, <1>9, <1>10, <1>11 DEF Next

-----------------------------------------------------------------------------
(* Dispatches and their runs.                                              *)

\* What OutcomeFollowsRun needs: a dispatch has a run from the moment it is running,
\* the run exists, and no run succeeds while its dispatch is still running.
OutcomeInv ==
  /\ Unstarted
  /\ \A d \in Dispatches : runId[d] # None => run[runId[d]] # "none"
  /\ \A d \in Dispatches : status[d] = "running" /\ runId[d] # None =>
       run[runId[d]] # "completed"
  /\ OutcomeFollowsRun

\* Every effect keeps it.
LEMMA OutcomeStep ==
  ASSUME TypeOK, OutcomeInv, Effect
  PROVE  OutcomeInv'
<1> USE DEF OutcomeInv, Unstarted, OutcomeFollowsRun
<1>0. /\ status \in [Dispatches -> DispatchStatuses]
      /\ runId \in [Dispatches -> Runs \cup {None}]
      /\ run \in [Runs -> {"none", "running"} \cup TerminalRun]
      /\ None \notin Runs
  BY DEF TypeOK
<1>1. CASE Untouched
  BY <1>1 DEF Untouched, dispatchRow, runRow
<1>2. ASSUME NEW d \in Dispatches, Inserted(d) PROVE OutcomeInv'
  BY <1>0, <1>2 DEF Inserted, Insert, runRow
<1>3. ASSUME NEW d \in Dispatches, Lapsed(d) PROVE OutcomeInv'
  BY <1>3 DEF Lapsed, runRow
<1>4. ASSUME NEW h \in Workers, NEW d \in Dispatches, Taken(h, d) PROVE OutcomeInv'
  BY <1>0, <1>4 DEF Taken, Grant, runRow
<1>5. ASSUME NEW h \in Workers, NEW r \in Runs, Started(h, r) PROVE OutcomeInv'
  BY <1>0, <1>5 DEF Started, Startable
<1>6. ASSUME NEW S \in SUBSET Dispatches, Renewed(S) PROVE OutcomeInv'
  BY <1>6 DEF Renewed, runRow
<1>7. ASSUME NEW S \in SUBSET Dispatches, NEW R \in SUBSET LiveRuns,
             NEW s \in TerminalRun, NEW q \in TerminalRun, Closed(S, s, R, q)
      PROVE  OutcomeInv'
  <2>1. /\ status' = [d \in Dispatches |-> IF d \in S THEN s ELSE status[d]]
        /\ run' = [r \in Runs |-> IF r \in R THEN q ELSE run[r]]
        /\ runId' = runId
    BY <1>7 DEF Closed, Release
  <2>2. R \subseteq Runs /\ \A r \in R : run[r] = "running"
    BY DEF LiveRuns
  <2>3. \A d \in S : status[d] \in {"pending", "leased", "running"}
    BY <1>7 DEF Closed, Active
  <2>4. Unstarted'
    BY <1>0, <2>1, <2>3 DEF TerminalRun
  <2>5. \A d \in Dispatches : runId'[d] # None => run'[runId'[d]] # "none"
    BY <1>0, <2>1 DEF TerminalRun
  <2>6. ASSUME NEW d \in Dispatches, status'[d] = "running", runId'[d] # None
        PROVE  run'[runId'[d]] # "completed"
    <3>1. d \notin S /\ status[d] = "running" /\ runId[d] \in Runs
      BY <1>0, <2>1, <2>6 DEF TerminalRun
    <3>2. ~(runId[d] \in R /\ q = "completed")
      BY <1>7, <3>1 DEF Closed
    <3>3. QED
      BY <2>1, <3>1, <3>2
  <2>7. ASSUME NEW d \in Dispatches, status'[d] = "completed"
        PROVE  runId'[d] # None /\ run'[runId'[d]] = "completed"
    <3>1. CASE d \in S
      <4>1. s = "completed"
        BY <2>1, <2>7, <3>1
      <4>2. runId[d] \in R /\ q = "completed"
        BY <1>7, <3>1, <4>1 DEF Closed
      <4>3. QED
        BY <1>0, <2>1, <2>2, <4>2
    <3>2. CASE d \notin S
      <4>1. runId[d] \in Runs /\ run[runId[d]] = "completed"
        BY <1>0, <2>1, <2>7, <3>2
      <4>2. QED
        BY <1>0, <2>1, <2>2, <4>1
    <3>3. QED
      BY <3>1, <3>2
  <2>8. ASSUME NEW d \in Dispatches, status'[d] = "cancelled", runId'[d] # None
        PROVE  run'[runId'[d]] \in {"cancelled", "failed"}
    <3>0. runId[d] \in Runs
      BY <1>0, <2>1, <2>8
    <3>1. CASE d \in S
      <4>1. s = "cancelled"
        BY <2>1, <2>8, <3>1
      <4>2. status[d] = "running"
        BY <2>1, <2>3, <2>8, <3>1
      <4>3. CASE runId[d] \in LiveRuns
        <5>1. runId[d] \in R /\ q = "cancelled"
          BY <1>7, <3>1, <4>1, <4>3 DEF Closed
        <5>2. QED
          BY <2>1, <3>0, <5>1
      <4>4. CASE runId[d] \notin LiveRuns
        <5>1. run[runId[d]] \in {"cancelled", "failed"}
          BY <1>0, <3>0, <4>2, <4>4 DEF LiveRuns, TerminalRun
        <5>2. QED
          BY <2>1, <2>2, <3>0, <5>1
      <4>5. QED
        BY <4>3, <4>4
    <3>2. CASE d \notin S
      BY <1>0, <2>1, <2>2, <2>8, <3>0, <3>2
    <3>3. QED
      BY <3>1, <3>2
  <2>9. QED
    BY <2>4, <2>5, <2>6, <2>7, <2>8
<1>8. QED
  BY <1>1, <1>2, <1>3, <1>4, <1>5, <1>6, <1>7 DEF Effect

-----------------------------------------------------------------------------
(* The limits.                                                             *)

\* A trigger's active dispatches can be counted, and are within its limit.
BoundInv ==
  \A t \in Triggers : IsFiniteSet(ActiveOf(t)) /\ Cardinality(ActiveOf(t)) <= MaxConcurrent

\* Only a grant adds to the active dispatches, and it adds one where there is room.
LEMMA BoundStep ==
  ASSUME TypeOK, BoundInv, Effect
  PROVE  BoundInv'
<1> SUFFICES ASSUME NEW t \in Triggers
             PROVE  IsFiniteSet(ActiveOf(t)') /\ Cardinality(ActiveOf(t)') <= MaxConcurrent
  BY DEF BoundInv
<1>0. IsFiniteSet(ActiveOf(t)) /\ Cardinality(ActiveOf(t)) <= MaxConcurrent
  BY DEF BoundInv
<1>1. status \in [Dispatches -> DispatchStatuses]
  BY DEF TypeOK
<1>2. CASE ActiveOf(t)' \subseteq ActiveOf(t)
  <2>1. IsFiniteSet(ActiveOf(t)') /\ Cardinality(ActiveOf(t)') <= Cardinality(ActiveOf(t))
    BY <1>0, <1>2, FS_Subset
  <2>2. Cardinality(ActiveOf(t)') \in Nat /\ Cardinality(ActiveOf(t)) \in Nat
    BY <1>0, <2>1, FS_CardinalityType
  <2>3. QED
    BY <1>0, <2>1, <2>2
<1>3. ASSUME NEW h \in Workers, NEW d \in Dispatches, Taken(h, d)
      PROVE  IsFiniteSet(ActiveOf(t)') /\ Cardinality(ActiveOf(t)') <= MaxConcurrent
  <2>1. status' = [status EXCEPT ![d] = "leased"]
    BY <1>3 DEF Taken, Grant
  <2>2. CASE TriggerOf[d] = t
    <3>1. Cardinality(ActiveOf(t)) < MaxConcurrent
      BY <1>3, <2>2 DEF Taken, Room
    <3>2. ActiveOf(t)' = ActiveOf(t) \cup {d}
      BY <1>1, <2>1, <2>2 DEF ActiveOf, Active
    <3>3. d \notin ActiveOf(t)
      BY <1>3 DEF Taken, ActiveOf, Active
    <3>4. IsFiniteSet(ActiveOf(t) \cup {d})
           /\ Cardinality(ActiveOf(t) \cup {d}) = Cardinality(ActiveOf(t)) + 1
      BY <1>0, <3>3, FS_AddElement
    <3>5. Cardinality(ActiveOf(t)) \in Nat
      BY <1>0, FS_CardinalityType
    <3>6. QED
      BY <3>1, <3>2, <3>4, <3>5
  <2>3. CASE TriggerOf[d] # t
    <3>1. ActiveOf(t)' = ActiveOf(t)
      BY <1>1, <2>1, <2>3 DEF ActiveOf
    <3>2. QED
      BY <1>2, <3>1
  <2>4. QED
    BY <2>2, <2>3
<1>4. ASSUME NEW h \in Workers, NEW r \in Runs, Started(h, r)
      PROVE  ActiveOf(t)' \subseteq ActiveOf(t)
  BY <1>1, <1>4 DEF Started, Startable, ActiveOf, Active
<1>5. ASSUME NEW S \in SUBSET Dispatches, NEW s \in TerminalRun, Release(S, s)
      PROVE  ActiveOf(t)' \subseteq ActiveOf(t)
  BY <1>1, <1>5 DEF Release, ActiveOf, Active, TerminalRun
<1>6. ASSUME \/ Untouched
             \/ \E d \in Dispatches : Inserted(d) \/ Lapsed(d)
             \/ \E S \in SUBSET Dispatches : Renewed(S)
      PROVE  ActiveOf(t)' \subseteq ActiveOf(t)
  BY <1>1, <1>6 DEF Untouched, Inserted, Insert, Lapsed, Renewed, dispatchRow, ActiveOf, Active
<1>7. QED
  BY <1>2, <1>3, <1>4, <1>5, <1>6 DEF Effect, Closed

\* Only a handler that finds the trigger enabled adds to its dispatches, and
\* disabling it ends them all.
LEMMA DisabledStep ==
  ASSUME TypeOK, DisabledQuiet, Effect
  PROVE  DisabledQuiet'
<1> USE DEF DisabledQuiet, Active
<1>0. status \in [Dispatches -> DispatchStatuses] /\ runId \in [Dispatches -> Runs \cup {None}]
  BY DEF TypeOK
<1>1. CASE Untouched
  BY <1>1 DEF Untouched, dispatchRow
<1>2. ASSUME NEW d \in Dispatches, Inserted(d) PROVE DisabledQuiet'
  BY <1>0, <1>2 DEF Inserted, Insert, Enabled
<1>3. ASSUME NEW d \in Dispatches, Lapsed(d) PROVE DisabledQuiet'
  BY <1>3 DEF Lapsed
<1>4. ASSUME NEW h \in Workers, NEW d \in Dispatches, Taken(h, d) PROVE DisabledQuiet'
  BY <1>0, <1>4 DEF Taken, Grant, Enabled
<1>5. ASSUME NEW h \in Workers, NEW r \in Runs, Started(h, r) PROVE DisabledQuiet'
  BY <1>0, <1>5 DEF Started, Startable
<1>6. ASSUME NEW S \in SUBSET Dispatches, Renewed(S) PROVE DisabledQuiet'
  BY <1>6 DEF Renewed
<1>7. ASSUME NEW S \in SUBSET Dispatches, NEW R \in SUBSET LiveRuns,
             NEW s \in TerminalRun, NEW q \in TerminalRun, Closed(S, s, R, q)
      PROVE  DisabledQuiet'
  <2>1. status' = [d \in Dispatches |-> IF d \in S THEN s ELSE status[d]]
    BY <1>7 DEF Closed, Release
  <2>2. ASSUME NEW d \in Dispatches, trigger'[TriggerOf[d]] = "disabled",
               status[d] \in {"pending"} \cup Active
        PROVE  d \in S
    BY <1>7, <2>2 DEF Closed
  <2>3. QED
    BY <1>0, <2>1, <2>2 DEF TerminalRun
<1>8. QED
  BY <1>1, <1>2, <1>3, <1>4, <1>5, <1>6, <1>7 DEF Effect

\* What OneLiveRun needs where one run is allowed: a dispatch that waits to start a
\* run has none under way, and a run that was not started comes from no dispatch.
LiveInv ==
  /\ IsFiniteSet(LiveRuns)
  /\ \A r \in Runs : run[r] = "none" => origin[r] = None
  /\ MaxConcurrent = 1 =>
       /\ \A r \in LiveRuns : origin[r] # None => status[origin[r].dispatch] # "leased"
       /\ OneLiveRun

\* A grant waits until no run is under way, and a start ends the lease's waiting.
LEMMA LiveStep ==
  ASSUME TypeOK, LiveInv, Effect
  PROVE  LiveInv'
<1> USE DEF LiveInv, OneLiveRun, LiveRuns
<1>0. /\ status \in [Dispatches -> DispatchStatuses]
      /\ runId \in [Dispatches -> Runs \cup {None}]
      /\ run \in [Runs -> {"none", "running"} \cup TerminalRun]
      /\ origin \in [Runs -> Items \cup {None}]
      /\ \A r \in Runs : origin[r] # None => origin[r].dispatch \in Dispatches
      /\ IsFiniteSet(LiveRuns)
  BY DEF TypeOK, Items
<1>1. CASE Untouched
  BY <1>0, <1>1 DEF Untouched, dispatchRow, runRow
<1>2. ASSUME NEW d \in Dispatches, Inserted(d) PROVE LiveInv'
  BY <1>0, <1>2 DEF Inserted, Insert, runRow
<1>3. ASSUME NEW d \in Dispatches, Lapsed(d) PROVE LiveInv'
  BY <1>0, <1>3 DEF Lapsed, runRow
<1>4. ASSUME NEW h \in Workers, NEW d \in Dispatches, Taken(h, d) PROVE LiveInv'
  <2>1. run' = run /\ origin' = origin /\ LiveRuns' = LiveRuns
    BY <1>4 DEF Taken, runRow
  <2>2. CASE MaxConcurrent = 1
    <3>1. Cardinality(LiveRuns) < 1
      BY <1>4, <2>2 DEF Taken, Room
    <3>2. Cardinality(LiveRuns) = 0
      BY <1>0, <3>1, FS_CardinalityType
    <3>3. LiveRuns = {}
      BY <1>0, <3>2, FS_EmptySet
    <3>4. QED
      BY <1>0, <2>1, <3>3
  <2>3. QED
    BY <1>0, <2>1, <2>2
<1>5. ASSUME NEW h \in Workers, NEW r \in Runs, Started(h, r) PROVE LiveInv'
  <2>1. run' = [run EXCEPT ![r] = "running"] /\ run[r] = "none"
    BY <1>5 DEF Started
  <2>2. LiveRuns' = LiveRuns \cup {r} /\ r \notin LiveRuns
    BY <1>0, <2>1
  <2>3. IsFiniteSet(LiveRuns')
    <3> HIDE DEF LiveRuns
    <3>1. IsFiniteSet(LiveRuns \cup {r})
      BY <1>0, FS_AddElement
    <3>2. QED
      BY <2>2, <3>1
  <2>4. CASE job[h].current = None /\ UNCHANGED <<status, origin>>
    BY <1>0, <2>1, <2>3, <2>4
  <2>5. CASE job[h].current \in Dispatches /\ status[job[h].current] = "leased"
              /\ status' = [status EXCEPT ![job[h].current] = "running"]
              /\ origin' = [origin EXCEPT ![r] = [dispatch |-> job[h].current,
                                                  attempt |-> job[h].attempt]]
    <3>1. origin'[r] = [dispatch |-> job[h].current, attempt |-> job[h].attempt]
          /\ origin'[r].dispatch = job[h].current
      BY <1>0, <2>5
    <3>2. \A x \in Runs : x # r => origin'[x] = origin[x]
      BY <1>0, <2>5
    <3>3. \A d \in Dispatches : status'[d] = "leased" => status[d] = "leased"
                                                          /\ d # job[h].current
      BY <1>0, <2>5
    <3>4. \A x \in Runs : run'[x] = "none" => origin'[x] = None
      BY <1>0, <2>1, <3>2
    <3>5. ASSUME MaxConcurrent = 1, NEW x \in LiveRuns', origin'[x] # None
          PROVE  status'[origin'[x].dispatch] # "leased"
      <4>1. CASE x = r
        BY <2>5, <3>1, <3>3, <4>1
      <4>2. CASE x # r
        <5>1. x \in LiveRuns /\ origin'[x] = origin[x]
          BY <1>0, <2>1, <3>2, <4>2
        <5>2. status[origin[x].dispatch] # "leased" /\ origin[x].dispatch \in Dispatches
          BY <1>0, <3>5, <5>1
        <5>3. QED
          BY <3>3, <5>1, <5>2
      <4>3. QED
        BY <4>1, <4>2
    <3>6. ASSUME MaxConcurrent = 1, NEW x \in LiveRuns, origin[x] # None
          PROVE  origin[x].dispatch # job[h].current
      BY <1>0, <2>5, <3>6
    <3>7. ASSUME MaxConcurrent = 1 PROVE OneLiveRun'
      BY <1>0, <2>2, <3>1, <3>2, <3>6, <3>7
    <3>8. QED
      BY <2>3, <3>4, <3>5, <3>7
  <2>6. QED
    BY <1>5, <2>4, <2>5 DEF Started, Startable
<1>6. ASSUME NEW S \in SUBSET Dispatches, Renewed(S) PROVE LiveInv'
  BY <1>0, <1>6 DEF Renewed, runRow
<1>7. ASSUME NEW S \in SUBSET Dispatches, NEW R \in SUBSET LiveRuns,
             NEW s \in TerminalRun, NEW q \in TerminalRun, Closed(S, s, R, q)
      PROVE  LiveInv'
  <2>1. /\ status' = [d \in Dispatches |-> IF d \in S THEN s ELSE status[d]]
        /\ run' = [r \in Runs |-> IF r \in R THEN q ELSE run[r]]
        /\ origin' = origin
    BY <1>7 DEF Closed, Release
  <2>2. LiveRuns' \subseteq LiveRuns
    BY <1>0, <2>1 DEF TerminalRun
  <2>3. IsFiniteSet(LiveRuns')
    <3> HIDE DEF LiveRuns
    <3>1. QED
      BY <1>0, <2>2, FS_Subset
  <2>4. \A d \in Dispatches : status'[d] = "leased" => status[d] = "leased"
    BY <1>0, <2>1 DEF TerminalRun
  <2>5. \A r \in Runs : run'[r] = "none" => origin'[r] = None
    BY <1>0, <2>1 DEF TerminalRun
  <2>6. QED
    BY <1>0, <2>1, <2>2, <2>3, <2>4, <2>5
<1>8. QED
  BY <1>1, <1>2, <1>3, <1>4, <1>5, <1>6, <1>7 DEF Effect

-----------------------------------------------------------------------------
(* What a handler remembers of a dispatch while others write it.           *)

\* If h still has the lease of d, then the attempt is a.
Mine(h, d, a) == status[d] = "leased" /\ owner[d] = h => attempt[d] = a

\* A handler's lease is as it was before the step.
Kept(h, d) ==
  status'[d] = "leased" /\ owner'[d] = h =>
    status[d] = "leased" /\ owner[d] = h /\ attempt'[d] = attempt[d]

\* Every lease is as it was, unless the step grants it.
LEMMA KeptUnlessTaken ==
  ASSUME TypeOK, Effect, NEW h \in Workers, NEW d \in Dispatches
  PROVE  Kept(h, d) \/ (attempt'[d] = attempt[d] + 1 /\ owner'[d] = h)
<1> USE DEF Kept
<1>0. /\ status \in [Dispatches -> DispatchStatuses]
      /\ owner \in [Dispatches -> Workers \cup {None}]
      /\ attempt \in [Dispatches -> Nat]
      /\ None \notin Workers
  BY DEF TypeOK
<1>1. CASE Untouched
  BY <1>1 DEF Untouched, dispatchRow
<1>2. ASSUME NEW e \in Dispatches, Inserted(e) PROVE Kept(h, d)
  BY <1>0, <1>2 DEF Inserted, Insert
<1>3. ASSUME NEW e \in Dispatches, Lapsed(e) PROVE Kept(h, d)
  BY <1>3 DEF Lapsed
<1>4. ASSUME NEW g \in Workers, NEW e \in Dispatches, Taken(g, e)
      PROVE  Kept(h, d) \/ (attempt'[d] = attempt[d] + 1 /\ owner'[d] = h)
  BY <1>0, <1>4 DEF Taken, Grant
<1>5. ASSUME NEW g \in Workers, NEW r \in Runs, Started(g, r) PROVE Kept(h, d)
  BY <1>0, <1>5 DEF Started
<1>6. ASSUME NEW S \in SUBSET Dispatches, Renewed(S) PROVE Kept(h, d)
  BY <1>6 DEF Renewed
<1>7. ASSUME NEW S \in SUBSET Dispatches, NEW s \in TerminalRun, Release(S, s)
      PROVE  Kept(h, d)
  BY <1>0, <1>7 DEF Release, TerminalRun
<1>8. QED
  BY <1>1, <1>2, <1>3, <1>4, <1>5, <1>6, <1>7 DEF Effect, Closed

\* What handler h carries from leasing to starting: its items and its current
\* dispatch name the attempt it leased, and it leases nothing it already carries.
Carries(h) ==
  /\ \A item \in job[h].items : Mine(h, item.dispatch, item.attempt)
  /\ pc[h] \in {"admit", "start"} /\ job[h].current # None =>
       Mine(h, job[h].current, job[h].attempt)
  /\ pc[h] = "lease" => \A item \in job[h].items : item.dispatch \notin job[h].todo
  /\ pc[h] = "read" =>
       /\ job[h].current \notin job[h].todo
       /\ \A item \in job[h].items : item.dispatch \notin job[h].todo \cup {job[h].current}

CarryInv == \A h \in Workers : Carries(h)

\* A lease that is as it was leaves a handler's memory of it right.
LEMMA MineKept ==
  ASSUME TypeOK, NEW h \in Workers, NEW d \in Dispatches, NEW a, Mine(h, d, a), Kept(h, d)
  PROVE  Mine(h, d, a)'
  BY DEF Mine, Kept

\* A handler that does not move, and whose leases are as they were.
LEMMA CarriesStill ==
  ASSUME TypeOK, NEW h \in Workers, Carries(h), pc'[h] = pc[h], job'[h] = job[h],
         \A d \in Dispatches : Kept(h, d)
  PROVE  Carries(h)'
<1>0. job[h] \in Jobs
  BY DEF TypeOK
<1>1. ASSUME NEW item \in job'[h].items PROVE Mine(h, item.dispatch, item.attempt)'
  <2>1. item.dispatch \in Dispatches /\ Mine(h, item.dispatch, item.attempt)
    BY <1>0 DEF Jobs, Items, Carries
  <2>2. QED
    BY <2>1, MineKept
<1>2. ASSUME pc'[h] \in {"admit", "start"}, job'[h].current # None
      PROVE  Mine(h, job[h].current, job[h].attempt)'
  <2>1. job[h].current \in Dispatches /\ Mine(h, job[h].current, job[h].attempt)
    BY <1>0, <1>2 DEF Jobs, Carries
  <2>2. ASSUME NEW d, NEW a, d = job[h].current, a = job[h].attempt
        PROVE  Mine(h, d, a)'
    BY <2>1, <2>2, MineKept
  <2>3. QED
    BY <2>2 DEF Mine
<1>3. QED
  BY <1>1, <1>2 DEF Carries, Mine

\* A step that grants nothing leaves every lease as it was.
LEMMA AllKept ==
  ASSUME TypeOK, Effect, UNCHANGED attempt
  PROVE  \A h \in Workers, d \in Dispatches : Kept(h, d)
<1>1. \A d \in Dispatches : attempt'[d] # attempt[d] + 1
  BY DEF TypeOK
<1>2. QED
  BY <1>1, KeptUnlessTaken

\* The handlers that do not move still carry what they did.
LEMMA CarryMoved ==
  ASSUME TypeOK, CarryInv, NEW h \in Workers, Carries(h)',
         \A g \in Workers : g # h => pc'[g] = pc[g] /\ job'[g] = job[g],
         \A g \in Workers, d \in Dispatches : g # h => Kept(g, d)
  PROVE  CarryInv'
<1>1. ASSUME NEW g \in Workers PROVE Carries(g)'
  <2>1. CASE g = h
    BY <2>1
  <2>2. CASE g # h
    <3>1. pc'[g] = pc[g] /\ job'[g] = job[g] /\ \A d \in Dispatches : Kept(g, d)
      BY <2>2
    <3>2. QED
      BY <3>1, CarriesStill DEF CarryInv
  <2>3. QED
    BY <2>1, <2>2
<1>2. QED
  BY <1>1 DEF CarryInv

\* A handler that goes on with what it had, or with less.
LEMMA GotoCarries ==
  ASSUME TypeOK, CarryInv, Effect, UNCHANGED attempt, NEW h \in Workers, NEW l, NEW j,
         GotoWith(h, l, j), j.items \subseteq job[h].items, l \notin {"lease", "read"},
         l \in {"admit", "start"} /\ j.current # None =>
           j.current \in Dispatches /\ Mine(h, j.current, j.attempt)
  PROVE  CarryInv'
<1>0. /\ pc'[h] = l /\ job'[h] = j /\ job[h] \in Jobs
      /\ \A g \in Workers : g # h => pc'[g] = pc[g] /\ job'[g] = job[g]
      /\ \A g \in Workers, d \in Dispatches : Kept(g, d)
  BY AllKept DEF TypeOK, GotoWith
<1>1. ASSUME NEW item \in j.items PROVE Mine(h, item.dispatch, item.attempt)'
  <2>1. item.dispatch \in Dispatches /\ Mine(h, item.dispatch, item.attempt)
    BY <1>0 DEF Jobs, Items, CarryInv, Carries
  <2>2. QED
    BY <1>0, <2>1, MineKept
<1>2. ASSUME l \in {"admit", "start"}, j.current # None
      PROVE  Mine(h, j.current, j.attempt)'
  BY <1>0, <1>2, MineKept
<1>3. Carries(h)'
  BY <1>0, <1>1, <1>2 DEF Carries, Mine
<1>4. QED
  BY <1>0, <1>3, CarryMoved

\* A handler that resumes with items that are none of what it is to lease.
LEMMA ResumeCarries ==
  ASSUME TypeOK, CarryInv, Effect, UNCHANGED attempt, NEW h \in Workers,
         NEW todo \in SUBSET Dispatches, NEW items \in SUBSET Items,
         Resume(h, todo, items),
         \A item \in items : Mine(h, item.dispatch, item.attempt) /\ item.dispatch \notin todo
  PROVE  CarryInv'
<1>0. /\ \A g \in Workers : g # h => pc'[g] = pc[g] /\ job'[g] = job[g]
      /\ \A g \in Workers, d \in Dispatches : Kept(g, d)
  BY AllKept DEF TypeOK, Resume, GotoWith
<1>1. /\ pc'[h] \in {"lease", "execute", "idle"}
      /\ job'[h].items = items
      /\ pc'[h] = "lease" => job'[h].todo = todo
  <2>1. CASE todo # {}
    <3>1. GotoWith(h, "lease", [NoJob EXCEPT !.todo = todo, !.items = items])
      BY <2>1 DEF Resume
    <3>2. /\ [NoJob EXCEPT !.todo = todo, !.items = items].items = items
          /\ [NoJob EXCEPT !.todo = todo, !.items = items].todo = todo
      BY DEF NoJob
    <3>3. QED
      BY <3>1, <3>2 DEF TypeOK, GotoWith
  <2>2. CASE todo = {} /\ items # {}
    BY <2>2 DEF TypeOK, Resume, GotoWith, NoJob
  <2>3. CASE todo = {} /\ items = {}
    BY <2>3 DEF TypeOK, Resume, GotoWith, NoJob
  <2>4. QED
    BY <2>1, <2>2, <2>3
<1>2. ASSUME NEW item \in items PROVE Mine(h, item.dispatch, item.attempt)'
  BY <1>0, MineKept DEF Items
<1>3. Carries(h)'
  BY <1>1, <1>2 DEF Carries, Mine
<1>4. QED
  BY <1>0, <1>3, CarryMoved

\* Going on with the next item, and giving up an execution.
LEMMA AbandonCarries ==
  ASSUME TypeOK, CarryInv, Effect, UNCHANGED attempt, NEW h \in Workers,
         NextItem(h) \/ Abandon(h)
  PROVE  CarryInv'
<1>0. job[h] \in Jobs
  BY DEF TypeOK
<1>1. CASE NextItem(h)
  <2>1. /\ job[h].items \in SUBSET Items
        /\ \A item \in job[h].items : Mine(h, item.dispatch, item.attempt)
    BY <1>0 DEF Jobs, CarryInv, Carries
  <2>2. QED
    BY <1>1, <2>1, ResumeCarries DEF NextItem
<1>2. CASE Goto(h, "settle")
  <2>1. GotoWith(h, "settle", job[h])
    BY <1>2 DEF TypeOK, Goto, GotoWith
  <2>2. QED
    BY <2>1, GotoCarries
<1>3. QED
  BY <1>1, <1>2 DEF Abandon

\* A handler that is granted a lease of something it does not carry yet.
LEMMA GrantCarries ==
  ASSUME TypeOK, CarryInv, Effect, NEW h \in Workers, NEW d \in Dispatches, NEW j,
         Grant(h, d), GotoWith(h, "read", j), j.current = d, j.items \subseteq job[h].items,
         d \notin j.todo, \A item \in j.items : item.dispatch \notin j.todo \cup {d}
  PROVE  CarryInv'
<1>0. /\ pc'[h] = "read" /\ job'[h] = j /\ job[h] \in Jobs
      /\ \A g \in Workers : g # h => pc'[g] = pc[g] /\ job'[g] = job[g]
  BY DEF TypeOK, GotoWith
<1>1. ASSUME NEW g \in Workers, NEW e \in Dispatches, g # h \/ e # d PROVE Kept(g, e)
  BY <1>1 DEF Kept, Grant, TypeOK
<1>2. ASSUME NEW item \in j.items PROVE Mine(h, item.dispatch, item.attempt)'
  <2>1. item.dispatch \in Dispatches /\ Mine(h, item.dispatch, item.attempt)
    BY <1>0 DEF Jobs, Items, CarryInv, Carries
  <2>2. Kept(h, item.dispatch)
    BY <1>1, <2>1
  <2>3. QED
    BY <2>1, <2>2, MineKept
<1>3. Carries(h)'
  BY <1>0, <1>2 DEF Carries, Mine
<1>4. QED
  BY <1>0, <1>1, <1>3, CarryMoved

\* What a handler carries survives its own steps.
LEMMA CarryContinue ==
  ASSUME TypeOK, CarryInv, Effect, NEW h \in Workers, Continue(h)
  PROVE  CarryInv'
<1>0. /\ job[h] \in Jobs /\ Carries(h)
      /\ job[h].items \in SUBSET Items /\ job[h].todo \in SUBSET Dispatches
  BY DEF TypeOK, Jobs, CarryInv
<1>1. CASE Select(h)
  <2>1. {d \in job[h].todo : status[d] = "pending" /\ Enabled(d)} \in SUBSET Dispatches
    BY <1>0
  <2>2. QED
    BY <1>1, <2>1, ResumeCarries DEF Select, dispatchRow
<1>2. CASE Read(h)
  <2> DEFINE item == [dispatch |-> job[h].current, attempt |-> attempt[job[h].current]]
  <2>1. job[h].current \in Dispatches
    BY <1>0, <1>2 DEF Read, TypeOK, Jobs
  <2>2. item \in Items /\ Mine(h, item.dispatch, item.attempt)
    BY <2>1 DEF Items, TypeOK, Mine
  <2>3. item.dispatch \notin job[h].todo
         /\ \A i \in job[h].items : i.dispatch \notin job[h].todo
    BY <1>0, <1>2 DEF Read, Carries
  <2>4. PICK items \in {job[h].items, job[h].items \cup {item}} :
          Resume(h, job[h].todo, items)
    BY <1>2 DEF Read
  <2>5. items \in SUBSET Items /\ \A i \in items :
          Mine(h, i.dispatch, i.attempt) /\ i.dispatch \notin job[h].todo
    BY <1>0, <2>2, <2>3, <2>4 DEF Carries
  <2>6. QED
    BY <1>0, <1>2, <2>4, <2>5, ResumeCarries DEF Read, dispatchRow
<1>3. CASE Admit(h)
  <2> DEFINE j == [job[h] EXCEPT !.live = job[h].current \notin expired]
  <2>1. j.items = job[h].items /\ j.current = job[h].current /\ j.attempt = job[h].attempt
    BY <1>0 DEF Jobs
  <2>2. j.current # None => j.current \in Dispatches /\ Mine(h, j.current, j.attempt)
    BY <1>0, <1>3, <2>1 DEF Admit, Carries, Jobs
  <2>3. GotoWith(h, "start", j) /\ UNCHANGED attempt
    BY <1>3 DEF Admit, dispatchRow
  <2> HIDE DEF j
  <2>4. QED
    BY <2>1, <2>2, <2>3, GotoCarries
<1>4. CASE Refuse(h)
  BY <1>4, AbandonCarries DEF Refuse, dispatchRow
<1>5. CASE Settle(h)
  BY <1>5, AbandonCarries DEF Settle, Release, dispatchRow
<1>6. CASE RecoverSelect(h)
  <2> DEFINE rows == {[dispatch |-> d, run |-> runId[d], lease |-> lease[d]] :
                        d \in {e \in expired : status[e] \in Active}}
             j == [job[h] EXCEPT !.rows = rows]
  <2>1. j.items = job[h].items
    BY <1>0 DEF Jobs
  <2>2. GotoWith(h, "recover", j) /\ UNCHANGED attempt
    BY <1>6 DEF RecoverSelect, dispatchRow
  <2> HIDE DEF j
  <2>3. QED
    BY <2>1, <2>2, GotoCarries
<1>7. ASSUME NEW d \in Dispatches, Lease(h, d) PROVE CarryInv'
  <2>1. /\ \A item \in job[h].items : item.dispatch \notin job[h].todo
        /\ d \in job[h].todo
    BY <1>0, <1>7 DEF Lease, Carries
  <2>2. CASE Leasable(d)
    <3> DEFINE j == [job[h] EXCEPT !.todo = @ \ {d}, !.current = d]
    <3>1. j.items = job[h].items /\ j.current = d /\ j.todo = job[h].todo \ {d}
      BY <1>0 DEF Jobs
    <3>2. Grant(h, d) /\ GotoWith(h, "read", j)
      BY <1>7, <2>2 DEF Lease
    <3>3. d \notin j.todo /\ \A item \in j.items : item.dispatch \notin j.todo \cup {d}
      BY <2>1, <3>1
    <3>4. QED
      BY <3>1, <3>2, <3>3, GrantCarries
  <2>3. CASE ~Leasable(d)
    <3>1. \A item \in job[h].items :
            Mine(h, item.dispatch, item.attempt) /\ item.dispatch \notin job[h].todo \ {d}
      BY <1>0, <2>1 DEF Carries
    <3>2. QED
      BY <1>0, <1>7, <2>3, <3>1, ResumeCarries DEF Lease, dispatchRow
  <2>4. QED
    BY <2>2, <2>3
<1>8. ASSUME NEW d \in Dispatches, InsertDue(h, d) PROVE CarryInv'
  BY <1>8, AllKept, CarriesStill DEF InsertDue, Insert, local, CarryInv
<1>9. ASSUME NEW item \in job[h].items, Execute(h, item) PROVE CarryInv'
  <2> DEFINE j == [job[h] EXCEPT !.items = @ \ {item}, !.current = item.dispatch,
                                 !.attempt = item.attempt]
  <2>1. j.items = job[h].items \ {item} /\ j.current = item.dispatch
         /\ j.attempt = item.attempt
    BY <1>0 DEF Jobs
  <2>2. item.dispatch \in Dispatches /\ Mine(h, item.dispatch, item.attempt)
    BY <1>0 DEF Items, Carries
  <2>3. GotoWith(h, "admit", j) /\ UNCHANGED attempt
    BY <1>9 DEF Execute, dispatchRow
  <2> HIDE DEF j
  <2>4. QED
    BY <2>1, <2>2, <2>3, GotoCarries
<1>10. ASSUME NEW row \in job[h].rows, RecoverRow(h, row) PROVE CarryInv'
  <2>1. [job[h] EXCEPT !.rows = @ \ {row}].items = job[h].items
    BY <1>0 DEF Jobs
  <2>2. UNCHANGED attempt
    BY <1>10 DEF RecoverRow, Release, dispatchRow
  <2>3. QED
    BY <1>10, <2>1, <2>2, GotoCarries DEF RecoverRow
<1>11. ASSUME NEW r \in Runs, Start(h, r) PROVE CarryInv'
  <2> DEFINE j == [job[h] EXCEPT !.run = r, !.live = FALSE]
  <2>1. j.items = job[h].items
    BY <1>0 DEF Jobs
  <2>2. UNCHANGED attempt
    BY <1>11 DEF Start
  <2>3. GotoWith(h, "work", j) \/ NextItem(h)
    BY <1>11 DEF Start
  <2> HIDE DEF j
  <2>4. CASE GotoWith(h, "work", j)
    BY <2>1, <2>2, <2>4, GotoCarries
  <2>5. CASE NextItem(h)
    BY <2>2, <2>5, AbandonCarries
  <2>6. QED
    BY <2>3, <2>4, <2>5
<1>12. ASSUME NEW result \in {"completed", "failed"}, Finish(h, result) PROVE CarryInv'
  <2>1. UNCHANGED attempt
    BY <1>12 DEF Finish, Conclude, Release, dispatchRow
  <2>2. NextItem(h) \/ Abandon(h)
    BY <1>12 DEF Finish
  <2>3. QED
    BY <2>1, <2>2, AbandonCarries
<1>13. QED
  BY <1>1, <1>2, <1>3, <1>4, <1>5, <1>6, <1>7, <1>8, <1>9, <1>10, <1>11, <1>12 DEF Continue

\* And everybody else's.
LEMMA CarryStep ==
  ASSUME TypeOK, CarryInv, Effect, [Next]_vars
  PROVE  CarryInv'
<1>0. NoJob.items = {} /\ NoJob.current = None
  BY DEF NoJob
<1>1. ASSUME NEW h \in Workers, Continue(h) PROVE CarryInv'
  BY <1>1, CarryContinue
<1>2. ASSUME NEW h \in Workers, Tick(h) PROVE CarryInv'
  <2> DEFINE j == [NoJob EXCEPT !.todo = Dispatches]
  <2>1. j.items = {}
    BY DEF NoJob
  <2>2. GotoWith(h, "recover_select", j) /\ UNCHANGED attempt
    BY <1>2 DEF Tick, Begin, dispatchRow
  <2> HIDE DEF j
  <2>3. QED
    BY <2>1, <2>2, GotoCarries
<1>3. ASSUME NEW h \in Workers, UserRun(h) PROVE CarryInv'
  BY <1>0, <1>3, GotoCarries DEF UserRun, Begin, dispatchRow
<1>4. ASSUME NEW h \in Workers, Throw(h) PROVE CarryInv'
  BY <1>4, AbandonCarries DEF Throw, dispatchRow
<1>5. ASSUME NEW h \in Workers, Crash(h) PROVE CarryInv'
  BY <1>0, <1>5, GotoCarries DEF Crash, dispatchRow
<1>6. ASSUME NEW h \in Workers, NEW d \in Dispatches, Receive(h, d) PROVE CarryInv'
  <2> DEFINE j == [NoJob EXCEPT !.todo = {d}]
  <2>1. j.items = {}
    BY DEF NoJob
  <2>2. GotoWith(h, "select", j) /\ UNCHANGED attempt
    BY <1>6 DEF Receive, Begin, Insert
  <2> HIDE DEF j
  <2>3. QED
    BY <2>1, <2>2, GotoCarries
<1>7. ASSUME NEW h \in Workers, NEW d \in Dispatches, Replay(h, d) PROVE CarryInv'
  <2> DEFINE j == [NoJob EXCEPT !.current = d]
  <2>1. j.items = {} /\ j.current = d /\ j.todo = {}
    BY DEF NoJob
  <2>2. Grant(h, d) /\ GotoWith(h, "read", j)
    BY <1>7 DEF Replay, Begin
  <2>3. QED
    BY <2>1, <2>2, GrantCarries
<1>8. ASSUME UNCHANGED local, UNCHANGED attempt PROVE CarryInv'
  BY <1>8, AllKept, CarriesStill DEF local, CarryInv
<1>9. ASSUME NEW r \in Runs, Progress(r) \/ CancelRun(r) PROVE CarryInv'
  BY <1>8, <1>9 DEF Progress, CancelRun, Release
<1>10. ASSUME NEW r \in Runs, NEW result \in {"completed", "failed"}, Callback(r, result)
       PROVE  CarryInv'
  BY <1>8, <1>10 DEF Callback, Conclude, Release
<1>11. ASSUME NEW d \in Dispatches, Expire(d) PROVE CarryInv'
  BY <1>8, <1>11 DEF Expire
<1>12. ASSUME NEW t \in Triggers, NEW s \in {"enabled", "paused", "disabled"},
              UpdateTrigger(t, s)
       PROVE  CarryInv'
  BY <1>8, <1>12 DEF UpdateTrigger, Release, dispatchRow
<1>13. CASE Quarantine \/ UNCHANGED vars
  BY <1>8, <1>13 DEF Quarantine, vars, dispatchRow
<1>14. QED
  BY <1>1, <1>2, <1>3, <1>4, <1>5, <1>6, <1>7, <1>9, <1>10, <1>11, <1>12, <1>13 DEF Next

\* A run that is started is named by the attempt it was started for.
LEMMA AttemptStep ==
  ASSUME TypeOK, OutcomeInv, CarryInv, RunOfAttempt, Effect
  PROVE  RunOfAttempt'
<1> USE DEF RunOfAttempt
<1>0. /\ attempt \in [Dispatches -> Nat]
      /\ runId \in [Dispatches -> Runs \cup {None}]
      /\ origin \in [Runs -> Items \cup {None}]
      /\ None \notin Runs
  BY DEF TypeOK
<1>1. CASE Untouched
  BY <1>1 DEF Untouched, dispatchRow, runRow
<1>2. ASSUME NEW d \in Dispatches, Inserted(d) \/ Lapsed(d) PROVE RunOfAttempt'
  BY <1>2 DEF Inserted, Insert, Lapsed, runRow
<1>3. ASSUME NEW h \in Workers, NEW d \in Dispatches, Taken(h, d) PROVE RunOfAttempt'
  <2>1. runId'[d] = None
    BY <1>0, <1>3 DEF Taken, OutcomeInv, Unstarted
  <2>2. \A e \in Dispatches : e # d => runId'[e] = runId[e] /\ attempt'[e] = attempt[e]
    BY <1>0, <1>3 DEF Taken, Grant
  <2>3. origin' = origin
    BY <1>3 DEF Taken, runRow
  <2>4. QED
    BY <2>1, <2>2, <2>3
<1>4. ASSUME NEW h \in Workers, NEW r \in Runs, Started(h, r) PROVE RunOfAttempt'
  <2> DEFINE d == job[h].current
  <2>1. CASE d = None /\ UNCHANGED <<runId, origin>>
    BY <1>4, <2>1 DEF Started
  <2>2. CASE /\ d \in Dispatches /\ Startable(h)
             /\ runId' = [runId EXCEPT ![d] = r]
             /\ origin' = [origin EXCEPT ![r] = [dispatch |-> d, attempt |-> job[h].attempt]]
    <3>1. attempt[d] = job[h].attempt
      BY <1>0, <1>4, <2>2 DEF Started, Startable, CarryInv, Carries, Mine
    <3>2. \A e \in Dispatches : runId[e] # None => runId[e] # r
      BY <1>0, <1>4 DEF Started, OutcomeInv
    <3>3. attempt' = attempt
      BY <1>4 DEF Started
    <3>4. ASSUME NEW e \in Dispatches, runId'[e] # None
          PROVE  origin'[runId'[e]] = [dispatch |-> e, attempt |-> attempt'[e]]
      <4>1. CASE e = d
        BY <1>0, <2>2, <3>1, <3>3, <4>1
      <4>2. CASE e # d
        BY <1>0, <2>2, <3>2, <3>3, <3>4, <4>2
      <4>3. QED
        BY <4>1, <4>2
    <3>5. QED
      BY <3>4
  <2>3. QED
    BY <1>4, <2>1, <2>2 DEF Started
<1>5. ASSUME NEW S \in SUBSET Dispatches, Renewed(S) PROVE RunOfAttempt'
  BY <1>5 DEF Renewed, runRow
<1>6. ASSUME NEW S, NEW R, NEW s, NEW q, Closed(S, s, R, q) PROVE RunOfAttempt'
  BY <1>6 DEF Closed, Release
<1>7. QED
  BY <1>1, <1>2, <1>3, <1>4, <1>5, <1>6 DEF Effect

-----------------------------------------------------------------------------
(* What a tick has seen expired.                                           *)

\* The lease of a row that a tick remembers has not been given back, and if the
\* dispatch still has it, it is still expired.
Seen(row) ==
  /\ row.lease <= lease[row.dispatch]
  /\ row.lease = lease[row.dispatch] /\ status[row.dispatch] \in Active =>
       row.dispatch \in expired

SeenInv == \A h \in Workers : \A row \in job[h].rows : Seen(row)

\* An expired lease stays expired as long as the dispatch has it.
LEMMA SeenStays ==
  ASSUME TypeOK, Effect, NEW row \in Rows, Seen(row)
  PROVE  Seen(row)'
<1> USE DEF Seen, Active
<1>0. /\ row.dispatch \in Dispatches /\ row.lease \in Nat
      /\ status \in [Dispatches -> DispatchStatuses]
      /\ lease \in [Dispatches -> Nat]
  BY DEF TypeOK, Rows
<1>1. CASE Untouched
  BY <1>1 DEF Untouched, dispatchRow
<1>2. ASSUME NEW d \in Dispatches, Inserted(d) PROVE Seen(row)'
  BY <1>0, <1>2 DEF Inserted, Insert
<1>3. ASSUME NEW d \in Dispatches, Lapsed(d) PROVE Seen(row)'
  BY <1>0, <1>3 DEF Lapsed
<1>4. ASSUME NEW h \in Workers, NEW d \in Dispatches, Taken(h, d) PROVE Seen(row)'
  BY <1>0, <1>4 DEF Taken, Grant
<1>5. ASSUME NEW h \in Workers, NEW r \in Runs, Started(h, r) PROVE Seen(row)'
  BY <1>0, <1>5 DEF Started, Startable
<1>6. ASSUME NEW S \in SUBSET Dispatches, Renewed(S) PROVE Seen(row)'
  BY <1>0, <1>6 DEF Renewed
<1>7. ASSUME NEW S, NEW s \in TerminalRun, Release(S, s) PROVE Seen(row)'
  BY <1>0, <1>7 DEF Release, TerminalRun
<1>8. QED
  BY <1>1, <1>2, <1>3, <1>4, <1>5, <1>6, <1>7 DEF Effect, Closed

\* A step adds no rows to what a handler remembers, unless it selects them.
RowsFrom(h) == job'[h].rows \subseteq job[h].rows \/ RecoverSelect(h)

\* Moving one handler.
LEMMA GotoRows ==
  ASSUME TypeOK, NEW h \in Workers, NEW l, NEW j, GotoWith(h, l, j),
         j.rows \subseteq job[h].rows
  PROVE  \A g \in Workers : RowsFrom(g)
  BY DEF TypeOK, GotoWith, RowsFrom

LEMMA ResumeRows ==
  ASSUME TypeOK, NEW h \in Workers, NEW todo, NEW items, Resume(h, todo, items)
  PROVE  \A g \in Workers : RowsFrom(g)
<1>1. /\ [NoJob EXCEPT !.todo = todo, !.items = items].rows = {}
      /\ [NoJob EXCEPT !.items = items].rows = {}
      /\ NoJob.rows = {}
  BY DEF NoJob
<1>2. PICK l, j : GotoWith(h, l, j) /\ j.rows = {}
  BY <1>1 DEF Resume
<1>3. QED
  BY <1>2, GotoRows

LEMMA AbandonRows ==
  ASSUME TypeOK, NEW h \in Workers, NextItem(h) \/ Abandon(h)
  PROVE  \A g \in Workers : RowsFrom(g)
<1>1. CASE NextItem(h)
  BY <1>1, ResumeRows DEF NextItem
<1>2. CASE Goto(h, "settle")
  BY <1>2 DEF Goto, RowsFrom
<1>3. QED
  BY <1>1, <1>2 DEF Abandon

LEMMA RowsContinue ==
  ASSUME TypeOK, NEW h \in Workers, Continue(h)
  PROVE  \A g \in Workers : RowsFrom(g)
<1>0. job[h] \in Jobs
  BY DEF TypeOK
<1>1. CASE Select(h)
  BY <1>1, ResumeRows DEF Select
<1>2. CASE Read(h)
  BY <1>2, ResumeRows DEF Read
<1>3. CASE Admit(h)
  <2> DEFINE j == [job[h] EXCEPT !.live = job[h].current \notin expired]
  <2>1. j.rows = job[h].rows /\ GotoWith(h, "start", j)
    BY <1>0, <1>3 DEF Admit, Jobs
  <2> HIDE DEF j
  <2>2. QED
    BY <2>1, GotoRows
<1>4. CASE Refuse(h)
  BY <1>4, AbandonRows DEF Refuse
<1>5. CASE Settle(h)
  BY <1>5, AbandonRows DEF Settle
<1>6. CASE RecoverSelect(h)
  BY <1>6 DEF RowsFrom, RecoverSelect, GotoWith, TypeOK
<1>7. ASSUME NEW d \in Dispatches, Lease(h, d) PROVE \A g \in Workers : RowsFrom(g)
  <2> DEFINE j == [job[h] EXCEPT !.todo = @ \ {d}, !.current = d]
  <2>1. j.rows = job[h].rows
    BY <1>0 DEF Jobs
  <2>2. GotoWith(h, "read", j) \/ \E todo, items : Resume(h, todo, items)
    BY <1>7 DEF Lease
  <2> HIDE DEF j
  <2>3. QED
    BY <2>1, <2>2, GotoRows, ResumeRows
<1>8. ASSUME NEW d \in Dispatches, InsertDue(h, d) PROVE \A g \in Workers : RowsFrom(g)
  BY <1>8 DEF InsertDue, local, RowsFrom
<1>9. ASSUME NEW item \in job[h].items, Execute(h, item)
      PROVE  \A g \in Workers : RowsFrom(g)
  <2> DEFINE j == [job[h] EXCEPT !.items = @ \ {item}, !.current = item.dispatch,
                                 !.attempt = item.attempt]
  <2>1. j.rows = job[h].rows /\ GotoWith(h, "admit", j)
    BY <1>0, <1>9 DEF Execute, Jobs
  <2> HIDE DEF j
  <2>2. QED
    BY <2>1, GotoRows
<1>10. ASSUME NEW row \in job[h].rows, RecoverRow(h, row)
       PROVE  \A g \in Workers : RowsFrom(g)
  <2> DEFINE j == [job[h] EXCEPT !.rows = @ \ {row}]
  <2>1. j.rows \subseteq job[h].rows /\ GotoWith(h, "recover", j)
    BY <1>0, <1>10 DEF RecoverRow, Jobs
  <2> HIDE DEF j
  <2>2. QED
    BY <2>1, GotoRows
<1>11. ASSUME NEW r \in Runs, Start(h, r) PROVE \A g \in Workers : RowsFrom(g)
  <2> DEFINE j == [job[h] EXCEPT !.run = r, !.live = FALSE]
  <2>1. j.rows = job[h].rows
    BY <1>0 DEF Jobs
  <2>2. GotoWith(h, "work", j) \/ NextItem(h)
    BY <1>11 DEF Start
  <2> HIDE DEF j
  <2>3. QED
    BY <2>1, <2>2, GotoRows, AbandonRows
<1>12. ASSUME NEW result \in {"completed", "failed"}, Finish(h, result)
       PROVE  \A g \in Workers : RowsFrom(g)
  BY <1>12, AbandonRows DEF Finish
<1>13. QED
  BY <1>1, <1>2, <1>3, <1>4, <1>5, <1>6, <1>7, <1>8, <1>9, <1>10, <1>11, <1>12 DEF Continue

LEMMA RowsStep ==
  ASSUME TypeOK, [Next]_vars
  PROVE  \A g \in Workers : RowsFrom(g)
<1>0. NoJob.rows = {}
  BY DEF NoJob
<1>1. ASSUME NEW h \in Workers, Continue(h) PROVE \A g \in Workers : RowsFrom(g)
  BY <1>1, RowsContinue
<1>2. ASSUME NEW h \in Workers, NEW l, NEW j, GotoWith(h, l, j), j.rows = {}
      PROVE  \A g \in Workers : RowsFrom(g)
  BY <1>2, GotoRows
<1>3. ASSUME NEW h \in Workers, UserRun(h) \/ Crash(h) PROVE \A g \in Workers : RowsFrom(g)
  BY <1>0, <1>2, <1>3 DEF UserRun, Crash, Begin
<1>4. ASSUME NEW h \in Workers, Throw(h) PROVE \A g \in Workers : RowsFrom(g)
  BY <1>4, AbandonRows DEF Throw
<1>5. ASSUME NEW h \in Workers, Tick(h) PROVE \A g \in Workers : RowsFrom(g)
  <2>1. [NoJob EXCEPT !.todo = Dispatches].rows = {}
    BY DEF NoJob
  <2>2. QED
    BY <1>2, <1>5, <2>1 DEF Tick, Begin
<1>6. ASSUME NEW h \in Workers, NEW d \in Dispatches, Receive(h, d) \/ Replay(h, d)
      PROVE  \A g \in Workers : RowsFrom(g)
  <2>1. [NoJob EXCEPT !.todo = {d}].rows = {} /\ [NoJob EXCEPT !.current = d].rows = {}
    BY DEF NoJob
  <2>2. QED
    BY <1>2, <1>6, <2>1 DEF Receive, Replay, Begin
<1>7. CASE UNCHANGED local
  BY <1>7 DEF local, RowsFrom
<1>8. QED
  BY <1>1, <1>3, <1>4, <1>5, <1>6, <1>7
     DEF Next, Progress, CancelRun, Callback, Expire, UpdateTrigger, Quarantine, vars

\* What ticks remember stays right.
LEMMA SeenStep ==
  ASSUME TypeOK, SeenInv, Effect, [Next]_vars
  PROVE  SeenInv'
<1> SUFFICES ASSUME NEW h \in Workers, NEW row \in job'[h].rows PROVE Seen(row)'
  BY DEF SeenInv
<1>1. CASE row \in job[h].rows
  <2>1. row \in Rows /\ Seen(row)
    BY <1>1 DEF TypeOK, Jobs, SeenInv
  <2>2. QED
    BY <2>1, SeenStays
<1>2. CASE RecoverSelect(h) /\ row \notin job[h].rows
  <2> DEFINE rows == {[dispatch |-> d, run |-> runId[d], lease |-> lease[d]] :
                        d \in {e \in expired : status[e] \in Active}}
  <2>1. job'[h] = [job[h] EXCEPT !.rows = rows] /\ job[h] \in Jobs
    BY <1>2 DEF RecoverSelect, GotoWith, TypeOK
  <2>2. job'[h].rows = rows
    BY <2>1 DEF Jobs
  <2>3. row.dispatch \in expired /\ row.lease = lease[row.dispatch] /\ row \in Rows
    BY <2>2 DEF TypeOK, Rows
  <2>4. Seen(row)
    BY <2>3 DEF Seen, TypeOK, Rows
  <2>5. QED
    BY <2>3, <2>4, SeenStays
<1>3. QED
  BY <1>1, <1>2, RowsStep DEF RowsFrom

-----------------------------------------------------------------------------
(* What a step may never do.                                               *)

\* Every effect keeps to the table of statuses.
LEMMA TransitionStep ==
  ASSUME TypeOK, Effect, NEW d \in Dispatches
  PROVE  status'[d] = status[d] \/ status'[d] \in DispatchTransitions[status[d]]
<1> USE DEF DispatchTransitions, Active
<1>0. status \in [Dispatches -> DispatchStatuses]
  BY DEF TypeOK
<1>1. CASE Untouched
  BY <1>1 DEF Untouched, dispatchRow
<1>2. ASSUME NEW e \in Dispatches, Inserted(e) \/ Lapsed(e)
      PROVE  status'[d] = status[d] \/ status'[d] \in DispatchTransitions[status[d]]
  BY <1>0, <1>2 DEF Inserted, Insert, Lapsed
<1>3. ASSUME NEW h \in Workers, NEW e \in Dispatches, Taken(h, e)
      PROVE  status'[d] = status[d] \/ status'[d] \in DispatchTransitions[status[d]]
  BY <1>0, <1>3 DEF Taken, Grant
<1>4. ASSUME NEW h \in Workers, NEW r \in Runs, Started(h, r)
      PROVE  status'[d] = status[d] \/ status'[d] \in DispatchTransitions[status[d]]
  BY <1>0, <1>4 DEF Started, Startable
<1>5. ASSUME NEW S \in SUBSET Dispatches, Renewed(S)
      PROVE  status'[d] = status[d] \/ status'[d] \in DispatchTransitions[status[d]]
  BY <1>5 DEF Renewed
<1>6. ASSUME NEW S \in SUBSET Dispatches, NEW R, NEW s \in TerminalRun, NEW q,
             Closed(S, s, R, q)
      PROVE  status'[d] = status[d] \/ status'[d] \in DispatchTransitions[status[d]]
  <2>1. status'[d] = IF d \in S THEN s ELSE status[d]
    BY <1>6 DEF Closed, Release
  <2>2. CASE d \in S
    <3>1. status[d] \in {"leased", "running"} \/ (status[d] = "pending" /\ s = "cancelled")
      BY <1>6, <2>2 DEF Closed
    <3>2. s = "completed" => status[d] = "running"
      BY <1>6, <2>2 DEF Closed
    <3>3. QED
      BY <2>1, <2>2, <3>1, <3>2 DEF TerminalRun
  <2>3. QED
    BY <2>1, <2>2
<1>7. QED
  BY <1>1, <1>2, <1>3, <1>4, <1>5, <1>6 DEF Effect

\* No effect changes a terminal run.
LEMMA TerminalStep ==
  ASSUME TypeOK, Effect, NEW r \in Runs, run[r] \in TerminalRun
  PROVE  run'[r] = run[r]
<1> USE DEF TerminalRun
<1>0. run \in [Runs -> {"none", "running"} \cup TerminalRun]
  BY DEF TypeOK
<1>1. ASSUME NEW h \in Workers, NEW x \in Runs, Started(h, x) PROVE run'[r] = run[r]
  BY <1>0, <1>1 DEF Started
<1>2. ASSUME NEW S, NEW R \in SUBSET LiveRuns, NEW s, NEW q, Closed(S, s, R, q)
      PROVE  run'[r] = run[r]
  BY <1>2 DEF Closed, LiveRuns
<1>3. QED
  BY <1>1, <1>2 DEF Effect, Untouched, Inserted, Lapsed, Taken, Renewed, runRow

\* An unexpired lease fails only with its run, or because its handler gives it up.
GivenUp(d) ==
  \/ runId[d] # None /\ run'[runId[d]] = "failed"
  \/ pc[owner[d]] = "settle" /\ job[owner[d]].current = d

LEMMA ConcludeExclusive ==
  ASSUME TypeOK, NEW r \in Runs, NEW result \in {"completed", "failed"}, Conclude(r, result),
         NEW d \in Dispatches, status[d] \in Active, status'[d] = "failed"
  PROVE  GivenUp(d)
<1>1. status[d] = "running" /\ runId[d] = r /\ result = "failed"
  BY DEF Conclude, Release, Active
<1>2. run'[r] = "failed" /\ r # None
  BY <1>1 DEF Conclude, TypeOK
<1>3. QED
  BY <1>1, <1>2 DEF GivenUp

LEMMA ExclusiveStep ==
  ASSUME TypeOK, SeenInv, [Next]_vars,
         NEW d \in Dispatches \ expired, status[d] \in Active, status'[d] = "failed"
  PROVE  GivenUp(d)
<1>0. status[d] # "failed" /\ status \in [Dispatches -> DispatchStatuses]
  BY DEF Active, TypeOK
<1>1. ASSUME NEW h \in Workers, Continue(h) PROVE GivenUp(d)
  <2>0. job[h] \in Jobs
    BY DEF TypeOK
  <2>1. CASE UNCHANGED dispatchRow
    BY <1>0, <2>1 DEF dispatchRow
  <2>2. CASE Settle(h) /\ Settleable(h)
    <3>1. d = job[h].current
      BY <1>0, <2>2 DEF Settle, Release
    <3>2. owner[d] = h /\ pc[h] = "settle"
      BY <2>2, <3>1 DEF Settle, Settleable
    <3>3. QED
      BY <3>1, <3>2 DEF GivenUp
  <2>3. ASSUME NEW row \in job[h].rows, RecoverRow(h, row), Overdue(row) PROVE GivenUp(d)
    <3>1. d = row.dispatch
      BY <1>0, <2>3 DEF RecoverRow, Release
    <3>2. row.lease = lease[d]
      BY <2>3, <3>1 DEF Overdue
    <3>3. d \in expired
      BY <2>3, <3>1, <3>2 DEF SeenInv, Seen
    <3>4. QED
      BY <3>3
  <2>4. ASSUME NEW result \in {"completed", "failed"}, Finish(h, result),
               Unfinished(job[h].run)
        PROVE  GivenUp(d)
    <3>1. job[h].run \in Runs
      BY <2>0, <2>4 DEF Finish, TypeOK, Jobs
    <3>2. QED
      BY <2>4, <3>1, ConcludeExclusive DEF Finish
  <2>5. ASSUME NEW e \in Dispatches, Lease(h, e) \/ InsertDue(h, e), ~UNCHANGED dispatchRow
        PROVE  status'[d] # "failed"
    BY <1>0, <2>5 DEF Lease, Grant, InsertDue, Insert
  <2>6. ASSUME NEW r \in Runs, Start(h, r) PROVE status'[d] # "failed"
    BY <1>0, <2>6 DEF Start
  <2>7. QED
    BY <1>1, <2>1, <2>2, <2>3, <2>4, <2>5, <2>6
       DEF Continue, Select, Read, Admit, Refuse, Settle, RecoverSelect, Execute, RecoverRow,
           Finish
<1>2. ASSUME NEW h \in Workers, Tick(h) \/ UserRun(h) \/ Throw(h) \/ Crash(h)
      PROVE  status'[d] = status[d]
  BY <1>2 DEF Tick, UserRun, Throw, Crash, dispatchRow
<1>3. ASSUME NEW h \in Workers, NEW e \in Dispatches, Receive(h, e) \/ Replay(h, e)
      PROVE  status'[d] # "failed"
  BY <1>0, <1>3 DEF Receive, Insert, Replay, Grant
<1>4. ASSUME NEW r \in Runs, Progress(r) \/ CancelRun(r) PROVE status'[d] # "failed"
  BY <1>0, <1>4 DEF Progress, CancelRun, Release
<1>5. ASSUME NEW r \in Runs, NEW result \in {"completed", "failed"}, Callback(r, result)
      PROVE  GivenUp(d)
  BY <1>5, ConcludeExclusive DEF Callback
<1>6. ASSUME NEW e \in Dispatches, Expire(e) PROVE status'[d] = status[d]
  BY <1>6 DEF Expire
<1>7. ASSUME NEW t \in Triggers, NEW s \in {"enabled", "paused", "disabled"},
             UpdateTrigger(t, s)
      PROVE  status'[d] # "failed"
  BY <1>0, <1>7 DEF UpdateTrigger, Release, dispatchRow
<1>8. CASE Quarantine \/ UNCHANGED vars
  BY <1>0, <1>8 DEF Quarantine, vars, dispatchRow
<1>9. QED
  BY <1>0, <1>1, <1>2, <1>3, <1>4, <1>5, <1>6, <1>7, <1>8 DEF Next

-----------------------------------------------------------------------------
(* The theorems.                                                           *)

IndInv ==
  /\ TypeOK
  /\ OutcomeInv
  /\ BoundInv
  /\ DisabledQuiet
  /\ LiveInv
  /\ CarryInv
  /\ RunOfAttempt
  /\ SeenInv

LEMMA IndInit == Init => IndInv
<1> SUFFICES ASSUME Init PROVE IndInv
  OBVIOUS
<1>1. TypeOK
  BY TypeInit
<1>2. OutcomeInv /\ RunOfAttempt /\ DisabledQuiet
  BY DEF Init, OutcomeInv, Unstarted, OutcomeFollowsRun, RunOfAttempt, DisabledQuiet, Active
<1>3. BoundInv
  <2>1. \A t \in Triggers : ActiveOf(t) = {}
    BY DEF Init, ActiveOf, Active
  <2>2. QED
    BY <2>1, FS_EmptySet DEF BoundInv
<1>4. LiveInv
  <2>1. LiveRuns = {}
    BY DEF Init, LiveRuns
  <2>2. QED
    BY <2>1, FS_EmptySet DEF Init, LiveInv, OneLiveRun
<1>5. CarryInv /\ SeenInv
  BY DEF Init, NoJob, CarryInv, Carries, SeenInv
<1>6. QED
  BY <1>1, <1>2, <1>3, <1>4, <1>5 DEF IndInv

LEMMA IndNext == IndInv /\ [Next]_vars => IndInv'
<1> SUFFICES ASSUME IndInv, [Next]_vars PROVE IndInv'
  OBVIOUS
<1> USE DEF IndInv
<1>1. TypeOK'
  BY TypeNext
<1>2. Effect
  BY StepEffect DEF OutcomeInv
<1>3. OutcomeInv' /\ BoundInv' /\ DisabledQuiet' /\ LiveInv'
  BY <1>2, OutcomeStep, BoundStep, DisabledStep, LiveStep
<1>4. CarryInv' /\ RunOfAttempt' /\ SeenInv'
  BY <1>2, CarryStep, AttemptStep, SeenStep
<1>5. QED
  BY <1>1, <1>3, <1>4

\* The invariant that the safety properties rest on holds in every reachable state.
THEOREM Inductive == Spec => []IndInv
<1>1. QED
  BY IndInit, IndNext, PTL DEF Spec

\* A trigger never has more active dispatches than it allows, for every limit and
\* however many handlers lease and replay at once.
THEOREM Bounded == Spec => []ConcurrencyBound
<1>1. IndInv => ConcurrencyBound
  BY DEF IndInv, BoundInv, ConcurrencyBound
<1>2. QED
  BY <1>1, Inductive, PTL

\* A disabled trigger has nothing waiting or under way.
THEOREM Quiet == Spec => []DisabledQuiet
<1>1. IndInv => DisabledQuiet
  BY DEF IndInv
<1>2. QED
  BY <1>1, Inductive, PTL

\* A dispatch's outcome is its run's, whichever of the seven writers closed them.
THEOREM Outcome == Spec => []OutcomeFollowsRun
<1>1. IndInv => OutcomeFollowsRun
  BY DEF IndInv, OutcomeInv
<1>2. QED
  BY <1>1, Inductive, PTL

\* The run of a dispatch was started by its current attempt.
THEOREM CurrentAttempt == Spec => []RunOfAttempt
<1>1. IndInv => RunOfAttempt
  BY DEF IndInv
<1>2. QED
  BY <1>1, Inductive, PTL

\* While one run is allowed, a dispatch never has two runs under way.
THEOREM OneRun == MaxConcurrent = 1 => (Spec => []OneLiveRun)
<1> SUFFICES ASSUME MaxConcurrent = 1 PROVE Spec => []OneLiveRun
  OBVIOUS
<1>1. IndInv => OneLiveRun
  BY DEF IndInv, LiveInv
<1>2. QED
  BY <1>1, Inductive, PTL

\* Every write of a dispatch keeps to the table of trigger-transitions.ts.
THEOREM Transitions == Spec => TransitionsAllowed
<1>1. IndInv /\ [Next]_vars =>
        [\A d \in Dispatches :
           status'[d] = status[d] \/ status'[d] \in DispatchTransitions[status[d]]]_vars
  BY StepEffect, TransitionStep DEF IndInv, OutcomeInv
<1>2. QED
  BY <1>1, Inductive, PTL DEF Spec, TransitionsAllowed

\* A dispatch whose lease has not expired fails only with its own run, or because its
\* own handler gives it up.
THEOREM Exclusive == Spec => LeaseExclusive
<1>1. IndInv /\ [Next]_vars =>
        [\A d \in Dispatches \ expired : status[d] \in Active /\ status'[d] = "failed" =>
           \/ runId[d] # None /\ run'[runId[d]] = "failed"
           \/ pc[owner[d]] = "settle" /\ job[owner[d]].current = d]_vars
  BY ExclusiveStep DEF IndInv, GivenUp
<1>2. QED
  BY <1>1, Inductive, PTL DEF Spec, LeaseExclusive

\* A terminal run never changes.
THEOREM TerminalStays == Spec => TerminalRunsStay
<1>1. IndInv /\ [Next]_vars =>
        [\A r \in Runs : run[r] \in TerminalRun => run'[r] = run[r]]_vars
  BY StepEffect, TerminalStep DEF IndInv, OutcomeInv
<1>2. QED
  BY <1>1, Inductive, PTL DEF Spec, TerminalRunsStay

=============================================================================
