---------------------------- MODULE TriggerSchedule ----------------------------
(***************************************************************************)
(* The triggers that start by themselves, crons and monitors: how they are *)
(* created, paused, enabled and disabled, and how the ticks of the cron    *)
(* scan those that are due, coalesce what was missed into one occurrence   *)
(* and insert its dispatch.  What becomes of a dispatch afterwards is the  *)
(* matter of TriggerDispatch.                                              *)
(*                                                                         *)
(* A tick takes the scheduled time it is called with; two ticks can be     *)
(* under way at once, even for the same time.  Each statement or batch is  *)
(* one step.                                                               *)
(***************************************************************************)
EXTENDS Naturals, FiniteSets

CONSTANTS
  Timers,        \* the triggers of kind schedule and monitor
  Interval,      \* the time between two occurrences of each
  DueLimit,      \* maximumDuePerTick
  MaxCoalesced,  \* maximumCoalescedOccurrences
  Ticks,         \* invocations of the scheduled handler under way at once
  Admins,        \* requests to change a trigger under way at once
  MaxTime, MaxChanges  \* bounds on the clock and on the changes by hand

ASSUME ScheduleAssumption ==
  /\ Interval \in [Timers -> Nat \ {0}]
  /\ {DueLimit, MaxCoalesced} \subseteq Nat \ {0} /\ {MaxTime, MaxChanges} \subseteq Nat

VARIABLES
  clock,
  timer,       \* control_triggers
  occurrence,  \* control_trigger_dispatches of these triggers
  tick,        \* where each tick is, its time and the rows it has read
  change,      \* the admins' requests
  changes      \* how often a trigger was changed

svars == <<clock, timer, occurrence, tick, change, changes>>

NoTimer == [status |-> "none", next |-> 0, first |-> 0, version |-> 0, updated |-> 0]
IdleTick == [at |-> "idle", now |-> 0, rows |-> {}]
IdleChange == [of |-> "none", to |-> "none", version |-> 0]

ScheduleInit ==
  /\ clock = 0
  /\ timer = [t \in Timers |-> NoTimer]
  /\ occurrence = {}
  /\ tick = [k \in Ticks |-> IdleTick]
  /\ change = [a \in Admins |-> IdleChange]
  /\ changes = 0

TimePasses ==
  /\ clock < MaxTime /\ clock' = clock + 1
  /\ UNCHANGED <<timer, occurrence, tick, change, changes>>

-----------------------------------------------------------------------------
(* Changes by hand *)

(* resolveCheckedInTrigger, initialNextTriggerAt: the interval is the      *)
(* pack's own declaration, counted from now.                               *)
InitialNext(t) == clock + Interval[t]

CreateTrigger(t) ==
  /\ timer[t].status = "none"
  /\ \E status \in {"paused", "enabled"} :
       timer' = [timer EXCEPT ![t] =
         [status |-> status, next |-> InitialNext(t), first |-> InitialNext(t),
          version |-> 1, updated |-> clock]]
  /\ UNCHANGED <<clock, occurrence, tick, change, changes>>

\* The admin sends the version shown to her; disabled is terminal.
AskChange(a, t) ==
  /\ change[a] = IdleChange /\ timer[t].status \in {"paused", "enabled"}
  /\ changes < MaxChanges /\ changes' = changes + 1
  /\ \E to \in {"paused", "enabled", "disabled"} \ {timer[t].status} :
       change' = [change EXCEPT ![a] = [of |-> t, to |-> to, version |-> timer[t].version]]
  /\ UNCHANGED <<clock, timer, occurrence, tick>>

\* next_trigger_at stays what it was, also when a paused trigger is enabled
\* again.
Updated(asked) ==
  [timer[asked.of] EXCEPT !.status = asked.to, !.version = @ + 1, !.updated = clock]

\* Disabling a trigger cancels its dispatches that wait (and those that are
\* under way, which TriggerDispatch has).
Withdrawn(o, t) == IF o.of = t /\ o.status = "pending" THEN [o EXCEPT !.status = "cancelled"] ELSE o

\* handleUpdateTrigger
UpdateTrigger(a) ==
  LET t == change[a].of
      wins == timer[t].status # "disabled" /\ timer[t].version = change[a].version
  IN
  /\ change[a] # IdleChange
  /\ change' = [change EXCEPT ![a] = IdleChange]
  /\ IF wins
     THEN /\ timer' = [timer EXCEPT ![t] = Updated(change[a])]
          /\ occurrence' = IF change[a].to # "disabled" THEN occurrence
                           ELSE {Withdrawn(o, t) : o \in occurrence}
     ELSE UNCHANGED <<timer, occurrence>>
  /\ UNCHANGED <<clock, tick, changes>>

-----------------------------------------------------------------------------
(* The tick *)

BeginTick(k) ==
  /\ tick[k].at = "idle"
  /\ tick' = [tick EXCEPT ![k] = [at |-> "scan", now |-> clock, rows |-> {}]]
  /\ UNCHANGED <<clock, timer, occurrence, change, changes>>

DueAt(t, time) == timer[t].status = "enabled" /\ timer[t].next <= time

\* Due triggers, longest overdue first, at most DueLimit of them.
ScanDue(k) ==
  LET due == {t \in Timers : DueAt(t, tick[k].now)} IN
  /\ tick[k].at = "scan"
  /\ \E some \in SUBSET due :
       /\ Cardinality(some) = IF Cardinality(due) < DueLimit THEN Cardinality(due) ELSE DueLimit
       /\ \A t \in some, u \in due \ some : timer[t].next <= timer[u].next
       /\ tick' = [tick EXCEPT ![k] =
            [@ EXCEPT !.at = "dispatch", !.rows = {[of |-> t, next |-> timer[t].next] : t \in some}]]
  /\ UNCHANGED <<clock, timer, occurrence, change, changes>>

\* coalesceDueOccurrence: how many occurrences have come due, the last of
\* which is followed by one after now.
Occurrences(row, time) == (time - row.next) \div Interval[row.of] + 1
NextAfter(row, time) == row.next + Occurrences(row, time) * Interval[row.of]
TooFarBehind(row, time) == Occurrences(row, time) > MaxCoalesced

FirstRow(k, row) == \A other \in tick[k].rows : row.next <= other.next

\* Mutant: the update of the trigger does not compare next_trigger_at.
MovesMutant(k, row) == timer[row.of].status = "enabled"

Moves(k, row) == timer[row.of].status = "enabled" /\ timer[row.of].next = row.next

Moved(k, row) ==
  LET t == row.of
  IN IF Moves(k, row)
     THEN [timer[t] EXCEPT !.next = NextAfter(row, tick[k].now), !.version = @ + 1, !.updated = tick[k].now]
     ELSE timer[t]

\* One batch: the trigger moves on if it is still where it was read, and the
\* dispatch is inserted if the trigger is now where this tick would put it.
\* Nothing catches what coalescing throws: the tick ends there.
DispatchDue(k) ==
  \E row \in tick[k].rows :
    LET now == tick[k].now
        t == row.of
        moved == Moved(k, row)
        inserts == /\ moved.status = "enabled" /\ moved.updated = now
                   /\ moved.next = NextAfter(row, now)
                   /\ ~\E o \in occurrence : o.of = t /\ o.at = row.next
    IN
    /\ tick[k].at = "dispatch" /\ FirstRow(k, row)
    /\ IF TooFarBehind(row, now)
       THEN tick' = [tick EXCEPT ![k] = IdleTick] /\ UNCHANGED <<timer, occurrence>>
       ELSE /\ timer' = [timer EXCEPT ![t] = moved]
            /\ occurrence' = IF inserts
                 THEN occurrence \union {[of |-> t, at |-> row.next, status |-> "pending",
                                          skipped |-> Occurrences(row, now) - 1]}
                 ELSE occurrence
            /\ tick' = [tick EXCEPT ![k].rows = @ \ {row}]
    /\ UNCHANGED <<clock, change, changes>>

Leased(o) == IF o.status = "pending" /\ timer[o.of].status = "enabled" THEN [o EXCEPT !.status = "leased"] ELSE o

\* processPendingTriggerDispatches, reached only when every row was dispatched.
ProcessPending(k) ==
  /\ tick[k].at = "dispatch" /\ tick[k].rows = {}
  /\ occurrence' = {Leased(o) : o \in occurrence}
  /\ tick' = [tick EXCEPT ![k] = IdleTick]
  /\ UNCHANGED <<clock, timer, change, changes>>

-----------------------------------------------------------------------------
TickStep(k) == BeginTick(k) \/ ScanDue(k) \/ DispatchDue(k) \/ ProcessPending(k)

ScheduleNext ==
  \/ TimePasses
  \/ \E t \in Timers : CreateTrigger(t)
  \/ \E a \in Admins : UpdateTrigger(a) \/ \E t \in Timers : AskChange(a, t)
  \/ \E k \in Ticks : TickStep(k)

\* The cron fires again and again, and an invocation that began goes on.
ScheduleSpec ==
  ScheduleInit /\ [][ScheduleNext]_svars /\ \A k \in Ticks : WF_svars(TickStep(k))

-----------------------------------------------------------------------------
(* Every occurrence a trigger has passed belongs to exactly one dispatch:  *)
(* none is lost between two ticks, none is dispatched twice, however the   *)
(* ticks overlap and whoever pauses the trigger meanwhile                  *)
(* (trigger-scheduler.ts, dispatchDueTriggers).                            *)
Covered(o) == {o.at + i * Interval[o.of] : i \in 0 .. o.skipped}
Of(t) == {o \in occurrence : o.of = t}

EveryOccurrenceOnce ==
  \A t \in Timers : timer[t].status # "none" =>
    /\ \A o, p \in Of(t) : o # p => Covered(o) \intersect Covered(p) = {}
    /\ UNION {Covered(o) : o \in Of(t)} =
         {x \in timer[t].first .. timer[t].next : x < timer[t].next
                                                  /\ (x - timer[t].first) % Interval[t] = 0}

(* "Cloudflare's scheduled handler scans due records, coalesces the        *)
(* scheduled occurrence into an idempotency key, creates a dispatch"       *)
(* (docs/runtime.md:157): an enabled trigger that is due, and not itself   *)
(* too far behind to coalesce, does not stay due for ever.                 *)
DueIsDispatched ==
  \A t \in Timers :
    []<>(DueAt(t, clock) => TooFarBehind([of |-> t, next |-> timer[t].next], clock))
===============================================================================
