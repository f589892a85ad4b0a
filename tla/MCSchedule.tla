------------------------------ MODULE MCSchedule ------------------------------
EXTENDS TriggerSchedule

CONSTANTS Minutely, Slower

MCInterval == [t \in Timers |-> IF t = Minutely THEN 1 ELSE 2]
\* A cron that has always kept up: no time passes while a trigger is due, so
\* only a trigger that was paused can be behind.
Punctual == clock' # clock => \A t \in Timers : ~DueAt(t, clock)

MCSpec ==
  ScheduleInit /\ [][ScheduleNext /\ Punctual]_svars /\ \A k \in Ticks : WF_svars(TickStep(k))
===============================================================================
