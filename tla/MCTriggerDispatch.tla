------------------------- MODULE MCTriggerDispatch -------------------------
(***************************************************************************)
(* Instances of TriggerDispatch for TLC.                                   *)
(***************************************************************************)
EXTENDS TriggerDispatch, TLC

\* One trigger has every dispatch.
OneTrigger == [d \in Dispatches |-> CHOOSE t \in Triggers : TRUE]

\* Dispatches of one trigger, runs and requests are interchangeable (not used
\* where liveness is checked).
Interchangeable ==
  Permutations(Dispatches) \cup Permutations(Runs) \cup Permutations(Requests)
=============================================================================
