--------------------------- MODULE WorkspaceLifecycle ---------------------------
(***************************************************************************)
(* What the deletion of a workspace promises its owner, whatever workers,  *)
(* leases, requests and failures are behind it:                            *)
(*   - the workspace is only quarantined first, and its owner may take it  *)
(*     back whole;                                                         *)
(*   - nothing of it is destroyed before the recovery period is over and   *)
(*     the purge has begun, and from then on it is never in use again;     *)
(*   - a purge may fail and be retried, and only a purge ends in a         *)
(*     receipt, once.                                                      *)
(* There are no jobs, fences or objects here: WorkspaceRetention has them. *)
(***************************************************************************)
EXTENDS Naturals

VARIABLES
  status,   \* of the workspace
  over,     \* the recovery period is over
  whole,    \* nothing was destroyed
  receipts  \* deletion receipts

vars == <<status, over, whole, receipts>>

Init == status = "active" /\ over = FALSE /\ whole = TRUE /\ receipts = 0

Move(from, to) == status = from /\ status' = to

Request ==
  /\ Move("active", "quarantined")
  /\ over' = FALSE
  /\ UNCHANGED <<whole, receipts>>

PeriodEnds ==
  /\ status = "quarantined" /\ over' = TRUE
  /\ UNCHANGED <<status, whole, receipts>>

Recover ==
  /\ whole /\ Move("quarantined", "active")
  /\ over' = FALSE
  /\ UNCHANGED <<whole, receipts>>

Begin ==
  /\ over /\ Move("quarantined", "purging")
  /\ UNCHANGED <<over, whole, receipts>>

Fail == Move("purging", "failed") /\ UNCHANGED <<over, whole, receipts>>
Retry == Move("failed", "purging") /\ UNCHANGED <<over, whole, receipts>>

Destroy ==
  /\ status \in {"purging", "failed", "gone"}
  /\ whole' = FALSE
  /\ UNCHANGED <<status, over, receipts>>

Certify ==
  /\ Move("purging", "gone")
  /\ whole' = FALSE /\ receipts = 0 /\ receipts' = 1
  /\ UNCHANGED over

Next == Request \/ PeriodEnds \/ Recover \/ Begin \/ Fail \/ Retry \/ Destroy \/ Certify

Spec == Init /\ [][Next]_vars
===============================================================================
