-------------------------- MODULE ActionLifecycle --------------------------
(***************************************************************************)
(* What the action authority promises of an external mutation, whoever     *)
(* handles it and however the handlers interleave:                         *)
(*   - a proposal goes through one lifecycle and a terminal proposal never *)
(*     reopens (docs/capability-model.md:83);                              *)
(*   - the mutation is handed to the provider at most once, and only under *)
(*     an authority that was granted by claiming an approved proposal      *)
(*     (docs/agent-runtime-kit.md:100-101);                                *)
(*   - a result is recorded only for a mutation that was handed over.      *)
(* There are no handlers, approvals or runs here: ActionAuthority has them *)
(* and implements this specification.                                      *)
(***************************************************************************)
CONSTANT Proposals

VARIABLES
  status,  \* the proposal's lifecycle status
  effect   \* what was done with the right to call the provider

vars == <<status, effect>>

\* A proposal that an operator may still withdraw.
Withdrawable == {"proposed", "approval_requested", "approved", "executing"}
Results == {"executed", "failed", "outcome_unknown", "reconciled"}
Statuses == {"none", "cancelled"} \cup Withdrawable \cup Results
Effects == {"none", "authorized", "dispatched"}

TypeOK ==
  /\ status \in [Proposals -> Statuses]
  /\ effect \in [Proposals -> Effects]

Init ==
  /\ status = [p \in Proposals |-> "none"]
  /\ effect = [p \in Proposals |-> "none"]

Advance(p, from, to) ==
  /\ status[p] = from
  /\ status' = [status EXCEPT ![p] = to]
  /\ UNCHANGED effect

Propose(p) == Advance(p, "none", "proposed")
RequestApproval(p) == Advance(p, "proposed", "approval_requested")
Approve(p) == Advance(p, "approval_requested", "approved")

\* Executing starts by taking the one authority to call the provider.
Claim(p) ==
  /\ status[p] = "approved"
  /\ effect[p] = "none"
  /\ status' = [status EXCEPT ![p] = "executing"]
  /\ effect' = [effect EXCEPT ![p] = "authorized"]

\* The authority is used up by the call.
Dispatch(p) ==
  /\ effect[p] = "authorized"
  /\ effect' = [effect EXCEPT ![p] = "dispatched"]
  /\ UNCHANGED status

Settle(p, result) ==
  /\ effect[p] = "dispatched"
  /\ Advance(p, "executing", result)

Reconcile(p) == Advance(p, "outcome_unknown", "reconciled")

\* One operator decision may withdraw several proposals at once.
Withdraw(S) ==
  /\ \A p \in S : status[p] \in Withdrawable
  /\ status' = [p \in Proposals |-> IF p \in S THEN "cancelled" ELSE status[p]]
  /\ UNCHANGED effect

Next ==
  \/ \E p \in Proposals :
       \/ Propose(p) \/ RequestApproval(p) \/ Approve(p)
       \/ Claim(p) \/ Dispatch(p) \/ Reconcile(p)
       \/ \E result \in Results : Settle(p, result)
  \/ \E S \in SUBSET Proposals : Withdraw(S)

Spec == Init /\ [][Next]_vars
=============================================================================
