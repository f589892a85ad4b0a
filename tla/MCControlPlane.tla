---------------------------- MODULE MCControlPlane ----------------------------
(***************************************************************************)
(* Parts of the control plane that share no state: the identities of an    *)
(* account, the tools of one of its agents, the publication of workflow    *)
(* runs and the schedule of triggers. Each initial state runs one of them. *)
(***************************************************************************)
EXTENDS Membership, ToolAccess, RunPublication, TriggerSchedule, TLC

CONSTANTS Ann, Ben, Away, Free, Guarded, Minutely

VARIABLE running

MCExternalRole == [u \in Users |-> IF u = Ben THEN "member" ELSE "admin"]
I(requests, lifecycle, lost) == [requests |-> requests, lifecycle |-> lifecycle, lost |-> lost]
MCIdentityBudgets == {I(2, 1, 0), I(1, 2, 1)}

MCCatalog ==
  [t \in Tools |-> [on |-> TRUE, approval |-> t = Guarded, visible |-> t = Free, dry |-> TRUE, limit |-> 2]]
A(calls, edits, roles, lost, hours) ==
  [calls |-> calls, edits |-> edits, roles |-> roles, lost |-> lost, hours |-> hours]
MCAccessBudgets == {A(3, 0, 0, 0, 0), A(2, 1, 0, 0, 1), A(2, 0, 1, 1, 0)}

P(calls, ends, lost, writes) ==
  [calls |-> calls, ends |-> ends, lost |-> lost, writes |-> writes]
MCPubBudgets == {P(2, 1, 0, 0), P(1, 1, 1, 0), P(1, 1, 0, 1), P(0, 0, 0, 2)}

MCInterval == [t \in Timers |-> IF t = Minutely THEN 1 ELSE 2]

vars == <<mvars, accessVars, pvars, svars, running>>

(* An account that has been used: two owners at home, one of whom also has *)
(* a workspace of her own.                                                 *)
Row(role) == [role |-> role, status |-> "active"]
Settled ==
  /\ people = Users /\ spaces = [w \in Workspaces |-> "active"]
  /\ member = [u \in Users |-> [w \in Workspaces |->
       IF w = Home \/ u = Ann THEN Row("owner") ELSE NoRow]]
  /\ agents = [w \in Workspaces |-> {"default"}]
  /\ homeOf = [u \in Users |-> IF u = Ann THEN Away ELSE Home]
  /\ agentOf = [u \in Users |-> [w \in Workspaces |-> "default"]]
  /\ req = [r \in Requests |-> Idle] /\ mleft \in IdentityBudgets

MCInit ==
  /\ MembershipInit \/ Settled
  /\ AccessInit /\ PublicationInit /\ ScheduleInit
  /\ running \in {"identity", "tools", "publication", "schedule"}
  /\ running # "identity" => MembershipInit /\ mleft = I(1, 2, 1)
  /\ running # "tools" => aleft = A(2, 0, 1, 1, 0)
  /\ running # "publication" => pleft = P(0, 0, 0, 2)

MCNext ==
  \/ running = "identity" /\ MembershipNext /\ UNCHANGED <<accessVars, pvars, svars, running>>
  \/ running = "tools" /\ AccessNext /\ UNCHANGED <<mvars, pvars, svars, running>>
  \/ running = "publication" /\ PublicationNext /\ UNCHANGED <<mvars, accessVars, svars, running>>
  \/ running = "schedule" /\ ScheduleNext /\ UNCHANGED <<mvars, accessVars, pvars, running>>

MCSpec == MCInit /\ [][MCNext]_vars

(* Two runs, and two ticks, differ in nothing but their names.             *)
Interchangeable == Permutations(PackRuns) \union Permutations(Ticks)
===============================================================================
