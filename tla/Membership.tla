------------------------------ MODULE Membership ------------------------------
(***************************************************************************)
(* Who may act where: the users of one account, its workspaces, their      *)
(* members and agents, and the preferences that choose a user's workspace  *)
(* and agent. Every request first resolves the identity it acts as and     *)
(* then runs its handler; each statement is a step of its own, so that     *)
(* what a request has read may be old when it writes.                      *)
(*                                                                         *)
(* One account with one identity source, signed in with the hosted         *)
(* headers. Rows are removed only by a purge (WorkspaceDeletion).          *)
(***************************************************************************)
EXTENDS Naturals, FiniteSets

CONSTANTS
  Users,
  Workspaces,
  Home,            \* the account's default workspace
  Requests,        \* requests served at a time
  Nowhere,         \* no preference
  ExternalRole,    \* the role each user's organization gives
  IdentityBudgets  \* bounds: requests, changes of a workspace's lifecycle, lost requests

Roles == {"owner", "admin", "member"}
Agents == {"default", "made", "pack"}

ASSUME MembershipAssumption ==
  /\ Home \in Workspaces /\ Nowhere \notin Workspaces \cup Agents
  /\ ExternalRole \in [Users -> {"admin", "member"}]
  /\ IdentityBudgets \subseteq [requests : Nat, lifecycle : Nat, lost : Nat]

VARIABLES
  people,     \* the rows of users
  spaces,     \* the status of each workspace, "none" before it is created
  member,     \* the memberships
  agents,     \* the agents of each workspace
  homeOf,     \* active_workspace_preferences
  agentOf,    \* active_agent_preferences
  req,        \* the requests being served
  mleft       \* what is left of the bounds

mvars == <<people, spaces, member, agents, homeOf, agentOf, req, mleft>>
tables == <<people, spaces, member, agents, homeOf, agentOf>>

NoRow == [role |-> "none", status |-> "none"]
Idle == [pc |-> "idle", user |-> Nowhere, op |-> "none", ws |-> Nowhere,
         to |-> Nowhere, whom |-> Nowhere, row |-> NoRow]

MembershipInit ==
  /\ people = {} /\ spaces = [w \in Workspaces |-> "none"]
  /\ member = [u \in Users |-> [w \in Workspaces |-> NoRow]]
  /\ agents = [w \in Workspaces |-> {}]
  /\ homeOf = [u \in Users |-> Nowhere]
  /\ agentOf = [u \in Users |-> [w \in Workspaces |-> Nowhere]]
  /\ req = [r \in Requests |-> Idle]
  /\ mleft \in IdentityBudgets

Active(u, w) == member[u][w].status = "active"
IsAdmin(u, w) == Active(u, w) /\ member[u][w].role \in {"owner", "admin"}
Owners(w) == {u \in Users : Active(u, w) /\ member[u][w].role = "owner"}

To(r, pc) == [req EXCEPT ![r].pc = pc]
Done(r) == [req EXCEPT ![r] = Idle]
Serving(r, op, pc) == req[r].op = op /\ req[r].pc = pc
Reject(r) == req' = Done(r) /\ UNCHANGED tables

(* What a request may ask for.                                             *)
Ask(u, op, to, whom, row) ==
  [pc |-> "bootstrap", user |-> u, op |-> op, ws |-> Nowhere, to |-> to, whom |-> whom, row |-> row]
Access(p, s) == [role |-> p, status |-> s]
Plain(u, op, to) == Ask(u, op, to, Nowhere, NoRow)
Asks ==
  {Plain(u, op, Nowhere) : u \in Users, op \in {"visit", "create", "pack"}} \cup
  {Plain(u, "make", a) : u \in Users, a \in {"made", Nowhere}} \cup
  {Plain(u, "use", a) : u \in Users, a \in Agents} \cup
  {Plain(u, "switch", w) : u \in Users, w \in Workspaces} \cup
  {Ask(u, "add", Nowhere, v, Access(p, "active")) :
      u \in Users, v \in Users, p \in Roles} \cup
  {Ask(u, "update", Nowhere, v, Access(p, s)) :
      u \in Users, v \in Users, p \in Roles, s \in {"active", "disabled"}}

(* The slots are alike: a request takes the first that is free.            *)
Begin(r) ==
  /\ req[r].pc = "idle" /\ mleft.requests > 0
  /\ r = CHOOSE s \in Requests : req[s].pc = "idle"
  /\ \E q \in Asks : req' = [req EXCEPT ![r] = q]
  /\ mleft' = [mleft EXCEPT !.requests = @ - 1]
  /\ UNCHANGED tables

(***************************************************************************)
(* The identity of a request.                                              *)
(***************************************************************************)
(* The user and the default workspace are upserted and its members are     *)
(* counted: the first becomes its owner.                                   *)
FirstIn(w) == \A u \in Users : member[u][w] = NoRow

Bootstrap(r) ==
  /\ req[r].pc = "bootstrap"
  /\ people' = people \cup {req[r].user}
  /\ spaces' = [spaces EXCEPT ![Home] = IF @ = "none" THEN "active" ELSE @]
  /\ req' = [req EXCEPT ![r].pc = "seed", ![r].ws = IF FirstIn(Home) THEN Home ELSE Nowhere]
  /\ UNCHANGED <<member, agents, homeOf, agentOf>>

(* The membership is inserted unless there is one; then the default agent. *)
Seed(r) ==
  LET u == req[r].user
      role == IF req[r].ws = Home THEN "owner" ELSE ExternalRole[u]
  IN /\ req[r].pc = "seed"
     /\ member' = [member EXCEPT ![u][Home] =
                    IF @ = NoRow THEN [role |-> role, status |-> "active"] ELSE @]
     /\ agents' = [agents EXCEPT ![Home] = @ \cup {"default"}]
     /\ req' = To(r, "prefer")
     /\ UNCHANGED <<people, spaces, homeOf, agentOf>>

Prefer(r) ==
  LET w == homeOf[req[r].user]
  IN /\ req[r].pc = "prefer"
     /\ req' = [req EXCEPT ![r].pc = IF w = Nowhere THEN "settle" ELSE "resolve",
                           ![r].ws = IF w = Nowhere THEN Home ELSE w]
     /\ UNCHANGED tables

Settle(r) ==
  /\ req[r].pc = "settle"
  /\ homeOf' = [homeOf EXCEPT ![req[r].user] = Home]
  /\ req' = To(r, "resolve")
  /\ UNCHANGED <<people, spaces, member, agents, agentOf>>

(* The agent a user has in a workspace: the preferred one, which must      *)
(* exist, or else the default one, which then becomes the preferred one.   *)
AgentIn(u, w) == IF agentOf[u][w] = Nowhere THEN "default" ELSE agentOf[u][w]
HasAgent(u, w) == AgentIn(u, w) \in agents[w]

Admitted(u, w) == u \in people /\ spaces[w] = "active" /\ Active(u, w) /\ HasAgent(u, w)

Resolve(r) ==
  LET u == req[r].user
      w == req[r].ws
  IN /\ req[r].pc = "resolve" /\ Admitted(u, w)
     /\ agentOf' = [agentOf EXCEPT ![u][w] = AgentIn(u, w)]
     /\ req' = IF req[r].op = "visit" THEN Done(r) ELSE To(r, "read")
     /\ UNCHANGED <<people, spaces, member, agents, homeOf>>

Shut(r) == req[r].pc = "resolve" /\ ~Admitted(req[r].user, req[r].ws) /\ Reject(r)

(***************************************************************************)
(* Workspaces.                                                             *)
(***************************************************************************)
CanSwitch(u, from, to) ==
  spaces[to] = "active" /\ Active(u, from) /\ Active(u, to) /\ HasAgent(u, to)

SwitchRead(r) ==
  LET u == req[r].user
      w == req[r].to
  IN /\ Serving(r, "switch", "read")
     /\ \/ /\ CanSwitch(u, req[r].ws, w)
           /\ agentOf' = [agentOf EXCEPT ![u][w] = AgentIn(u, w)]
           /\ req' = To(r, "write")
           /\ UNCHANGED <<people, spaces, member, agents, homeOf>>
        \/ ~CanSwitch(u, req[r].ws, w) /\ Reject(r)

SwitchWrite(r) ==
  /\ Serving(r, "switch", "write")
  /\ homeOf' = [homeOf EXCEPT ![req[r].user] = req[r].to]
  /\ req' = Done(r)
  /\ UNCHANGED <<people, spaces, member, agents, agentOf>>

(* The creator takes its role along, whatever it is.                       *)
CreateRead(r) ==
  LET u == req[r].user
  IN /\ Serving(r, "create", "read")
     /\ \/ /\ IsAdmin(u, req[r].ws)
           /\ req' = [req EXCEPT ![r].pc = "write", ![r].row = member[u][req[r].ws]]
           /\ UNCHANGED tables
        \/ ~IsAdmin(u, req[r].ws) /\ Reject(r)

CreateWrite(r) ==
  /\ Serving(r, "create", "write")
  /\ \E w \in Workspaces \ {Home} :
       /\ spaces[w] = "none"
       /\ spaces' = [spaces EXCEPT ![w] = "active"]
       /\ req' = [req EXCEPT ![r].pc = "join", ![r].to = w]
  /\ UNCHANGED <<people, member, agents, homeOf, agentOf>>

JoinCreated(r) ==
  /\ Serving(r, "create", "join")
  /\ member' = [member EXCEPT ![req[r].user][req[r].to] = [role |-> req[r].row.role, status |-> "active"]]
  /\ req' = To(r, "agent")
  /\ UNCHANGED <<people, spaces, agents, homeOf, agentOf>>

AgentOfCreated(r) ==
  /\ Serving(r, "create", "agent")
  /\ agents' = [agents EXCEPT ![req[r].to] = @ \cup {"default"}]
  /\ req' = To(r, "enter")
  /\ UNCHANGED <<people, spaces, member, homeOf, agentOf>>

EnterCreated(r) ==
  LET u == req[r].user
      w == req[r].to
  IN /\ Serving(r, "create", "enter")
     /\ homeOf' = [homeOf EXCEPT ![u] = w]
     /\ agentOf' = [agentOf EXCEPT ![u][w] = "default"]
     /\ req' = Done(r)
     /\ UNCHANGED <<people, spaces, member, agents>>

(***************************************************************************)
(* Members.                                                                *)
(***************************************************************************)
MayAdd(r) ==
  LET u == req[r].user
      w == req[r].ws
      v == req[r].whom
  IN /\ spaces[w] = "active" /\ IsAdmin(u, w)
     /\ member[u][w].role = "admin" => req[r].row.role = "member"
     /\ member[v][w] = NoRow
     /\ v \in people /\ Active(v, Home)

AddRead(r) ==
  /\ Serving(r, "add", "read")
  /\ \/ MayAdd(r) /\ req' = To(r, "write") /\ UNCHANGED tables
     \/ ~MayAdd(r) /\ Reject(r)

(* A second insert of the same member fails.                               *)
AddWrite(r) ==
  LET v == req[r].whom
      w == req[r].ws
  IN /\ Serving(r, "add", "write")
     /\ member' = [member EXCEPT ![v][w] = IF @ = NoRow THEN req[r].row ELSE @]
     /\ req' = Done(r)
     /\ UNCHANGED <<people, spaces, agents, homeOf, agentOf>>

(* evaluateMembershipUpdate                                                *)
MayUpdate(r) ==
  LET u == req[r].user
      v == req[r].whom
      w == req[r].ws
      new == req[r].row
      unowns == v \in Owners(w) /\ new # [role |-> "owner", status |-> "active"]
  IN /\ spaces[w] = "active" /\ IsAdmin(u, w) /\ member[v][w] # NoRow
     /\ u # v
     /\ member[u][w].role = "admin" => member[v][w].role = "member" /\ new.role # "owner"
     /\ unowns => Cardinality(Owners(w)) > 1

UpdateRead(r) ==
  /\ Serving(r, "update", "read")
  /\ \/ MayUpdate(r) /\ req' = To(r, "write") /\ UNCHANGED tables
     \/ ~MayUpdate(r) /\ Reject(r)

(* Mutant: the update trusts the count its handler has read.               *)
KeepsOwnerMutant(r, v, w) == TRUE

(* The statement counts the owners again.                                  *)
KeepsOwner(r, v, w) ==
  \/ v \notin Owners(w)
  \/ req[r].row = [role |-> "owner", status |-> "active"]
  \/ Cardinality(Owners(w)) > 1

UpdateWrite(r) ==
  LET v == req[r].whom
      w == req[r].ws
  IN /\ Serving(r, "update", "write")
     /\ member' = [member EXCEPT ![v][w] = IF KeepsOwner(r, v, w) THEN req[r].row ELSE @]
     /\ req' = Done(r)
     /\ UNCHANGED <<people, spaces, agents, homeOf, agentOf>>

(***************************************************************************)
(* Agents.                                                                 *)
(***************************************************************************)
MayAgent(r) ==
  LET u == req[r].user
      w == req[r].ws
  IN IF req[r].op = "use" THEN Active(u, w) /\ req[r].to \in agents[w] ELSE IsAdmin(u, w)

AgentRead(r) ==
  /\ req[r].op \in {"make", "use", "pack"} /\ req[r].pc = "read"
  /\ \/ MayAgent(r) /\ req' = To(r, "write") /\ UNCHANGED tables
     \/ ~MayAgent(r) /\ Reject(r)

(* A pack's agent has an id of its own, so that it is inserted once.       *)
PackWrite(r) ==
  /\ Serving(r, "pack", "write")
  /\ agents' = [agents EXCEPT ![req[r].ws] = @ \cup {"pack"}]
  /\ req' = Done(r)
  /\ UNCHANGED <<people, spaces, member, homeOf, agentOf>>

MakeWrite(r) ==
  /\ Serving(r, "make", "write")
  /\ agents' = [agents EXCEPT ![req[r].ws] = @ \cup {"made"}]
  /\ req' = IF req[r].to = Nowhere THEN Done(r) ELSE [req EXCEPT ![r].op = "use"]
  /\ UNCHANGED <<people, spaces, member, homeOf, agentOf>>

UseWrite(r) ==
  /\ Serving(r, "use", "write")
  /\ agentOf' = [agentOf EXCEPT ![req[r].user][req[r].ws] = req[r].to]
  /\ req' = Done(r)
  /\ UNCHANGED <<people, spaces, member, agents, homeOf>>

(***************************************************************************)
(* An owner has a workspace deleted, and may recover it. A request is lost *)
(* when its worker goes or a statement fails.                              *)
(***************************************************************************)
Quarantine(w) ==
  /\ spaces[w] = "active" /\ Owners(w) # {} /\ mleft.lifecycle > 0
  /\ spaces' = [spaces EXCEPT ![w] = "quarantined"]
  /\ mleft' = [mleft EXCEPT !.lifecycle = @ - 1]
  /\ UNCHANGED <<people, member, agents, homeOf, agentOf, req>>

Recover(w) ==
  /\ spaces[w] = "quarantined" /\ mleft.lifecycle > 0
  /\ spaces' = [spaces EXCEPT ![w] = "active"]
  /\ mleft' = [mleft EXCEPT !.lifecycle = @ - 1]
  /\ UNCHANGED <<people, member, agents, homeOf, agentOf, req>>

Lose(r) ==
  /\ req[r].pc # "idle" /\ mleft.lost > 0
  /\ req' = Done(r)
  /\ mleft' = [mleft EXCEPT !.lost = @ - 1]
  /\ UNCHANGED tables

RequestStep(r) ==
  \/ Bootstrap(r) \/ Seed(r) \/ Prefer(r) \/ Settle(r) \/ Resolve(r) \/ Shut(r)
  \/ SwitchRead(r) \/ SwitchWrite(r)
  \/ CreateRead(r) \/ CreateWrite(r) \/ JoinCreated(r) \/ AgentOfCreated(r) \/ EnterCreated(r)
  \/ AddRead(r) \/ AddWrite(r) \/ UpdateRead(r) \/ UpdateWrite(r)
  \/ AgentRead(r) \/ PackWrite(r) \/ MakeWrite(r) \/ UseWrite(r)

MembershipNext ==
  \/ \E r \in Requests : Begin(r) \/ Lose(r)
  \/ \E r \in Requests : RequestStep(r) /\ UNCHANGED mleft
  \/ \E w \in Workspaces : Quarantine(w) \/ Recover(w)

(***************************************************************************)
(* Properties.                                                             *)
(***************************************************************************)
(* A workspace that has an active owner keeps one, however many owners     *)
(* change each other's access at the same time (workspace-members.ts).     *)
OwnerRemains == [][\A w \in Workspaces : Owners(w) # {} => Owners(w)' # {}]_mvars

===============================================================================
