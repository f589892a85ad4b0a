------------------------- MODULE ControlPlane_proofs -------------------------
(***************************************************************************)
(* Proofs about the parts of the control plane that share no state: that a *)
(* workspace never loses its last owner, that a held run executes its tool *)
(* once, that publication follows the run, and that every occurrence of a  *)
(* schedule is dispatched once.                                            *)
(***************************************************************************)
EXTENDS Membership, ToolAccess, RunPublication, TriggerSchedule, FiniteSetTheorems, TLAPS

MembershipSpec == MembershipInit /\ [][MembershipNext]_mvars
AccessSpec == AccessInit /\ [][AccessNext]_accessVars
PublicationSpec == PublicationInit /\ [][PublicationNext]_pvars

-----------------------------------------------------------------------------
(* Membership *)

Standings == {"none", "active", "disabled"}
MemberRows == [role : Roles \union {"none"}, status : Standings]
Stages == {"idle", "bootstrap", "seed", "prefer", "settle", "resolve", "read", "write", "join",
           "agent", "enter"}
Operations == {"none", "visit", "create", "pack", "make", "use", "switch", "add", "update"}
Placed == {"settle", "resolve", "read", "write", "join", "agent", "enter"}
Places == Workspaces \union Agents \union {Nowhere}
RequestRows ==
  [pc : Stages, user : Users \union {Nowhere}, op : Operations, ws : Workspaces \union {Nowhere},
   to : Places, whom : Users \union {Nowhere}, row : MemberRows]

Nobody(w) == \A u \in Users : member[u][w] = NoRow
Joining(q) == q.op = "create" /\ q.pc = "join"

\* What a request has established by the stage it is in.
Prepared(q) ==
  /\ q.pc # "idle" => q.user \in Users
  /\ q.op \in {"add", "update"} => q.row.status # "none"
  /\ q.op = "switch" => q.to \in Workspaces
  /\ q.pc = "seed" => spaces[Home] # "none"
  /\ q.pc \in Placed => q.ws \in Workspaces
  /\ q.op = "create" /\ q.pc \in {"join", "agent", "enter"} => q.to \in Workspaces \ {Home}

Writing(q) == q.op \in {"add", "update"} /\ q.pc = "write"

RequestOK(q) ==
  /\ Prepared(q)
  /\ Joining(q) => spaces[q.to] # "none" /\ Nobody(q.to)
  /\ Writing(q) => ~Nobody(q.ws)

MembershipTypeOK ==
  /\ member \in [Users -> [Workspaces -> MemberRows]]
  /\ spaces \in [Workspaces -> {"none", "active", "quarantined"}]
  /\ homeOf \in [Users -> Workspaces \union {Nowhere}]
  /\ req \in [Requests -> RequestRows]

\* A workspace has no member before it exists, and while its creator is about
\* to join it; no two creators are about to join the same one.
MembershipInv ==
  /\ MembershipTypeOK
  /\ \A r \in Requests : RequestOK(req[r])
  /\ \A w \in Workspaces : spaces[w] = "none" => Nobody(w)
  /\ \A r, s \in Requests :
       Joining(req[r]) /\ Joining(req[s]) /\ r # s => req[r].to # req[s].to

LEMMA MembershipStarts == MembershipInit => MembershipInv
<1> SUFFICES ASSUME MembershipInit PROVE MembershipInv
  OBVIOUS
<1>1. NoRow \in MemberRows
  BY DEF NoRow, MemberRows, Standings
<1>2. Idle \in RequestRows /\ Idle.pc = "idle" /\ Idle.op = "none"
  BY <1>1 DEF Idle, RequestRows, Stages, Operations, Places
<1>3. MembershipTypeOK
  BY <1>1, <1>2 DEF MembershipInit, MembershipTypeOK
<1>4. \A r \in Requests : RequestOK(req[r]) /\ ~Joining(req[r])
  BY <1>2 DEF MembershipInit, RequestOK, Prepared, Writing, Joining, Placed
<1>5. \A w \in Workspaces : Nobody(w)
  BY DEF MembershipInit, Nobody
<1> QED
  BY <1>3, <1>4, <1>5 DEF MembershipInv

Askable(q) ==
  \E u \in Users, op \in Operations, to \in Places, whom \in Users \union {Nowhere}, row \in MemberRows :
    /\ q = Ask(u, op, to, whom, row)
    /\ op \in {"add", "update"} => row.status # "none"
    /\ op = "switch" => to \in Workspaces

LEMMA AsksAreAskable ==
  ASSUME NEW q \in Asks
  PROVE  Askable(q)
<1>1. NoRow \in MemberRows /\ \A p \in Roles, s \in Standings : [role |-> p, status |-> s] \in MemberRows
  BY DEF NoRow, MemberRows, Standings
<1>2. ASSUME NEW u \in Users, NEW op \in {"visit", "create", "pack", "make", "use"},
             NEW to \in Agents \union {Nowhere}
      PROVE  Askable(Plain(u, op, to))
  BY <1>1 DEF Askable, Plain, Operations, Places
<1>3. ASSUME NEW u \in Users, NEW w \in Workspaces PROVE Askable(Plain(u, "switch", w))
  BY <1>1 DEF Askable, Plain, Operations, Places
<1>4. ASSUME NEW u \in Users, NEW op \in {"add", "update"}, NEW v \in Users,
             NEW p \in Roles, NEW s \in {"active", "disabled"}
      PROVE  Askable(Ask(u, op, Nowhere, v, Access(p, s)))
  <2>1. Access(p, s) \in MemberRows /\ Access(p, s).status # "none"
    BY <1>1 DEF Access, Standings
  <2> QED
    BY <2>1 DEF Askable, Operations, Places
<1> DEFINE Visits == {Plain(u, op, Nowhere) : u \in Users, op \in {"visit", "create", "pack"}}
           Makes == {Plain(u, "make", a) : u \in Users, a \in {"made", Nowhere}}
           Uses == {Plain(u, "use", a) : u \in Users, a \in Agents}
           Switches == {Plain(u, "switch", w) : u \in Users, w \in Workspaces}
           Adds == {Ask(u, "add", Nowhere, v, Access(p, "active")) : u \in Users, v \in Users, p \in Roles}
           Updates == {Ask(u, "update", Nowhere, v, Access(p, s)) :
                         u \in Users, v \in Users, p \in Roles, s \in {"active", "disabled"}}
<1>5. Asks = Visits \union Makes \union Uses \union Switches \union Adds \union Updates
  BY DEF Asks
<1>6. /\ q \in Visits => Askable(q)
      /\ q \in Makes => Askable(q)
      /\ q \in Uses => Askable(q)
  BY <1>2 DEF Agents
<1>7. q \in Switches => Askable(q)
  BY <1>3
<1>8. q \in Adds => Askable(q)
  BY <1>4
<1>9. q \in Updates => Askable(q)
  BY <1>4
<1> HIDE DEF Visits, Makes, Uses, Switches, Adds, Updates
<1> QED
  BY <1>5, <1>6, <1>7, <1>8, <1>9

\* What a request may ask for is a request at its first stage.
LEMMA AsksAreRequests ==
  ASSUME NEW q \in Asks
  PROVE  /\ q \in RequestRows /\ q.pc = "bootstrap" /\ q.user \in Users
         /\ q.op \in {"add", "update"} => q.row.status # "none"
         /\ q.op = "switch" => q.to \in Workspaces
<1>1. PICK u \in Users, op \in Operations, to \in Places, whom \in Users \union {Nowhere}, row \in MemberRows :
        /\ q = Ask(u, op, to, whom, row)
        /\ op \in {"add", "update"} => row.status # "none"
        /\ op = "switch" => to \in Workspaces
  BY AsksAreAskable DEF Askable
<1> QED
  BY <1>1 DEF Ask, RequestRows, Stages

\* A step that writes no membership.
LEMMA MembersUntouched ==
  ASSUME MembershipInv, NEW r \in Requests, NEW q \in RequestRows,
         req' = [req EXCEPT ![r] = q], member' = member,
         spaces' \in [Workspaces -> {"none", "active", "quarantined"}],
         homeOf' \in [Users -> Workspaces \union {Nowhere}],
         \A w \in Workspaces : spaces[w] # "none" => spaces'[w] # "none",
         RequestOK(q)', ~Joining(q)
  PROVE  MembershipInv'
<1>1. MembershipTypeOK'
  BY DEF MembershipInv, MembershipTypeOK
<1>2. \A s \in Requests \ {r} : req'[s] = req[s]
  BY DEF MembershipInv, MembershipTypeOK
<1>3. req'[r] = q
  BY DEF MembershipInv, MembershipTypeOK
<1>4. ASSUME NEW s \in Requests PROVE RequestOK(req[s])'
  <2>1. CASE s = r
    BY <1>3, <2>1 DEF RequestOK, Prepared, Writing, Joining, Nobody
  <2>2. CASE s # r
    <3>1. RequestOK(req[s]) /\ req'[s] = req[s]
      BY <1>2, <2>2 DEF MembershipInv
    <3>2. Prepared(req[s])'
      BY <3>1, MembershipAssumption DEF RequestOK, Prepared
    <3>3. Joining(req[s]) => spaces'[req[s].to] # "none" /\ Nobody(req[s].to)'
      BY <3>1 DEF RequestOK, Prepared, Joining, Nobody
    <3>4. Writing(req[s]) => ~Nobody(req[s].ws)'
      BY <3>1 DEF RequestOK, Nobody
    <3> QED
      BY <3>1, <3>2, <3>3, <3>4 DEF RequestOK, Joining, Writing
  <2> QED
    BY <2>1, <2>2
<1>5. \A w \in Workspaces : spaces'[w] = "none" => Nobody(w)'
  BY DEF MembershipInv, Nobody
<1>6. ~Joining(req'[r])
  BY <1>3 DEF Joining
<1>7. \A s, t \in Requests : (Joining(req[s]) /\ Joining(req[t]) /\ s # t => req[s].to # req[t].to)'
  BY <1>2, <1>6 DEF MembershipInv, Joining
<1> QED
  BY <1>1, <1>4, <1>5, <1>7 DEF MembershipInv

\* A step that writes one membership of a workspace nobody is about to join.
LEMMA MemberWritten ==
  ASSUME MembershipInv, NEW r \in Requests, NEW q \in RequestRows, NEW u \in Users, NEW w \in Workspaces,
         NEW new \in MemberRows, new.status # "none",
         req' = [req EXCEPT ![r] = q], UNCHANGED <<spaces, homeOf>>,
         member' = [member EXCEPT ![u][w] = new], spaces[w] # "none",
         \A s \in Requests \ {r} : Joining(req[s]) => req[s].to # w,
         Prepared(q), ~Writing(q),
         ~Joining(q)
  PROVE  MembershipInv'
<1>0. member' \in [Users -> [Workspaces -> MemberRows]]
  <2>1. member[u] \in [Workspaces -> MemberRows]
    BY DEF MembershipInv, MembershipTypeOK
  <2>2. [member[u] EXCEPT ![w] = new] \in [Workspaces -> MemberRows]
    BY <2>1
  <2> QED
    BY <2>2 DEF MembershipInv, MembershipTypeOK
<1>1. MembershipTypeOK'
  BY <1>0 DEF MembershipInv, MembershipTypeOK
<1>2. \A s \in Requests \ {r} : req'[s] = req[s]
  BY DEF MembershipInv, MembershipTypeOK
<1>3. req'[r] = q
  BY DEF MembershipInv, MembershipTypeOK
<1>4. \A v \in Workspaces : v # w => (Nobody(v) <=> Nobody(v)')
  <2>1. \A x \in Users, v \in Workspaces : v # w => member'[x][v] = member[x][v]
    BY DEF MembershipInv, MembershipTypeOK
  <2> QED
    BY <2>1 DEF Nobody
<1>5. ~Nobody(w) => ~Nobody(w)'
  <2>1. member'[u][w] = new /\ new # NoRow
    BY DEF MembershipInv, MembershipTypeOK, NoRow
  <2> QED
    BY <2>1 DEF Nobody
<1>6. ASSUME NEW s \in Requests PROVE RequestOK(req[s])'
  <2>1. CASE s = r
    <3>1. Prepared(req[s])'
      BY <1>3, <2>1 DEF Prepared
    <3>2. ~Joining(req'[s]) /\ ~Writing(req'[s])
      BY <1>3, <2>1
    <3> QED
      BY <3>1, <3>2 DEF RequestOK, Joining, Writing
  <2>2. CASE s # r
    <3>1. RequestOK(req[s]) /\ req'[s] = req[s]
      BY <1>2, <2>2 DEF MembershipInv
    <3>2. Prepared(req[s])'
      BY <3>1 DEF RequestOK, Prepared
    <3>3. Joining(req[s]) => req[s].to # w /\ req[s].to \in Workspaces /\ Nobody(req[s].to)'
      BY <1>4, <2>2, <3>1 DEF RequestOK, Prepared, Joining
    <3>4. Writing(req[s]) => ~Nobody(req[s].ws)'
      BY <1>4, <1>5, <3>1 DEF RequestOK, Prepared, Writing, Placed
    <3> QED
      BY <3>1, <3>2, <3>3, <3>4 DEF RequestOK, Joining, Writing
  <2> QED
    BY <2>1, <2>2
<1>7. \A v \in Workspaces : spaces'[v] = "none" => Nobody(v)'
  BY <1>4 DEF MembershipInv
<1>8. ~Joining(req'[r])
  BY <1>3 DEF Joining
<1>9. \A s, t \in Requests : (Joining(req[s]) /\ Joining(req[t]) /\ s # t => req[s].to # req[t].to)'
  BY <1>2, <1>8 DEF MembershipInv, Joining
<1> QED
  BY <1>1, <1>6, <1>7, <1>9 DEF MembershipInv

\* A request that is over.
LEMMA RequestOver ==
  ASSUME MembershipInv, NEW r \in Requests, req' = Done(r), UNCHANGED <<member, spaces>>,
         homeOf' \in [Users -> Workspaces \union {Nowhere}]
  PROVE  MembershipInv'
<1>1. Idle \in RequestRows
  BY DEF Idle, NoRow, RequestRows, Stages, Operations, Places, MemberRows, Standings
<1>2. RequestOK(Idle)' /\ ~Joining(Idle)
  BY DEF RequestOK, Prepared, Writing, Joining, Idle, Placed
<1>3. spaces' \in [Workspaces -> {"none", "active", "quarantined"}]
  BY DEF MembershipInv, MembershipTypeOK
<1> QED
  BY <1>1, <1>2, <1>3, MembersUntouched DEF Done

\* A request that goes on to a stage which demands nothing new.
LEMMA RequestAdvances ==
  ASSUME MembershipInv, NEW r \in Requests, NEW p \in Stages, NEW w \in Workspaces,
         req[r].pc # "idle", p \notin {"seed", "join"},
         req' = [req EXCEPT ![r].pc = p, ![r].ws = w], UNCHANGED <<member, spaces>>,
         homeOf' \in [Users -> Workspaces \union {Nowhere}],
         req[r].op = "create" /\ p \in {"agent", "enter"} => req[r].pc \in {"join", "agent"},
         req[r].op \in {"add", "update"} /\ p = "write" => ~Nobody(w)
  PROVE  MembershipInv'
<1>1. req[r] \in RequestRows /\ RequestOK(req[r])
  BY DEF MembershipInv, MembershipTypeOK
<1>2. PICK q \in RequestRows : q = [req[r] EXCEPT !.pc = p, !.ws = w] /\ req' = [req EXCEPT ![r] = q]
  <2>1. [req[r] EXCEPT !.pc = p, !.ws = w] \in RequestRows
    BY <1>1 DEF RequestRows
  <2>2. req' = [req EXCEPT ![r] = [req[r] EXCEPT !.pc = p, !.ws = w]]
    BY <1>1 DEF RequestRows, MembershipInv, MembershipTypeOK
  <2> QED
    BY <2>1, <2>2
<1>3. /\ q.pc = p /\ q.ws = w /\ q.user = req[r].user /\ q.op = req[r].op /\ q.row = req[r].row
      /\ q.to = req[r].to
  BY <1>1, <1>2 DEF RequestRows
<1>4. ~Joining(q) /\ (Nobody(w) <=> Nobody(w)')
  BY <1>3 DEF Joining, Nobody
<1>5. RequestOK(q)'
  BY <1>1, <1>3, <1>4 DEF RequestOK, Prepared, Writing, Joining, Placed
<1>6. spaces' \in [Workspaces -> {"none", "active", "quarantined"}]
  BY DEF MembershipInv, MembershipTypeOK
<1> QED
  BY <1>2, <1>4, <1>5, <1>6, MembersUntouched

\* The same, when the workspace stays.
LEMMA RequestGoesOn ==
  ASSUME MembershipInv, NEW r \in Requests, NEW p \in Stages,
         req[r].pc \in Placed, p \notin {"seed", "join"},
         req' = To(r, p), UNCHANGED <<member, spaces>>,
         homeOf' \in [Users -> Workspaces \union {Nowhere}],
         req[r].op = "create" /\ p \in {"agent", "enter"} => req[r].pc \in {"join", "agent"},
         req[r].op \in {"add", "update"} /\ p = "write" => ~Nobody(req[r].ws)
  PROVE  MembershipInv'
<1>1. req[r] \in RequestRows /\ req \in [Requests -> RequestRows]
  BY DEF MembershipInv, MembershipTypeOK
<1>2. PICK w \in Workspaces : w = req[r].ws
  BY DEF MembershipInv, RequestOK, Prepared, Writing
<1>3. req' = [req EXCEPT ![r].pc = p, ![r].ws = w]
  BY <1>1, <1>2 DEF To, RequestRows
<1> QED
  BY <1>2, <1>3, RequestAdvances DEF Placed

LEMMA BeginKeeps ==
  ASSUME MembershipInv, NEW r \in Requests, Begin(r)
  PROVE  MembershipInv'
<1>1. PICK q \in Asks : req' = [req EXCEPT ![r] = q]
  BY DEF Begin
<1>2. /\ q \in RequestRows /\ q.pc = "bootstrap" /\ q.user \in Users
      /\ q.op \in {"add", "update"} => q.row.status # "none"
      /\ q.op = "switch" => q.to \in Workspaces
  BY AsksAreRequests
<1>3. RequestOK(q)' /\ ~Joining(q)
  BY <1>2 DEF RequestOK, Prepared, Writing, Joining, Placed
<1> QED
  BY <1>1, <1>2, <1>3, MembersUntouched DEF Begin, tables, MembershipInv, MembershipTypeOK

LEMMA IdentityKeeps ==
  ASSUME MembershipInv, NEW r \in Requests,
         Bootstrap(r) \/ Seed(r) \/ Prefer(r) \/ Settle(r) \/ Resolve(r) \/ Shut(r)
  PROVE  MembershipInv'
<1>1. /\ req[r] \in RequestRows /\ RequestOK(req[r]) /\ req \in [Requests -> RequestRows]
      /\ homeOf \in [Users -> Workspaces \union {Nowhere}]
      /\ spaces \in [Workspaces -> {"none", "active", "quarantined"}]
  BY DEF MembershipInv, MembershipTypeOK
<1>2. CASE Bootstrap(r)
  <2>1. PICK w \in {Home, Nowhere} : req' = [req EXCEPT ![r].pc = "seed", ![r].ws = w]
    BY <1>2 DEF Bootstrap, FirstIn
  <2>2. PICK q \in RequestRows : q = [req[r] EXCEPT !.pc = "seed", !.ws = w] /\ req' = [req EXCEPT ![r] = q]
    <3>1. [req[r] EXCEPT !.pc = "seed", !.ws = w] \in RequestRows
      BY <1>1, MembershipAssumption DEF RequestRows, Stages
    <3>2. req' = [req EXCEPT ![r] = [req[r] EXCEPT !.pc = "seed", !.ws = w]]
      BY <1>1, <2>1 DEF RequestRows
    <3> QED
      BY <3>1, <3>2
  <2>3. /\ q.pc = "seed" /\ q.user = req[r].user /\ q.op = req[r].op /\ q.row = req[r].row
        /\ q.to = req[r].to
    BY <1>1, <2>2 DEF RequestRows
  <2>4. /\ spaces' \in [Workspaces -> {"none", "active", "quarantined"}]
        /\ \A v \in Workspaces : spaces[v] # "none" => spaces'[v] # "none"
        /\ spaces'[Home] # "none"
    BY <1>1, <1>2, MembershipAssumption DEF Bootstrap, FirstIn
  <2>5. RequestOK(q)' /\ ~Joining(q)
    BY <1>1, <1>2, <2>3, <2>4 DEF RequestOK, Prepared, Writing, Joining, Placed, Bootstrap, FirstIn
  <2> QED
    BY <1>1, <1>2, <2>2, <2>4, <2>5, MembersUntouched DEF Bootstrap, FirstIn
<1>3. CASE Seed(r)
  <2>1. req[r].pc = "seed" /\ spaces[Home] # "none"
    BY <1>1, <1>3 DEF Seed, RequestOK, Prepared, Writing
  <2>2. PICK u \in Users : u = req[r].user
    BY <1>1, <2>1 DEF RequestOK, Prepared, Writing
  <2>3. PICK new \in MemberRows :
          /\ new.status # "none"
          /\ \/ member' = [member EXCEPT ![u][Home] = new]
             \/ member' = member
    <3>1. PICK role \in Roles : role = IF req[r].ws = Home THEN "owner" ELSE ExternalRole[u]
      BY MembershipAssumption DEF Roles
    <3>2. member' = [member EXCEPT ![u][Home] = IF @ = NoRow THEN [role |-> role, status |-> "active"] ELSE @]
      BY <1>3, <2>2, <3>1 DEF Seed
    <3>3. [role |-> role, status |-> "active"] \in MemberRows
      BY DEF MemberRows, Standings
    <3>4. \/ member' = [member EXCEPT ![u][Home] = [role |-> role, status |-> "active"]]
          \/ member' = member
      BY <3>2, MembershipAssumption DEF MembershipInv, MembershipTypeOK
    <3> QED
      BY <3>3, <3>4
  <2>4. PICK q \in RequestRows : q = [req[r] EXCEPT !.pc = "prefer"] /\ req' = [req EXCEPT ![r] = q]
    BY <1>1, <1>3 DEF Seed, To, RequestRows, Stages
  <2>5. /\ q.pc = "prefer" /\ q.user = req[r].user /\ q.op = req[r].op /\ q.row = req[r].row
        /\ q.to = req[r].to
    BY <1>1, <2>4 DEF RequestRows
  <2>6. \A s \in Requests \ {r} : Joining(req[s]) => req[s].to # Home
    BY DEF MembershipInv, RequestOK, Prepared, Writing, Joining
  <2>7. UNCHANGED <<spaces, homeOf>>
    BY <1>3 DEF Seed
  <2>8. Prepared(q) /\ ~Writing(q) /\ ~Joining(q)
    BY <1>1, <2>1, <2>2, <2>5 DEF RequestOK, Prepared, Writing, Joining, Placed
  <2> QED
    <3>1. CASE member' = member
      <4>1. /\ RequestOK(q)'
            /\ spaces' \in [Workspaces -> {"none", "active", "quarantined"}]
            /\ homeOf' \in [Users -> Workspaces \union {Nowhere}]
        BY <1>1, <2>7, <2>8 DEF RequestOK, Prepared, Joining, Writing
      <4> QED
        BY <2>4, <2>7, <2>8, <3>1, <4>1, MembersUntouched
    <3>2. CASE member' = [member EXCEPT ![u][Home] = new]
      <4>1. PICK w \in Workspaces : w = Home
        BY MembershipAssumption
      <4>2. /\ member' = [member EXCEPT ![u][w] = new] /\ spaces[w] # "none" /\ new.status # "none"
            /\ \A s \in Requests \ {r} : Joining(req[s]) => req[s].to # w
            /\ req' = [req EXCEPT ![r] = q]
        BY <2>1, <2>3, <2>4, <2>6, <3>2, <4>1
      <4> QED
        BY <2>7, <2>8, <4>2, MemberWritten
    <3> QED
      BY <2>3, <3>1, <3>2
<1>4. CASE Prefer(r)
  <2>1. /\ req[r].pc = "prefer" /\ req[r].user \in Users
        /\ homeOf[req[r].user] \in Workspaces \union {Nowhere}
    BY <1>1, <1>4 DEF Prefer, RequestOK, Prepared, Writing
  <2>2. \E p \in {"settle", "resolve"}, w \in Workspaces :
           req' = [req EXCEPT ![r].pc = p, ![r].ws = w]
    BY <1>4, <2>1, MembershipAssumption DEF Prefer
  <2> QED
    BY <1>1, <1>4, <2>1, <2>2, RequestAdvances DEF Prefer, tables, Stages
<1>5. CASE Settle(r)
  BY <1>1, <1>5, RequestGoesOn, MembershipAssumption DEF Settle, Stages, Placed
<1>6. CASE Resolve(r)
  BY <1>1, <1>6, RequestGoesOn, RequestOver DEF Resolve, Stages, Placed
<1>7. CASE Shut(r)
  BY <1>1, <1>7, RequestOver DEF Shut, Reject, tables
<1> QED
  BY <1>2, <1>3, <1>4, <1>5, <1>6, <1>7

LEMMA WorkspaceKeeps ==
  ASSUME MembershipInv, NEW r \in Requests,
         \/ SwitchRead(r) \/ SwitchWrite(r)
         \/ CreateRead(r) \/ CreateWrite(r) \/ JoinCreated(r) \/ AgentOfCreated(r) \/ EnterCreated(r)
  PROVE  MembershipInv'
<1>1. /\ req[r] \in RequestRows /\ RequestOK(req[r]) /\ req \in [Requests -> RequestRows]
      /\ homeOf \in [Users -> Workspaces \union {Nowhere}]
      /\ spaces \in [Workspaces -> {"none", "active", "quarantined"}]
      /\ member \in [Users -> [Workspaces -> MemberRows]]
  BY DEF MembershipInv, MembershipTypeOK
<1>2. CASE SwitchRead(r)
  BY <1>1, <1>2, RequestGoesOn, RequestOver DEF SwitchRead, Serving, Reject, tables, Stages, Placed
<1>3. CASE SwitchWrite(r)
  BY <1>1, <1>3, RequestOver DEF SwitchWrite, Serving, RequestOK, Prepared, Writing
<1>4. CASE CreateRead(r)
  <2>1. CASE Reject(r)
    BY <1>1, <2>1, RequestOver DEF Reject, tables
  <2>2. CASE ~Reject(r)
    <3>1. /\ req[r].op = "create" /\ req[r].pc = "read" /\ req[r].user \in Users
          /\ req' = [req EXCEPT ![r].pc = "write", ![r].row = member[req[r].user][req[r].ws]]
          /\ UNCHANGED tables
      BY <1>1, <1>4, <2>2 DEF CreateRead, Serving, RequestOK, Prepared, Writing
    <3>2. req[r].ws \in Workspaces
      BY <1>1, <3>1 DEF RequestOK, Prepared, Writing, Placed
    <3>3. PICK row \in MemberRows : row = member[req[r].user][req[r].ws]
      BY <1>1, <3>1, <3>2
    <3>4. PICK q \in RequestRows :
            q = [req[r] EXCEPT !.pc = "write", !.row = row] /\ req' = [req EXCEPT ![r] = q]
      <4>1. [req[r] EXCEPT !.pc = "write", !.row = row] \in RequestRows
        BY <1>1 DEF RequestRows, Stages
      <4>2. req' = [req EXCEPT ![r] = [req[r] EXCEPT !.pc = "write", !.row = row]]
        BY <1>1, <3>1, <3>3 DEF RequestRows
      <4> QED
        BY <4>1, <4>2
    <3>6. /\ q.pc = "write" /\ q.user = req[r].user /\ q.op = "create" /\ q.ws = req[r].ws
      BY <1>1, <3>1, <3>4 DEF RequestRows
    <3>5. RequestOK(q)' /\ ~Joining(q)
      BY <3>1, <3>2, <3>6 DEF RequestOK, Prepared, Writing, Joining, Placed
    <3> QED
      BY <1>1, <3>1, <3>4, <3>5, MembersUntouched DEF tables
  <2> QED
    BY <2>1, <2>2
<1>5. CASE CreateWrite(r)
  <2>1. PICK w \in Workspaces \ {Home} :
          /\ spaces[w] = "none" /\ spaces' = [spaces EXCEPT ![w] = "active"]
          /\ req' = [req EXCEPT ![r].pc = "join", ![r].to = w]
    BY <1>5 DEF CreateWrite
  <2>2. /\ req[r].op = "create" /\ req[r].pc = "write" /\ req[r].user \in Users /\ req[r].ws \in Workspaces
        /\ UNCHANGED <<member, homeOf>>
    BY <1>1, <1>5 DEF CreateWrite, Serving, RequestOK, Prepared, Writing, Placed
  <2>3. PICK q \in RequestRows : q = [req[r] EXCEPT !.pc = "join", !.to = w] /\ req' = [req EXCEPT ![r] = q]
    <3>1. [req[r] EXCEPT !.pc = "join", !.to = w] \in RequestRows
      BY <1>1 DEF RequestRows, Stages, Places
    <3>2. req' = [req EXCEPT ![r] = [req[r] EXCEPT !.pc = "join", !.to = w]]
      BY <1>1, <2>1 DEF RequestRows
    <3> QED
      BY <3>1, <3>2
  <2>4. /\ q.pc = "join" /\ q.user = req[r].user /\ q.op = "create" /\ q.ws = req[r].ws /\ q.to = w
    BY <1>1, <2>2, <2>3 DEF RequestRows
  <2>5. MembershipTypeOK'
    BY <1>1, <2>1, <2>2, <2>3 DEF MembershipTypeOK
  <2>6. /\ spaces'[w] = "active" /\ Nobody(w)'
        /\ \A v \in Workspaces : v # w => spaces'[v] = spaces[v]
    BY <1>1, <2>1, <2>2 DEF MembershipInv, Nobody
  <2>7. req'[r] = q /\ \A s \in Requests \ {r} : req'[s] = req[s]
    BY <1>1, <2>3
  <2>8. ASSUME NEW s \in Requests PROVE RequestOK(req[s])'
    <3>1. CASE s = r
      BY <2>2, <2>4, <2>6, <2>7, <3>1 DEF RequestOK, Prepared, Writing, Joining, Placed
    <3>2. CASE s # r
      <4>1. RequestOK(req[s]) /\ req'[s] = req[s]
        BY <2>7, <3>2 DEF MembershipInv
      <4>2. \A v \in Workspaces : spaces[v] # "none" => spaces'[v] # "none"
        BY <2>1, <2>6
      <4>3. Prepared(req[s])'
        BY <4>1, <4>2, MembershipAssumption DEF RequestOK, Prepared
      <4>4. Joining(req[s]) => spaces'[req[s].to] # "none" /\ Nobody(req[s].to)'
        BY <2>2, <4>1, <4>2 DEF RequestOK, Prepared, Joining, Nobody
      <4>5. Writing(req[s]) => ~Nobody(req[s].ws)'
        BY <2>2, <4>1 DEF RequestOK, Nobody
      <4> QED
        BY <4>1, <4>3, <4>4, <4>5 DEF RequestOK, Joining, Writing
    <3> QED
      BY <3>1, <3>2
  <2>9. \A s \in Requests \ {r} : Joining(req[s]) => req[s].to # w
    BY <2>1 DEF MembershipInv, RequestOK, Prepared, Writing
  <2>10. \A s, t \in Requests : (Joining(req[s]) /\ Joining(req[t]) /\ s # t => req[s].to # req[t].to)'
    BY <2>4, <2>7, <2>9 DEF MembershipInv, Joining
  <2>11. ASSUME NEW v \in Workspaces, spaces'[v] = "none" PROVE Nobody(v)'
    <3>1. v # w /\ spaces[v] = "none"
      BY <2>1, <2>6, <2>11
    <3>2. Nobody(v)
      BY <3>1 DEF MembershipInv
    <3> QED
      BY <2>2, <3>2 DEF Nobody
  <2> QED
    BY <2>5, <2>8, <2>10, <2>11 DEF MembershipInv
<1>6. CASE JoinCreated(r)
  <2>1. /\ Joining(req[r]) /\ req[r].ws \in Workspaces /\ spaces[req[r].to] # "none"
    BY <1>1, <1>6 DEF JoinCreated, Serving, RequestOK, Prepared, Writing, Joining, Placed
  <2>2. PICK u \in Users, w \in Workspaces \ {Home} : u = req[r].user /\ w = req[r].to
    BY <1>1, <2>1 DEF RequestOK, Prepared, Writing, Joining
  <2>3. PICK new \in MemberRows : new = [role |-> req[r].row.role, status |-> "active"]
    BY <1>1 DEF RequestRows, MemberRows, Standings
  <2>4. PICK q \in RequestRows : q = [req[r] EXCEPT !.pc = "agent"] /\ req' = [req EXCEPT ![r] = q]
    BY <1>1, <1>6 DEF JoinCreated, To, RequestRows, Stages
  <2>5. /\ q.pc = "agent" /\ q.user = u /\ q.op = "create" /\ q.row = req[r].row
        /\ q.to = w /\ q.ws = req[r].ws
    BY <1>1, <2>1, <2>2, <2>4 DEF RequestRows, Joining
  <2>6. member' = [member EXCEPT ![u][w] = new] /\ new.status # "none" /\ UNCHANGED <<spaces, homeOf>>
    BY <1>6, <2>2, <2>3 DEF JoinCreated
  <2>7. \A s \in Requests \ {r} : Joining(req[s]) => req[s].to # w
    BY <2>1, <2>2 DEF MembershipInv
  <2>8. Prepared(q) /\ ~Writing(q) /\ ~Joining(q)
    BY <1>1, <2>1, <2>2, <2>5 DEF RequestOK, Prepared, Writing, Joining, Placed
  <2>9. spaces[w] # "none"
    BY <2>1, <2>2
  <2> QED
    <3>1. req' = [req EXCEPT ![r] = q]
      BY <2>4
    <3> QED
      BY <2>6, <2>7, <2>8, <2>9, <3>1, MemberWritten
<1>7. CASE AgentOfCreated(r)
  BY <1>1, <1>7, RequestGoesOn DEF AgentOfCreated, Serving, Stages, Placed
<1>8. CASE EnterCreated(r)
  BY <1>1, <1>8, RequestOver DEF EnterCreated, Serving, RequestOK, Prepared, Writing
<1> QED
  BY <1>2, <1>3, <1>4, <1>5, <1>6, <1>7, <1>8

LEMMA MembersKeep ==
  ASSUME MembershipInv, NEW r \in Requests, AddRead(r) \/ AddWrite(r) \/ UpdateRead(r) \/ UpdateWrite(r)
  PROVE  MembershipInv'
<1>1. /\ req[r] \in RequestRows /\ RequestOK(req[r]) /\ req \in [Requests -> RequestRows]
      /\ homeOf \in [Users -> Workspaces \union {Nowhere}]
      /\ member \in [Users -> [Workspaces -> MemberRows]]
  BY DEF MembershipInv, MembershipTypeOK
<1>2. CASE AddRead(r) \/ UpdateRead(r)
  <2>1. CASE Reject(r)
    BY <1>1, <2>1, RequestOver DEF Reject, tables
  <2>2. CASE ~Reject(r)
    <3>1. /\ req[r].pc = "read" /\ req[r].op \in {"add", "update"} /\ req' = To(r, "write") /\ UNCHANGED tables
          /\ Active(req[r].user, req[r].ws)
      BY <1>2, <2>2 DEF AddRead, UpdateRead, MayAdd, MayUpdate, Serving, IsAdmin
    <3>2. req[r].user \in Users /\ req[r].ws \in Workspaces
      BY <1>1, <3>1 DEF RequestOK, Prepared, Writing, Placed
    <3>3. ~Nobody(req[r].ws)
      BY <3>1, <3>2 DEF Nobody, Active, NoRow
    <3> QED
      BY <1>1, <3>1, <3>3, RequestGoesOn DEF tables, Stages, Placed
  <2> QED
    BY <2>1, <2>2
<1>3. CASE AddWrite(r) \/ UpdateWrite(r)
  <2>1. /\ req[r].pc = "write" /\ req[r].op \in {"add", "update"} /\ req' = [req EXCEPT ![r] = Idle]
        /\ UNCHANGED <<spaces, homeOf>>
        /\ req[r].row.status # "none" /\ req[r].ws \in Workspaces /\ ~Nobody(req[r].ws)
    BY <1>1, <1>3 DEF AddWrite, UpdateWrite, Done, Serving, RequestOK, Prepared, Writing, Placed
  <2>2. PICK w \in Workspaces, new \in MemberRows : w = req[r].ws /\ new = req[r].row
    BY <1>1, <2>1 DEF RequestRows
  <2>3. \/ member' = [member EXCEPT ![req[r].whom][w] = new]
        \/ member' = member
    BY <1>1, <1>3, <2>2 DEF AddWrite, UpdateWrite
  <2>4. spaces[w] # "none"
    BY <2>1, <2>2 DEF MembershipInv
  <2>5. \A s \in Requests \ {r} : Joining(req[s]) => req[s].to # w
    BY <2>1, <2>2 DEF MembershipInv, RequestOK, Prepared, Writing
  <2>6. CASE req[r].whom \in Users /\ member' # member
    <3>1. PICK u \in Users : member' = [member EXCEPT ![u][w] = new]
      BY <2>3, <2>6
    <3>2. Idle \in RequestRows /\ Prepared(Idle) /\ ~Writing(Idle) /\ ~Joining(Idle)
      BY DEF Idle, NoRow, Prepared, Writing, Joining, Placed, RequestRows, Stages, Operations, Places, MemberRows, Standings
    <3> QED
      <4>1. new.status # "none" /\ req' = [req EXCEPT ![r] = Idle] /\ UNCHANGED <<spaces, homeOf>>
        BY <2>1, <2>2
      <4> QED
        BY <2>4, <2>5, <3>1, <3>2, <4>1, MemberWritten
  <2>7. CASE member' = member
    BY <1>1, <2>1, <2>7, RequestOver DEF Done
  <2>8. CASE req[r].whom \notin Users
    <3>1. member' = member
      BY <1>1, <2>3, <2>8
    <3> QED
      BY <2>7, <3>1
  <2> QED
    BY <2>6, <2>7, <2>8
<1> QED
  BY <1>2, <1>3

LEMMA AgentsKeep ==
  ASSUME MembershipInv, NEW r \in Requests, AgentRead(r) \/ PackWrite(r) \/ MakeWrite(r) \/ UseWrite(r)
  PROVE  MembershipInv'
<1>1. /\ req[r] \in RequestRows /\ RequestOK(req[r]) /\ req \in [Requests -> RequestRows]
      /\ homeOf \in [Users -> Workspaces \union {Nowhere}]
  BY DEF MembershipInv, MembershipTypeOK
<1>2. CASE AgentRead(r)
  BY <1>1, <1>2, RequestGoesOn, RequestOver DEF AgentRead, Reject, tables, Stages, Placed
<1>3. CASE PackWrite(r) \/ UseWrite(r)
  BY <1>1, <1>3, RequestOver DEF PackWrite, UseWrite
<1>4. CASE MakeWrite(r)
  <2>1. CASE req' = Done(r)
    BY <1>1, <1>4, <2>1, RequestOver DEF MakeWrite
  <2>2. CASE req' # Done(r)
    <3>1. /\ req[r].pc = "write" /\ req[r].op = "make" /\ req' = [req EXCEPT ![r].op = "use"]
          /\ UNCHANGED <<member, spaces, homeOf>>
      BY <1>4, <2>2 DEF MakeWrite, Serving
    <3>2. PICK q \in RequestRows : q = [req[r] EXCEPT !.op = "use"] /\ req' = [req EXCEPT ![r] = q]
      BY <1>1, <3>1 DEF RequestRows, Operations
    <3>3. q.op = "use" /\ q.pc = "write" /\ q.user = req[r].user /\ q.ws = req[r].ws
      BY <1>1, <3>1, <3>2 DEF RequestRows
    <3>4. RequestOK(q)' /\ ~Joining(q)
      BY <1>1, <3>1, <3>3 DEF RequestOK, Prepared, Writing, Joining, Placed
    <3> QED
      BY <1>1, <3>1, <3>2, <3>4, MembersUntouched DEF MembershipInv, MembershipTypeOK
  <2> QED
    BY <2>1, <2>2
<1> QED
  BY <1>2, <1>3, <1>4

LEMMA LifecycleKeeps ==
  ASSUME MembershipInv, NEW w \in Workspaces, Quarantine(w) \/ Recover(w)
  PROVE  MembershipInv'
<1>1. /\ UNCHANGED <<member, req, homeOf>> /\ spaces' \in [Workspaces -> {"none", "active", "quarantined"}]
      /\ \A v \in Workspaces : spaces[v] = "none" <=> spaces'[v] = "none"
  BY DEF Quarantine, Recover, MembershipInv, MembershipTypeOK
<1> QED
  BY <1>1, MembershipAssumption DEF MembershipInv, MembershipTypeOK, RequestOK, Prepared, Writing, Joining, Nobody

LEMMA MembershipStep == MembershipInv /\ [MembershipNext]_mvars => MembershipInv'
<1> SUFFICES ASSUME MembershipInv, [MembershipNext]_mvars PROVE MembershipInv'
  OBVIOUS
<1>1. ASSUME NEW r \in Requests, Lose(r) PROVE MembershipInv'
  BY <1>1, RequestOver DEF Lose, tables, MembershipInv, MembershipTypeOK
<1>2. ASSUME NEW r \in Requests, RequestStep(r) PROVE MembershipInv'
  BY <1>2, IdentityKeeps, WorkspaceKeeps, MembersKeep, AgentsKeep DEF RequestStep
<1>3. CASE UNCHANGED mvars
  BY <1>3 DEF mvars, MembershipInv, MembershipTypeOK, RequestOK, Prepared, Writing, Joining, Nobody
<1> QED
  BY <1>1, <1>2, <1>3, BeginKeeps, LifecycleKeeps DEF MembershipNext

\* Two owners, if there is more than one.
LEMMA AnotherOwner ==
  ASSUME NEW w, NEW v \in Owners(w), Cardinality(Owners(w)) > 1
  PROVE  \E u \in Owners(w) : u # v
<1>1. Cardinality({v}) = 1
  BY FS_Singleton
<1>2. Owners(w) # {v}
  BY <1>1
<1> QED
  BY <1>2

\* A step keeps an owner where there is one.
LEMMA OwnerKept ==
  ASSUME MembershipInv, [MembershipNext]_mvars, NEW w \in Workspaces, Owners(w) # {}
  PROVE  Owners(w)' # {}
<1>1. CASE member' = member
  BY <1>1 DEF Owners, Active
<1>2. ASSUME NEW r \in Requests, Seed(r) PROVE Owners(w)' # {}
  <2>1. PICK v \in Owners(w) : TRUE
    OBVIOUS
  <2>2. member[v][w] # NoRow
    BY DEF Owners, Active, NoRow
  <2>3. member'[v][w] = member[v][w]
    BY <1>2, <2>2 DEF Seed, MembershipInv, MembershipTypeOK, Owners
  <2> QED
    BY <2>3 DEF Owners, Active
<1>3. ASSUME NEW r \in Requests, JoinCreated(r) PROVE Owners(w)' # {}
  <2>1. Nobody(req[r].to)
    BY <1>3 DEF JoinCreated, Serving, MembershipInv, RequestOK, Prepared, Writing, Joining
  <2>2. w # req[r].to
    BY <2>1 DEF Owners, Active, Nobody, NoRow
  <2>3. \A u \in Users : member'[u][w] = member[u][w]
    BY <1>3, <2>2 DEF JoinCreated, MembershipInv, MembershipTypeOK
  <2> QED
    BY <2>3 DEF Owners, Active
<1>4. ASSUME NEW r \in Requests, AddWrite(r) PROVE Owners(w)' # {}
  <2>1. PICK v \in Owners(w) : TRUE
    OBVIOUS
  <2>2. member[v][w] # NoRow
    BY DEF Owners, Active, NoRow
  <2>3. member'[v][w] = member[v][w]
    BY <1>4, <2>2 DEF AddWrite, MembershipInv, MembershipTypeOK, Owners
  <2> QED
    BY <2>3 DEF Owners, Active
<1>5. ASSUME NEW r \in Requests, UpdateWrite(r) PROVE Owners(w)' # {}
  <2> DEFINE v == req[r].whom
             p == req[r].ws
  <2>1. CASE ~KeepsOwner(r, v, p) \/ w # p
    <3>1. \A u \in Users : member'[u][w] = member[u][w]
      BY <1>5, <2>1 DEF UpdateWrite, MembershipInv, MembershipTypeOK
    <3> QED
      BY <3>1 DEF Owners, Active
  <2>2. CASE KeepsOwner(r, v, p) /\ w = p
    <3>1. member' = [member EXCEPT ![v][w] = req[r].row]
      BY <1>5, <2>2 DEF UpdateWrite, MembershipInv, MembershipTypeOK
    <3>2. \A u \in Users \ {v} : member'[u][w] = member[u][w]
      BY <3>1 DEF MembershipInv, MembershipTypeOK
    <3>3. CASE \E u \in Owners(w) : u # v
      BY <3>2, <3>3 DEF Owners, Active
    <3>4. CASE Owners(w) = {v}
      <4>1. req[r].row = [role |-> "owner", status |-> "active"]
        BY <2>2, <3>4, AnotherOwner DEF KeepsOwner
      <4>2. v \in Users /\ member'[v][w] = req[r].row
        BY <3>1, <3>4 DEF Owners, MembershipInv, MembershipTypeOK
      <4> QED
        BY <4>1, <4>2 DEF Owners, Active
    <3> QED
      BY <3>3, <3>4
  <2> QED
    BY <2>1, <2>2
<1> QED
  BY <1>1, <1>2, <1>3, <1>4, <1>5
     DEF MembershipNext, RequestStep, mvars, tables, Begin, Lose, Quarantine, Recover, Reject,
         Bootstrap, Prefer, Settle, Resolve, Shut, SwitchRead, SwitchWrite, CreateRead, CreateWrite,
         AgentOfCreated, EnterCreated, AddRead, UpdateRead, AgentRead, PackWrite, MakeWrite, UseWrite

\* What a request has read stays true until it writes, as far as it matters:
\* nobody is a member of a workspace whose creator has not joined it yet, and
\* a handler that is about to write a membership saw a member there.
THEOREM MembershipSound == MembershipSpec => []MembershipInv
  BY MembershipStarts, MembershipStep, PTL DEF MembershipSpec

\* A workspace that has an active owner keeps one, whatever the users, the
\* workspaces and the requests served at a time (workspace-members.ts).
THEOREM OwnersRemain == MembershipSpec => OwnerRemains
<1>1. MembershipInv /\ [MembershipNext]_mvars
        => [\A w \in Workspaces : Owners(w) # {} => Owners(w)' # {}]_mvars
  BY OwnerKept
<1> QED
  BY <1>1, MembershipSound, PTL DEF MembershipSpec, OwnerRemains

-----------------------------------------------------------------------------
(* Tool access *)

RunStates == {"none", "interrupted", "running", "cancelled", "completed", "failed"}
Executing(c, x) == call[c].pc = "execute" /\ call[c].run = x

\* What a call keeps: its fields, and the run it is about.
CallOK(q) ==
  /\ q = [pc |-> q.pc, op |-> q.op, tool |-> q.tool, surface |-> q.surface, todo |-> q.todo,
          standing |-> q.standing, row |-> q.row, edit |-> q.edit, verdict |-> q.verdict, run |-> q.run]
  /\ q.op \in {"approve", "deny"} => q.run \in ToolRuns
  /\ q.pc \in {"execute", "note", "finish"} => q.run \in ToolRuns
  /\ q.pc \in {"note", "finish"} => q.verdict \in {"completed", "failed"}

AccessTypeOK ==
  /\ toolRun \in [ToolRuns -> RunStates]
  /\ approval \in [ToolRuns -> {"none", "requested", "approved", "denied"}]
  /\ effects \in [ToolRuns -> Nat]
  /\ call = [c \in ToolCalls |-> call[c]]

\* A run that waits, that was refused or that nobody has started.
HeldBack(x) == approval[x] \in {"requested", "denied"} \/ toolRun[x] \in {"none", "interrupted"}

RunOK(x) ==
  /\ effects[x] <= 1
  /\ toolRun[x] = "none" => approval[x] = "none"
  /\ toolRun[x] = "interrupted" => approval[x] = "requested"
  /\ HeldBack(x) => effects[x] = 0 /\ \A c \in ToolCalls : ~Executing(c, x)
  /\ \A c \in ToolCalls : Executing(c, x) => effects[x] = 0
  /\ \A c, d \in ToolCalls : Executing(c, x) /\ Executing(d, x) => c = d

AccessInv ==
  /\ AccessTypeOK
  /\ \A c \in ToolCalls : CallOK(call[c])
  /\ \A x \in ToolRuns : RunOK(x)

-----------------------------------------------------------------------------
(* Publication *)

FlowStages == {"idle", "counting", "starting", "working", "calling", "recording", "writing",
               "finishing", "retried", "over"}
FlowRows == [at : FlowStages, n : Nat, ok : BOOLEAN, seen : Nat, source : {"user", "trigger"},
             retryOf : PackRuns \union {NoRun}, lineage : PackRuns \union {NoRun}]

RunWriters == {"workflow", "user", "trigger", "lease", "callback", "quarantine"}

PublicationTypeOK ==
  /\ prun \in [PackRuns -> {"none", "running", "completed", "failed", "cancelled"}]
  /\ endedBy \in [PackRuns -> RunWriters \union {"none"}]
  /\ file \in [PackRuns -> [Calls1 -> {"none", "staged", "published"}]]
  /\ report \in [PackRuns -> BOOLEAN]
  /\ kept \in [version : Nat, by : PackRuns \union {NoRun}]
  /\ flow \in [PackRuns -> FlowRows]

\* A run is inserted once, and has nothing to show before it is.
BeforeRun(r) ==
  /\ flow[r].at \in {"idle", "counting", "starting"} => prun[r] = "none"
  /\ prun[r] = "none" => \A c \in Calls1 : file[r][c] = "none"

\* Nothing shows, and nothing is reported, before the workflow has ended the run.
PublishedOK(r) ==
  /\ endedBy[r] = "none" <=> prun[r] \in {"none", "running"}
  /\ report[r] => prun[r] = "completed" /\ endedBy[r] = "workflow"
  /\ \A c \in Calls1 : file[r][c] = "published" => endedBy[r] = "workflow"
  /\ endedBy[r] \in {"workflow", "user"} => \A c \in Calls1 : file[r][c] # "staged"

PublicationInv ==
  /\ PublicationTypeOK
  /\ \A r \in PackRuns : BeforeRun(r) /\ PublishedOK(r)

Early == {"idle", "counting", "starting"}

LEMMA PublicationStarts == PublicationInit => PublicationInv
  BY PublicationAssumption
     DEF PublicationInit, PublicationInv, PublicationTypeOK, BeforeRun, PublishedOK, FlowRows, FlowStages,
         IdleFlow

\* A step that touches no run and nothing it publishes.
LEMMA OnlyFlow ==
  ASSUME PublicationInv, UNCHANGED <<prun, endedBy, file, report>>,
         kept' \in [version : Nat, by : PackRuns \union {NoRun}], flow' \in [PackRuns -> FlowRows],
         \A r \in PackRuns : flow'[r].at \in Early => flow[r].at \in Early
  PROVE  PublicationInv'
<1>1. PublicationTypeOK'
  BY DEF PublicationInv, PublicationTypeOK
<1>2. \A r \in PackRuns : (BeforeRun(r) /\ PublishedOK(r))'
  BY DEF PublicationInv, BeforeRun, PublishedOK, Early
<1> QED
  BY <1>1, <1>2 DEF PublicationInv

\* A step in which one writer ends an active run and leaves the others alone:
\* only the workflow may report, publish what was staged, and only the workflow
\* and the user have to leave nothing staged.
LEMMA RunEnds ==
  ASSUME PublicationInv, NEW r \in PackRuns, NEW s \in {"completed", "failed", "cancelled"},
         NEW by \in RunWriters,
         prun[r] = "running", prun' = [prun EXCEPT ![r] = s], endedBy' = [endedBy EXCEPT ![r] = by],
         file' \in [PackRuns -> [Calls1 -> {"none", "staged", "published"}]],
         \A x \in PackRuns \ {r} : file'[x] = file[x] /\ report'[x] = report[x],
         report' \in [PackRuns -> BOOLEAN],
         report'[r] => s = "completed" /\ by = "workflow",
         \A c \in Calls1 : by \in {"workflow", "user"} => file'[r][c] # "staged",
         \A c \in Calls1 : by # "workflow" => file'[r][c] \in {file[r][c], "none", "staged"},
         flow' \in [PackRuns -> FlowRows], UNCHANGED kept,
         \A x \in PackRuns : flow'[x].at \in Early => flow[x].at \in Early
  PROVE  PublicationInv'
<1>1. PublicationTypeOK'
  BY DEF PublicationInv, PublicationTypeOK, RunWriters
<1>2. ASSUME NEW x \in PackRuns \ {r} PROVE (BeforeRun(x) /\ PublishedOK(x))'
  <2>1. prun'[x] = prun[x] /\ endedBy'[x] = endedBy[x] /\ file'[x] = file[x] /\ report'[x] = report[x]
    BY DEF PublicationInv, PublicationTypeOK
  <2> QED
    BY <2>1 DEF PublicationInv, BeforeRun, PublishedOK, Early
<1>3. (BeforeRun(r) /\ PublishedOK(r))'
  <2>1. prun'[r] = s /\ endedBy'[r] = by /\ flow'[r].at \notin Early
    BY DEF PublicationInv, PublicationTypeOK, BeforeRun, Early
  <2>2. \A c \in Calls1 : file[r][c] # "published"
    BY DEF PublicationInv, PublishedOK
  <2> QED
    BY <2>1, <2>2 DEF BeforeRun, PublishedOK, Early, RunWriters
<1> QED
  BY <1>1, <1>2, <1>3 DEF PublicationInv

LEMMA RequestPublishes ==
  ASSUME PublicationInv, NEW r \in PackRuns, WorkflowStep(r)
  PROVE  PublicationInv'
<1>1. /\ flow \in [PackRuns -> FlowRows] /\ kept \in [version : Nat, by : PackRuns \union {NoRun}]
      /\ prun \in [PackRuns -> {"none", "running", "completed", "failed", "cancelled"}]
      /\ endedBy \in [PackRuns -> RunWriters \union {"none"}]
      /\ file \in [PackRuns -> [Calls1 -> {"none", "staged", "published"}]]
      /\ report \in [PackRuns -> BOOLEAN]
  BY DEF PublicationInv, PublicationTypeOK
<1>2. flow[r] \in FlowRows
  BY <1>1
<1>3. CASE SubmitWorkflow(r)
  <2>1. flow' \in [PackRuns -> FlowRows]
    <3>1. PICK source \in {"user", "trigger"} : flow' = [flow EXCEPT ![r] = [flow[r] EXCEPT !.at = "counting", !.source = source]]
      BY <1>1, <1>2, <1>3 DEF SubmitWorkflow, AtFlow, FlowRows
    <3>2. [flow[r] EXCEPT !.at = "counting", !.source = source] \in FlowRows
      BY <1>2 DEF FlowRows, FlowStages
    <3> QED
      BY <1>1, <3>1, <3>2
  <2>2. \A x \in PackRuns : flow'[x].at \in Early => flow[x].at \in Early
    BY <1>1, <1>3 DEF SubmitWorkflow, AtFlow, FlowRows, Early
  <2>3. UNCHANGED <<prun, endedBy, file, report>> /\ kept' \in [version : Nat, by : PackRuns \union {NoRun}]
    BY <1>1, <1>3 DEF SubmitWorkflow
  <2> QED
    BY <2>1, <2>2, <2>3, OnlyFlow
<1>4. CASE SubmitRetry(r)
  <2>1. flow' \in [PackRuns -> FlowRows]
    <3>1. PICK old \in PackRuns : flow' = [flow EXCEPT ![r] = [flow[r] EXCEPT !.at = "counting", !.retryOf = old]]
      BY <1>1, <1>2, <1>4 DEF SubmitRetry, AtFlow, FlowRows
    <3>2. [flow[r] EXCEPT !.at = "counting", !.retryOf = old] \in FlowRows
      BY <1>2 DEF FlowRows, FlowStages
    <3> QED
      BY <1>1, <3>1, <3>2
  <2>2. \A x \in PackRuns : flow'[x].at \in Early => flow[x].at \in Early
    BY <1>1, <1>4 DEF SubmitRetry, AtFlow, FlowRows, Early
  <2>3. UNCHANGED <<prun, endedBy, file, report>> /\ kept' \in [version : Nat, by : PackRuns \union {NoRun}]
    BY <1>1, <1>4 DEF SubmitRetry
  <2> QED
    BY <2>1, <2>2, <2>3, OnlyFlow
<1>5. CASE CountRuns(r)
  <2>1. flow' \in [PackRuns -> FlowRows]
    <3>1. PICK at \in {"over", "starting"} : flow' = [flow EXCEPT ![r] = [flow[r] EXCEPT !.at = at]]
      BY <1>1, <1>2, <1>5 DEF CountRuns, AtFlow, FlowTo, FlowRows
    <3>2. [flow[r] EXCEPT !.at = at] \in FlowRows
      BY <1>2 DEF FlowRows, FlowStages
    <3> QED
      BY <1>1, <3>1, <3>2
  <2>2. \A x \in PackRuns : flow'[x].at \in Early => flow[x].at \in Early
    BY <1>1, <1>5 DEF CountRuns, AtFlow, FlowTo, FlowRows, Early
  <2>3. UNCHANGED <<prun, endedBy, file, report>> /\ kept' \in [version : Nat, by : PackRuns \union {NoRun}]
    BY <1>1, <1>5 DEF CountRuns
  <2> QED
    BY <2>1, <2>2, <2>3, OnlyFlow
<1>6. CASE InvokeInline(r)
  <2>1. flow' \in [PackRuns -> FlowRows]
    <3>0. PICK m \in Nat : m = flow[r].n + 1
      BY <1>2 DEF FlowRows
    <3>1. PICK ok \in BOOLEAN : flow' = [flow EXCEPT ![r] = [flow[r] EXCEPT !.n = m, !.at = "recording", !.ok = ok]]
      <4>1. PICK ok \in BOOLEAN :
              flow' = [flow EXCEPT ![r] = [flow[r] EXCEPT !.n = flow[r].n + 1, !.at = "recording", !.ok = ok]]
        BY <1>6 DEF InvokeInline
      <4> QED
        BY <3>0, <4>1
    <3>2. [flow[r] EXCEPT !.n = m, !.at = "recording", !.ok = ok] \in FlowRows
      BY <1>2, <3>0 DEF FlowRows, FlowStages
    <3> QED
      BY <1>1, <3>1, <3>2
  <2>2. \A x \in PackRuns : flow'[x].at \in Early => flow[x].at \in Early
    BY <1>1, <1>6 DEF InvokeInline, AtFlow, FlowRows, Early
  <2>3. UNCHANGED <<prun, endedBy, file, report>> /\ kept' \in [version : Nat, by : PackRuns \union {NoRun}]
    BY <1>1, <1>6 DEF InvokeInline
  <2> QED
    BY <2>1, <2>2, <2>3, OnlyFlow
<1>7. CASE InvokeRunner(r)
  <2>1. flow' \in [PackRuns -> FlowRows]
    <3>0. PICK m \in Nat : m = flow[r].n + 1
      BY <1>2 DEF FlowRows
    <3>1. flow' = [flow EXCEPT ![r] = [flow[r] EXCEPT !.n = m, !.at = "calling"]]
      <4>1. flow' = [flow EXCEPT ![r] = [flow[r] EXCEPT !.n = flow[r].n + 1, !.at = "calling"]]
        BY <1>7 DEF InvokeRunner
      <4> QED
        BY <3>0, <4>1
    <3>2. [flow[r] EXCEPT !.n = m, !.at = "calling"] \in FlowRows
      BY <1>2, <3>0 DEF FlowRows, FlowStages
    <3> QED
      BY <1>1, <3>1, <3>2
  <2>2. \A x \in PackRuns : flow'[x].at \in Early => flow[x].at \in Early
    BY <1>1, <1>7 DEF InvokeRunner, AtFlow, FlowRows, Early
  <2>3. UNCHANGED <<prun, endedBy, file, report>> /\ kept' \in [version : Nat, by : PackRuns \union {NoRun}]
    BY <1>1, <1>7 DEF InvokeRunner
  <2> QED
    BY <2>1, <2>2, <2>3, OnlyFlow
<1>8. CASE HearRunner(r)
  <2>1. flow' \in [PackRuns -> FlowRows]
    <3>1. PICK ok \in BOOLEAN : flow' = [flow EXCEPT ![r] = [flow[r] EXCEPT !.at = "recording", !.ok = ok]]
      BY <1>1, <1>2, <1>8 DEF HearRunner, AtFlow, FlowRows
    <3>2. [flow[r] EXCEPT !.at = "recording", !.ok = ok] \in FlowRows
      BY <1>2 DEF FlowRows, FlowStages
    <3> QED
      BY <1>1, <3>1, <3>2
  <2>2. \A x \in PackRuns : flow'[x].at \in Early => flow[x].at \in Early
    BY <1>1, <1>8 DEF HearRunner, AtFlow, FlowRows, Early
  <2>3. UNCHANGED <<prun, endedBy, file, report>> /\ kept' \in [version : Nat, by : PackRuns \union {NoRun}]
    BY <1>1, <1>8 DEF HearRunner
  <2> QED
    BY <2>1, <2>2, <2>3, OnlyFlow
<1>9. CASE LoseRunner(r)
  <2>1. flow' \in [PackRuns -> FlowRows]
    <3>1. flow' = [flow EXCEPT ![r] = [flow[r] EXCEPT !.at = "recording", !.ok = FALSE]]
      BY <1>1, <1>9 DEF LoseRunner, AtFlow
    <3>2. [flow[r] EXCEPT !.at = "recording", !.ok = FALSE] \in FlowRows
      BY <1>2 DEF FlowRows, FlowStages
    <3> QED
      BY <1>1, <3>1, <3>2
  <2>2. \A x \in PackRuns : flow'[x].at \in Early => flow[x].at \in Early
    BY <1>1, <1>9 DEF LoseRunner, AtFlow, FlowRows, Early
  <2>3. UNCHANGED <<prun, endedBy, file, report>> /\ kept' \in [version : Nat, by : PackRuns \union {NoRun}]
    BY <1>1, <1>9 DEF LoseRunner
  <2> QED
    BY <2>1, <2>2, <2>3, OnlyFlow
<1>10. CASE RecordToolCall(r)
  <2>1. flow' \in [PackRuns -> FlowRows]
    <3>1. flow' = [flow EXCEPT ![r] = [flow[r] EXCEPT !.at = "working"]]
      BY <1>1, <1>10 DEF RecordToolCall, AtFlow, FlowTo
    <3>2. [flow[r] EXCEPT !.at = "working"] \in FlowRows
      BY <1>2 DEF FlowRows, FlowStages
    <3> QED
      BY <1>1, <3>1, <3>2
  <2>2. \A x \in PackRuns : flow'[x].at \in Early => flow[x].at \in Early
    BY <1>1, <1>10 DEF RecordToolCall, AtFlow, FlowTo, FlowRows, Early
  <2>3. UNCHANGED <<prun, endedBy, file, report>> /\ kept' \in [version : Nat, by : PackRuns \union {NoRun}]
    BY <1>1, <1>10 DEF RecordToolCall
  <2> QED
    BY <2>1, <2>2, <2>3, OnlyFlow
<1>11. CASE ReadState(r)
  <2>1. flow' \in [PackRuns -> FlowRows]
    <3>1. PICK seen \in Nat : flow' = [flow EXCEPT ![r] = [flow[r] EXCEPT !.at = "writing", !.seen = seen]]
      BY <1>1, <1>2, <1>11 DEF ReadState, AtFlow, FlowRows
    <3>2. [flow[r] EXCEPT !.at = "writing", !.seen = seen] \in FlowRows
      BY <1>2 DEF FlowRows, FlowStages
    <3> QED
      BY <1>1, <3>1, <3>2
  <2>2. \A x \in PackRuns : flow'[x].at \in Early => flow[x].at \in Early
    BY <1>1, <1>11 DEF ReadState, AtFlow, FlowRows, Early
  <2>3. UNCHANGED <<prun, endedBy, file, report>> /\ kept' \in [version : Nat, by : PackRuns \union {NoRun}]
    BY <1>1, <1>11 DEF ReadState
  <2> QED
    BY <2>1, <2>2, <2>3, OnlyFlow
<1>12. CASE WriteState(r)
  <2>0. \/ flow' = [flow EXCEPT ![r] = [flow[r] EXCEPT !.at = "working"]]
        \/ flow' = [flow EXCEPT ![r] = [flow[r] EXCEPT !.at = "finishing", !.ok = FALSE]]
    BY <1>1, <1>12 DEF WriteState, AtFlow, FlowTo
  <2>1. flow' \in [PackRuns -> FlowRows]
    <3>1. [flow[r] EXCEPT !.at = "working"] \in FlowRows /\ [flow[r] EXCEPT !.at = "finishing", !.ok = FALSE] \in FlowRows
      BY <1>2 DEF FlowRows, FlowStages
    <3> QED
      BY <1>1, <2>0, <3>1
  <2>2. \A x \in PackRuns : flow'[x].at \in Early => flow[x].at \in Early
    <3>1. flow'[r].at \in {"working", "finishing"}
      <4>1. /\ [flow[r] EXCEPT !.at = "working"].at = "working"
            /\ [flow[r] EXCEPT !.at = "finishing", !.ok = FALSE].at = "finishing"
        BY <1>2 DEF FlowRows
      <4>2. \/ flow'[r] = [flow[r] EXCEPT !.at = "working"]
            \/ flow'[r] = [flow[r] EXCEPT !.at = "finishing", !.ok = FALSE]
        BY <1>1, <2>0
      <4> QED
        BY <4>1, <4>2
    <3>2. \A x \in PackRuns \ {r} : flow'[x] = flow[x]
      BY <1>1, <2>0
    <3> QED
      BY <3>1, <3>2 DEF Early
  <2>3. UNCHANGED <<prun, endedBy, file, report>> /\ kept' \in [version : Nat, by : PackRuns \union {NoRun}]
    BY <1>1, <1>12 DEF WriteState
  <2> QED
    BY <2>1, <2>2, <2>3, OnlyFlow
<1>13. CASE WorkflowReturns(r)
  <2>1. flow' \in [PackRuns -> FlowRows]
    <3>1. PICK ok \in BOOLEAN : flow' = [flow EXCEPT ![r] = [flow[r] EXCEPT !.at = "finishing", !.ok = ok]]
      BY <1>1, <1>2, <1>13 DEF WorkflowReturns, AtFlow, FlowRows
    <3>2. [flow[r] EXCEPT !.at = "finishing", !.ok = ok] \in FlowRows
      BY <1>2 DEF FlowRows, FlowStages
    <3> QED
      BY <1>1, <3>1, <3>2
  <2>2. \A x \in PackRuns : flow'[x].at \in Early => flow[x].at \in Early
    BY <1>1, <1>13 DEF WorkflowReturns, AtFlow, FlowRows, Early
  <2>3. UNCHANGED <<prun, endedBy, file, report>> /\ kept' \in [version : Nat, by : PackRuns \union {NoRun}]
    BY <1>1, <1>13 DEF WorkflowReturns
  <2> QED
    BY <2>1, <2>2, <2>3, OnlyFlow
<1>14. CASE RecordLineage(r)
  <2>1. flow' \in [PackRuns -> FlowRows]
    <3>1. PICK old \in PackRuns \union {NoRun} : flow' = [flow EXCEPT ![r] = [flow[r] EXCEPT !.at = "over", !.lineage = old]]
      BY <1>1, <1>2, <1>14 DEF RecordLineage, AtFlow, FlowRows
    <3>2. [flow[r] EXCEPT !.at = "over", !.lineage = old] \in FlowRows
      BY <1>2 DEF FlowRows, FlowStages
    <3> QED
      BY <1>1, <3>1, <3>2
  <2>2. \A x \in PackRuns : flow'[x].at \in Early => flow[x].at \in Early
    BY <1>1, <1>14 DEF RecordLineage, AtFlow, FlowRows, Early
  <2>3. UNCHANGED <<prun, endedBy, file, report>> /\ kept' \in [version : Nat, by : PackRuns \union {NoRun}]
    BY <1>1, <1>14 DEF RecordLineage
  <2> QED
    BY <2>1, <2>2, <2>3, OnlyFlow
<1>15. CASE InsertRun(r)
  <2>1. /\ prun[r] = "none" /\ prun' = [prun EXCEPT ![r] = "running"]
        /\ flow' = [flow EXCEPT ![r].at = "working"] /\ UNCHANGED <<endedBy, file, report, kept>>
    BY <1>15 DEF InsertRun, AtFlow, FlowTo, PublicationInv, BeforeRun
  <2>2. PublicationTypeOK'
    <3>1. [flow[r] EXCEPT !.at = "working"] \in FlowRows
      BY <1>2 DEF FlowRows, FlowStages
    <3>2. flow' \in [PackRuns -> FlowRows]
      BY <1>1, <2>1, <3>1
    <3> QED
      BY <1>1, <2>1, <3>2 DEF PublicationTypeOK
  <2>3. ASSUME NEW x \in PackRuns PROVE (BeforeRun(x) /\ PublishedOK(x))'
    <3>1. CASE x = r
      <4>1. prun'[x] = "running" /\ flow'[x].at = "working"
        BY <1>1, <2>1, <3>1 DEF FlowRows
      <4>2. ~report[x] /\ endedBy[x] = "none" /\ \A c \in Calls1 : file[x][c] = "none"
        BY <2>1, <3>1 DEF PublicationInv, PublishedOK, BeforeRun
      <4> QED
        BY <2>1, <4>1, <4>2 DEF BeforeRun, PublishedOK
    <3>2. CASE x # r
      <4>1. prun'[x] = prun[x] /\ flow'[x] = flow[x] /\ UNCHANGED <<endedBy, file, report>>
        BY <1>1, <2>1, <3>2
      <4> QED
        BY <4>1 DEF PublicationInv, BeforeRun, PublishedOK
    <3> QED
      BY <3>1, <3>2
  <2> QED
    BY <2>2, <2>3 DEF PublicationInv
<1>16. CASE FinishRun(r)
  <2>1. flow' \in [PackRuns -> FlowRows]
    <3>1. PICK at \in {"retried", "over"} : flow' = [flow EXCEPT ![r] = [flow[r] EXCEPT !.at = at]]
      BY <1>1, <1>16 DEF FinishRun, FlowTo
    <3>2. [flow[r] EXCEPT !.at = at] \in FlowRows
      BY <1>2 DEF FlowRows, FlowStages
    <3> QED
      BY <1>1, <3>1, <3>2
  <2>2. \A x \in PackRuns : flow'[x].at \in Early => flow[x].at \in Early
    BY <1>1, <1>16 DEF FinishRun, AtFlow, FlowTo, FlowRows, Early
  <2>3. CASE prun[r] = "running"
    <3>1. PICK s \in Ended : s = IF flow[r].ok THEN "completed" ELSE "failed"
      BY DEF Ended
    <3>0. PICK by \in RunWriters : by = "workflow"
      BY DEF RunWriters
    <3>2. prun' = [prun EXCEPT ![r] = s] /\ endedBy' = [endedBy EXCEPT ![r] = by]
      BY <1>16, <2>3, <3>0, <3>1 DEF FinishRun, Concluded, RunActive
    <3>3. /\ file' = [file EXCEPT ![r] = [c \in Calls1 |-> IF file[r][c] = "staged" THEN "published" ELSE file[r][c]]]
          /\ report' = [report EXCEPT ![r] = report[r] \/ flow[r].ok]
      BY <1>1, <1>16, <2>3 DEF FinishRun, Publish, Reported, RunActive
    <3>4. /\ file' \in [PackRuns -> [Calls1 -> {"none", "staged", "published"}]]
          /\ \A c \in Calls1 : file'[r][c] # "staged"
          /\ \A x \in PackRuns \ {r} : file'[x] = file[x]
      BY <1>1, <3>3
    <3>5. ~report[r]
      BY <2>3 DEF PublicationInv, PublishedOK
    <3>6. flow[r].ok \in BOOLEAN
      BY <1>1 DEF FlowRows
    <3>7. report' \in [PackRuns -> BOOLEAN] /\ \A x \in PackRuns \ {r} : report'[x] = report[x]
      BY <1>1, <3>3, <3>6
    <3>8. report'[r] => s = "completed"
      BY <1>1, <3>1, <3>3, <3>5
    <3>9. s \in {"completed", "failed", "cancelled"} /\ UNCHANGED kept
      BY <1>16, <3>1 DEF FinishRun, Ended
    <3>10. /\ report'[r] => s = "completed" /\ by = "workflow"
           /\ \A c \in Calls1 : by \in {"workflow", "user"} => file'[r][c] # "staged"
           /\ \A c \in Calls1 : by # "workflow" => file'[r][c] \in {file[r][c], "none", "staged"}
           /\ \A x \in PackRuns \ {r} : file'[x] = file[x] /\ report'[x] = report[x]
      BY <3>0, <3>4, <3>7, <3>8
    <3> QED
      BY <2>1, <2>2, <2>3, <3>2, <3>4, <3>7, <3>9, <3>10, RunEnds
  <2>4. CASE prun[r] # "running"
    <3>1. UNCHANGED <<prun, endedBy, file>>
      BY <1>1, <1>16, <2>4 DEF FinishRun, Concluded, Publish, RunActive
    <3>2. UNCHANGED <<report, kept>>
      BY <1>1, <1>16, <2>4 DEF FinishRun, Reported, RunActive
    <3> QED
      BY <1>1, <2>1, <2>2, <3>1, <3>2, OnlyFlow
  <2> QED
    BY <2>3, <2>4
<1> QED
  BY <1>3, <1>4, <1>5, <1>6, <1>7, <1>8, <1>9, <1>10, <1>11, <1>12, <1>13, <1>14, <1>15, <1>16 DEF WorkflowStep

LEMMA CancelPublishes ==
  ASSUME PublicationInv, NEW r \in PackRuns, CancelRun(r) \/ CancelTriggered(r) \/ RecoverLease(r)
  PROVE  PublicationInv'
<1>1. /\ flow \in [PackRuns -> FlowRows]
      /\ file \in [PackRuns -> [Calls1 -> {"none", "staged", "published"}]]
      /\ report \in [PackRuns -> BOOLEAN]
  BY DEF PublicationInv, PublicationTypeOK
<1>2. prun[r] = "running" /\ ~report[r] /\ UNCHANGED <<report, kept, flow>>
  BY DEF CancelRun, CancelTriggered, RecoverLease, CloseRun, RunActive, PublicationInv, PublishedOK
<1>3. CASE CancelRun(r)
  <2>1. /\ prun' = [prun EXCEPT ![r] = "cancelled"] /\ endedBy' = [endedBy EXCEPT ![r] = "user"]
        /\ file' = [file EXCEPT ![r] = [c \in Calls1 |-> IF file[r][c] = "staged" THEN "none" ELSE file[r][c]]]
    BY <1>1, <1>3 DEF CancelRun, CloseRun
  <2>2. /\ file' \in [PackRuns -> [Calls1 -> {"none", "staged", "published"}]]
        /\ \A c \in Calls1 : file'[r][c] \in {file[r][c], "none"} /\ file'[r][c] # "staged"
        /\ \A x \in PackRuns \ {r} : file'[x] = file[x]
    BY <1>1, <2>1
  <2>3. "user" \in RunWriters
    BY DEF RunWriters
  <2> QED
    BY <1>1, <1>2, <2>1, <2>2, <2>3, RunEnds
<1>4. CASE CancelTriggered(r) \/ RecoverLease(r)
  <2>1. PICK s \in {"failed", "cancelled"}, by \in {"trigger", "lease"} :
          prun' = [prun EXCEPT ![r] = s] /\ endedBy' = [endedBy EXCEPT ![r] = by] /\ file' = file
    BY <1>4 DEF CancelTriggered, RecoverLease, CloseRun
  <2>2. by \in RunWriters /\ by \notin {"workflow", "user"} /\ s \in {"completed", "failed", "cancelled"}
    BY DEF RunWriters
  <2> QED
    BY <1>1, <1>2, <2>1, <2>2, RunEnds
<1> QED
  BY <1>3, <1>4

LEMMA QuarantinePublishes ==
  ASSUME PublicationInv, QuarantineRuns
  PROVE  PublicationInv'
<1>1. /\ prun' = [r \in PackRuns |-> IF prun[r] = "running" THEN "cancelled" ELSE prun[r]]
      /\ endedBy' = [r \in PackRuns |-> IF prun[r] = "running" THEN "quarantine" ELSE endedBy[r]]
      /\ UNCHANGED <<file, report, kept, flow>>
  BY DEF QuarantineRuns, RunActive
<1>2. PublicationTypeOK'
  BY <1>1 DEF PublicationInv, PublicationTypeOK, RunWriters
<1>3. ASSUME NEW x \in PackRuns PROVE (BeforeRun(x) /\ PublishedOK(x))'
  <2>1. CASE prun[x] = "running"
    <3>1. prun'[x] = "cancelled" /\ endedBy'[x] = "quarantine"
      BY <1>1, <2>1
    <3>2. ~report[x] /\ flow[x].at \notin Early /\ \A c \in Calls1 : file[x][c] # "published"
      BY <2>1 DEF PublicationInv, PublishedOK, BeforeRun, Early
    <3> QED
      BY <1>1, <3>1, <3>2 DEF BeforeRun, PublishedOK, Early
  <2>2. CASE prun[x] # "running"
    <3>1. prun'[x] = prun[x] /\ endedBy'[x] = endedBy[x]
      BY <1>1, <2>2
    <3> QED
      BY <1>1, <3>1 DEF PublicationInv, BeforeRun, PublishedOK
  <2> QED
    BY <2>1, <2>2
<1> QED
  BY <1>2, <1>3 DEF PublicationInv

\* An artifact is staged in a run that is still active.
LEMMA ArtifactStaged ==
  ASSUME PublicationInv, NEW r \in PackRuns, NEW c \in Calls1, prun[r] = "running",
         file' = [file EXCEPT ![r] = [file[r] EXCEPT ![c] = "staged"]],
         UNCHANGED <<prun, endedBy, report, kept, flow>>
  PROVE  PublicationInv'
<1>1. file \in [PackRuns -> [Calls1 -> {"none", "staged", "published"}]]
  BY DEF PublicationInv, PublicationTypeOK
<1>2. PublicationTypeOK'
  <2>1. [file[r] EXCEPT ![c] = "staged"] \in [Calls1 -> {"none", "staged", "published"}]
    BY <1>1
  <2>2. file' \in [PackRuns -> [Calls1 -> {"none", "staged", "published"}]]
    BY <1>1, <2>1
  <2> QED
    BY <2>2 DEF PublicationInv, PublicationTypeOK
<1>3. ASSUME NEW x \in PackRuns PROVE (BeforeRun(x) /\ PublishedOK(x))'
  <2>1. CASE x = r
    <3>1. endedBy[r] = "none" /\ flow[r].at \notin Early /\ ~report[r]
      BY DEF PublicationInv, PublishedOK, BeforeRun, Early
    <3>2. \A d \in Calls1 : file'[r][d] # "published"
      BY <1>1, <3>1 DEF PublicationInv, PublishedOK
    <3> QED
      BY <2>1, <3>1, <3>2 DEF BeforeRun, PublishedOK, Early, PublicationInv
  <2>2. CASE x # r
    <3>1. file'[x] = file[x]
      BY <1>1, <2>2
    <3> QED
      BY <3>1 DEF PublicationInv, BeforeRun, PublishedOK
  <2> QED
    BY <2>1, <2>2
<1>4. \A x \in PackRuns : (BeforeRun(x) /\ PublishedOK(x))'
  BY <1>3
<1> QED
  BY <1>2, <1>4 DEF PublicationInv

LEMMA CallbackPublishes ==
  ASSUME PublicationInv, NEW r \in PackRuns, NEW c \in Calls1, ApplyCallback(r, c)
  PROVE  PublicationInv'
<1>1. /\ flow \in [PackRuns -> FlowRows] /\ kept \in [version : Nat, by : PackRuns \union {NoRun}]
      /\ file \in [PackRuns -> [Calls1 -> {"none", "staged", "published"}]]
      /\ report \in [PackRuns -> BOOLEAN] /\ UNCHANGED <<report, kept, flow>>
  BY DEF PublicationInv, PublicationTypeOK, ApplyCallback
<1>2. CASE prun[r] # "running"
  <2>1. UNCHANGED <<prun, endedBy, file>>
    BY <1>2 DEF ApplyCallback, RunActive
  <2> QED
    BY <1>1, <2>1, OnlyFlow
<1>3. CASE prun[r] = "running"
  <2>1. file' = file \/ file' = [file EXCEPT ![r] = [file[r] EXCEPT ![c] = "staged"]]
    BY <1>3 DEF ApplyCallback, RunActive
  <2>2. CASE post[r][c].event \notin EndEvents
    <3>1. UNCHANGED <<prun, endedBy>>
      BY <1>3, <2>2 DEF ApplyCallback, RunActive
    <3>2. CASE file' = file
      BY <1>1, <3>1, <3>2, OnlyFlow
    <3>3. CASE file' = [file EXCEPT ![r] = [file[r] EXCEPT ![c] = "staged"]]
      <4>1. UNCHANGED <<prun, endedBy, report, kept, flow>>
        BY <1>1, <3>1
      <4> QED
        BY <1>3, <3>3, <4>1, ArtifactStaged
    <3> QED
      BY <2>1, <3>2, <3>3
  <2>3. CASE post[r][c].event \in EndEvents
    <3>0. PICK by \in RunWriters : by = "callback"
      BY DEF RunWriters
    <3>1. PICK s \in {"completed", "failed"} :
            prun' = [prun EXCEPT ![r] = s] /\ endedBy' = [endedBy EXCEPT ![r] = by]
      BY <1>3, <2>3, <3>0 DEF ApplyCallback, RunActive, CloseRun, StatusOf, EndEvents
    <3>2. /\ file' \in [PackRuns -> [Calls1 -> {"none", "staged", "published"}]]
          /\ \A d \in Calls1 : file'[r][d] \in {file[r][d], "none", "staged"}
          /\ \A x \in PackRuns \ {r} : file'[x] = file[x]
      <4>1. [file[r] EXCEPT ![c] = "staged"] \in [Calls1 -> {"none", "staged", "published"}]
        BY <1>1
      <4> QED
        BY <1>1, <2>1, <4>1
    <3>3. ~report[r]
      BY <1>3 DEF PublicationInv, PublishedOK
    <3>4. /\ report' \in [PackRuns -> BOOLEAN] /\ s \in {"completed", "failed", "cancelled"}
          /\ flow' \in [PackRuns -> FlowRows] /\ UNCHANGED kept
          /\ \A x \in PackRuns : flow'[x].at \in Early => flow[x].at \in Early
      BY <1>1
    <3>5. /\ report'[r] => s = "completed" /\ by = "workflow"
          /\ \A d \in Calls1 : by \in {"workflow", "user"} => file'[r][d] # "staged"
          /\ \A d \in Calls1 : by # "workflow" => file'[r][d] \in {file[r][d], "none", "staged"}
          /\ \A x \in PackRuns \ {r} : file'[x] = file[x] /\ report'[x] = report[x]
      BY <1>1, <3>0, <3>2, <3>3
    <3> QED
      BY <1>3, <3>1, <3>2, <3>3, <3>4, <3>5, RunEnds
  <2> QED
    BY <2>2, <2>3
<1> QED
  BY <1>2, <1>3

LEMMA RunnerPublishes ==
  ASSUME PublicationInv, NEW r \in PackRuns, NEW c \in Calls1,
         \/ RefuseInvocation(r, c) \/ BeginInvocation(r, c) \/ HearCallback(r, c)
         \/ LoseCallback(r, c) \/ ExecuteTool(r, c) \/ ReportEnd(r, c)
         \/ RejectCallback(r, c) \/ ReadCallbackRun(r, c)
  PROVE  PublicationInv'
<1>1. /\ flow \in [PackRuns -> FlowRows] /\ kept \in [version : Nat, by : PackRuns \union {NoRun}]
  BY DEF PublicationInv, PublicationTypeOK
<1>2. UNCHANGED <<prun, endedBy, report, kept, flow, file>>
  BY DEF RefuseInvocation, BeginInvocation, HearCallback, LoseCallback, ExecuteTool, ReportEnd, RejectCallback,
         ReadCallbackRun, requestVars
<1> QED
  BY <1>1, <1>2, OnlyFlow

LEMMA PublicationStep == PublicationInv /\ [PublicationNext]_pvars => PublicationInv'
<1> SUFFICES ASSUME PublicationInv, [PublicationNext]_pvars PROVE PublicationInv'
  OBVIOUS
<1>1. CASE PublicationNext
  BY <1>1, RequestPublishes, CancelPublishes, QuarantinePublishes, RunnerPublishes, CallbackPublishes
     DEF PublicationNext
<1>2. CASE UNCHANGED pvars
  BY <1>2 DEF pvars, PublicationInv, PublicationTypeOK, BeforeRun, PublishedOK
<1> QED
  BY <1>1, <1>2

\* Whichever of six writers ends a run, only its workflow has anything of it
\* reported or shown, and the workflow and the user leave nothing staged, for
\* any number of runs and of tool calls (runtime-run-lifecycle.ts,
\* finishPackWorkflowRun).
THEOREM PublicationAuthority == PublicationSpec => []PublicationFollowsRun
<1>1. PublicationInv => PublicationFollowsRun
  BY DEF PublicationInv, PublicationFollowsRun, PublishedOK, ShownArtifacts
<1> QED
  BY <1>1, PublicationStarts, PublicationStep, PTL DEF PublicationSpec

LEMMA AccessStarts == AccessInit => AccessInv
  BY DEF AccessInit, AccessInv, AccessTypeOK, RunStates, CallOK, RunOK, HeldBack, Executing, NoCallYet

\* What a call may be at its start.
Fresh(q) == CallOK(q) /\ q.pc \notin {"execute", "note", "finish"}

LEMMA RequestedCalls ==
  ASSUME NEW q \in Requested
  PROVE  Fresh(q)
<1> DEFINE Runs == {[Called("run", "look") EXCEPT !.tool = t, !.surface = "admin_run"] : t \in Tools}
           Models == {[Called("model", "candidate") EXCEPT !.tool = t, !.surface = "model_exposure"] : t \in Tools}
           Approves == {[Called("approve", "open") EXCEPT !.run = x, !.surface = "admin_resume"] : x \in ToolRuns}
           Denies == {[Called("deny", "open") EXCEPT !.run = x] : x \in ToolRuns}
           Changes == {AskEdit(p) : p \in Tools \X Edits}
           Flows == {[Called("workflow", "pick") EXCEPT !.todo = Tools, !.surface = "workflow"]}
           Lists == {[Called("list", "pick") EXCEPT !.todo = Tools, !.surface = s] :
                       s \in {"admin_list", "model_exposure"}}
<1>1. Requested = Runs \union Models \union Approves \union Denies \union Changes \union Flows \union Lists
  BY DEF Requested, ListTools
<1>2. ASSUME q \in Runs PROVE Fresh(q)
  <2>1. PICK t \in Tools : q = [Called("run", "look") EXCEPT !.tool = t, !.surface = "admin_run"]
    BY <1>2
  <2> QED
    BY <2>1 DEF Fresh, CallOK, Called, NoCallYet
<1>3. ASSUME q \in Models PROVE Fresh(q)
  <2>1. PICK t \in Tools : q = [Called("model", "candidate") EXCEPT !.tool = t, !.surface = "model_exposure"]
    BY <1>3
  <2> QED
    BY <2>1 DEF Fresh, CallOK, Called, NoCallYet
<1>4. ASSUME q \in Approves PROVE Fresh(q)
  <2>1. PICK x \in ToolRuns : q = [Called("approve", "open") EXCEPT !.run = x, !.surface = "admin_resume"]
    BY <1>4
  <2> QED
    BY <2>1 DEF Fresh, CallOK, Called, NoCallYet
<1>5. ASSUME q \in Denies PROVE Fresh(q)
  <2>1. PICK x \in ToolRuns : q = [Called("deny", "open") EXCEPT !.run = x]
    BY <1>5
  <2> QED
    BY <2>1 DEF Fresh, CallOK, Called, NoCallYet
<1>6. ASSUME q \in Changes PROVE Fresh(q)
  <2>1. PICK p \in Tools \X Edits : q = AskEdit(p)
    BY <1>6
  <2> QED
    BY <2>1 DEF Fresh, CallOK, Called, NoCallYet, AskEdit
<1>7. ASSUME q \in Flows PROVE Fresh(q)
  <2>1. q = [Called("workflow", "pick") EXCEPT !.todo = Tools, !.surface = "workflow"]
    BY <1>7
  <2> QED
    BY <2>1 DEF Fresh, CallOK, Called, NoCallYet
<1>8. ASSUME q \in Lists PROVE Fresh(q)
  <2>1. PICK s \in {"admin_list", "model_exposure"} : q = [Called("list", "pick") EXCEPT !.todo = Tools, !.surface = s]
    BY <1>8
  <2> QED
    BY <2>1 DEF Fresh, CallOK, Called, NoCallYet
<1> HIDE DEF Runs, Models, Approves, Denies, Changes, Flows, Lists
<1> QED
  BY <1>1, <1>2, <1>3, <1>4, <1>5, <1>6, <1>7, <1>8

\* A step that changes one call, and no run.
LEMMA OnlyCall ==
  ASSUME AccessInv, NEW c \in ToolCalls, UNCHANGED <<toolRun, approval, effects>>,
         call' = [d \in ToolCalls |-> call'[d]], \A d \in ToolCalls \ {c} : call'[d] = call[d],
         CallOK(call'[c]), call'[c].pc # "execute"
  PROVE  AccessInv'
<1>1. AccessTypeOK'
  BY DEF AccessInv, AccessTypeOK
<1>2. \A d \in ToolCalls : CallOK(call'[d])
  BY DEF AccessInv
<1>3. \A d \in ToolCalls, x \in ToolRuns : Executing(d, x)' => Executing(d, x)
  BY DEF Executing
<1>4. \A x \in ToolRuns : RunOK(x)'
  BY <1>3 DEF AccessInv, RunOK, HeldBack
<1> QED
  BY <1>1, <1>2, <1>4 DEF AccessInv, CallOK

LEMMA CallOver ==
  ASSUME AccessInv, NEW c \in ToolCalls, Stop(c), UNCHANGED <<toolRun, approval, effects>>
  PROVE  AccessInv'
<1>1. /\ call' = [d \in ToolCalls |-> call'[d]] /\ \A d \in ToolCalls \ {c} : call'[d] = call[d]
      /\ call'[c] = NoCallYet
  BY DEF Stop, Over, AccessInv, AccessTypeOK
<1>2. CallOK(NoCallYet) /\ NoCallYet.pc = "idle"
  BY DEF CallOK, NoCallYet
<1> QED
  BY <1>1, <1>2, OnlyCall

\* A step about one run.
LEMMA OnlyRun ==
  ASSUME AccessInv, NEW x \in ToolRuns, AccessTypeOK', RunOK(x)',
         \A c \in ToolCalls : CallOK(call'[c]),
         \A y \in ToolRuns \ {x} : toolRun'[y] = toolRun[y] /\ approval'[y] = approval[y] /\ effects'[y] = effects[y],
         \A c \in ToolCalls, y \in ToolRuns \ {x} : Executing(c, y)' => Executing(c, y)
  PROVE  AccessInv'
<1>1. ASSUME NEW y \in ToolRuns \ {x} PROVE RunOK(y)'
  <2>1. RunOK(y)
    BY DEF AccessInv
  <2> QED
    BY <2>1 DEF RunOK, HeldBack
<1> QED
  BY <1>1 DEF AccessInv, CallOK

LEMMA JudgingKeeps ==
  ASSUME AccessInv, NEW c \in ToolCalls,
         \/ Look(c) \/ Judge(c) \/ RecordDecision(c) \/ End(c) \/ Pick(c) \/ WriteEdit(c)
         \/ OfferCandidate(c) \/ UseExposed(c) \/ OpenApproval(c) \/ NoteToolCall(c)
  PROVE  AccessInv'
<1>1. CallOK(call[c]) /\ call = [d \in ToolCalls |-> call[d]]
  BY DEF AccessInv, AccessTypeOK
<1>2. UNCHANGED <<toolRun, approval, effects>>
  BY DEF Look, Judge, RecordDecision, End, Pick, WriteEdit, ListTools, OfferCandidate, UseExposed, OpenApproval,
         NoteToolCall, held, outcome
<1>3. ASSUME NEW q, call' = [call EXCEPT ![c] = q], CallOK(q), q.pc # "execute"
      PROVE  AccessInv'
  <2>1. /\ call' = [d \in ToolCalls |-> call'[d]] /\ \A d \in ToolCalls \ {c} : call'[d] = call[d]
        /\ call'[c] = q
    BY <1>1, <1>3
  <2> QED
    BY <1>2, <1>3, <2>1, OnlyCall
<1>4. CASE Look(c)
  <2>1. call' = [call EXCEPT ![c] = [call[c] EXCEPT !.row = policy[call[c].tool], !.pc = "judge"]]
    BY <1>4 DEF Look
  <2>2. PICK q : q = [call[c] EXCEPT !.row = policy[call[c].tool], !.pc = "judge"]
    OBVIOUS
  <2>3. CallOK(q) /\ q.pc # "execute" /\ call' = [call EXCEPT ![c] = q]
    BY <1>1, <1>4, <2>1, <2>2 DEF CallOK, Look
  <2> QED
    BY <1>3, <2>3
<1>5. CASE Judge(c)
  <2> DEFINE admits == call[c].op = "edit" /\ call[c].standing = "admin"
  <2>1. PICK verdict : verdict = Verdict(call[c], allowed[call[c].tool])
    OBVIOUS
  <2>2. PICK row : row = IF admits THEN call[c].row ELSE NotRead
    OBVIOUS
  <2>3. PICK pc : pc = IF admits THEN "write"
                       ELSE IF call[c].op = "list" THEN "pick"
                       ELSE IF call[c].surface = "model_exposure" THEN "exposed"
                       ELSE "record"
    OBVIOUS
  <2>4. PICK q : q = [call[c] EXCEPT !.verdict = verdict, !.row = row, !.pc = pc]
    OBVIOUS
  <2>5. call' = [call EXCEPT ![c] = q]
    BY <1>1, <1>5, <2>1, <2>2, <2>3, <2>4 DEF Judge
  <2>6. pc \in {"write", "pick", "exposed", "record"}
    BY <2>3
  <2>7. CallOK(q) /\ q.pc # "execute"
    BY <1>1, <2>4, <2>6 DEF CallOK
  <2> QED
    BY <1>3, <2>5, <2>7
<1>6. CASE RecordDecision(c)
  <2>1. PICK verdict : verdict = IF call[c].op = "model" THEN "allowed" ELSE call[c].verdict
    OBVIOUS
  <2>2. PICK pc : pc = IF call[c].op = "edit" THEN "end"
          ELSE IF call[c].verdict = "allowed" THEN
            (IF call[c].op = "workflow" THEN "pick" ELSE IF call[c].op = "approve" THEN "commit" ELSE "start")
          ELSE IF call[c].op = "run" /\ call[c].verdict = "approval_required" THEN "hold"
          ELSE IF call[c].op = "model" THEN "exposed" ELSE "end"
    OBVIOUS
  <2>3. PICK q : q = [call[c] EXCEPT !.pc = pc, !.verdict = verdict]
    OBVIOUS
  <2>4. call' = [call EXCEPT ![c] = q]
    BY <1>1, <1>6, <2>1, <2>2, <2>3 DEF RecordDecision
  <2>5. pc \in {"end", "pick", "commit", "start", "hold", "exposed"}
    BY <2>2
  <2>6. CallOK(q) /\ q.pc # "execute"
    BY <1>1, <2>3, <2>5 DEF CallOK
  <2> QED
    BY <1>3, <2>4, <2>6
<1>7. CASE Stop(c)
  BY <1>2, <1>7, CallOver
<1>8. CASE Pick(c) /\ ~Stop(c)
  <2>1. PICK t \in call[c].todo :
          call' = [call EXCEPT ![c].tool = t, ![c].todo = call[c].todo \ {t}, ![c].pc = "look"]
    BY <1>1, <1>8 DEF Pick, CallOK
  <2>2. PICK todo : todo = call[c].todo \ {t}
    OBVIOUS
  <2>3. PICK q : q = [call[c] EXCEPT !.tool = t, !.todo = todo, !.pc = "look"]
    OBVIOUS
  <2>4. call' = [call EXCEPT ![c] = q]
    BY <1>1, <2>1, <2>2, <2>3
  <2>5. CallOK(q) /\ q.pc # "execute"
    BY <1>1, <2>3 DEF CallOK
  <2> QED
    BY <1>3, <2>4, <2>5
<1>9. CASE WriteEdit(c)
  <2>1. PICK q : q = ListTools(NoCallYet.surface)
    OBVIOUS
  <2>2. call' = [call EXCEPT ![c] = q]
    BY <1>9, <2>1 DEF WriteEdit
  <2>3. CallOK(q) /\ q.pc # "execute" /\ call' = [call EXCEPT ![c] = q]
    BY <2>1, <2>2 DEF ListTools, CallOK, Called, NoCallYet
  <2> QED
    BY <1>3, <2>3
<1>10. CASE OfferCandidate(c)
  <2>1. PICK pc \in {"look", "end"} : call' = [call EXCEPT ![c] = [call[c] EXCEPT !.pc = pc, !.standing = standing]]
    BY <1>10 DEF OfferCandidate
  <2>2. PICK q : q = [call[c] EXCEPT !.pc = pc, !.standing = standing]
    OBVIOUS
  <2>3. CallOK(q) /\ q.pc # "execute" /\ call' = [call EXCEPT ![c] = q]
    BY <1>1, <1>10, <2>1, <2>2 DEF CallOK, OfferCandidate
  <2> QED
    BY <1>3, <2>3
<1>11. CASE UseExposed(c)
  <2>1. CASE call' = [call EXCEPT ![c].surface = "model_tool_call", ![c].pc = "look"]
    <3>1. PICK q : q = [call[c] EXCEPT !.surface = "model_tool_call", !.pc = "look"]
      OBVIOUS
    <3>2. CallOK(q) /\ q.pc # "execute" /\ call' = [call EXCEPT ![c] = q]
      BY <1>1, <2>1, <3>1 DEF CallOK
    <3> QED
      BY <1>3, <3>2
  <2>2. CASE call' = GoTo(c, "end")
    <3>1. PICK q : q = [call[c] EXCEPT !.pc = "end"]
      OBVIOUS
    <3>2. CallOK(q) /\ q.pc # "execute" /\ call' = [call EXCEPT ![c] = q]
      BY <1>1, <2>2, <3>1 DEF CallOK, GoTo
    <3> QED
      BY <1>3, <3>2
  <2> QED
    BY <1>11, <2>1, <2>2 DEF UseExposed
<1>12. CASE OpenApproval(c) /\ ~Stop(c)
  <2>1. CASE call' = GoTo(c, "commit")
    <3>1. PICK q : q = [call[c] EXCEPT !.pc = "commit"]
      OBVIOUS
    <3>2. CallOK(q) /\ q.pc # "execute" /\ call' = [call EXCEPT ![c] = q]
      BY <1>1, <2>1, <3>1 DEF CallOK, GoTo
    <3> QED
      BY <1>3, <3>2
  <2>2. CASE call' = [call EXCEPT ![c].tool = toolOf[call[c].run], ![c].pc = "look"]
    <3>1. PICK q : q = [call[c] EXCEPT !.tool = toolOf[call[c].run], !.pc = "look"]
      OBVIOUS
    <3>2. CallOK(q) /\ q.pc # "execute" /\ call' = [call EXCEPT ![c] = q]
      BY <1>1, <2>2, <3>1 DEF CallOK
    <3> QED
      BY <1>3, <3>2
  <2> QED
    BY <1>12, <2>1, <2>2 DEF OpenApproval
<1>13. CASE NoteToolCall(c)
  <2>1. call' = [call EXCEPT ![c] = [call[c] EXCEPT !.pc = "finish"]]
    BY <1>13 DEF NoteToolCall, GoTo
  <2>2. PICK q : q = [call[c] EXCEPT !.pc = "finish"]
    OBVIOUS
  <2>3. CallOK(q) /\ q.pc # "execute" /\ call' = [call EXCEPT ![c] = q]
    BY <1>1, <1>13, <2>1, <2>2 DEF CallOK, NoteToolCall
  <2> QED
    BY <1>3, <2>3
<1> QED
  BY <1>4, <1>5, <1>6, <1>7, <1>8, <1>9, <1>10, <1>11, <1>12, <1>13 DEF End

LEMMA HoldKeeps ==
  ASSUME AccessInv, NEW c \in ToolCalls, Hold(c)
  PROVE  AccessInv'
<1>1. AccessTypeOK /\ \A d \in ToolCalls : CallOK(call[d])
  BY DEF AccessInv
<1>2. Stop(c) /\ UNCHANGED effects
  BY DEF Hold, outcome
<1>3. CASE UNCHANGED held
  BY <1>2, <1>3, CallOver DEF held
<1>4. ASSUME NEW x \in ToolRuns, NewRun(x), toolRun' = [toolRun EXCEPT ![x] = "interrupted"],
             approval' = [approval EXCEPT ![x] = "requested"]
      PROVE  AccessInv'
  <2>1. RunOK(x) /\ HeldBack(x)
    BY <1>4 DEF AccessInv, NewRun, HeldBack
  <2>2. /\ call' = [d \in ToolCalls |-> call'[d]] /\ \A d \in ToolCalls \ {c} : call'[d] = call[d]
        /\ call'[c] = NoCallYet
    BY <1>1, <1>2 DEF Stop, Over, AccessTypeOK
  <2>3. CallOK(NoCallYet) /\ NoCallYet.pc = "idle"
    BY DEF CallOK, NoCallYet
  <2>4. \A d \in ToolCalls, y \in ToolRuns : Executing(d, y)' => Executing(d, y)
    BY <2>2, <2>3 DEF Executing
  <2>5. \A d \in ToolCalls : CallOK(call'[d])
    BY <1>1, <2>2, <2>3
  <2>6. AccessTypeOK'
    BY <1>1, <1>2, <1>4, <2>2 DEF AccessTypeOK, RunStates
  <2>7. toolRun'[x] = "interrupted" /\ approval'[x] = "requested" /\ effects'[x] = 0
    BY <1>1, <1>2, <1>4, <2>1 DEF AccessTypeOK, RunOK
  <2>8. RunOK(x)'
    BY <2>1, <2>4, <2>7 DEF RunOK
  <2> QED
    BY <1>1, <1>2, <1>4, <2>4, <2>5, <2>6, <2>8, OnlyRun DEF AccessTypeOK
<1> QED
  BY <1>3, <1>4 DEF Hold

LEMMA ApproveKeeps ==
  ASSUME AccessInv, NEW c \in ToolCalls, ApproveCommit(c)
  PROVE  AccessInv'
<1>1. AccessTypeOK /\ \A d \in ToolCalls : CallOK(call[d])
  BY DEF AccessInv
<1>2. PICK x \in ToolRuns : x = call[c].run
  BY <1>1 DEF ApproveCommit, At, CallOK
<1>3. /\ RunOK(x) /\ approval' = [approval EXCEPT
           ![x] = IF approval[x] = "requested" /\ toolRun[x] = "interrupted" THEN "approved" ELSE approval[x]]
      /\ toolRun' = [toolRun EXCEPT ![x] = IF toolRun[x] = "interrupted" THEN "running" ELSE toolRun[x]]
      /\ call' = [call EXCEPT ![c].pc = IF toolRun[x] = "interrupted" THEN "execute" ELSE "end"]
      /\ UNCHANGED effects
  BY <1>2 DEF ApproveCommit, Resumable, GoTo, AccessInv, outcome
<1>4. PICK q : q = [call[c] EXCEPT !.pc = IF toolRun[x] = "interrupted" THEN "execute" ELSE "end"]
  OBVIOUS
<1>5. /\ call' = [d \in ToolCalls |-> call'[d]] /\ \A d \in ToolCalls \ {c} : call'[d] = call[d]
      /\ call'[c] = q
  BY <1>1, <1>3, <1>4 DEF AccessTypeOK
<1>6. CallOK(q) /\ q.run = x /\ (q.pc = "execute" <=> toolRun[x] = "interrupted")
  <2>1. CallOK(call[c])
    BY <1>1
  <2> QED
    BY <2>1, <1>2, <1>4 DEF CallOK
<1>7. CASE toolRun[x] # "interrupted"
  <2>1. UNCHANGED <<toolRun, approval>>
    BY <1>1, <1>3, <1>7 DEF AccessTypeOK
  <2> QED
    BY <1>3, <1>5, <1>6, <1>7, <2>1, OnlyCall
<1>8. CASE toolRun[x] = "interrupted"
  <2>1. HeldBack(x) /\ approval[x] = "requested"
    BY <1>3, <1>8 DEF HeldBack, RunOK
  <2>2. toolRun'[x] = "running" /\ approval'[x] = "approved" /\ effects'[x] = 0
    BY <1>1, <1>3, <1>8, <2>1 DEF AccessTypeOK, RunOK
  <2>3. \A d \in ToolCalls : Executing(d, x)' => d = c
    BY <1>3, <1>5, <2>1 DEF RunOK, Executing
  <2>4. RunOK(x)'
    BY <2>2, <2>3 DEF RunOK, HeldBack
  <2>5. \A d \in ToolCalls, y \in ToolRuns \ {x} : Executing(d, y)' => Executing(d, y)
    BY <1>5, <1>6 DEF Executing
  <2>6. AccessTypeOK'
    BY <1>1, <1>3, <1>5 DEF AccessTypeOK, RunStates
  <2>7. \A d \in ToolCalls : CallOK(call'[d])
    BY <1>1, <1>5, <1>6
  <2> QED
    BY <1>1, <1>3, <2>4, <2>5, <2>6, <2>7, OnlyRun DEF AccessTypeOK
<1> QED
  BY <1>7, <1>8

LEMMA DenyKeeps ==
  ASSUME AccessInv, NEW c \in ToolCalls, DenyCommit(c)
  PROVE  AccessInv'
<1>1. AccessTypeOK /\ \A d \in ToolCalls : CallOK(call[d])
  BY DEF AccessInv
<1>2. PICK x \in ToolRuns : x = call[c].run
  BY <1>1 DEF DenyCommit, At, CallOK
<1>3. /\ RunOK(x) /\ approval' = [approval EXCEPT
           ![x] = IF approval[x] = "requested" /\ toolRun[x] = "interrupted" THEN "denied" ELSE approval[x]]
      /\ toolRun' = [toolRun EXCEPT ![x] = IF toolRun[x] = "interrupted" THEN "cancelled" ELSE toolRun[x]]
      /\ Stop(c) /\ UNCHANGED effects
  BY <1>2 DEF DenyCommit, AccessInv, outcome
<1>4. /\ call' = [d \in ToolCalls |-> call'[d]] /\ \A d \in ToolCalls \ {c} : call'[d] = call[d]
      /\ call'[c] = NoCallYet
  BY <1>1, <1>3 DEF Stop, Over, AccessTypeOK
<1>5. CallOK(NoCallYet) /\ NoCallYet.pc = "idle"
  BY DEF CallOK, NoCallYet
<1>6. \A d \in ToolCalls, y \in ToolRuns : Executing(d, y)' => Executing(d, y)
  BY <1>4, <1>5 DEF Executing
<1>7. CASE toolRun[x] # "interrupted"
  <2>1. UNCHANGED <<toolRun, approval>>
    BY <1>1, <1>3, <1>7 DEF AccessTypeOK
  <2> QED
    BY <1>3, <2>1, CallOver
<1>8. CASE toolRun[x] = "interrupted"
  <2>1. HeldBack(x) /\ approval[x] = "requested"
    BY <1>3, <1>8 DEF HeldBack, RunOK
  <2>2. toolRun'[x] = "cancelled" /\ approval'[x] = "denied" /\ effects'[x] = 0
    BY <1>1, <1>3, <1>8, <2>1 DEF AccessTypeOK, RunOK
  <2>3. RunOK(x)'
    BY <1>3, <1>6, <2>1, <2>2 DEF RunOK, HeldBack
  <2>4. AccessTypeOK'
    BY <1>1, <1>3, <1>4 DEF AccessTypeOK, RunStates
  <2>5. \A d \in ToolCalls : CallOK(call'[d])
    BY <1>1, <1>4, <1>5
  <2> QED
    BY <1>1, <1>3, <1>6, <2>3, <2>4, <2>5, OnlyRun DEF AccessTypeOK
<1> QED
  BY <1>7, <1>8

LEMMA StartKeeps ==
  ASSUME AccessInv, NEW c \in ToolCalls, Start(c)
  PROVE  AccessInv'
<1>1. AccessTypeOK /\ \A d \in ToolCalls : CallOK(call[d])
  BY DEF AccessInv
<1>2. PICK x \in ToolRuns : /\ NewRun(x) /\ toolRun' = [toolRun EXCEPT ![x] = "running"]
                           /\ call' = [call EXCEPT ![c].run = x, ![c].pc = "execute"]
  BY DEF Start
<1>3. RunOK(x) /\ HeldBack(x) /\ toolRun[x] = "none" /\ UNCHANGED <<approval, effects>>
  BY <1>2 DEF AccessInv, NewRun, HeldBack, Start, outcome
<1>4. PICK q : q = [call[c] EXCEPT !.run = x, !.pc = "execute"]
  OBVIOUS
<1>5. CallOK(q) /\ q.run = x /\ q.pc = "execute"
  <2>1. CallOK(call[c])
    BY <1>1
  <2> QED
    BY <2>1, <1>4 DEF CallOK
<1>6. /\ call' = [d \in ToolCalls |-> call'[d]] /\ \A d \in ToolCalls \ {c} : call'[d] = call[d]
      /\ call'[c] = q
  BY <1>1, <1>2, <1>4, <1>5 DEF AccessTypeOK, CallOK
<1>7. toolRun'[x] = "running" /\ approval'[x] = "none" /\ effects'[x] = 0
  BY <1>1, <1>2, <1>3 DEF AccessTypeOK, RunOK
<1>8. \A d \in ToolCalls : Executing(d, x)' => d = c
  BY <1>3, <1>6 DEF RunOK, Executing
<1>9. RunOK(x)'
  BY <1>7, <1>8 DEF RunOK, HeldBack
<1>10. \A d \in ToolCalls, y \in ToolRuns \ {x} : Executing(d, y)' => Executing(d, y)
  BY <1>5, <1>6 DEF Executing
<1>11. AccessTypeOK'
  BY <1>1, <1>2, <1>3, <1>6 DEF AccessTypeOK, RunStates
<1>12. \A d \in ToolCalls : CallOK(call'[d])
  BY <1>1, <1>5, <1>6
<1> QED
  BY <1>1, <1>2, <1>3, <1>9, <1>10, <1>11, <1>12, OnlyRun DEF AccessTypeOK

LEMMA ExecuteKeeps ==
  ASSUME AccessInv, NEW c \in ToolCalls, Execute(c)
  PROVE  AccessInv'
<1>1. AccessTypeOK /\ \A d \in ToolCalls : CallOK(call[d])
  BY DEF AccessInv
<1>2. PICK x \in ToolRuns : x = call[c].run /\ Executing(c, x)
  BY <1>1 DEF Execute, CallOK, Executing
<1>3. PICK done \in {0, 1}, v \in {"completed", "failed"} :
        /\ effects' = [effects EXCEPT ![x] = effects[x] + done]
        /\ call' = [call EXCEPT ![c].pc = "note", ![c].verdict = v]
  BY <1>2 DEF Execute
<1>4. RunOK(x) /\ UNCHANGED <<toolRun, approval>>
  BY DEF AccessInv, Execute, held
<1>5. PICK q : q = [call[c] EXCEPT !.pc = "note", !.verdict = v]
  OBVIOUS
<1>6. CallOK(q) /\ q.pc = "note"
  <2>1. CallOK(call[c])
    BY <1>1
  <2> QED
    BY <2>1, <1>2, <1>5 DEF CallOK
<1>7. /\ call' = [d \in ToolCalls |-> call'[d]] /\ \A d \in ToolCalls \ {c} : call'[d] = call[d]
      /\ call'[c] = q
  BY <1>1, <1>3, <1>5 DEF AccessTypeOK, CallOK
<1>8. ~HeldBack(x) /\ effects'[x] \in {0, 1}
  BY <1>1, <1>2, <1>3, <1>4 DEF AccessTypeOK, RunOK
<1>9. \A d \in ToolCalls : ~Executing(d, x)'
  BY <1>2, <1>4, <1>6, <1>7 DEF RunOK, Executing
<1>10. RunOK(x)'
  BY <1>4, <1>8, <1>9 DEF RunOK, HeldBack
<1>11. \A d \in ToolCalls, y \in ToolRuns \ {x} : Executing(d, y)' => Executing(d, y)
  BY <1>6, <1>7 DEF Executing
<1>12. AccessTypeOK'
  BY <1>1, <1>3, <1>4, <1>7 DEF AccessTypeOK
<1>13. \A d \in ToolCalls : CallOK(call'[d])
  BY <1>1, <1>6, <1>7
<1> QED
  BY <1>1, <1>3, <1>4, <1>10, <1>11, <1>12, <1>13, OnlyRun DEF AccessTypeOK

LEMMA FinishKeeps ==
  ASSUME AccessInv, NEW c \in ToolCalls, FinishToolRun(c)
  PROVE  AccessInv'
<1>1. AccessTypeOK /\ \A d \in ToolCalls : CallOK(call[d])
  BY DEF AccessInv
<1>2. PICK x \in ToolRuns, v \in {"completed", "failed"} : x = call[c].run /\ v = call[c].verdict
  BY <1>1 DEF FinishToolRun, AfterRun, CallOK
<1>3. PICK pc \in {"exposed", "end"} : call' = [call EXCEPT ![c].pc = pc, ![c].verdict = "allowed"]
  BY DEF FinishToolRun, AfterRun
<1>4. /\ RunOK(x) /\ toolRun' = [toolRun EXCEPT ![x] = IF ActiveRun(x) THEN v ELSE toolRun[x]]
      /\ UNCHANGED <<approval, effects>>
  BY <1>2 DEF AccessInv, FinishToolRun, AfterRun, outcome
<1>5. PICK q : q = [call[c] EXCEPT !.pc = pc, !.verdict = "allowed"]
  OBVIOUS
<1>6. CallOK(q) /\ q.pc = pc
  <2>1. CallOK(call[c])
    BY <1>1
  <2> QED
    BY <2>1, <1>5 DEF CallOK
<1>7. /\ call' = [d \in ToolCalls |-> call'[d]] /\ \A d \in ToolCalls \ {c} : call'[d] = call[d]
      /\ call'[c] = q
  BY <1>1, <1>3, <1>5 DEF AccessTypeOK, CallOK
<1>8. \A d \in ToolCalls, y \in ToolRuns : Executing(d, y)' => Executing(d, y)
  BY <1>6, <1>7 DEF Executing
<1>9. toolRun'[x] \in {toolRun[x], v}
  BY <1>1, <1>4 DEF AccessTypeOK
<1>10. RunOK(x)'
  BY <1>4, <1>8, <1>9 DEF RunOK, HeldBack
<1>11. AccessTypeOK'
  BY <1>1, <1>4, <1>7 DEF AccessTypeOK, RunStates
<1>12. \A d \in ToolCalls : CallOK(call'[d])
  BY <1>1, <1>6, <1>7
<1> QED
  BY <1>1, <1>4, <1>8, <1>10, <1>11, <1>12, OnlyRun DEF AccessTypeOK

LEMMA CancelKeeps ==
  ASSUME AccessInv, NEW x \in ToolRuns, CancelToolRun(x)
  PROVE  AccessInv'
<1>1. AccessTypeOK /\ RunOK(x) /\ \A d \in ToolCalls : CallOK(call[d])
  BY DEF AccessInv
<1>2. toolRun' = [toolRun EXCEPT ![x] = "cancelled"] /\ UNCHANGED <<approval, effects, call>>
  BY DEF CancelToolRun, outcome
<1>3. AccessTypeOK' /\ toolRun'[x] = "cancelled"
  BY <1>1, <1>2 DEF AccessTypeOK, RunStates
<1>4. \A d \in ToolCalls, y \in ToolRuns : Executing(d, y)' => Executing(d, y)
  BY <1>2 DEF Executing
<1>5. RunOK(x)'
  BY <1>1, <1>2, <1>3, <1>4 DEF RunOK, HeldBack
<1> QED
  BY <1>1, <1>2, <1>3, <1>4, <1>5, OnlyRun DEF AccessTypeOK

LEMMA BeginCallKeeps ==
  ASSUME AccessInv, NEW c \in ToolCalls, BeginCall(c)
  PROVE  AccessInv'
<1>1. PICK q \in Requested : call' = [call EXCEPT ![c] = q]
  BY DEF BeginCall
<1>2. CallOK(q) /\ q.pc # "execute"
  BY RequestedCalls DEF Fresh
<1>3. /\ call' = [d \in ToolCalls |-> call'[d]] /\ \A d \in ToolCalls \ {c} : call'[d] = call[d]
      /\ call'[c] = q
  BY <1>1 DEF AccessInv, AccessTypeOK
<1>4. UNCHANGED <<toolRun, approval, effects>>
  BY DEF BeginCall, held, outcome
<1> QED
  BY <1>2, <1>3, <1>4, OnlyCall

LEMMA AccessStep == AccessInv /\ [AccessNext]_accessVars => AccessInv'
<1> SUFFICES ASSUME AccessInv, [AccessNext]_accessVars PROVE AccessInv'
  OBVIOUS
<1>1. ASSUME NEW c \in ToolCalls, CallStep(c) PROVE AccessInv'
  BY <1>1, JudgingKeeps, HoldKeeps, ApproveKeeps, DenyKeeps, StartKeeps, ExecuteKeeps, FinishKeeps DEF CallStep
<1>2. ASSUME NEW c \in ToolCalls, LoseCall(c) PROVE AccessInv'
  BY <1>2, CallOver DEF LoseCall, held, outcome
<1>3. ASSUME UNCHANGED <<toolRun, approval, effects, call>> PROVE AccessInv'
  BY <1>3 DEF AccessInv, AccessTypeOK, CallOK, RunOK, HeldBack, Executing
<1>4. ASSUME NEW t \in Tools, Forget(t) PROVE AccessInv'
  BY <1>3, <1>4 DEF Forget, held, outcome
<1>5. CASE HourPasses \/ StandingChanges \/ UNCHANGED accessVars
  BY <1>3, <1>5 DEF HourPasses, StandingChanges, accessVars, held, outcome
<1> QED
  BY <1>1, <1>2, <1>4, <1>5, BeginCallKeeps, CancelKeeps DEF AccessNext

\* A run executes its tool at most once, and a held one only after its
\* approval, for any number of calls, runs and tools (tool-approvals.ts).
THEOREM HeldRunsOnce == AccessSpec => []HeldToolRunsOnce
<1>1. AccessInv => HeldToolRunsOnce
  BY DEF AccessInv, AccessTypeOK, HeldToolRunsOnce, RunOK, HeldBack
<1> QED
  BY <1>1, AccessStarts, AccessStep, PTL DEF AccessSpec

-----------------------------------------------------------------------------
(* The schedule of triggers                                                *)

(* The times a trigger falls due lie on a grid. Products of two variables  *)
(* are taken apart here, once.                                             *)
LEMMA FewerSteps ==
  ASSUME NEW a \in Int, NEW b \in Int, NEW d \in Nat \ {0}
  PROVE  (a * d < b * d => a < b) /\ (a < b => a * d + d <= b * d)
  OBVIOUS
LEMMA StepsAdd ==
  ASSUME NEW a \in Int, NEW b \in Int, NEW d \in Nat \ {0}
  PROVE  (a + b) * d = a * d + b * d /\ a * d \in Int
  OBVIOUS
LEMMA StepsNatural == ASSUME NEW a \in Nat, NEW d \in Nat \ {0} PROVE a * d \in Nat
  OBVIOUS
LEMMA WholeSteps == ASSUME NEW a \in Nat, NEW d \in Nat \ {0} PROVE a \div d \in Nat
  OBVIOUS
LEMMA NothingLeft == ASSUME NEW a \in Nat, NEW d \in Nat \ {0}, a % d = 0 PROVE a = (a \div d) * d
  OBVIOUS
LEMMA StepsDivide == ASSUME NEW n \in Nat, NEW d \in Nat \ {0} PROVE (n * d) % d = 0
  OBVIOUS

OnGrid(t, x) == \E n \in Nat : x = timer[t].first + n * Interval[t]
EndOf(o) == o.at + (o.skipped + 1) * Interval[o.of]

TimerRows == [status : {"none", "paused", "enabled", "disabled"}, next : Nat, first : Nat, version : Nat, updated : Nat]
OccurrenceRows == [of : Timers, at : Nat, status : {"pending", "leased", "cancelled"}, skipped : Nat]
DueRows == [of : Timers, next : Nat]
TickRows == [at : {"idle", "scan", "dispatch"}, now : Nat, rows : SUBSET DueRows]
Changes == {IdleChange} \union [of : Timers, to : {"paused", "enabled", "disabled"}, version : Nat]

ScheduleTypeOK ==
  /\ clock \in Nat /\ timer \in [Timers -> TimerRows]
  /\ occurrence \subseteq OccurrenceRows
  /\ tick \in [Ticks -> TickRows] /\ change \in [Admins -> Changes]

\* What a trigger has passed: the times up to its next one, each in one dispatch.
Accounted(t) ==
  /\ OnGrid(t, timer[t].next)
  /\ \A o \in Of(t) : OnGrid(t, o.at) /\ EndOf(o) <= timer[t].next
  /\ \A o, p \in Of(t) : o.at = p.at => o = p
  /\ \A o, p \in Of(t) : o.at # p.at => EndOf(o) <= p.at \/ EndOf(p) <= o.at
  /\ \A x \in Nat : OnGrid(t, x) /\ x < timer[t].next => \E o \in Of(t) : o.at <= x /\ x < EndOf(o)

\* What a tick has read of a trigger was due; if the trigger has moved on since, the
\* occurrence has its dispatch.
RowIsTrue(row, time) ==
  /\ timer[row.of].status # "none"
  /\ row.next <= time /\ row.next <= timer[row.of].next
  /\ row.next < timer[row.of].next => \E o \in Of(row.of) : o.at = row.next

AskedIsTrue(c) == c # IdleChange => timer[c.of].status # "none"

ScheduleInv ==
  /\ ScheduleTypeOK
  /\ \A t \in Timers : timer[t].status = "none" => Of(t) = {}
  /\ \A t \in Timers : timer[t].status # "none" => Accounted(t)
  /\ \A k \in Ticks : \A row \in tick[k].rows : RowIsTrue(row, tick[k].now)
  /\ \A a \in Admins : AskedIsTrue(change[a])

\* Where a trigger is, and what is on its grid.
LEMMA GridTypes ==
  ASSUME ScheduleTypeOK, NEW t \in Timers
  PROVE  /\ timer[t].first \in Nat /\ timer[t].next \in Nat /\ Interval[t] \in Nat \ {0}
         /\ \A o \in Of(t) : o \in occurrence /\ o.of = t /\ o.at \in Nat /\ o.skipped \in Nat /\ EndOf(o) \in Nat
<1>1. timer[t].first \in Nat /\ timer[t].next \in Nat /\ Interval[t] \in Nat \ {0}
  BY ScheduleAssumption DEF ScheduleTypeOK, TimerRows
<1>2. ASSUME NEW o \in Of(t)
      PROVE  o \in occurrence /\ o.of = t /\ o.at \in Nat /\ o.skipped \in Nat /\ EndOf(o) \in Nat
  <2>1. o \in occurrence /\ o.of = t /\ o.at \in Nat /\ o.skipped \in Nat
    BY DEF Of, ScheduleTypeOK, OccurrenceRows
  <2>2. (o.skipped + 1) * Interval[t] \in Nat
    BY <2>1, <1>1, StepsNatural
  <2>3. QED
    BY <2>1, <2>2 DEF EndOf
<1>3. QED
  BY <1>1, <1>2

\* What an occurrence covers is what lies on the grid between it and its end.
LEMMA CoversGrid ==
  ASSUME ScheduleTypeOK, NEW t \in Timers, NEW o \in Of(t), OnGrid(t, o.at)
  PROVE  Covered(o) = {x \in Nat : OnGrid(t, x) /\ o.at <= x /\ x < EndOf(o)}
<1> DEFINE f == timer[t].first
           d == Interval[t]
<1>1. f \in Nat /\ d \in Nat \ {0} /\ o.of = t /\ o.at \in Nat /\ o.skipped \in Nat
  BY GridTypes
<1>2. PICK m \in Nat : o.at = f + m * d
  BY DEF OnGrid
<1> HIDE DEF f, d
<1>3. ASSUME NEW i \in 0 .. o.skipped
      PROVE  LET x == o.at + i * d IN x \in Nat /\ OnGrid(t, x) /\ o.at <= x /\ x < EndOf(o)
  <2>1. i * d \in Nat /\ (m + i) * d = m * d + i * d /\ m * d \in Nat /\ i \in Nat /\ m + i \in Nat
    BY <1>1, StepsAdd, StepsNatural
  <2>2. o.at + i * d = f + (m + i) * d
    BY <1>1, <1>2, <2>1
  <2>3. OnGrid(t, o.at + i * d)
    BY <2>1, <2>2 DEF OnGrid, f, d
  <2>4. i * d < (o.skipped + 1) * d
    <3>1. i < o.skipped + 1 /\ i \in Int /\ o.skipped + 1 \in Int
      BY <1>1
    <3>2. i * d + d <= (o.skipped + 1) * d /\ (o.skipped + 1) * d \in Int
      BY <3>1, <1>1, FewerSteps, StepsAdd
    <3>3. QED
      BY <3>2, <2>1, <1>1
  <2>5. (o.skipped + 1) * d \in Nat
    BY <1>1, StepsNatural
  <2>6. QED
    BY <2>1, <2>3, <2>4, <2>5, <1>1 DEF EndOf, d
<1>4. ASSUME NEW x \in Nat, OnGrid(t, x), o.at <= x, x < EndOf(o)
      PROVE  \E i \in 0 .. o.skipped : x = o.at + i * d
  <2>1. PICK n \in Nat : x = f + n * d
    BY <1>4 DEF OnGrid, f, d
  <2>2. n * d \in Nat /\ m * d \in Nat /\ (n + 1) * d = n * d + d /\ m \in Int /\ n + 1 \in Int
    <3>1. 1 * d = d
      BY <1>1
    <3>2. QED
      BY <3>1, <1>1, StepsAdd, StepsNatural
  <2>3. m <= n
    <3>1. m * d < (n + 1) * d
      BY <2>1, <2>2, <1>1, <1>2, <1>4
    <3>2. m < n + 1
      BY <3>1, <2>2, <1>1, FewerSteps
    <3>3. QED
      BY <3>2
  <2>4. n - m \in Nat /\ n = m + (n - m)
    BY <2>3
  <2>5. n * d = m * d + (n - m) * d /\ (n - m) * d \in Nat
    BY <2>4, <1>1, StepsAdd, StepsNatural
  <2>6. x = o.at + (n - m) * d
    BY <2>1, <2>2, <2>5, <1>1, <1>2
  <2>7. n - m < o.skipped + 1
    <3>1. (n - m) * d < (o.skipped + 1) * d
      <4>1. (o.skipped + 1) * d \in Nat
        BY <1>1, StepsNatural
      <4>2. QED
        BY <4>1, <2>5, <2>6, <1>1, <1>4 DEF EndOf, d
    <3>2. QED
      BY <3>1, <2>4, <1>1, FewerSteps
  <2>8. QED
    BY <2>4, <2>6, <2>7, <1>1
<1>5. Covered(o) = {o.at + i * d : i \in 0 .. o.skipped}
  BY <1>1 DEF Covered, d
<1>6. \A x : x \in Covered(o) <=> \E i \in 0 .. o.skipped : x = o.at + i * d
  BY <1>5
<1>7. QED
  BY <1>3, <1>4, <1>6

\* The times up to the next one that lie a whole number of intervals after the first.
LEMMA GridIsModulo ==
  ASSUME ScheduleTypeOK, NEW t \in Timers
  PROVE  {x \in timer[t].first .. timer[t].next :
            x < timer[t].next /\ (x - timer[t].first) % Interval[t] = 0}
         = {x \in Nat : OnGrid(t, x) /\ x < timer[t].next}
<1> DEFINE f == timer[t].first
           d == Interval[t]
           last == timer[t].next
<1>1. f \in Nat /\ d \in Nat \ {0} /\ last \in Nat
  BY GridTypes
<1> HIDE DEF f, d, last
<1>2. ASSUME NEW x \in f .. last, (x - f) % d = 0 PROVE x \in Nat /\ OnGrid(t, x)
  <2>1. x - f \in Nat /\ x \in Nat
    BY <1>1
  <2>2. (x - f) \div d \in Nat /\ x - f = ((x - f) \div d) * d
    BY <2>1, <1>1, <1>2, WholeSteps, NothingLeft
  <2>3. x = f + ((x - f) \div d) * d
    BY <2>1, <2>2, <1>1, StepsNatural
  <2>4. QED
    BY <2>1, <2>2, <2>3 DEF OnGrid, f, d
<1>3. ASSUME NEW x \in Nat, OnGrid(t, x), x < last PROVE x \in f .. last /\ (x - f) % d = 0
  <2>1. PICK n \in Nat : x = f + n * d
    BY <1>3 DEF OnGrid, f, d
  <2>2. n * d \in Nat
    BY <1>1, StepsNatural
  <2>3. x - f = n * d /\ x \in f .. last
    BY <2>1, <2>2, <1>1, <1>3
  <2>4. QED
    BY <2>3, <1>1, StepsDivide
<1>4. {x \in f .. last : x < last /\ (x - f) % d = 0} = {x \in Nat : OnGrid(t, x) /\ x < last}
  BY <1>2, <1>3
<1>5. QED
  BY <1>4 DEF f, d, last

LEMMA AccountedOnce == ScheduleInv => EveryOccurrenceOnce
<1> SUFFICES ASSUME ScheduleInv, NEW t \in Timers, timer[t].status # "none"
             PROVE  /\ \A o, p \in Of(t) : o # p => Covered(o) \intersect Covered(p) = {}
                    /\ UNION {Covered(o) : o \in Of(t)} =
                         {x \in timer[t].first .. timer[t].next :
                            x < timer[t].next /\ (x - timer[t].first) % Interval[t] = 0}
  BY DEF EveryOccurrenceOnce
<1>1. ScheduleTypeOK /\ Accounted(t)
  BY DEF ScheduleInv
<1>2. \A o \in Of(t) : Covered(o) = {x \in Nat : OnGrid(t, x) /\ o.at <= x /\ x < EndOf(o)}
  BY <1>1, CoversGrid DEF Accounted
<1>3. \A o \in Of(t) : o.at \in Nat /\ EndOf(o) \in Nat /\ EndOf(o) <= timer[t].next /\ timer[t].next \in Nat
  BY <1>1, GridTypes DEF Accounted
<1>4. ASSUME NEW o \in Of(t), NEW p \in Of(t), o # p PROVE Covered(o) \intersect Covered(p) = {}
  <2>1. EndOf(o) <= p.at \/ EndOf(p) <= o.at
    BY <1>1, <1>4 DEF Accounted
  <2>2. ASSUME NEW x \in Nat PROVE ~(o.at <= x /\ x < EndOf(o) /\ p.at <= x /\ x < EndOf(p))
    BY <2>1, <1>3
  <2>3. QED
    BY <2>2, <1>2
<1>5. ASSUME NEW x PROVE x \in UNION {Covered(o) : o \in Of(t)} <=> x \in Nat /\ OnGrid(t, x) /\ x < timer[t].next
  <2>1. ASSUME NEW o \in Of(t), x \in Covered(o) PROVE x \in Nat /\ OnGrid(t, x) /\ x < timer[t].next
    <3>1. x \in Nat /\ OnGrid(t, x) /\ x < EndOf(o)
      BY <2>1, <1>2
    <3>2. QED
      BY <3>1, <1>3
  <2>2. ASSUME x \in Nat, OnGrid(t, x), x < timer[t].next PROVE \E o \in Of(t) : x \in Covered(o)
    <3>1. PICK o \in Of(t) : o.at <= x /\ x < EndOf(o)
      BY <2>2, <1>1 DEF Accounted
    <3>2. QED
      BY <3>1, <2>2, <1>2
  <2>3. QED
    BY <2>1, <2>2
<1>6. UNION {Covered(o) : o \in Of(t)} = {x \in Nat : OnGrid(t, x) /\ x < timer[t].next}
  BY <1>5
<1>7. QED
  BY <1>1, <1>4, <1>6, GridIsModulo

\* The rows of dispatches, but for their status.
Dispatched(t, o) == \E p \in Of(t) : p.at = o.at /\ p.skipped = o.skipped

\* A step that moves no trigger and adds no dispatch.
LEMMA NothingMoves ==
  ASSUME ScheduleInv, ScheduleTypeOK',
         \A t \in Timers : /\ timer'[t].first = timer[t].first /\ timer'[t].next = timer[t].next
                           /\ timer'[t].status = "none" <=> timer[t].status = "none",
         \A t \in Timers : /\ \A o \in Of(t)' : Dispatched(t, o)
                           /\ \A o \in Of(t) : Dispatched(t, o)'
                           /\ \A o, p \in Of(t)' : o.at = p.at => o = p,
         \A k \in Ticks : \A row \in tick'[k].rows : row \in DueRows /\ RowIsTrue(row, tick'[k].now),
         \A a \in Admins : AskedIsTrue(change'[a])
  PROVE  ScheduleInv'
<1>1. ASSUME NEW t \in Timers, timer[t].status # "none" PROVE Accounted(t)'
  <2>1. Accounted(t)
    BY <1>1 DEF ScheduleInv
  <2>2. \A x : OnGrid(t, x)' <=> OnGrid(t, x)
    BY DEF OnGrid
  <2>3. \A o \in Of(t), p \in Of(t)' : o.at = p.at /\ o.skipped = p.skipped => EndOf(o) = EndOf(p)
    BY DEF EndOf, Of
  <2>4. ASSUME NEW o \in Of(t)' PROVE \E p \in Of(t) : p.at = o.at /\ EndOf(p) = EndOf(o)
    BY <2>3 DEF Dispatched
  <2>5. ASSUME NEW o \in Of(t) PROVE \E p \in Of(t)' : p.at = o.at /\ EndOf(p) = EndOf(o)
    BY <2>3 DEF Dispatched
  <2>6. \A o : EndOf(o)' = EndOf(o)
    BY DEF EndOf
  <2>7. OnGrid(t, timer[t].next)' /\ \A o \in Of(t)' : OnGrid(t, o.at)' /\ EndOf(o) <= timer'[t].next
    BY <2>1, <2>2, <2>4 DEF Accounted
  <2>8. \A o, p \in Of(t)' : o.at # p.at => EndOf(o) <= p.at \/ EndOf(p) <= o.at
    BY <2>1, <2>4 DEF Accounted
  <2>9. \A x \in Nat : OnGrid(t, x)' /\ x < timer'[t].next => \E o \in Of(t)' : o.at <= x /\ x < EndOf(o)
    <3> SUFFICES ASSUME NEW x \in Nat, OnGrid(t, x), x < timer[t].next
                 PROVE  \E o \in Of(t)' : o.at <= x /\ x < EndOf(o)
      BY <2>2
    <3>1. PICK o \in Of(t) : o.at <= x /\ x < EndOf(o)
      BY <2>1 DEF Accounted
    <3>2. QED
      BY <3>1, <2>5
  <2>10. QED
    BY <2>6, <2>7, <2>8, <2>9 DEF Accounted
<1>2. ASSUME NEW k \in Ticks, NEW row \in tick'[k].rows PROVE RowIsTrue(row, tick[k].now)'
  <2>1. row.of \in Timers /\ RowIsTrue(row, tick'[k].now)
    BY <1>2 DEF DueRows
  <2>2. QED
    BY <2>1 DEF RowIsTrue, Dispatched
<1>3. \A t \in Timers : timer'[t].status = "none" => Of(t)' = {}
  BY DEF ScheduleInv, Dispatched
<1>4. ASSUME NEW a \in Admins PROVE AskedIsTrue(change[a])'
  <2>1. change'[a] = IdleChange \/ change'[a].of \in Timers
    BY DEF ScheduleTypeOK, Changes
  <2>2. QED
    BY <2>1 DEF AskedIsTrue
<1>5. QED
  BY <1>1, <1>2, <1>3, <1>4 DEF ScheduleInv

LEMMA KeptRows ==
  ASSUME ScheduleInv, NEW k \in Ticks, NEW row \in tick[k].rows
  PROVE  row \in DueRows /\ RowIsTrue(row, tick[k].now)
  BY DEF ScheduleInv, ScheduleTypeOK, TickRows

LEMMA SameDispatches ==
  ASSUME ScheduleInv, UNCHANGED occurrence, NEW t \in Timers
  PROVE  /\ \A o \in Of(t)' : Dispatched(t, o)
         /\ \A o \in Of(t) : Dispatched(t, o)'
         /\ \A o, p \in Of(t)' : o.at = p.at => o = p
<1>1. Of(t)' = Of(t)
  BY DEF Of
<1>2. \A o, p \in Of(t) : o.at = p.at => o = p
  BY DEF ScheduleInv, Accounted
<1>3. QED
  BY <1>1, <1>2 DEF Dispatched

\* A step that changes at most the status of the dispatches.
LEMMA RelabelledDispatches ==
  ASSUME ScheduleInv, NEW label \in [occurrence -> OccurrenceRows],
         occurrence' = {label[o] : o \in occurrence},
         \A o \in occurrence : label[o].of = o.of /\ label[o].at = o.at /\ label[o].skipped = o.skipped
  PROVE  /\ occurrence' \subseteq OccurrenceRows
         /\ \A t \in Timers : /\ \A o \in Of(t)' : Dispatched(t, o)
                              /\ \A o \in Of(t) : Dispatched(t, o)'
                              /\ \A o, p \in Of(t)' : o.at = p.at => o = p
<1>1. ASSUME NEW t \in Timers, NEW o \in Of(t)', NEW p \in Of(t)', o.at = p.at PROVE o = p
  <2>1. PICK a \in Of(t) : o = label[a]
    BY <1>1 DEF Of
  <2>2. PICK b \in Of(t) : p = label[b]
    BY <1>1 DEF Of
  <2>3. a.at = b.at
    BY <2>1, <2>2, <1>1 DEF Of
  <2>4. a = b
    BY <2>3 DEF ScheduleInv, Accounted
  <2>5. QED
    BY <2>1, <2>2, <2>4
<1>2. \A t \in Timers : (\A o \in Of(t)' : Dispatched(t, o)) /\ (\A o \in Of(t) : Dispatched(t, o)')
  BY DEF Dispatched, Of
<1>3. QED
  BY <1>1, <1>2

LEMMA LabelsTyped ==
  ASSUME ScheduleTypeOK, NEW o \in occurrence, NEW t
  PROVE  /\ Withdrawn(o, t) \in OccurrenceRows /\ Withdrawn(o, t).of = o.of
         /\ Withdrawn(o, t).at = o.at /\ Withdrawn(o, t).skipped = o.skipped
         /\ Leased(o) \in OccurrenceRows /\ Leased(o).of = o.of
         /\ Leased(o).at = o.at /\ Leased(o).skipped = o.skipped
  BY DEF Withdrawn, Leased, ScheduleTypeOK, OccurrenceRows

LEMMA ScheduleStarts == ScheduleInit => ScheduleInv
  BY DEF ScheduleInit, ScheduleInv, ScheduleTypeOK, NoTimer, IdleTick, IdleChange, TimerRows, TickRows, Changes, Of,
         AskedIsTrue

\* A trigger that is created has passed nothing.
LEMMA CreateKeeps == ASSUME ScheduleInv, NEW t \in Timers, CreateTrigger(t) PROVE ScheduleInv'
<1>1. PICK status \in {"paused", "enabled"} :
        timer' = [timer EXCEPT ![t] = [status |-> status, next |-> InitialNext(t), first |-> InitialNext(t),
                                       version |-> 1, updated |-> clock]]
  BY DEF CreateTrigger
<1>2. UNCHANGED <<clock, occurrence, tick, change>> /\ timer[t].status = "none" /\ Of(t) = {}
  BY DEF CreateTrigger, ScheduleInv
<1>3. InitialNext(t) \in Nat
  BY ScheduleAssumption DEF InitialNext, ScheduleInv, ScheduleTypeOK
<1>4. /\ timer'[t].first = timer'[t].next /\ timer'[t].first = InitialNext(t) /\ timer'[t].status = status
      /\ \A u \in Timers : u # t => timer'[u] = timer[u]
  BY <1>1 DEF ScheduleInv, ScheduleTypeOK
<1>5. ScheduleTypeOK'
  BY <1>1, <1>2, <1>3 DEF ScheduleInv, ScheduleTypeOK, TimerRows
<1>6. \A u : Of(u)' = Of(u) /\ \A o : EndOf(o)' = EndOf(o)
  BY <1>2 DEF Of, EndOf
<1>7. Accounted(t)'
  <2>1. Interval[t] \in Nat /\ Of(t)' = {}
    BY <1>2, <1>6, ScheduleAssumption
  <2>2. OnGrid(t, timer[t].next)'
    <3>1. timer'[t].next = timer'[t].first + 0 * Interval[t]
      BY <2>1, <1>3, <1>4
    <3>2. QED
      BY <3>1 DEF OnGrid
  <2>3. \A x \in Nat : ~(OnGrid(t, x)' /\ x < timer'[t].next)
    <3> SUFFICES ASSUME NEW n \in Nat PROVE ~(timer'[t].first + n * Interval[t] < timer'[t].next)
      BY DEF OnGrid
    <3>1. n * Interval[t] \in Nat
      BY ScheduleAssumption, StepsNatural
    <3>2. QED
      BY <3>1, <1>3, <1>4
  <2>4. QED
    BY <2>1, <2>2, <2>3 DEF Accounted
<1>8. ASSUME NEW u \in Timers, u # t, timer[u].status # "none" PROVE Accounted(u)'
  <2>1. Accounted(u) /\ timer'[u] = timer[u]
    BY <1>4, <1>8 DEF ScheduleInv
  <2>2. QED
    BY <2>1, <1>6 DEF Accounted, OnGrid
<1>9. ASSUME NEW k \in Ticks, NEW row \in tick'[k].rows PROVE RowIsTrue(row, tick[k].now)'
  <2>1. row \in DueRows /\ RowIsTrue(row, tick[k].now)
    BY <1>2, KeptRows
  <2>2. row.of # t /\ row.of \in Timers
    BY <2>1, <1>2 DEF RowIsTrue, DueRows
  <2>3. QED
    BY <2>1, <2>2, <1>2, <1>4, <1>6 DEF RowIsTrue
<1>10. ASSUME NEW a \in Admins PROVE AskedIsTrue(change[a])'
  <2>1. change[a] = IdleChange \/ change[a].of \in Timers
    BY DEF ScheduleInv, ScheduleTypeOK, Changes
  <2>2. QED
    BY <2>1, <1>2, <1>4 DEF AskedIsTrue, ScheduleInv
<1>11. QED
  BY <1>4, <1>5, <1>6, <1>7, <1>8, <1>9, <1>10 DEF ScheduleInv

LEMMA AskChangeKeeps ==
  ASSUME ScheduleInv, NEW a \in Admins, NEW t \in Timers, AskChange(a, t) PROVE ScheduleInv'
<1>1. UNCHANGED <<clock, timer, occurrence, tick>>
  BY DEF AskChange
<1>2. PICK to \in {"paused", "enabled", "disabled"} :
        change' = [change EXCEPT ![a] = [of |-> t, to |-> to, version |-> timer[t].version]]
  BY DEF AskChange
<1>3. timer[t].version \in Nat /\ timer[t].status # "none"
  BY DEF AskChange, ScheduleInv, ScheduleTypeOK, TimerRows
<1>4. ScheduleTypeOK'
  BY <1>1, <1>2, <1>3 DEF ScheduleInv, ScheduleTypeOK, Changes
<1>5. \A b \in Admins : AskedIsTrue(change'[b])
  BY <1>2, <1>3 DEF ScheduleInv, ScheduleTypeOK, AskedIsTrue
<1>6. QED
  BY <1>1, <1>4, <1>5, NothingMoves, KeptRows, SameDispatches

\* An admin's change moves no trigger; disabling one cancels what waits.
LEMMA UpdateKeeps == ASSUME ScheduleInv, NEW a \in Admins, UpdateTrigger(a) PROVE ScheduleInv'
<1> DEFINE t == change[a].of
<1>1. change[a] \in [of : Timers, to : {"paused", "enabled", "disabled"}, version : Nat]
  BY DEF UpdateTrigger, ScheduleInv, ScheduleTypeOK, Changes
<1>2. UNCHANGED <<clock, tick>> /\ change' = [change EXCEPT ![a] = IdleChange]
  BY DEF UpdateTrigger
<1>3. t \in Timers /\ timer[t].status # "none" /\ timer[t] \in TimerRows /\ clock \in Nat
  BY <1>1 DEF UpdateTrigger, ScheduleInv, ScheduleTypeOK, AskedIsTrue
<1>4. \/ timer' = timer /\ occurrence' = occurrence
      \/ /\ timer' = [timer EXCEPT ![t] = Updated(change[a])]
         /\ occurrence' = occurrence \/ occurrence' = {Withdrawn(o, t) : o \in occurrence}
  BY DEF UpdateTrigger
<1>5. /\ timer' \in [Timers -> TimerRows]
      /\ \A u \in Timers : /\ timer'[u].first = timer[u].first /\ timer'[u].next = timer[u].next
                           /\ timer'[u].status = "none" <=> timer[u].status = "none"
  <2>1. timer[t].version + 1 \in Nat
    BY <1>3 DEF TimerRows
  <2>2. /\ Updated(change[a]) \in TimerRows /\ Updated(change[a]).first = timer[t].first
        /\ Updated(change[a]).next = timer[t].next /\ Updated(change[a]).status # "none"
    BY <1>1, <1>3, <2>1 DEF TimerRows, Updated
  <2>3. QED
    BY <2>2, <1>3, <1>4 DEF ScheduleInv, ScheduleTypeOK
<1>6. /\ occurrence' \subseteq OccurrenceRows
      /\ \A u \in Timers : /\ \A o \in Of(u)' : Dispatched(u, o)
                           /\ \A o \in Of(u) : Dispatched(u, o)'
                           /\ \A o, p \in Of(u)' : o.at = p.at => o = p
  <2>1. CASE occurrence' = occurrence
    BY <2>1, SameDispatches DEF ScheduleInv, ScheduleTypeOK
  <2>2. CASE occurrence' = {Withdrawn(o, t) : o \in occurrence}
    <3> DEFINE label == [o \in occurrence |-> Withdrawn(o, t)]
    <3>1. /\ label \in [occurrence -> OccurrenceRows]
          /\ \A o \in occurrence : label[o].of = o.of /\ label[o].at = o.at /\ label[o].skipped = o.skipped
      BY LabelsTyped DEF ScheduleInv
    <3>2. occurrence' = {label[o] : o \in occurrence}
      BY <2>2
    <3> HIDE DEF label
    <3>3. QED
      BY <3>1, <3>2, RelabelledDispatches
  <2>3. QED
    BY <2>1, <2>2, <1>4
<1>7. ScheduleTypeOK' /\ \A b \in Admins : AskedIsTrue(change'[b])
  BY <1>2, <1>5, <1>6 DEF ScheduleInv, ScheduleTypeOK, Changes, AskedIsTrue
<1>8. QED
  BY <1>2, <1>5, <1>6, <1>7, NothingMoves, KeptRows

LEMMA ClockKeeps == ASSUME ScheduleInv, TimePasses PROVE ScheduleInv'
<1>1. UNCHANGED <<timer, occurrence, tick, change>> /\ clock' \in Nat
  BY DEF TimePasses, ScheduleInv, ScheduleTypeOK
<1>2. ScheduleTypeOK' /\ \A a \in Admins : AskedIsTrue(change'[a])
  BY <1>1 DEF ScheduleInv, ScheduleTypeOK
<1>3. QED
  BY <1>1, <1>2, NothingMoves, KeptRows, SameDispatches

\* A step of a tick leaves the rows of the others alone.
LEMMA OtherTicks ==
  ASSUME ScheduleInv, NEW k \in Ticks, NEW after \in TickRows, tick' = [tick EXCEPT ![k] = after],
         \A row \in after.rows : row \in DueRows /\ RowIsTrue(row, after.now)
  PROVE  \A j \in Ticks : \A row \in tick'[j].rows : row \in DueRows /\ RowIsTrue(row, tick'[j].now)
<1> SUFFICES ASSUME NEW j \in Ticks, NEW row \in tick'[j].rows
             PROVE  row \in DueRows /\ RowIsTrue(row, tick'[j].now)
  OBVIOUS
<1>1. tick'[j] = IF j = k THEN after ELSE tick[j]
  BY DEF ScheduleInv, ScheduleTypeOK
<1>2. QED
  BY <1>1, KeptRows

LEMMA BeginTickKeeps == ASSUME ScheduleInv, NEW k \in Ticks, BeginTick(k) PROVE ScheduleInv'
<1> DEFINE after == [at |-> "scan", now |-> clock, rows |-> {}]
<1>1. UNCHANGED <<clock, timer, occurrence, change>> /\ tick' = [tick EXCEPT ![k] = after]
  BY DEF BeginTick
<1>2. after \in TickRows /\ after.rows = {}
  BY DEF ScheduleInv, ScheduleTypeOK, TickRows
<1>3. ScheduleTypeOK' /\ \A a \in Admins : AskedIsTrue(change'[a])
  BY <1>1, <1>2 DEF ScheduleInv, ScheduleTypeOK
<1>4. QED
  BY <1>1, <1>2, <1>3, OtherTicks, NothingMoves, SameDispatches

\* The rows a scan reads are those of due triggers.
LEMMA ScanKeeps == ASSUME ScheduleInv, NEW k \in Ticks, ScanDue(k) PROVE ScheduleInv'
<1>1. PICK some \in SUBSET {t \in Timers : DueAt(t, tick[k].now)} :
        tick' = [tick EXCEPT ![k] =
                   [@ EXCEPT !.at = "dispatch", !.rows = {[of |-> t, next |-> timer[t].next] : t \in some}]]
  BY DEF ScanDue
<1> DEFINE read == {[of |-> t, next |-> timer[t].next] : t \in some}
           after == [tick[k] EXCEPT !.at = "dispatch", !.rows = read]
<1>2. UNCHANGED <<clock, timer, occurrence, change>> /\ tick' = [tick EXCEPT ![k] = after]
  BY <1>1 DEF ScanDue
<1>3. ASSUME NEW row \in read PROVE row \in DueRows /\ RowIsTrue(row, tick[k].now)
  <2>1. PICK t \in some : row = [of |-> t, next |-> timer[t].next]
    BY <1>3
  <2>2. t \in Timers /\ timer[t].status = "enabled" /\ timer[t].next <= tick[k].now /\ timer[t].next \in Nat
    BY <1>1, <2>1 DEF DueAt, ScheduleInv, ScheduleTypeOK, TimerRows
  <2>3. QED
    BY <2>1, <2>2 DEF DueRows, RowIsTrue
<1>4. tick[k] \in TickRows /\ read \subseteq DueRows
  BY <1>3 DEF ScheduleInv, ScheduleTypeOK
<1> HIDE DEF read
<1>5. after \in TickRows /\ after.rows = read /\ after.now = tick[k].now
  BY <1>4 DEF TickRows
<1> HIDE DEF after
<1>6. ScheduleTypeOK' /\ \A a \in Admins : AskedIsTrue(change'[a])
  BY <1>2, <1>5 DEF ScheduleInv, ScheduleTypeOK
<1>7. \A j \in Ticks : \A row \in tick'[j].rows : row \in DueRows /\ RowIsTrue(row, tick'[j].now)
  BY <1>2, <1>3, <1>5, OtherTicks
<1>8. QED
  BY <1>2, <1>6, <1>7, NothingMoves, SameDispatches

LEMMA ProcessKeeps == ASSUME ScheduleInv, NEW k \in Ticks, ProcessPending(k) PROVE ScheduleInv'
<1>1. /\ UNCHANGED <<clock, timer, change>> /\ tick' = [tick EXCEPT ![k] = IdleTick]
      /\ occurrence' = {Leased(o) : o \in occurrence}
  BY DEF ProcessPending
<1>2. IdleTick \in TickRows /\ IdleTick.rows = {}
  BY DEF IdleTick, TickRows
<1> DEFINE label == [o \in occurrence |-> Leased(o)]
<1>3. /\ label \in [occurrence -> OccurrenceRows] /\ occurrence' = {label[o] : o \in occurrence}
      /\ \A o \in occurrence : label[o].of = o.of /\ label[o].at = o.at /\ label[o].skipped = o.skipped
  BY <1>1, LabelsTyped DEF ScheduleInv
<1> HIDE DEF label
<1>4. /\ occurrence' \subseteq OccurrenceRows
      /\ \A t \in Timers : /\ \A o \in Of(t)' : Dispatched(t, o)
                           /\ \A o \in Of(t) : Dispatched(t, o)'
                           /\ \A o, p \in Of(t)' : o.at = p.at => o = p
  BY <1>3, RelabelledDispatches
<1>5. ScheduleTypeOK' /\ \A a \in Admins : AskedIsTrue(change'[a])
  BY <1>1, <1>2, <1>4 DEF ScheduleInv, ScheduleTypeOK
<1>6. QED
  BY <1>1, <1>2, <1>4, <1>5, OtherTicks, NothingMoves

\* What coalescing does with a row that is due.
LEMMA NextIsAfter ==
  ASSUME ScheduleInv, NEW k \in Ticks, NEW row \in tick[k].rows
  PROVE  LET n == Occurrences(row, tick[k].now)
         IN /\ n \in Nat \ {0} /\ Interval[row.of] \in Nat \ {0}
            /\ n * Interval[row.of] \in Nat \ {0} /\ n * Interval[row.of] = (n - 1 + 1) * Interval[row.of]
            /\ NextAfter(row, tick[k].now) = row.next + n * Interval[row.of]
            /\ NextAfter(row, tick[k].now) \in Nat /\ row.next < NextAfter(row, tick[k].now)
<1> DEFINE d == Interval[row.of]
           now == tick[k].now
           n == Occurrences(row, now)
<1>1. row.of \in Timers /\ row.next \in Nat /\ now \in Nat /\ row.next <= now /\ d \in Nat \ {0}
  BY KeptRows, ScheduleAssumption DEF RowIsTrue, DueRows, ScheduleInv, ScheduleTypeOK, TickRows
<1>2. n \in Nat \ {0}
  <2>1. now - row.next \in Nat
    BY <1>1
  <2>2. (now - row.next) \div d \in Nat
    BY <2>1, <1>1, WholeSteps
  <2>3. QED
    BY <2>2 DEF Occurrences
<1>3. NextAfter(row, now) = row.next + n * d
  BY DEF NextAfter
<1> HIDE DEF n, d, now
<1>4. n * d \in Nat /\ 0 < n * d
  <2>1. 0 * d + d <= n * d /\ 0 * d = 0
    BY <1>1, <1>2, FewerSteps
  <2>2. QED
    BY <2>1, <1>1, <1>2, StepsNatural
<1>5. n - 1 + 1 = n
  BY <1>2
<1>6. QED
  BY <1>1, <1>2, <1>3, <1>4, <1>5 DEF n, d, now

LEMMA EndsLater == ASSUME ScheduleTypeOK, NEW t \in Timers, NEW o \in Of(t) PROVE o.at < EndOf(o)
<1>1. o.at \in Nat /\ o.skipped \in Nat /\ o.of = t /\ Interval[t] \in Nat \ {0}
  BY GridTypes
<1>2. 0 * Interval[t] + Interval[t] <= (o.skipped + 1) * Interval[t] /\ 0 * Interval[t] = 0
      /\ (o.skipped + 1) * Interval[t] \in Nat
  <2>1. o.skipped + 1 \in Nat /\ 0 < o.skipped + 1
    BY <1>1
  <2>2. QED
    BY <2>1, <1>1, FewerSteps, StepsNatural
<1>3. QED
  BY <1>1, <1>2 DEF EndOf

\* A row whose trigger has moved on has its dispatch already.
LEMMA StaleKeeps ==
  ASSUME ScheduleInv, NEW k \in Ticks, NEW row \in tick[k].rows,
         UNCHANGED <<clock, timer, occurrence, change>>,
         \/ tick' = [tick EXCEPT ![k] = IdleTick]
         \/ tick' = [tick EXCEPT ![k].rows = @ \ {row}]
  PROVE  ScheduleInv'
<1>1. tick[k] \in TickRows /\ IdleTick \in TickRows /\ IdleTick.rows = {}
  BY DEF ScheduleInv, ScheduleTypeOK, IdleTick, TickRows
<1>2. PICK after \in TickRows : /\ tick' = [tick EXCEPT ![k] = after]
                                /\ after.rows = {} \/ (after.rows \subseteq tick[k].rows /\ after.now = tick[k].now)
  <2>1. CASE tick' = [tick EXCEPT ![k] = IdleTick]
    BY <2>1, <1>1
  <2>2. CASE tick' = [tick EXCEPT ![k].rows = @ \ {row}]
    <3> DEFINE after == [tick[k] EXCEPT !.rows = @ \ {row}]
    <3>1. after \in TickRows /\ after.rows = tick[k].rows \ {row} /\ after.now = tick[k].now
      BY <1>1 DEF TickRows
    <3>2. tick' = [tick EXCEPT ![k] = after]
      BY <2>2
    <3>3. QED
      BY <3>1, <3>2
  <2>3. QED
    BY <2>1, <2>2
<1>3. \A other \in after.rows : other \in DueRows /\ RowIsTrue(other, after.now)
  BY <1>2, KeptRows
<1>4. ScheduleTypeOK' /\ \A a \in Admins : AskedIsTrue(change'[a])
  BY <1>2 DEF ScheduleInv, ScheduleTypeOK
<1>5. \A j \in Ticks : \A other \in tick'[j].rows : other \in DueRows /\ RowIsTrue(other, tick'[j].now)
  BY <1>2, <1>3, OtherTicks
<1>6. QED
  BY <1>4, <1>5, NothingMoves, SameDispatches

RowDone(k, row) == tick' = [tick EXCEPT ![k].rows = @ \ {row}]

\* A trigger that moves on leaves one dispatch behind, which covers what it passed.
LEMMA MoveKeeps ==
  ASSUME ScheduleInv, NEW k \in Ticks, NEW row \in tick[k].rows, NEW n \in Nat \ {0}, NEW next \in Nat,
         NEW new, NEW t \in Timers, t = row.of,
         new = [of |-> t, at |-> row.next, status |-> "pending", skipped |-> n - 1],
         timer[t].next = row.next, timer[t].status = "enabled",
         next = row.next + n * Interval[t], row.next < next,
         timer' \in [Timers -> TimerRows], \A u \in Timers : u # t => timer'[u] = timer[u],
         timer'[t].next = next, timer'[t].first = timer[t].first, timer'[t].status = "enabled",
         occurrence' = occurrence \union {new}, UNCHANGED <<clock, change>>, RowDone(k, row)
  PROVE  ScheduleInv'
<1>1. ScheduleTypeOK /\ Accounted(t) /\ Interval[t] \in Nat \ {0} /\ row.next \in Nat
  BY ScheduleAssumption DEF ScheduleInv, ScheduleTypeOK, TimerRows
<1>2. /\ new \in OccurrenceRows /\ new.of = t /\ new.at = row.next /\ new.skipped = n - 1
      /\ EndOf(new) = next /\ new.skipped + 1 = n
  BY <1>1 DEF OccurrenceRows, EndOf
<1>3. /\ Of(t)' = Of(t) \union {new}
      /\ \A u \in Timers : u # t => Of(u)' = Of(u)
      /\ \A o : EndOf(o)' = EndOf(o)
  BY <1>2 DEF Of, EndOf
<1>4. \A x : OnGrid(t, x)' <=> OnGrid(t, x)
  BY DEF OnGrid
<1>5. ScheduleTypeOK'
  <2>1. tick[k] \in TickRows
    BY <1>1 DEF ScheduleTypeOK
  <2>2. [tick[k] EXCEPT !.rows = @ \ {row}] \in TickRows
    BY <2>1 DEF TickRows
  <2>3. tick' \in [Ticks -> TickRows]
    BY <2>2, <1>1 DEF ScheduleTypeOK, RowDone
  <2>4. QED
    BY <2>3, <1>1, <1>2 DEF ScheduleTypeOK
<1>6. OnGrid(t, next)
  <2>1. PICK m \in Nat : row.next = timer[t].first + m * Interval[t]
    BY <1>1 DEF Accounted, OnGrid
  <2>2. (m + n) * Interval[t] = m * Interval[t] + n * Interval[t] /\ m * Interval[t] \in Int
        /\ n * Interval[t] \in Int /\ m + n \in Nat
    BY <1>1, StepsAdd
  <2>3. timer[t].first \in Nat
    BY <1>1, GridTypes
  <2>4. next = timer[t].first + (m + n) * Interval[t]
    BY <2>1, <2>2, <2>3
  <2>5. QED
    BY <2>2, <2>4 DEF OnGrid
<1>7. \A o \in Of(t) : o.at \in Nat /\ EndOf(o) \in Nat /\ EndOf(o) <= row.next /\ OnGrid(t, o.at)
  BY <1>1, GridTypes DEF Accounted
<1>8. Accounted(t)'
  <2>1. OnGrid(t, row.next)
    BY <1>1 DEF Accounted
  <2>2. \A o \in Of(t)' : OnGrid(t, o.at) /\ EndOf(o) <= next
    BY <2>1, <1>1, <1>2, <1>3, <1>7
  <2>3. \A o, p \in Of(t)' : o.at # p.at => EndOf(o) <= p.at \/ EndOf(p) <= o.at
    BY <1>1, <1>2, <1>3, <1>7 DEF Accounted
  <2>0. \A o, p \in Of(t)' : o.at = p.at => o = p
    <3>1. \A o \in Of(t) : o.at < EndOf(o)
      BY <1>1, EndsLater
    <3>2. \A o \in Of(t) : o.at # row.next
      BY <3>1, <1>1, <1>7
    <3>3. QED
      BY <3>2, <1>1, <1>2, <1>3 DEF Accounted
  <2>4. ASSUME NEW x \in Nat, OnGrid(t, x), x < next PROVE \E o \in Of(t)' : o.at <= x /\ x < EndOf(o)
    <3>1. CASE x < row.next
      BY <3>1, <2>4, <1>1, <1>3 DEF Accounted
    <3>2. CASE ~(x < row.next)
      BY <3>2, <2>4, <1>1, <1>2, <1>3
    <3>3. QED
      BY <3>1, <3>2
  <2>5. QED
    BY <2>0, <2>2, <2>3, <2>4, <1>3, <1>4, <1>6 DEF Accounted
<1>9. ASSUME NEW u \in Timers, timer'[u].status # "none" PROVE Accounted(u)'
  <2>1. CASE u = t
    BY <2>1, <1>8
  <2>2. CASE u # t
    <3>1. Accounted(u) /\ timer'[u] = timer[u]
      BY <2>2, <1>9 DEF ScheduleInv
    <3>2. QED
      BY <3>1, <2>2, <1>3 DEF Accounted, OnGrid
  <2>3. QED
    BY <2>1, <2>2
<1>10. ASSUME NEW j \in Ticks, NEW other \in tick'[j].rows PROVE RowIsTrue(other, tick[j].now)'
  <2>1. other \in tick[j].rows /\ tick'[j].now = tick[j].now
    BY <1>1, <1>10 DEF ScheduleTypeOK, TickRows, RowDone
  <2>2. other \in DueRows /\ RowIsTrue(other, tick[j].now)
    BY <2>1, KeptRows
  <2>3. CASE other.of # t
    BY <2>1, <2>2, <2>3, <1>3 DEF RowIsTrue, DueRows
  <2>4. CASE other.of = t
    <3>1. other.next <= row.next /\ other.next \in Nat
      BY <2>2, <2>4 DEF RowIsTrue, DueRows
    <3>2. \E o \in Of(t)' : o.at = other.next
      <4>1. CASE other.next = row.next
        BY <4>1, <1>2, <1>3
      <4>2. CASE other.next < row.next
        BY <4>2, <2>2, <2>4, <1>3 DEF RowIsTrue
      <4>3. QED
        BY <3>1, <4>1, <4>2, <1>1
    <3>3. QED
      BY <3>1, <3>2, <2>1, <2>2, <2>4, <1>1 DEF RowIsTrue
  <2>5. QED
    BY <2>3, <2>4
<1>11. \A u \in Timers : timer'[u].status = "none" => Of(u)' = {}
  BY <1>3 DEF ScheduleInv
<1>12. ASSUME NEW a \in Admins PROVE AskedIsTrue(change[a])'
  <2>1. change[a] = IdleChange \/ change[a].of \in Timers
    BY <1>1 DEF ScheduleTypeOK, Changes
  <2>2. QED
    BY <2>1 DEF AskedIsTrue, ScheduleInv
<1>13. QED
  BY <1>5, <1>9, <1>10, <1>11, <1>12 DEF ScheduleInv

LEMMA DispatchKeeps == ASSUME ScheduleInv, NEW k \in Ticks, DispatchDue(k) PROVE ScheduleInv'
<1> DEFINE now == tick[k].now
<1>1. PICK row \in tick[k].rows :
        /\ UNCHANGED <<clock, change>>
        /\ IF TooFarBehind(row, now)
           THEN tick' = [tick EXCEPT ![k] = IdleTick] /\ UNCHANGED <<timer, occurrence>>
           ELSE /\ timer' = [timer EXCEPT ![row.of] = Moved(k, row)]
                /\ occurrence' =
                     IF /\ Moved(k, row).status = "enabled" /\ Moved(k, row).updated = now
                        /\ Moved(k, row).next = NextAfter(row, now)
                        /\ ~\E o \in occurrence : o.of = row.of /\ o.at = row.next
                     THEN occurrence \union {[of |-> row.of, at |-> row.next, status |-> "pending",
                                              skipped |-> Occurrences(row, now) - 1]}
                     ELSE occurrence
                /\ tick' = [tick EXCEPT ![k].rows = @ \ {row}]
  BY DEF DispatchDue
<1> DEFINE t == row.of
           n == Occurrences(row, now)
           next == NextAfter(row, now)
<1>2. /\ t \in Timers /\ timer[t] \in TimerRows /\ now \in Nat /\ ScheduleTypeOK
      /\ RowIsTrue(row, now) /\ row.next \in Nat
  BY KeptRows DEF DueRows, ScheduleInv, ScheduleTypeOK, TickRows
<1>3. n \in Nat \ {0} /\ next \in Nat /\ next = row.next + n * Interval[t] /\ row.next < next
  BY NextIsAfter
<1>4. CASE TooFarBehind(row, now)
  BY <1>1, <1>4, StaleKeeps
<1>5. CASE ~TooFarBehind(row, now) /\ ~Moves(k, row)
  <2>1. Moved(k, row) = timer[t]
    BY <1>5 DEF Moved
  <2>2. timer' = timer
    BY <2>1, <1>1, <1>2, <1>5 DEF ScheduleTypeOK
  <2>3. occurrence' = occurrence
    <3>1. timer[t].next = next => \E o \in occurrence : o.of = t /\ o.at = row.next
      BY <1>2, <1>3 DEF RowIsTrue, Of
    <3>2. QED
      BY <3>1, <2>1, <1>1, <1>5
  <2>4. QED
    BY <2>2, <2>3, <1>1, <1>5, StaleKeeps
<1>6. CASE ~TooFarBehind(row, now) /\ Moves(k, row)
  <2>1. timer[t].status = "enabled" /\ timer[t].next = row.next
    BY <1>6 DEF Moves
  <2>2. /\ Moved(k, row) \in TimerRows /\ Moved(k, row).status = "enabled" /\ Moved(k, row).updated = now
        /\ Moved(k, row).next = next /\ Moved(k, row).first = timer[t].first
    <3>1. timer[t].version + 1 \in Nat
      BY <1>2 DEF TimerRows
    <3>2. QED
      BY <3>1, <2>1, <1>2, <1>3, <1>6 DEF Moved, TimerRows
  <2>3. ~\E o \in occurrence : o.of = t /\ o.at = row.next
    <3> SUFFICES ASSUME NEW o \in Of(t) PROVE o.at # row.next
      BY DEF Of
    <3>1. EndOf(o) <= row.next /\ o.at < EndOf(o) /\ o.at \in Nat /\ EndOf(o) \in Nat
      BY <2>1, <1>2, EndsLater, GridTypes DEF ScheduleInv, Accounted
    <3>2. QED
      BY <3>1, <1>2
  <2>4. timer' = [timer EXCEPT ![t] = Moved(k, row)] /\ RowDone(k, row) /\ UNCHANGED <<clock, change>>
        /\ occurrence' = occurrence \union {[of |-> t, at |-> row.next, status |-> "pending", skipped |-> n - 1]}
    BY <2>2, <2>3, <1>1, <1>6 DEF RowDone
  <2>5. /\ timer' \in [Timers -> TimerRows] /\ \A u \in Timers : u # t => timer'[u] = timer[u]
        /\ timer'[t].next = next /\ timer'[t].first = timer[t].first /\ timer'[t].status = "enabled"
    BY <2>2, <2>4, <1>2 DEF ScheduleTypeOK
  <2> DEFINE new == [of |-> t, at |-> row.next, status |-> "pending", skipped |-> n - 1]
  <2>6. new = [of |-> t, at |-> row.next, status |-> "pending", skipped |-> n - 1] /\ t = row.of
        /\ occurrence' = occurrence \union {new}
    BY <2>4
  <2> HIDE DEF n, next, now, t, new
  <2>7. QED
    BY <2>1, <2>4, <2>5, <2>6, <1>2, <1>3, MoveKeeps
<1>7. QED
  BY <1>4, <1>5, <1>6

\* Every occurrence a trigger has passed belongs to exactly one dispatch, for any number
\* of triggers and ticks, however the ticks overlap and whoever pauses the trigger.
THEOREM OccurrencesAccounted == ScheduleSpec => []EveryOccurrenceOnce
<1>1. ScheduleInv /\ [ScheduleNext]_svars => ScheduleInv'
  <2> SUFFICES ASSUME ScheduleInv, [ScheduleNext]_svars PROVE ScheduleInv'
    OBVIOUS
  <2>1. CASE UNCHANGED svars
    <3>1. UNCHANGED <<clock, timer, occurrence, tick, change>>
      BY <2>1 DEF svars
    <3>2. ScheduleTypeOK' /\ \A a \in Admins : AskedIsTrue(change'[a])
      BY <3>1 DEF ScheduleInv, ScheduleTypeOK
    <3>3. QED
      BY <3>1, <3>2, NothingMoves, KeptRows, SameDispatches
  <2>2. QED
    BY <2>1, ClockKeeps, CreateKeeps, UpdateKeeps, AskChangeKeeps, BeginTickKeeps, ScanKeeps, DispatchKeeps, ProcessKeeps
    DEF ScheduleNext, TickStep
<1>2. QED
  BY <1>1, ScheduleStarts, AccountedOnce, PTL DEF ScheduleSpec
=============================================================================
