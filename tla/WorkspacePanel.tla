----------------------------- MODULE WorkspacePanel -----------------------------
(***************************************************************************)
(* The workspace panel of the web client: the members of the workspace,    *)
(* its retention policy and the export the user has created. The panel     *)
(* loads with several requests, its buttons look at one busy id, and a     *)
(* timer polls the export it shows.                                        *)
(***************************************************************************)
EXTENDS Naturals, Sequences

CONSTANTS
  PanelCalls,   \* slots of requests under way
  Members,      \* the other members
  PanelBudgets  \* bound: what the user does, what others do, requests that fail

VARIABLES
  access,   \* the control plane: role and status of each member
  policy,   \* the retention policy
  exports,  \* the status of each export, in the order they were created
  myRole,   \* the user's role
  open,
  members,  \* the members shown, NoMembers while none are
  owner,    \* currentMembership: the role shown
  retention,\* the policy shown, with what the user has typed; 0 if none is shown
  dataJob,  \* the export shown
  poll,     \* the timer is set
  broken,   \* the last poll failed
  busyId,   \* the button that waits
  pcall,    \* the requests, by slot
  pleft     \* what is left of the budget

remoteVars == <<access, policy, exports, myRole>>
panelState == <<open, members, owner, retention, dataJob, poll, broken, busyId>>
panelVars == <<remoteVars, panelState, pcall, pleft>>

NoMembers == [m \in Members |-> [role |-> "none", status |-> "none"]]
NoJob == [id |-> 0, status |-> "none"]
NoPanelCall == [pc |-> "none", kind |-> "none", of |-> "none", with |-> 0]
Active == {"queued", "running"}

PanelInit ==
  /\ access = [m \in Members |-> [role |-> "member", status |-> "active"]]
  /\ policy = 1 /\ exports = <<>> /\ myRole \in {"owner", "member"}
  /\ open = FALSE /\ members = NoMembers /\ owner = "none" /\ retention = 0
  /\ dataJob = NoJob /\ poll = FALSE /\ broken = FALSE /\ busyId = "none"
  /\ pcall = [c \in PanelCalls |-> NoPanelCall]
  /\ pleft \in PanelBudgets

Costs(what) == pleft[what] > 0 /\ pleft' = [pleft EXCEPT ![what] = @ - 1]
At(c, pc, kind) == pcall[c].pc = pc /\ pcall[c].kind = kind
Move(c, pc, with) == pcall' = [pcall EXCEPT ![c].pc = pc, ![c].with = with]
Leave(c) == pcall' = [pcall EXCEPT ![c] = NoPanelCall]
\* A new request, in the first free slot.
Request(kind, of, with) ==
  \E c \in PanelCalls :
    /\ pcall[c].pc = "none"
    /\ pcall' = [pcall EXCEPT ![c] = [pc |-> "sent", kind |-> kind, of |-> of, with |-> with]]

-----------------------------------------------------------------------------
(* The control plane.                                                      *)

(* The worker takes the export and ends it. *)
ExportRuns(j) ==
  /\ \/ exports[j] = "queued" /\ exports' = [exports EXCEPT ![j] = "running"]
     \/ exports[j] = "running" /\ \E s \in {"completed", "failed"} : exports' = [exports EXCEPT ![j] = s]
  /\ UNCHANGED <<access, policy, myRole, panelState, pcall, pleft>>

(* Another administrator changes a member, the policy or the user. *)
OthersChange ==
  /\ Costs("others")
  /\ \/ \E m \in Members : access' = [access EXCEPT ![m].status = "disabled"] /\ UNCHANGED <<policy, myRole>>
     \/ policy' = policy + 1 /\ UNCHANGED <<access, myRole>>
     \/ myRole' = "member" /\ myRole # myRole' /\ UNCHANGED <<access, policy>>
  /\ UNCHANGED <<exports, panelState, pcall>>

-----------------------------------------------------------------------------
(* Loading.                                                                *)

\* Mutant: only an export that is queued is polled.
PollsMutant(isOpen, job) == isOpen /\ job.status = "queued"
\* The effect on the export shown sets the timer.
Polls(isOpen, job) == isOpen /\ job.status \in Active

Open ==
  /\ ~open /\ Costs("asks")
  /\ open' = TRUE /\ poll' = Polls(TRUE, dataJob) /\ broken' = FALSE
  /\ Request("load", "none", 0)
  /\ UNCHANGED <<remoteVars, members, owner, retention, dataJob, busyId>>

Close ==
  /\ open /\ open' = FALSE /\ poll' = FALSE
  /\ UNCHANGED <<remoteVars, members, owner, retention, dataJob, broken, busyId, pcall, pleft>>

RefreshPanel ==
  /\ open /\ \A c \in PanelCalls : pcall[c].kind # "load"
  /\ Costs("asks") /\ Request("load", "none", 0)
  /\ UNCHANGED <<remoteVars, panelState>>

(* loadPanel: the members, which only owners and administrators may see,   *)
(* are read and shown; then the policy is. *)
ReadMembers(c) ==
  /\ At(c, "sent", "load") /\ Move(c, "members", [rows |-> access, role |-> myRole])
  /\ UNCHANGED <<remoteVars, panelState, pleft>>

ShowMembers(c) ==
  /\ At(c, "members", "load")
  /\ LET answer == pcall[c].with
         refused == answer.role = "member" IN
       /\ members' = IF refused THEN NoMembers ELSE answer.rows
       /\ owner' = IF refused THEN "none" ELSE answer.role
       /\ IF refused THEN Leave(c) ELSE Move(c, "policy", 0)
       /\ busyId' = IF refused /\ pcall[c].of # "none" THEN "none" ELSE busyId
  /\ UNCHANGED <<remoteVars, open, retention, dataJob, poll, broken, pleft>>

ReadPolicy(c) ==
  /\ At(c, "policy", "load") /\ Move(c, "shown", policy)
  /\ UNCHANGED <<remoteVars, panelState, pleft>>

(* The load ends; the change of a member it followed ends with it. *)
ShowPolicy(c) ==
  /\ At(c, "shown", "load")
  /\ retention' = pcall[c].with
  /\ busyId' = IF pcall[c].of # "none" THEN "none" ELSE busyId
  /\ Leave(c)
  /\ UNCHANGED <<remoteVars, open, members, owner, dataJob, poll, broken, pleft>>

-----------------------------------------------------------------------------
(* What the user may do. Only the controls of the member being changed are *)
(* disabled while it is; every other button waits for the busy id.         *)

Click(id) == open /\ Costs("asks") /\ busyId' = id
FreeToAct == busyId = "none"

(* updateMember sends the role and the status, the one not chosen as shown. *)
UpdateMember(m) ==
  /\ members[m].role # "none" /\ busyId # m
  /\ Click(m)
  /\ \E to \in {[members[m] EXCEPT !.role = "admin"],
                [members[m] EXCEPT !.status = IF @ = "active" THEN "disabled" ELSE "active"]} :
       Request("member", m, to)
  /\ UNCHANGED <<remoteVars, open, members, owner, retention, dataJob, poll, broken>>

(* Then the panel loads again, and the change ends with the load. *)
MemberUpdated(c) ==
  /\ At(c, "sent", "member")
  /\ IF myRole = "owner"
     THEN /\ access' = [access EXCEPT ![pcall[c].of] = pcall[c].with]
          /\ pcall' = [pcall EXCEPT ![c] = [pc |-> "sent", kind |-> "load", of |-> pcall[c].of, with |-> 0]]
          /\ UNCHANGED busyId
     ELSE Leave(c) /\ busyId' = "none" /\ UNCHANGED access
  /\ UNCHANGED <<policy, exports, myRole, open, members, owner, retention, dataJob, poll, broken, pleft>>

(* The user types another number of days; confirmRetention sends them all. *)
EditRetention ==
  /\ open /\ retention > 0 /\ Costs("asks") /\ retention' = retention + 1
  /\ UNCHANGED <<remoteVars, open, members, owner, dataJob, poll, broken, busyId, pcall>>

ConfirmRetention ==
  /\ retention > 0 /\ FreeToAct /\ Click("retention")
  /\ Request("policy", "none", retention)
  /\ UNCHANGED <<remoteVars, open, members, owner, retention, dataJob, poll, broken>>

RetentionConfirmed(c) ==
  /\ At(c, "sent", "policy")
  /\ IF myRole = "owner" THEN policy' = pcall[c].with /\ retention' = pcall[c].with
                      ELSE UNCHANGED <<policy, retention>>
  /\ busyId' = "none" /\ Leave(c)
  /\ UNCHANGED <<access, exports, myRole, open, members, owner, dataJob, poll, broken, pleft>>

CreateDataExport ==
  /\ owner # "none" /\ FreeToAct /\ Click("export")
  /\ Request("export", "none", 0)
  /\ UNCHANGED <<remoteVars, open, members, owner, retention, dataJob, poll, broken>>

ExportCreated(c) ==
  /\ At(c, "sent", "export")
  /\ exports' = Append(exports, "queued")
  /\ Move(c, "answered", [id |-> Len(exports) + 1, status |-> "queued"])
  /\ UNCHANGED <<access, policy, myRole, panelState, pleft>>

\* The panel shows an export, and the effect runs again.
ShowJob(job) == dataJob' = job /\ poll' = Polls(open, job) /\ broken' = FALSE

ExportShown(c) ==
  /\ At(c, "answered", "export")
  /\ ShowJob(pcall[c].with) /\ busyId' = "none" /\ Leave(c)
  /\ UNCHANGED <<remoteVars, open, members, owner, retention, pleft>>

(* The timer fires and the export shown is read; the answer is shown,      *)
(* whatever is shown by then. *)
PollFires ==
  /\ poll /\ poll' = FALSE /\ Request("poll", "none", dataJob.id)
  /\ UNCHANGED <<remoteVars, open, members, owner, retention, dataJob, broken, busyId, pleft>>

ReadExport(c) ==
  /\ At(c, "sent", "poll")
  /\ Move(c, "answered", [id |-> pcall[c].with, status |-> exports[pcall[c].with]])
  /\ UNCHANGED <<remoteVars, panelState, pleft>>

PollAnswered(c) ==
  /\ At(c, "answered", "poll")
  /\ ShowJob(pcall[c].with) /\ Leave(c)
  /\ UNCHANGED <<remoteVars, open, members, owner, retention, busyId, pleft>>

(* switchAccount, switchWorkspace, createWorkspace, requestDeletion: the   *)
(* page is loaded anew when they succeed. *)
Switch ==
  /\ FreeToAct /\ Click("switch") /\ Request("switch", "none", 0)
  /\ UNCHANGED <<remoteVars, open, members, owner, retention, dataJob, poll, broken>>

PageReloads(c) ==
  /\ At(c, "sent", "switch")
  /\ open' = FALSE /\ members' = NoMembers /\ owner' = "none" /\ retention' = 0
  /\ dataJob' = NoJob /\ poll' = FALSE /\ broken' = FALSE /\ busyId' = "none"
  /\ pcall' = [d \in PanelCalls |-> NoPanelCall]
  /\ UNCHANGED <<remoteVars, pleft>>

(* A request fails: its error is shown. What a load had shown stays; a     *)
(* poll that fails is not made again. *)
RequestFails(c) ==
  /\ pcall[c].pc # "none" /\ Costs("faults")
  /\ broken' = (broken \/ pcall[c].kind = "poll")
  /\ busyId' = IF pcall[c].kind = "poll" \/ (pcall[c].kind = "load" /\ pcall[c].of = "none") THEN busyId ELSE "none"
  /\ Leave(c)
  /\ UNCHANGED <<remoteVars, open, members, owner, retention, dataJob, poll>>

Continues(c) ==
  \/ ReadMembers(c) \/ ShowMembers(c) \/ ReadPolicy(c) \/ ShowPolicy(c) \/ MemberUpdated(c)
  \/ RetentionConfirmed(c) \/ ExportCreated(c) \/ ExportShown(c) \/ ReadExport(c) \/ PollAnswered(c) \/ PageReloads(c)

PanelNext ==
  \/ OthersChange \/ Open \/ Close \/ RefreshPanel \/ EditRetention \/ ConfirmRetention
  \/ CreateDataExport \/ PollFires \/ Switch
  \/ \E j \in DOMAIN exports : ExportRuns(j)
  \/ \E m \in Members : UpdateMember(m)
  \/ \E c \in PanelCalls : Continues(c) \/ RequestFails(c)

(* Exports end, timers fire and requests are answered. *)
PanelFairness ==
  /\ WF_panelVars(PollFires)
  /\ WF_panelVars(\E j \in DOMAIN exports : ExportRuns(j))
  /\ WF_panelVars(\E c \in PanelCalls : Continues(c))

-----------------------------------------------------------------------------
(* An export shown as under way does not stay so: whatever answers arrive  *)
(* in which order, the panel comes to show how it ended, unless the panel  *)
(* is closed or a poll failed.                                             *)
ExportShownReady ==
  [](dataJob.status \in Active => <>(dataJob.status \notin Active \/ ~open \/ broken))
================================================================================
