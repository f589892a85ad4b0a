--------------------------- MODULE ConnectionBroker ---------------------------
(***************************************************************************)
(* One external connection of an agent: its row, the credential in the     *)
(* vault, the OAuth authorizations in progress and the single-use          *)
(* capabilities handed to Fly. Every handler reads the row, calls the      *)
(* vault and the provider, and writes the row, each in a call of its own,  *)
(* and any number of them overlap.                                         *)
(*                                                                         *)
(* The provider (external) rotates refresh tokens: each exchange issues a  *)
(* new one and takes only the newest.                                      *)
(***************************************************************************)
EXTENDS Naturals, Sequences, FiniteSets, CredentialVault

CONSTANTS
  Calls,         \* concurrent invocations of the handlers
  States,        \* OAuth states
  Capabilities,  \* capabilities for Fly
  Nobody,        \* no owner of the refresh lease
  LeaseOutlivesRefresh, \* the thirty seconds do not end under a refresh
  BrokerBudgets  \* bounds: requests, failing calls, lost invocations

ASSUME BrokerAssumption ==
  /\ Nobody \notin Calls
  /\ "" \notin States \cup Capabilities /\ States \cap Capabilities = {}
  /\ LeaseOutlivesRefresh \in BOOLEAN
  /\ BrokerBudgets \subseteq [requests : Nat, errors : Nat, lost : Nat]

VARIABLES
  kind,    \* the credential class of the connection's descriptor
  conn,    \* the control_connections row
  secrets, \* the vault's credentials
  holds,   \* the refresh token in each of them
  issued,  \* the newest refresh token of the provider
  oauth,   \* control_connection_oauth_states and the PKCE verifiers
  cap,     \* control_connection_capabilities
  running, \* the run the capabilities belong to is running
  op,      \* the handlers' invocations
  history, \* exchanges made with each state, requests made with each capability
  bleft    \* what is left of the bounds

bvars == <<kind, conn, secrets, holds, issued, oauth, cap, running, op, history, bleft>>
vaultVars == <<secrets, holds>>

NoConnection == [status |-> "none", ref |-> NoRef, expired |-> FALSE, lease |-> Nobody, live |-> FALSE]
IdleOp == [pc |-> "idle", all |-> FALSE, on |-> "", seen |-> NoRef, status |-> "none", ref |-> NoRef, token |-> 0]

BrokerInit ==
  /\ kind \in {"oauth2", "api_key"}
  /\ conn = NoConnection
  /\ secrets = EmptyVault
  /\ holds = <<>>
  /\ issued = 0
  /\ oauth = [s \in States |-> [row |-> "none", verifier |-> FALSE, expired |-> FALSE]]
  /\ cap = [k \in Capabilities |-> "none"]
  /\ running = TRUE
  /\ op = [q \in Calls |-> IdleOp]
  /\ history = [x \in States \cup Capabilities |-> 0]
  /\ bleft \in BrokerBudgets

At(q, pc) == op[q].pc = pc
Begin(q, call) ==
  /\ At(q, "idle") /\ bleft.requests > 0
  /\ bleft' = [bleft EXCEPT !.requests = @ - 1]
  /\ op' = [op EXCEPT ![q] = call]
Go(q, pc) == op' = [op EXCEPT ![q].pc = pc]
Done(q) == op' = [op EXCEPT ![q] = IdleOp]
Fails == bleft.errors > 0 /\ bleft' = [bleft EXCEPT !.errors = @ - 1]

Create(token) == secrets' = AfterCreate(secrets) /\ holds' = Append(holds, token)
Replace(ref, token) ==
  /\ CanReplace(secrets, ref)
  /\ secrets' = AfterReplace(secrets, ref)
  /\ holds' = [holds EXCEPT ![ref.id] = token]

(* vault.replace when the row that was read names a credential, else       *)
(* vault.create; refused, it throws.                                       *)
Stores(q, token, next, thrown) ==
  IF op[q].seen = NoRef
  THEN /\ Create(token)
       /\ op' = [op EXCEPT ![q].pc = next, ![q].ref = Created(secrets)]
  ELSE \/ /\ Replace(op[q].seen, token)
          /\ op' = [op EXCEPT ![q].pc = next, ![q].ref = Replaced(op[q].seen)]
       \/ /\ ~CanReplace(secrets, op[q].seen)
          /\ thrown
          /\ UNCHANGED vaultVars

-----------------------------------------------------------------------------
(* handleStartConnectionAuthorization                                      *)

StartVerifier(q, s) ==
  /\ kind = "oauth2" /\ oauth[s].row = "none" /\ ~oauth[s].verifier
  /\ Begin(q, [IdleOp EXCEPT !.pc = "start", !.on = s])
  /\ oauth' = [oauth EXCEPT ![s].verifier = TRUE]
  /\ UNCHANGED <<kind, conn, vaultVars, issued, cap, running, history>>

StartCommit(q) ==
  /\ At(q, "start")
  /\ \/ /\ conn' = [conn EXCEPT !.status = "authorization_required"]
        /\ oauth' = [oauth EXCEPT ![op[q].on].row = "open"]
        /\ UNCHANGED bleft
     \/ /\ Fails
        /\ oauth' = [oauth EXCEPT ![op[q].on].verifier = FALSE]
        /\ UNCHANGED conn
  /\ Done(q)
  /\ UNCHANGED <<kind, vaultVars, issued, cap, running, history>>

-----------------------------------------------------------------------------
(* handleCompleteConnectionAuthorization                                   *)

OpenState(s) == oauth[s].row = "open" /\ ~oauth[s].expired

CompleteRead(q, s) ==
  /\ OpenState(s)
  /\ Begin(q, [IdleOp EXCEPT !.pc = "claim", !.on = s])
  /\ UNCHANGED <<kind, conn, vaultVars, issued, oauth, cap, running, history>>

\* Mutant: the state is claimed without looking at it again.
CompleteClaimMutant(q) ==
  /\ At(q, "claim")
  /\ oauth' = [oauth EXCEPT ![op[q].on].row = "used"]
  /\ Go(q, "connection")
  /\ UNCHANGED <<kind, conn, vaultVars, issued, cap, running, history, bleft>>

CompleteClaim(q) ==
  /\ At(q, "claim")
  /\ IF OpenState(op[q].on)
     THEN oauth' = [oauth EXCEPT ![op[q].on].row = "used"] /\ Go(q, "connection")
     ELSE Done(q) /\ UNCHANGED oauth
  /\ UNCHANGED <<kind, conn, vaultVars, issued, cap, running, history, bleft>>

CompleteConnection(q) ==
  /\ At(q, "connection")
  /\ op' = [op EXCEPT ![q].pc = "verifier", ![q].seen = conn.ref]
  /\ UNCHANGED <<kind, conn, vaultVars, issued, oauth, cap, running, history, bleft>>

CompleteVerifier(q) ==
  /\ At(q, "verifier")
  /\ \/ oauth[op[q].on].verifier /\ Go(q, "exchange") /\ UNCHANGED bleft
     \/ ~oauth[op[q].on].verifier /\ Go(q, "unhealthy") /\ UNCHANGED bleft
     \/ Fails /\ Go(q, "unhealthy")
  /\ UNCHANGED <<kind, conn, vaultVars, issued, oauth, cap, running, history>>

(* The provider answers with a credential, which is dropped when a scope   *)
(* that was asked for is missing; or it does not answer.                   *)
CompleteExchange(q) ==
  /\ At(q, "exchange")
  /\ \/ /\ issued' = issued + 1
        /\ history' = [history EXCEPT ![op[q].on] = @ + 1]
        /\ \/ op' = [op EXCEPT ![q].pc = "store", ![q].token = issued + 1]
           \/ Go(q, "unhealthy")
        /\ UNCHANGED bleft
     \/ /\ Fails
        /\ Go(q, "unhealthy")
        /\ UNCHANGED <<issued, history>>
  /\ UNCHANGED <<kind, conn, vaultVars, oauth, cap, running>>

CompleteStore(q) ==
  /\ At(q, "store")
  /\ Stores(q, op[q].token, "authorize", Go(q, "unhealthy"))
  /\ UNCHANGED <<kind, conn, issued, oauth, cap, running, history, bleft>>

(* The update looks at nothing but the row's id.                           *)
CompleteAuthorize(q) ==
  /\ At(q, "authorize")
  /\ \/ /\ conn' = [conn EXCEPT !.status = "authorized", !.ref = op[q].ref, !.expired = FALSE]
        /\ Go(q, "clean")
        /\ UNCHANGED bleft
     \/ Fails /\ Go(q, "unhealthy") /\ UNCHANGED conn
  /\ UNCHANGED <<kind, vaultVars, issued, oauth, cap, running, history>>

Cleaned(s) == [oauth EXCEPT ![s] = [row |-> "gone", verifier |-> FALSE, expired |-> FALSE]]

CompleteClean(q) ==
  /\ At(q, "clean")
  /\ oauth' = Cleaned(op[q].on)
  /\ Done(q)
  /\ UNCHANGED <<kind, conn, vaultVars, issued, cap, running, history, bleft>>

CompleteFailed(q) ==
  /\ At(q, "unhealthy")
  /\ oauth' = Cleaned(op[q].on)
  /\ conn' = [conn EXCEPT !.status = "unhealthy"]
  /\ Done(q)
  /\ UNCHANGED <<kind, vaultVars, issued, cap, running, history, bleft>>

-----------------------------------------------------------------------------
(* handleStoreConnectionCredential: an API key.                            *)

StoreRead(q) ==
  /\ kind = "api_key"
  /\ Begin(q, [IdleOp EXCEPT !.pc = "put", !.seen = conn.ref])
  /\ UNCHANGED <<kind, conn, vaultVars, issued, oauth, cap, running, history>>

StoreSecret(q) ==
  /\ At(q, "put")
  /\ Stores(q, 0, "upsert", Done(q))
  /\ UNCHANGED <<kind, conn, issued, oauth, cap, running, history, bleft>>

(* A batch that fails takes back a credential it has created.              *)
StoreCommit(q) ==
  /\ At(q, "upsert")
  /\ \/ /\ conn' = [conn EXCEPT !.status = "authorized", !.ref = op[q].ref]
        /\ UNCHANGED <<secrets, bleft>>
     \/ /\ Fails
        /\ secrets' = IF op[q].seen = NoRef THEN AfterDelete(secrets, op[q].ref) ELSE secrets
        /\ UNCHANGED conn
  /\ Done(q)
  /\ UNCHANGED <<kind, holds, issued, oauth, cap, running, history>>

-----------------------------------------------------------------------------
(* handleRefreshConnection: the row is read before the lease is taken.     *)

RefreshRead(q) ==
  /\ kind = "oauth2" /\ conn.ref # NoRef
  /\ Begin(q, [IdleOp EXCEPT !.pc = "lease", !.seen = conn.ref])
  /\ UNCHANGED <<kind, conn, vaultVars, issued, oauth, cap, running, history>>

RefreshClaim(q) ==
  /\ At(q, "lease")
  /\ IF conn.live
     THEN Done(q) /\ UNCHANGED conn
     ELSE Go(q, "token") /\ conn' = [conn EXCEPT !.lease = q, !.live = TRUE]
  /\ UNCHANGED <<kind, vaultVars, issued, oauth, cap, running, history, bleft>>

RefreshToken(q) ==
  /\ At(q, "token")
  /\ IF Stored(secrets, op[q].seen.id)
     THEN op' = [op EXCEPT ![q].pc = "refresh", ![q].token = holds[op[q].seen.id]]
     ELSE Go(q, "required")
  /\ UNCHANGED <<kind, conn, vaultVars, issued, oauth, cap, running, history, bleft>>

RefreshExchange(q) ==
  /\ At(q, "refresh")
  /\ \/ /\ op[q].token = issued
        /\ issued' = issued + 1
        /\ op' = [op EXCEPT ![q].pc = "replace", ![q].token = issued + 1]
        /\ UNCHANGED bleft
     \/ /\ IF op[q].token = issued THEN Fails ELSE UNCHANGED bleft
        /\ Go(q, "required")
        /\ UNCHANGED issued
  /\ UNCHANGED <<kind, conn, vaultVars, oauth, cap, running, history>>

RefreshReplace(q) ==
  /\ At(q, "replace")
  /\ Stores(q, op[q].token, "refreshed", Go(q, "required"))
  /\ UNCHANGED <<kind, conn, issued, oauth, cap, running, history, bleft>>

(* The version is written, the object's id is not.                         *)
RefreshCommit(q) ==
  /\ At(q, "refreshed")
  /\ conn' = IF conn.lease = q
             THEN [conn EXCEPT !.status = "authorized", !.ref.version = op[q].ref.version,
                               !.expired = FALSE, !.lease = Nobody, !.live = FALSE]
             ELSE conn
  /\ Done(q)
  /\ UNCHANGED <<kind, vaultVars, issued, oauth, cap, running, history, bleft>>

RefreshFailed(q) ==
  /\ At(q, "required")
  /\ conn' = IF conn.lease = q
             THEN [conn EXCEPT !.status = "refresh_required", !.lease = Nobody, !.live = FALSE]
             ELSE conn
  /\ Done(q)
  /\ UNCHANGED <<kind, vaultVars, issued, oauth, cap, running, history, bleft>>

-----------------------------------------------------------------------------
(* handleRevokeConnection, and with "all" revokeWorkspaceConnections: that *)
(* one goes on to the OAuth states and the capabilities, also after an     *)
(* error, and its update does not look at the status.                      *)

RevokeRead(q, all) ==
  /\ all \/ conn.status # "none"
  /\ Begin(q, [IdleOp EXCEPT !.pc = IF all /\ conn.status \in {"none", "revoked"} THEN "states"
                                    ELSE IF conn.ref = NoRef THEN "revoke" ELSE "unseal",
                             !.all = all, !.seen = conn.ref])
  /\ UNCHANGED <<kind, conn, vaultVars, issued, oauth, cap, running, history>>

RevokeThrows(q) == IF op[q].all THEN Go(q, "states") ELSE Done(q)

(* The credential is read, revoked at the provider as far as it answers,   *)
(* and then deleted.                                                       *)
RevokeUnseal(q) ==
  /\ At(q, "unseal")
  /\ IF Stored(secrets, op[q].seen.id) THEN Go(q, "delete") ELSE RevokeThrows(q)
  /\ UNCHANGED <<kind, conn, vaultVars, issued, oauth, cap, running, history, bleft>>

RevokeDelete(q) ==
  /\ At(q, "delete")
  /\ \/ /\ CanDelete(secrets, op[q].seen)
        /\ secrets' = AfterDelete(secrets, op[q].seen)
        /\ Go(q, "revoke")
        /\ UNCHANGED bleft
     \/ /\ IF CanDelete(secrets, op[q].seen) THEN Fails ELSE UNCHANGED bleft
        /\ RevokeThrows(q)
        /\ UNCHANGED secrets
  /\ UNCHANGED <<kind, conn, holds, issued, oauth, cap, running, history>>

RevokeCommit(q) ==
  /\ At(q, "revoke")
  /\ conn' = IF op[q].all /\ op[q].seen = NoRef
             THEN [conn EXCEPT !.status = "revoked", !.expired = FALSE]
             ELSE IF op[q].all \/ conn.status # "revoked"
             THEN [conn EXCEPT !.status = "revoked", !.ref = NoRef, !.expired = FALSE]
             ELSE conn
  /\ IF op[q].all THEN Go(q, "states") ELSE Done(q)
  /\ UNCHANGED <<kind, vaultVars, issued, oauth, cap, running, history, bleft>>

RevokeStates(q) ==
  /\ At(q, "states")
  /\ oauth' = [s \in States |-> IF oauth[s].row = "none" THEN oauth[s] ELSE Cleaned(s)[s]]
  /\ cap' = [k \in Capabilities |-> IF cap[k] = "none" THEN "none" ELSE "gone"]
  /\ Done(q)
  /\ UNCHANGED <<kind, conn, vaultVars, issued, running, history, bleft>>

-----------------------------------------------------------------------------
(* handleConnectionHealth writes back the status it has read.              *)

HealthRead(q) ==
  /\ conn.status # "none"
  /\ Begin(q, [IdleOp EXCEPT !.pc = "health",
       !.status = IF conn.status = "authorized" /\ conn.expired THEN "refresh_required" ELSE conn.status])
  /\ UNCHANGED <<kind, conn, vaultVars, issued, oauth, cap, running, history>>

HealthWrite(q) ==
  /\ At(q, "health")
  /\ conn' = [conn EXCEPT !.status = op[q].status]
  /\ Done(q)
  /\ UNCHANGED <<kind, vaultVars, issued, oauth, cap, running, history, bleft>>

-----------------------------------------------------------------------------
(* Capabilities: issued to a run, redeemed once by Fly; and the port for   *)
(* tools inside the Worker.                                                *)

IssueRead(q, k) ==
  /\ cap[k] = "none" /\ conn.status = "authorized"
  /\ \A p \in Calls : op[p].on # k
  /\ Begin(q, [IdleOp EXCEPT !.pc = "issue", !.on = k])
  /\ UNCHANGED <<kind, conn, vaultVars, issued, oauth, cap, running, history>>

IssueCommit(q) ==
  /\ At(q, "issue")
  /\ cap' = IF running THEN [cap EXCEPT ![op[q].on] = "open"] ELSE cap
  /\ Done(q)
  /\ UNCHANGED <<kind, conn, vaultVars, issued, oauth, running, history, bleft>>

RedeemRead(q, k) ==
  /\ cap[k] = "open" /\ conn.status = "authorized" /\ running
  /\ Begin(q, [IdleOp EXCEPT !.pc = "redeem", !.on = k, !.seen = conn.ref])
  /\ UNCHANGED <<kind, conn, vaultVars, issued, oauth, cap, running, history>>

RedeemClaim(q) ==
  /\ At(q, "redeem")
  /\ IF cap[op[q].on] = "open"
     THEN cap' = [cap EXCEPT ![op[q].on] = "consumed"] /\ Go(q, "request")
     ELSE Done(q) /\ UNCHANGED cap
  /\ UNCHANGED <<kind, conn, vaultVars, issued, oauth, running, history, bleft>>

PortRequest(q) ==
  /\ conn.status = "authorized"
  /\ Begin(q, [IdleOp EXCEPT !.pc = "request", !.seen = conn.ref])
  /\ UNCHANGED <<kind, conn, vaultVars, issued, oauth, cap, running, history>>

(* The request to the provider is made with the credential that is stored. *)
UseCredential(q) ==
  /\ At(q, "request")
  /\ history' = IF op[q].on # "" /\ Stored(secrets, op[q].seen.id)
                THEN [history EXCEPT ![op[q].on] = @ + 1] ELSE history
  /\ Done(q)
  /\ UNCHANGED <<kind, conn, vaultVars, issued, oauth, cap, running, bleft>>

-----------------------------------------------------------------------------
(* The cron and the clock.                                                 *)

StateExpires(s) ==
  /\ oauth[s].row \in {"open", "used"} /\ ~oauth[s].expired
  /\ oauth' = [oauth EXCEPT ![s].expired = TRUE]
  /\ UNCHANGED <<kind, conn, vaultVars, issued, cap, running, op, history, bleft>>

SweepStates(s) ==
  /\ oauth[s].expired
  /\ oauth' = Cleaned(s)
  /\ UNCHANGED <<kind, conn, vaultVars, issued, cap, running, op, history, bleft>>

(* A capability expires, or was consumed; the sweep deletes it.            *)
SweepCapability(k) ==
  /\ cap[k] \in {"open", "consumed"}
  /\ cap' = [cap EXCEPT ![k] = "gone"]
  /\ UNCHANGED <<kind, conn, vaultVars, issued, oauth, running, op, history, bleft>>

TokenExpires ==
  /\ conn.status = "authorized" /\ kind = "oauth2" /\ ~conn.expired
  /\ conn' = [conn EXCEPT !.expired = TRUE]
  /\ UNCHANGED <<kind, vaultVars, issued, oauth, cap, running, op, history, bleft>>

Refreshing(q) == op[q].pc \in {"token", "refresh", "replace", "refreshed", "required"}

LeaseExpires ==
  /\ conn.live
  /\ LeaseOutlivesRefresh => ~\E q \in Calls : conn.lease = q /\ Refreshing(q)
  /\ conn' = [conn EXCEPT !.live = FALSE]
  /\ UNCHANGED <<kind, vaultVars, issued, oauth, cap, running, op, history, bleft>>

RunEnds ==
  /\ running /\ running' = FALSE
  /\ bleft.requests > 0 /\ bleft' = [bleft EXCEPT !.requests = @ - 1]
  /\ UNCHANGED <<kind, conn, vaultVars, issued, oauth, cap, op, history>>

CallLost(q) ==
  /\ ~At(q, "idle") /\ bleft.lost > 0
  /\ bleft' = [bleft EXCEPT !.lost = @ - 1]
  /\ Done(q)
  /\ UNCHANGED <<kind, conn, vaultVars, issued, oauth, cap, running, history>>

BrokerNext ==
  \/ \E q \in Calls :
       \/ \E s \in States : StartVerifier(q, s) \/ CompleteRead(q, s)
       \/ StartCommit(q) \/ CompleteClaim(q) \/ CompleteConnection(q) \/ CompleteVerifier(q)
       \/ CompleteExchange(q) \/ CompleteStore(q) \/ CompleteAuthorize(q) \/ CompleteClean(q) \/ CompleteFailed(q)
       \/ StoreRead(q) \/ StoreSecret(q) \/ StoreCommit(q)
       \/ RefreshRead(q) \/ RefreshClaim(q) \/ RefreshToken(q) \/ RefreshExchange(q)
       \/ RefreshReplace(q) \/ RefreshCommit(q) \/ RefreshFailed(q)
       \/ \E all \in BOOLEAN : RevokeRead(q, all)
       \/ RevokeUnseal(q) \/ RevokeDelete(q) \/ RevokeCommit(q) \/ RevokeStates(q)
       \/ HealthRead(q) \/ HealthWrite(q)
       \/ \E k \in Capabilities : IssueRead(q, k) \/ RedeemRead(q, k)
       \/ IssueCommit(q) \/ RedeemClaim(q) \/ PortRequest(q) \/ UseCredential(q)
       \/ CallLost(q)
  \/ \E s \in States : StateExpires(s) \/ SweepStates(s)
  \/ \E k \in Capabilities : SweepCapability(k)
  \/ TokenExpires \/ LeaseExpires \/ RunEnds

BrokerSpec == BrokerInit /\ [][BrokerNext]_bvars

-----------------------------------------------------------------------------
(* Every variable has its type. *)
BrokerTypeOK ==
  /\ kind \in {"oauth2", "api_key"}
  /\ conn.status \in {"none", "authorization_required", "authorized", "refresh_required", "unhealthy", "revoked"}
  /\ conn.ref.id \in 0..Len(secrets) /\ conn.lease \in {Nobody} \cup Calls
  /\ Len(holds) = Len(secrets)
  /\ \A s \in States : oauth[s].row \in {"none", "open", "used", "gone"}
  /\ \A k \in Capabilities : cap[k] \in {"none", "open", "consumed", "gone"}

(* An OAuth state is exchanged for a credential at most once, and a        *)
(* capability makes at most one request, however its requests race.        *)
SingleUse == \A x \in States \cup Capabilities : history[x] <= 1
===============================================================================
