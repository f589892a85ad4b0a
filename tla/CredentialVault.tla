---------------------------- MODULE CredentialVault ----------------------------
(***************************************************************************)
(* The credential vault as its callers see it. An object has a version     *)
(* that every replacement moves; replace and delete are refused when the   *)
(* caller names another version than the stored one, read looks the        *)
(* object up by its id alone. An id is never used again.                   *)
(***************************************************************************)
LOCAL INSTANCE Naturals
LOCAL INSTANCE Sequences

(* A vault is the sequence of the versions of its objects; the object with *)
(* id i is the i-th one ever created, version 0 stands for a deleted one.  *)
EmptyVault == <<>>
NoRef == [id |-> 0, version |-> 0]

Stored(v, id) == id \in DOMAIN v /\ v[id] > 0
Holds(v, ref) == ref.id \in DOMAIN v /\ ref.version > 0 /\ v[ref.id] = ref.version

AfterCreate(v) == Append(v, 1)
Created(v) == [id |-> Len(v) + 1, version |-> 1]

CanReplace(v, ref) == Holds(v, ref)
AfterReplace(v, ref) == [v EXCEPT ![ref.id] = ref.version + 1]
Replaced(ref) == [ref EXCEPT !.version = ref.version + 1]

CanDelete(v, ref) == Holds(v, ref)
AfterDelete(v, ref) == [v EXCEPT ![ref.id] = 0]
===============================================================================
