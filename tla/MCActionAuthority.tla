------------------------- MODULE MCActionAuthority -------------------------
(***************************************************************************)
(* Instances of ActionAuthority for TLC.                                   *)
(***************************************************************************)
EXTENDS ActionAuthority, TLC

\* Every switch fences every proposal.
CoversAll == [p \in Proposals |-> Switches]

\* Handlers, approvals and proposals are interchangeable, since every switch
\* fences every proposal (not used where liveness is checked).
Interchangeable ==
  Permutations(Handlers) \cup Permutations(Approvals) \cup Permutations(Proposals)
=============================================================================
