\* Two requests at a time, none lost.
SPECIFICATION FairSpec
CONSTANTS
  Proposals = {p1}
  Approvals = {a1, a2}
  Handlers = {h1, h2}
  Switches = {s1}
  WorkspaceSwitches = {s1}
  Covers <- CoversAll
  None = None
  MaxReviews = 1
  MayCrash = FALSE
  MayQuarantine = FALSE
PROPERTIES
  ExecutionSettles
  ImplementsLifecycle
INVARIANTS
  CancelledNeverDispatched
  OnlyNamedApprovalAuthorizes
  RunOutcomeAgrees
