\* Three requests at a time, any of which may be lost at any await, and the
\* workspace may be deleted meanwhile.
SPECIFICATION Spec
CONSTANTS
  Proposals = {p1}
  Approvals = {a1, a2}
  Handlers = {h1, h2, h3}
  Switches = {s1}
  WorkspaceSwitches = {s1}
  Covers <- CoversAll
  None = None
  MaxReviews = 1
  MayCrash = TRUE
  MayQuarantine = TRUE
\* A deleted workspace accepts no request: the system really stops.
CHECK_DEADLOCK FALSE
SYMMETRY Interchangeable
INVARIANTS
  DispatchAtMostOnce
PROPERTIES
  NothingReopens
