CONSTANTS
  Purges = {}
  Exports = {e1}
  Workers = {w1, w2}
  None = None
  MaxFaults = 1
  MaxCrashes = 1
  MaxRetries = 0
  MaxWrites = 2
  MaxSweeps = 1
  MaxOverlaps = 1
  FirstArtifact = {"none"}
  LeaseOutlivesWorker = TRUE
SPECIFICATION Spec
INVARIANTS
  ExportIsACut
SYMMETRY Symmetry
CHECK_DEADLOCK FALSE
