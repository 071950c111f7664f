SPECIFICATION Spec
CONSTANTS
  b1 = b1
  c1 = c1
  p1 = p1
  NoJob = NoJob
  OneShots = {}
  Crons = {c1}
  Beats = {b1}
  Instances = {p1}
  MaxParallel = 1
  MaxRuns = 2
  MaxCrashes = 1
  Graceful = TRUE
INVARIANTS
  
  FirmlyCancelled
CHECK_DEADLOCK FALSE
