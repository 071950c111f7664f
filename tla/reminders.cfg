SPECIFICATION FairSpec
CONSTANTS
  o1 = o1
  p1 = p1
  p2 = p2
  NoJob = NoJob
  OneShots = {o1}
  Crons = {}
  Beats = {}
  Instances = {p1, p2}
  MaxParallel = 1
  MaxRuns = 2
  MaxCrashes = 2
  Graceful = FALSE
INVARIANTS
  DuplicatesExplained
  

  
  
CHECK_DEADLOCK FALSE
