SPECIFICATION Spec
CONSTANTS
  t1 = t1
  t2 = t2
  r1 = r1
  s1 = s1
  NoTask = NoTask
  SlowRuns = TRUE
  ApiTurns = {}
  WaTurns = {t1, t2}
  Resumes = {r1}
  Stops = {s1}
SYMMETRY Symmetry
INVARIANTS
  
  RegistryNamesRunner
  InterruptedIsSuperseded
  QuiescentClean

  
CHECK_DEADLOCK FALSE
