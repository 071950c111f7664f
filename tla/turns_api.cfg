SPECIFICATION FairSpec
CONSTANTS
  t1 = t1
  t2 = t2
  t3 = t3
  NoTask = NoTask
  SlowRuns = TRUE
  ApiTurns = {t1, t2, t3}
  WaTurns = {}
  Resumes = {}
  Stops = {}
INVARIANTS
  LiveTurnIsNewest
  NewestQueuesBehindNoLiveRun
PROPERTIES
  ImplementsLatestTurn
  NewestIsServed
CHECK_DEADLOCK FALSE
