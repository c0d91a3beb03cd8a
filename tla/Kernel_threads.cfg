\* The robot's graph without its last module, one with a module that stands
\* alone, and circular ones; the 2 s of stop() may run out.
SPECIFICATION FairSpec
CONSTANTS
  vision = vision
  pose = pose
  worldmodel = worldmodel
  behavior = behavior
  Modules = {vision, pose, worldmodel}
  Graphs <- SomeGraphs
  StopTimeouts = TRUE
INVARIANTS TypeOK FetchFindsData NotAllBlocked
PROPERTIES CleanStop EveryModuleRuns StopReachesAll
CHECK_DEADLOCK FALSE
