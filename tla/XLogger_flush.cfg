SPECIFICATION FairSpec
CONSTANTS
  Threads = {motion, vision}
  MaxPushes = 5
INVARIANT NothingLost
PROPERTIES Implements WaitsEnd
CHECK_DEADLOCK FALSE
