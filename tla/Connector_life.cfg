SPECIFICATION FairSpec
CONSTANTS
  Clicks <- SomeClicks
  Postures <- BothPostures
  Batteries <- BothBatteries
  Faults <- MostFaults
  SitSteps = 2
  Threshold = 3
  MaxCount = 4
  Ticks = 3
  MaxWrites = 1
INVARIANTS TypeOK SittingIsFresh SilenceDisconnects
PROPERTIES ConnectionIsEarned LostFrontendNoticed ShutdownCompletes
CHECK_DEADLOCK FALSE
