SPECIFICATION Spec
CONSTANTS
  Clicks <- StartOnly
  Postures <- Upright
  Batteries <- Fine
  Faults <- OnlySocket
  SitSteps = 2
  Threshold = 3
  MaxCount = 5
  Ticks = 5
  MaxWrites = 2
INVARIANTS SitsFromTheStart
CHECK_DEADLOCK FALSE
