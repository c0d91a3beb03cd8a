SPECIFICATION FairSpec
CONSTANTS
  eyes = eyes
  striker = striker
  Robots <- TwoRobots
  Sighted <- Eyes
  Sacrifice = eyes
  Offenders <- Striker
  Random <- Eyes
  MaxLag <- StrikerMissesOne
INVARIANT WalksInOnSignal
PROPERTY AllWalkIn
