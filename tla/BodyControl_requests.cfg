\* One motion of each kind; the sequence is one for standing up.
SPECIFICATION FairSpec
CONSTANTS
  walk = walk
  stand = stand
  standUp = standUp
  designer = designer
  NONE = none
  Motions <- AMotionOfEachKind
  Walk = walk
  Stances <- OneStance
  Sequences <- OneSequence
  StandUps <- OneSequence
INVARIANTS TypeOK OneMotion UnstableIsProtected
PROPERTIES HeldMotionStarts WalkRequestsAreServed
