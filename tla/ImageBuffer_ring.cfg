SPECIFICATION FairSpec
CONSTANTS
  Size = 4
  MaxTries = 2
  MaxFrame = 6
INVARIANTS NoTearing FullOnlyByLeaks
PROPERTIES NeverOlder NewestIsTaken
CHECK_DEADLOCK FALSE
