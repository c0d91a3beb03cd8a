SPECIFICATION Spec
CONSTANTS
  Size = 3
  MaxTries = 2
  MaxFrame = 5
INVARIANT ReleasedIsUnlocked
CHECK_DEADLOCK FALSE
