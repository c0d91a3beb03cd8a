\* Either process may die at any step and start again.
SPECIFICATION FairSpec
CONSTANTS
  Messages = {m1, m2}
  NoMessage = none
  Crashing <- Both
INVARIANTS TypeOK NoTearing
PROPERTIES FalseOnlyIfCurrent Implements TimedProduceReturnsIfKept NewsIsTaken
