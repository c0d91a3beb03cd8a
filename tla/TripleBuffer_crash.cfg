SPECIFICATION FairSpec
CONSTANTS
  Messages = {m1, m2}
  NoMessage = none
  Crashing <- OnlyWriter
PROPERTIES TimedProduceReturns
