SPECIFICATION FairSpec
CONSTANTS
  Items = 3
  Workers = 2
  Statements = 2
  Presses = 2
INVARIANTS
  TypeOK
  SlotsMatchThreads
  SuccessMeansAllSucceeded
  InterruptAccountedFor
PROPERTY
  BlockEnds
CHECK_DEADLOCK FALSE
