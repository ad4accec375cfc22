CONSTANTS
  Size = 3
  MaxEdges = 5
  MaxReads = 6
  MaxBind = 2
SPECIFICATION FairSpec
INVARIANTS
  NoLostWakeup
  EventsInOrder
PROPERTY
  SleeperReturns
