CONSTANTS
  None = None
  Src = "sn0"
  Dst = "sn1"
  PoolSize = 2
  Budget = 2
  Lockup = 2
  MaxPkt = 3
  MaxTimeout = 2
SPECIFICATION FairSpec
INVARIANTS
  LiveInOnePlace
  MaskedWhilePolling
PROPERTIES
  ImplementsLink
  PollEnds
