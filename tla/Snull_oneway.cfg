CONSTANTS
  None = None
  Dev <- MCDev
  Peer <- MCPeer
  PoolSize <- MCPoolSize
  Lockup = 2
  Senders = {"sn0"}
  Closers = {"sn1"}
  MaxPkt = 5
SPECIFICATION FairSpec
INVARIANTS
  NoPanic
  SkbFreedOnce
  RestIsClean
PROPERTIES
  EveryFrameCompletes
