CONSTANTS
  None = None
  Dev <- MCDev
  Peer <- MCPeer
  PoolSize <- MCPoolSize
  Lockup = 2
  Senders = {"sn0", "sn1"}
  Closers = {"sn1"}
  MaxPkt = 2
SPECIFICATION Spec
INVARIANTS
  BufferConservation
  LinksMatchLists
  FramesAccounted
PROPERTY ImplementsLink
