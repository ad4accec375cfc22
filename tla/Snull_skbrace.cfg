CONSTANTS
  None = None
  Dev <- MCDev
  Peer <- MCPeer
  PoolSize <- MCPoolSize
  Lockup = 0
  Senders = {"sn0", "sn1"}
  Closers = {}
  MaxPkt = 2
SPECIFICATION Spec
INVARIANT SkbFreedOnce
