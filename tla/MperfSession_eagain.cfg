SPECIFICATION Spec
CONSTANTS
  c1 = c1
  c2 = c2
  h1 = h1
  h2 = h2
  NoFd = NoFd
  ListenFd = ListenFd
  Clients <- OneClient
  Host <- OwnHosts
  BadVersion <- NoBadVersion
  Blk = 1
  SndBuf = 1
  Coalesced = FALSE
  MaxFaults = 0
INVARIANT ZeroMeansClosed
CHECK_DEADLOCK FALSE
