SPECIFICATION Spec
CONSTANTS
  c1 = c1
  c2 = c2
  h1 = h1
  h2 = h2
  NoFd = NoFd
  ListenFd = ListenFd
  Clients <- TwoClients
  Host <- SameHost
  BadVersion <- NoBadVersion
  Blk = 1
  SndBuf = 1
  Coalesced = FALSE
  MaxFaults = 0
INVARIANT OneClientServed
CHECK_DEADLOCK FALSE
