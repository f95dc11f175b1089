SPECIFICATION FairSpec
CONSTANTS
  c1 = c1
  c2 = c2
  h1 = h1
  h2 = h2
  NoFd = NoFd
  ListenFd = ListenFd
  Clients <- TwoClients
  Host <- OwnHosts
  BadVersion <- NoBadVersion
  Blk = 1
  SndBuf = 1
  Coalesced = TRUE
  MaxFaults = 0
PROPERTY ControllerHeard
CHECK_DEADLOCK FALSE
