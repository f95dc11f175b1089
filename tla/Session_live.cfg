SPECIFICATION MCFairSpec
CONSTANTS
  c1 = c1
  c2 = c2
  h1 = h1
  h2 = h2
  NoFd = NoFd
  ListenFd = ListenFd
  Clients <- TwoClients
  Host <- OwnHosts
  BadVersion <- NoBadVersion
  Blk = 2
  SndBuf = 1
  Coalesced = FALSE
  MaxFaults = 0
  Instances = {"alone", "whole"}
PROPERTIES AloneEnds DeniedLeaves
CHECK_DEADLOCK FALSE
