SPECIFICATION MCSpec
CONSTANTS
  c1 = c1
  c2 = c2
  h1 = h1
  h2 = h2
  NoFd = NoFd
  ListenFd = ListenFd
  Clients <- TwoClients
  Host <- OwnHosts
  BadVersion <- SecondBad
  Blk = 2
  SndBuf = 1
  Coalesced = FALSE
  MaxFaults = 1
  Instances = {"pieces", "whole"}
INVARIANT TypeOK
INVARIANT OneController
INVARIANT ConfAgreed
INVARIANT RunningOnOwnData
INVARIANT BlocksConserved
INVARIANT ZeroIfWhole
PROPERTY PhasesInOrder
CHECK_DEADLOCK FALSE
