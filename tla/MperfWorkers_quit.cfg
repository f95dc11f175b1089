SPECIFICATION FairSpec
CONSTANTS
  N = 1
  MaxSigs = 1
  SpawnFails = FALSE
  MultiProcess = TRUE
PROPERTY Quits
CHECK_DEADLOCK FALSE
