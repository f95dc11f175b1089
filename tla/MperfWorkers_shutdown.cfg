SPECIFICATION FairSpec
CONSTANTS
  N = 2
  MaxSigs = 1
  SpawnFails = TRUE
  MultiProcess = FALSE
INVARIANTS CalmEnd NotUnderWorker
PROPERTY Interruptible
CHECK_DEADLOCK FALSE
