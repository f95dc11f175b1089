SPECIFICATION Spec
CONSTANTS
  N = 2
  MaxSigs = 1
  SpawnFails = FALSE
  MultiProcess = FALSE
INVARIANT AllWorkersExit
