SPECIFICATION MCSpec
CONSTANTS
  MaxPut = 2
  SndSize = 2
  RcvSize = 2
  InitCwnd = 2
  InitSsthresh = 2
  MaxCwnd = 2
  TCP_MAX_RTX = 1
  TxBufs = 2
  Lossy = TRUE
  Instant = FALSE
  Talked = TRUE
INVARIANTS TransferKept SendListKept
PROPERTIES TransferEnds CloseSettles PipeDelivers
CHECK_DEADLOCK FALSE
