SPECIFICATION MCSpec
CONSTANTS
  Streams = {"s1"}
  Listeners = {"l1"}
  Size = 2
  MaxEvents = 1
  Timeouts = {"never"}
  Apps = {"app"}
  NUM_LOG_BUFF = 3
  Fill = 2
  PipeSize = 3
  MaxLines = 10
  Hosts = {"h1", "h2"}
  Gateway = "h2"
  Outside = {"ext"}
  Cores = {"c1"}
  ArpCore = "c0"
  Timeout = 1
  MaxLost = 0
  NumCores = 2
  Ports = 3
  Dests = {1, 2}
  Sockets = 2
  Late = FALSE
  Ids = 3
  PIPE_BUF_SIZE = 2
  Lens = {1, 2}
  MaxBytes = 3
CONSTRAINT Followed
INVARIANTS
  EventsKept  PipeKept PoolsKept  TableKept  
