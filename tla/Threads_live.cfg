SPECIFICATION MCSpec
CONSTANTS
  Stream = {s1, s2}
  NoStream = NoStream
  Cap = 3
CONSTRAINT Followed
INVARIANT StreamNotNull
PROPERTIES IsFifo EventDelivered LogJoined Resolves
CHECK_DEADLOCK FALSE
