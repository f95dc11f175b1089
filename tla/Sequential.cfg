SPECIFICATION MCSpec
CONSTANTS
  Bufs = {b1, b2}
  Size = 3
  CNum = 2
  SeqSpace = 4
  InitSeqs = {3}
  Junk = {9}
  MaxWritten = 4
INVARIANTS
  StreamKept BuffersKept Reassembles ContextsKept TimersKept
  OptionsAgree RssAgrees  WheelKept
 
