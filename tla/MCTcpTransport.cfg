SPECIFICATION FairSpec
CONSTANTS
  Node = {1, 2}
  Alias = {}
  BufferSize = 1
  MaxConn = 2
  MaxMessage = 0
  MaxFault = 2
  MayClose = {2}
INVARIANTS TableExact NoSendOnClosed
PROPERTIES Converges CloseTerminates
CHECK_DEADLOCK FALSE
