SPECIFICATION Spec
CONSTANTS
  Node = {1, 2}
  Alias = {2}
  BufferSize = 1
  MaxConn = 2
  MaxMessage = 2
  MaxFault = 1
  MayClose = {}
INVARIANTS TypeOK
PROPERTIES ImplementsNetwork
CHECK_DEADLOCK FALSE
