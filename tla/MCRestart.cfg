SPECIFICATION Spec
CONSTANTS
  v1 = v1
  v2 = v2
  Value = {v1, v2}
  Nil = Nil
  Empty = Empty
  RoundSpan = 8
  Node = {1, 2, 3}
  Instance = {1}
  Clients <- AnyBytes
  Subscribers = {3}
  CommitChCap = 2
  SaveOutcomes = {TRUE}
  MaxRound = 1
  MaxIncarnation = 1
  MayRestart = {1, 2}
  MayTimeout = {}
  MayElect = {}
SYMMETRY Interchangeable
CHECK_DEADLOCK FALSE
INVARIANTS
  OneValuePerBallot
  SoleProposalLearned
  NotificationsGenuine
PROPERTIES
  LogWriteOnce
