SPECIFICATION Spec
CONSTANTS
  v1 = v1
  v2 = v2
  Value = {v1, v2}
  Nil = Nil
  Empty = Empty
  RoundSpan = 8
  Node = {1, 2, 3}
  Instance = {1}
  Clients <- EmptyProposer
  Subscribers = {}
  CommitChCap = 2
  SaveOutcomes = {TRUE}
  MaxRound = 2
  MaxIncarnation = 0
  MayRestart = {}
  MayTimeout = {}
  MayElect = {}
CHECK_DEADLOCK FALSE
INVARIANTS
  AgreementOfBytes
