SPECIFICATION Spec
CONSTANTS
  v1 = v1
  v2 = v2
  Value = {v1, v2}
  Nil = Nil
  Empty = Empty
  RoundSpan = 8
  Node = {1, 2, 3}
  Instance = {1}
  Clients <- TwoProposers
  Subscribers = {}
  CommitChCap = 2
  SaveOutcomes = {TRUE, FALSE}
  MaxRound = 1
  MaxIncarnation = 1
  MayRestart = {3}
  MayTimeout = {1}
  MayElect = {1}
CHECK_DEADLOCK FALSE
CONSTRAINT BeforeCommit
INVARIANTS
  AgreementUntilCommit
  PromisesKept
PROPERTIES
  FirstCommitChosen
