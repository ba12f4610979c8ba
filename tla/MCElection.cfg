SPECIFICATION FairElectionSpec
CONSTANTS
  v1 = v1
  Value = {v1}
  Nil = Nil
  Empty = Empty
  RoundSpan = 2
  Node = {1, 2}
  Instance = {}
  Clients <- Quiet
  Subscribers = {}
  CommitChCap = 0
  SaveOutcomes = {TRUE}
  MaxRound = 2
  MaxIncarnation = 1
  MayRestart = {1}
  MayTimeout = {1}
  MayElect = {1, 2}
CHECK_DEADLOCK FALSE
INVARIANTS
  TypeOK
  LeaderBacked
  FollowedWasElected
PROPERTIES ImplementsMultiPaxos DeposedByHigher LeaderSettles
