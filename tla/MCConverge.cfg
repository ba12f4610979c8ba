SPECIFICATION FairSpec
CONSTANTS
  Node = {1, 2, 3}
  Typed <- Contested
  Key = {"k", "garbled", "repaired"}
  Garbled = {"garbled"}
  Repaired = "repaired"
  Absent = Absent
  IntSpan = 4
  CommitChCap = 1
  MaxInstance = 2
  MayQuit = {}
  MayLose = {3}
INVARIANTS ReplicasAgree
PROPERTIES TotalsConverge
CHECK_DEADLOCK FALSE
