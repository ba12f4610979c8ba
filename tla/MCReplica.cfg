SPECIFICATION FairSpec
CONSTANTS
  Node = {1, 2}
  Typed <- Commands
  Key = {"k", "garbled", "repaired"}
  Garbled = {"garbled"}
  Repaired = "repaired"
  Absent = Absent
  IntSpan = 4
  CommitChCap = 1
  MaxInstance = 2
  MayQuit = {2}
  MayLose = {2}
INVARIANTS TypeOK NotifiedOnce NoPanic
PROPERTIES CommittedIsApplied CloseTerminates
CHECK_DEADLOCK FALSE
