SPECIFICATION Spec
CONSTANTS
  Value = {v1}
  Nil = Nil
  Empty = Empty
  RoundSpan = 8
  Self = 1
  Instance = {1, 2}
  Ballot = {1, 2}
INVARIANTS
  TypeOK
  Lockstep
  AnswersDurable
PROPERTIES
  AnswersConsistent
  ImplementsVoter
