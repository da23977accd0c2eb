SPECIFICATION AssistantUsedSpec
CONSTANTS
  Threshold = 5
  Ops = {o1, o2}
  Contents = {c1, c2}
  Queries = {q}
  Nothing = Nothing
INVARIANTS
  AssistantTypeOK
  TripConsistent
  AnswerFits
PROPERTIES
  Answered
  RecoversInUse
