SPECIFICATION FairSpec
CONSTANTS
  Capacity = 2
  MaxChunkLines = 3
  MaxLines = 5
CHECK_DEADLOCK FALSE
INVARIANTS
  StreamIsFaithful
PROPERTIES
  ImplementsEventStream
  AnswerConcludes
