SPECIFICATION FairSpec
CONSTANTS
  Sockets = {s1}
  CounterMax = 3
  MaxFrames = 4
  MaxDeltas = 2
CHECK_DEADLOCK FALSE
INVARIANTS
  ChatInv
  PromptsForwardedOnce
  ChunksDecryptInOrder
  OneAnswerPerPrompt
  DoneIsComplete
  RevokedPromptStays
  GaugeIsTruthful
PROPERTIES
  IdleSocketExpires
  GoneSocketEnds
