SPECIFICATION Spec
CONSTANTS
  Sockets = {s1}
  CounterMax = 2
  MaxFrames = 2
  MaxDeltas = 1
CHECK_DEADLOCK FALSE
INVARIANT HardCeiling
