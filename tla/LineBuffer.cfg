SPECIFICATION LineSpec
CONSTANTS
  Other = {"x"}
  MAX_LINE_BYTES = 2
  MaxChunk = 4
  MaxInput = 7
CHECK_DEADLOCK FALSE
INVARIANTS
  ChunkingIsInvisible
  OnlyLongLinesSuffer
