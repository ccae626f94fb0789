SPECIFICATION AlertsSpec
CONSTANTS
  Records = 3
  Length <- Lengths
  ChunkBytes = 2
  MaxCuts = 2
INVARIANTS
  ReadsNewestFirst
  LossIsBounded
CHECK_DEADLOCK FALSE
