SPECIFICATION FairSpec
CONSTANTS
  Models = {"vl", "agent"}
  Tokens <- SomeTokens
  Limits = {0, 1, 5}
  Words <- SomeWords
  MaxLines = 3
  QueueCap = 1
INVARIANTS
  NothingLeaks
  FinishedIsWhole
PROPERTIES
  WorkerEnds
CHECK_DEADLOCK FALSE
