CONSTANTS
  r1 = r1
  r2 = r2
  r3 = r3
  NoOne = NoOne
  Requests <- ThreeRequests
  Streams <- OneStream
  BusyTimeout = 0
  QueueCap = 2
SPECIFICATION FairSpec
INVARIANTS SlotIsAccounted NoOneStarves
PROPERTIES ImplementsSlot SlotComesBack EveryoneIsAnswered OrphansEnd
CHECK_DEADLOCK FALSE
