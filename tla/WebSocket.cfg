SPECIFICATION FairSpec
CONSTANTS
  Capacity = 2
  PongWait = 21
  WriteWait = 4
  Latency = 1
  Stall = 1
  MaxWritten = 4
INVARIANTS
  TypeOK
  BatchIsThere
  LivePeerIsKept
PROPERTIES
  ImplementsLossyQueue
  BothEnd
  QueuedIsFlushed
CHECK_DEADLOCK FALSE
