SPECIFICATION FairSpec
CONSTANTS
  Kind = {"SyncRequest", "SyncResponse", "DataRequest", "DataResponse"}
  DataLengths = {0, 260}
  Lengths = {4}
  MaxFrames = 2
INVARIANTS
  TypeOK
  StaysInMessage
  ReadInOrder
PROPERTY EveryFrameIsRead
CHECK_DEADLOCK FALSE
