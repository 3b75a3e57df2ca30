SPECIFICATION Spec
CONSTANTS
  Kind = {"SyncRequest", "SyncResponse", "DataRequest", "DataResponse"}
  DataLengths = {0, 3}
  Lengths = {4}
  MaxFrames = 1
INVARIANT NilMeansRead
CHECK_DEADLOCK FALSE
