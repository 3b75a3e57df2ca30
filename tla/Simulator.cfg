SPECIFICATION SimSpec
CONSTANTS
  Conn = {c1, c2}
  Cell <- Cells
  Group = {g}
  Msg = {m}
  Entity = {e}
  EntityOf <- Shared
  Around <- Ahead
CONSTRAINT OneAtATime
SYMMETRY Symmetry
INVARIANTS
  SimTypeOK
  EachSideAsAsked
  ReceivedOnce
  PeersFollow
CHECK_DEADLOCK FALSE
