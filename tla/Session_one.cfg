SPECIFICATION FairSpec
CONSTANTS
  Conn = {c1}
  CellId <- Cells3
  GroupOf <- Row3
  Group = {g1, g2}
  NoCell = NoCell
  Nothing = Nothing
  Stop = Stop
INVARIANTS
  TypeOK
  GroupFilterSettled
  LocalFilterSettled
PROPERTIES
  Settles
  HandedOverIsJoined
