SPECIFICATION FairSpec
CONSTANTS
  Conn = {c1}
  CellId <- Cells3
  GroupOf <- Row3
  Group = {g1}
  NoCell = NoCell
  Nothing = Nothing
  Stop = Stop
PROPERTY StopUnsubscribes
