SPECIFICATION Spec
CONSTANTS
  Conn = {c1, c2}
  CellId <- Cells2
  GroupOf <- Row2
  Group = {g1}
  NoCell = NoCell
  Nothing = Nothing
  Stop = Stop
SYMMETRY Symmetry
INVARIANT Exclusive
