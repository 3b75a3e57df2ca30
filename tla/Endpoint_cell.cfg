SPECIFICATION Spec
CONSTANTS
  Client = {c1}
  Token = {t1}
  Request = {r1, r2}
  Lat = {n1, n2}
  Lng = {e1, e2}
  Group = {g1}
  None = None
INVARIANT PublishedInItsCell
CHECK_DEADLOCK FALSE
