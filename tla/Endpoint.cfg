SPECIFICATION Spec
CONSTANTS
  Client = {c1, c2}
  Token = {t1, t2}
  Request = {r1, r2}
  Lat = {n1}
  Lng = {e1, e2}
  Group = {g1}
  None = None
INVARIANTS
  TypeOK
  EntityBelongsToIssuer
  LonePublishedInItsCell
CHECK_DEADLOCK FALSE
