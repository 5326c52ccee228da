CONSTANTS
  User = {u1, u2}
  Request = {r1, r2}
  Uuid = {i1, i2}
  AccessTtl = 1
  UrlTtl = 1
  MaxTime = 1
  null = null
SPECIFICATION Spec
SYMMETRY Symmetry
INVARIANTS TypeOK ObjectHasRow DeletedObjectIsGone OneRowPerRequest ConfirmedIsAnnounced
PROPERTIES OnlyOwnersRemove ClosedIsOver
CHECK_DEADLOCK FALSE
