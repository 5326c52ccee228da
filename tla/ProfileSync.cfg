CONSTANTS
  User = {u1, u2}
  Request = {r1, r2}
  MaxEvents = 3
  null = null
SPECIFICATION Spec
SYMMETRY Symmetry
INVARIANTS TypeOK IndexFollowsStream HitsHaveProfiles DeletionReachesProfile
PROPERTIES EditsSurvive InactiveStaysInactive
CHECK_DEADLOCK FALSE
