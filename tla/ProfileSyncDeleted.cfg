CONSTANTS
  User = {u1, u2}
  Request = {r1, r2}
  MaxEvents = 3
  null = null
SPECIFICATION Spec
SYMMETRY Symmetry
INVARIANT DeletedLeavesSearch

CHECK_DEADLOCK FALSE
