CONSTANTS
  User = {u1, u2}
  Request = {r1, r2, r3, r4}
  Token = {t1, t2, t3}
  Family = {f1, f2}
  null = null
SPECIFICATION Spec
SYMMETRY Symmetry
INVARIANT OneTokenPerFamily

CHECK_DEADLOCK FALSE
