CONSTANTS
  Email = {e1}
  User = {u1, u2}
  Code = {c1}
  Request = {r1, r2}
  OtpTtl = 2
  MaxAttempts = 2
  StreamExists = TRUE
  MaxTime = 1
  null = null
SPECIFICATION Spec
INVARIANT TakenEmailIsConflict
CHECK_DEADLOCK FALSE
