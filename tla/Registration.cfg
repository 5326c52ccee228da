CONSTANTS
  Email = {e1}
  User = {u1, u2}
  Code = {c1, c2}
  Request = {r1, r2, r3, r4}
  OtpTtl = 2
  MaxAttempts = 2
  StreamExists = TRUE
  MaxTime = 3
  null = null
SPECIFICATION Spec
SYMMETRY Symmetry
INVARIANTS TypeOK OneAccountPerEmail GuessBound VerificationTrail
PROPERTY AccountsLive
CHECK_DEADLOCK FALSE
