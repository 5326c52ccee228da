CONSTANTS
  Email = {e1}
  User = {u1}
  Code = {c1}
  Request = {r1, r2}
  OtpTtl = 2
  MaxAttempts = 2
  StreamExists = FALSE
  MaxTime = 1
  null = null
SPECIFICATION CalmSpec
PROPERTY VerifiedIsLoggedIn
CHECK_DEADLOCK FALSE
