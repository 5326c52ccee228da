CONSTANTS
  User = {u1, u2}
  Conversation = {c1, c2}
  Message = {m1, m2}
  Socket = {s1}
  Request = {r1}
  Limit = {0, 1, 2}
  MaxTime = 2
  null = null
SPECIFICATION Spec
SYMMETRY Symmetry
INVARIANTS TypeOK StartedIsTheirs NothingMissed NoneTwice AcknowledgedIsPushed
CHECK_DEADLOCK FALSE
