CONSTANTS
  User = {u1, u2}
  Conversation = {c1, c2}
  Message = {m1}
  Socket = {s1}
  Request = {r1, r2}
  Limit = {1}
  MaxTime = 0
  null = null
SPECIFICATION Spec
SYMMETRY Symmetry
INVARIANT OneConversationPerPair
CHECK_DEADLOCK FALSE
