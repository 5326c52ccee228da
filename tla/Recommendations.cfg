CONSTANTS
  User = {u1, u2}
  Job = {j1, j2}
  null = null
SPECIFICATION Spec
INVARIANT RunsBounded
PROPERTIES EveryJobEnds KeptAsFailed
CHECK_DEADLOCK FALSE
