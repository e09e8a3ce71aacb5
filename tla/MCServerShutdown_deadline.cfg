CONSTANTS
  Conns = {c1, c2}
  IdleThreshold = 1
  CtxDeadline = 3
  MaxTime = 3
SPECIFICATION Spec
INVARIANT TypeOK
INVARIANT OpenConnsRegistered
CHECK_DEADLOCK FALSE
