\* A transport failure ends the read; the client redials and the new
\* connection stays healthy.
CONSTANTS
  Callers = {c1, c2}
  RidBits = 3
  MaxCalls = 2
  MaxConns = 2
  Timeouts = {"infinite"}
  HasDialer = TRUE
  ReadDeadline = FALSE
  NetworkFailures = TRUE
  Heartbeat = NoValue
  HeartbeatProbes = 0
  HeartbeatTimeout = "finite"
  NoValue = NoValue
SPECIFICATION Spec
PROPERTY EveryCallReturns
CHECK_DEADLOCK FALSE
