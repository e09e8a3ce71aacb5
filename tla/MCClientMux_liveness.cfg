\* Transport failures on: a read fails with calls and callbacks registered,
\* writing or waiting.  The client is given a connection and no dialer (a
\* redial only reopens the same drain; mux_safety covers it), no read
\* deadline, and the user may Close it at any point.
CONSTANTS
  Callers = {c1, c2}
  RidBits = 3
  MaxCalls = 2
  MaxConns = 1
  Timeouts = {"finite", "infinite"}
  HasDialer = FALSE
  ReadDeadline = FALSE
  NetworkFailures = TRUE
  Heartbeat = c2
  HeartbeatProbes = 1
  HeartbeatTimeout = "finite"
  NoValue = NoValue
SPECIFICATION Spec
PROPERTY DrainedCallReturns
PROPERTY HeartbeatEndsAfterClose
 
PROPERTY RefinesInvokeCorrelation
\* The read loop blocks in a read once callers are out of calls, or ends.
CHECK_DEADLOCK FALSE
