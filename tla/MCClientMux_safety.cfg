\* Transport failures, redial, finite and infinite timeouts on; read deadlines
\* off (drains on a live connection are checked in mux_redial_hang); the
\* request id counter cannot wrap.
CONSTANTS
  Callers = {c1, c2}
  RidBits = 2
  MaxCalls = 2
  MaxConns = 2
  Timeouts = {"finite", "infinite"}
  HasDialer = TRUE
  ReadDeadline = FALSE
  NetworkFailures = TRUE
  Heartbeat = NoValue
  HeartbeatProbes = 0
  HeartbeatTimeout = "finite"
  NoValue = NoValue
SPECIFICATION Spec
SYMMETRY CallerSymmetry
INVARIANT NoMisroute
INVARIANT DeliveryNeverBlocks
INVARIANT NoStaleEntry
INVARIANT CallbackAtMostOnce
\* Quiescent end states are real (callers out of calls, the read loop blocked
\* in a read); calls that never return are checked as liveness elsewhere.
CHECK_DEADLOCK FALSE
