\* Two callers, two calls each of every kind (Do with a finite or no
\* timeout, a one-way Do, DoCallback), ids refused after the third, two
\* connections with a dialer, and transport failures at any point.
CONSTANTS
  Callers = {c1, c2}
  MaxCalls = 2
  IdLimit = 3
  MaxConns = 2
  HasDialer = TRUE
  Kinds = {"sync", "oneway", "callback"}
  Timeouts = {"finite", "infinite"}
  NoValue = NoValue
SPECIFICATION Spec
INVARIANT TypeOK
INVARIANT NoStaleResult
INVARIANT DeliveryNeverBlocks
PROPERTY DrainedCallReturns
\* Callers out of calls and the read loop blocked in a read is a real end
\* state.
CHECK_DEADLOCK FALSE
