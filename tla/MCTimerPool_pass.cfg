\* Two callers sharing the pool, two calls each, two timer objects, both
\* timeout kinds and both timer semantics of the Go runtime.
CONSTANTS
  Callers = {c1, c2}
  Timers = {t1, t2}
  MaxCalls = 2
  Timeouts = {"zero", "finite"}
  Runtimes = {"pre1.23", "1.23"}
  NoValue = NoValue
SPECIFICATION Spec
PROPERTY TimeoutCallReturns
\* Once every call has returned, the program is idle.
CHECK_DEADLOCK FALSE
