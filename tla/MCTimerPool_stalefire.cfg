\* A build before Go 1.23, one timer object shared through the pool by two
\* callers with finite timeouts.
CONSTANTS
  Callers = {c1, c2}
  Timers = {t1}
  MaxCalls = 1
  Timeouts = {"finite"}
  Runtimes = {"pre1.23"}
  NoValue = NoValue
SPECIFICATION Spec
INVARIANT NoStaleFire
CHECK_DEADLOCK FALSE
