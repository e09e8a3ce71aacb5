\* Both handling modes: sync flushing after every request, and async with a
\* flush interval of one tick; both timeouts configured.
CONSTANTS
  Options <- SyncAndAsync
  ReadTimeout = TRUE
  IdleTimeout = TRUE
  Behaviours = {"write", "silent", "hijack", "twice"}
  MaxRequests = 3
  MaxTime = 1
SPECIFICATION Spec
INVARIANT TypeOK
INVARIANT AtMostOneResponse
INVARIANT AnsweredBeforeClose
PROPERTY EveryRequestAnswered
\* serveConn returns and its goroutine ends: the final state is real.
CHECK_DEADLOCK FALSE
