\* Two user goroutines, two clients (each dialed, maybe already used up,
\* and Put once), a use limit of 1 so that get retires clients, a pool
\* floor of 2 so that put both keeps and refuses, two cleanup checks, and
\* connections that fail at any time.
CONSTANTS
  Users = {u1, u2}
  Clients = {k1, k2}
  NoClient = NoClient
  MaClientConnUsed = 1
  MinClientInPool = 2
  CleanupMaxChecks = 2
SPECIFICATION Spec
INVARIANT TypeOK
 
PROPERTY RetiredEventuallyClosed
\* Once every client is Put and out of the pool, or a call never returns,
\* the goroutines wait: a real end state.
CHECK_DEADLOCK FALSE
