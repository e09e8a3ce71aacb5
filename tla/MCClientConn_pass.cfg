\* Every option combination NewClientConn accepts, two redials, three
\* frames from the peer, transport failures and a Close at any point.
CONSTANTS
  MaxConns = 3
  MaxFrames = 3
SPECIFICATION Spec
INVARIANT TypeOK
PROPERTY StatusTransitions
\* The loop ends (Shutdown) or waits in a read; both are final states of
\* a real ClientConn.
CHECK_DEADLOCK FALSE
