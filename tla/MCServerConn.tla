----------------------------- MODULE MCServerConn -----------------------------
(* Model-checking instance of ServerConn: the constants are given in the   *)
(* MCServerConn_*.cfg files, the server configurations here.               *)
EXTENDS ServerConn

\* Sync handling flushing after every request, and async handling with a
\* flush interval of one tick.
SyncAndAsync == {[async |-> FALSE, flushInterval |-> 0],
                 [async |-> TRUE, flushInterval |-> 1]}

\* Sync handling with a flush interval of two ticks.
SyncInterval2 == {[async |-> FALSE, flushInterval |-> 2]}

\* Sync handling flushing after every request.
SyncNoInterval == {[async |-> FALSE, flushInterval |-> 0]}

=============================================================================
