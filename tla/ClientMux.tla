------------------------------ MODULE ClientMux ------------------------------
(***************************************************************************)
(* The request multiplexer of sofabolt.Client (sofabolt/client.go).        *)
(*                                                                         *)
(* Caller goroutines run invoke concurrently: each takes a request id from *)
(* the counter c.rid, registers its InvokeContext in the table c.requests, *)
(* writes the frame through c.GetConn() and waits on its errCh, with or    *)
(* without a timer.  One read-loop goroutine (doread) decodes frames from  *)
(* the connection it holds, hands each response to the context registered  *)
(* under its request id, and when a read fails drains the table with the   *)
(* error, redials if a dialer is configured, and otherwise closes the      *)
(* client and stores the read error.  The peer and the network are the     *)
(* environment: the peer answers two-way requests in any order, the        *)
(* transport may fail, and the user may Close the client at any time.      *)
(*                                                                         *)
(* A frame is abstracted to its request id, its one-way flag and a ghost   *)
(* field "from" naming the invocation that sent it; only the properties    *)
(* read "from".                                                            *)
(***************************************************************************)
EXTENDS Integers, FiniteSets, Functions

CONSTANTS
  Callers,          \* goroutines calling Do / DoTimeout / DoCallback
  RidBits,          \* width of the request id counter c.rid (32 in the code)
  MaxCalls,         \* bound: invocations per caller
  MaxConns,         \* bound: connections dialed, the first one included
  Timeouts,         \* timeout arguments callers pass: "finite" or "infinite" (0)
  HasDialer,        \* options.dialer is set: the client dials and redials
  ReadDeadline,     \* a read/idle timeout is set: a blocked read may expire
  NetworkFailures,  \* the transport under an open connection may fail
  Heartbeat,        \* the caller that is the doheartbeat goroutine, or NoValue
  HeartbeatProbes,  \* options.heartbeatProbes
  HeartbeatTimeout, \* options.heartbeatTimeout: "finite" or "infinite" (0)
  NoValue

ASSUME RidBits \in Nat \ {0}
ASSUME MaxCalls \in Nat /\ MaxConns \in Nat \ {0}
ASSUME Timeouts # {} /\ Timeouts \subseteq {"finite", "infinite"}
ASSUME {HasDialer, ReadDeadline, NetworkFailures} \subseteq BOOLEAN
ASSUME Heartbeat \in Callers \cup {NoValue} /\ HeartbeatProbes \in Nat
ASSUME HeartbeatTimeout \in {"finite", "infinite"}

RidSpace == 0 .. (2^RidBits - 1)
Gens == 1 .. MaxConns
Invocations == Callers \X (1 .. MaxCalls)

\* atomic.AddUint32(&c.rid, 1): the counter wraps at 2^RidBits
NextRid(n) == (n + 1) % (2^RidBits)

VARIABLES
  closed,      \* c.closed
  rerr,        \* c.rerr: the stored terminal read error
  ridCounter,  \* c.rid
  requests,    \* c.requests: request id -> caller whose InvokeContext it is
  conn,        \* c.conn: the connection generation GetConn returns
  gen,         \* generations dialed so far
  connState,   \* generation -> "undialed", "open", "broken", "closed", "error"
  toServer,    \* generation -> request frames in flight to the peer
  toClient,    \* generation -> response frames in flight to the client
  rl,          \* program counter of the read loop doread
  rlConn,      \* doread's local conn
  pc,          \* caller -> its place in invoke
  rid,         \* caller -> request id of its current invocation
  oneway,      \* caller -> its request is TypeBOLTRequestOneWay
  cb,          \* caller -> its context has a callback (DoCallback), no errCh
  tmo,         \* caller -> the timeout argument of its current invocation
  errCh,       \* caller -> the value buffered in ctx.errCh (capacity 1)
  calls,       \* caller -> invocations started (the current one's number)
  probes,      \* doheartbeat's probes: consecutive failed probes (saturated)
  hbDone,      \* doheartbeat has reached DONE and returned
  cbOwed,      \* ghost: DoCallback invocations whose callback is still owed
  cbDone,      \* ghost: callback invocations made, [from, v]
  cbFailed     \* ghost: DoCallback invocations that returned an error

connVars == <<conn, gen, connState, toServer, toClient>>
callerVars == <<pc, rid, oneway, cb, tmo, calls, probes, hbDone>>
cbVars == <<cbOwed, cbDone, cbFailed>>
vars == <<closed, rerr, ridCounter, requests, rl, rlConn, errCh,
          connVars, callerVars, cbVars>>

Invocation(c) == <<c, calls[c]>>
Req(c) == [rid |-> rid[c], oneway |-> oneway[c], from |-> Invocation(c)]
\* The InvokeContext registered for c's current invocation.
Ctx(c) == [from |-> Invocation(c), cb |-> cb[c]]

EmptyTable == [r \in {} |-> NoValue]
\* c.requests[rid] = ictx
Register(tab, r, x0) == [x \in DOMAIN tab \cup {r} |-> IF x = r THEN x0 ELSE tab[x]]
\* The caller waiting on the context registered under id r.
Owner(r) == requests[r].from[1]
\* Ids whose context has an errCh (a Do / DoTimeout caller).
SyncIds == {r \in DOMAIN requests : ~requests[r].cb}
\* delete(c.requests, rid)
Unregister(tab, r) == Restrict(tab, DOMAIN tab \ {r})

\* net.Conn.Close on generation g: reads and writes fail from now on and the
\* frames still in flight on it are lost.
CloseGen(g) ==
  /\ connState' = [connState EXCEPT ![g] = "closed"]
  /\ toServer' = [toServer EXCEPT ![g] = {}]
  /\ toClient' = [toClient EXCEPT ![g] = {}]

\* polyfill: a given connection is used as is; with a dialer the first Dial
\* may fail and the client then holds an errorconn whose reads and writes fail.
InitialConnStates == IF HasDialer THEN {"open", "error"} ELSE {"open"}

Init ==
  /\ closed = FALSE
  /\ rerr = NoValue
  /\ ridCounter = 0
  /\ requests = EmptyTable
  /\ conn = 1
  /\ gen = 1
  /\ connState \in {[g \in Gens |-> IF g = 1 THEN s ELSE "undialed"] :
                      s \in InitialConnStates}
  /\ toServer = [g \in Gens |-> {}]
  /\ toClient = [g \in Gens |-> {}]
  /\ rl = "read"
  /\ rlConn = 1
  /\ pc = [c \in Callers |-> "idle"]
  /\ rid = [c \in Callers |-> 0]
  /\ oneway = [c \in Callers |-> FALSE]
  /\ cb = [c \in Callers |-> FALSE]
  /\ tmo = [c \in Callers |-> "infinite"]
  /\ errCh = [c \in Callers |-> NoValue]
  /\ calls = [c \in Callers |-> 0]
  /\ probes = 0
  /\ hbDone = FALSE
  /\ cbOwed = {}
  /\ cbDone = {}
  /\ cbFailed = {}

-----------------------------------------------------------------------------
(* Callers: invoke                                                         *)

\* InvokeContext.Invoke with no callback: the response is assigned and
\* err is sent on errCh, a blocking send on a channel of capacity 1.
Invoke(c, v) ==
  /\ errCh[c] = NoValue
  /\ errCh' = [errCh EXCEPT ![c] = v]

\* AcquireInvokeContext for c's next invocation: a channel still holding a
\* value (or none) is replaced by a fresh, empty one.
AcquireInvokeContext(c) == [errCh EXCEPT ![c] = NoValue]

\* Mutant: probes is reset at the top of every iteration, so failures are
\* never consecutive.
HeartbeatResultResetFirst(c, failed) ==
  IF c = Heartbeat
    THEN /\ probes' = IF failed THEN 1 ELSE 0
         /\ hbDone' = (failed /\ 1 > HeartbeatProbes /\ HeartbeatProbes > 0)
    ELSE UNCHANGED <<probes, hbDone>>

\* doheartbeat after its DoTimeout returns: a failure counts a probe, and
\* past heartbeatProbes fires onHeartbeat(false) and, if heartbeatProbes
\* is positive, leaves the loop; a success resets the count.  probes is
\* only compared with heartbeatProbes, so it saturates one above it.
HeartbeatResult(c, failed) ==
  IF c = Heartbeat
    THEN /\ probes' = IF failed THEN IF probes > HeartbeatProbes THEN probes
                                                               ELSE probes + 1
                                ELSE 0
         /\ hbDone' = (failed /\ probes + 1 > HeartbeatProbes
                               /\ HeartbeatProbes > 0)
    ELSE UNCHANGED <<probes, hbDone>>

\* Whether caller c may start another call: doheartbeat sleeps and calls
\* until DONE; its rejected calls send nothing and are not bounded.
MayCall(c, rejected) ==
  IF c = Heartbeat THEN ~hbDone /\ (rejected \/ calls[c] < MaxCalls)
                   ELSE calls[c] < MaxCalls

\* invoke returns ErrClientWasClosed, or the stored read error, at once.
InvokeRejected(c) ==
  /\ pc[c] = "idle"
  /\ MayCall(c, TRUE)
  /\ closed \/ rerr # NoValue
  /\ calls' = IF c = Heartbeat THEN calls ELSE [calls EXCEPT ![c] = @ + 1]
  /\ HeartbeatResult(c, TRUE)
  /\ UNCHANGED <<closed, rerr, ridCounter, requests, rl, rlConn, errCh,
                 connVars, pc, rid, oneway, cb, tmo, cbVars>>

\* The call c starts: Do / DoTimeout with a two-way or one-way request and a
\* timeout, or DoCallback (a fresh context with the callback and no errCh,
\* invoked with timeout 0).  The heartbeat sends two-way requests through
\* DoTimeout with options.heartbeatTimeout.  A one-way DoCallback is not
\* modelled: its callback is never invoked by design.
StartCall(c) ==
  \E ow \in IF c = Heartbeat THEN {FALSE} ELSE BOOLEAN,
     k \in IF c = Heartbeat THEN {FALSE} ELSE BOOLEAN,
     t \in IF c = Heartbeat THEN {HeartbeatTimeout} ELSE Timeouts :
       /\ ~(ow /\ k)
       /\ oneway' = [oneway EXCEPT ![c] = ow]
       /\ cb' = [cb EXCEPT ![c] = k]
       /\ tmo' = [tmo EXCEPT ![c] = IF k THEN "infinite" ELSE t]

\* Mutant: the id is read but the counter is never advanced.
InvokeStartSameRid(c) ==
  /\ pc[c] = "idle"
  /\ MayCall(c, FALSE)
  /\ ~closed /\ rerr = NoValue
  /\ StartCall(c)
  /\ rid' = [rid EXCEPT ![c] = NextRid(ridCounter)]
  /\ calls' = [calls EXCEPT ![c] = @ + 1]
  /\ pc' = [pc EXCEPT ![c] = "add"]
  /\ UNCHANGED <<closed, rerr, ridCounter, requests, rl, rlConn, errCh,
                 connVars, probes, hbDone, cbVars>>

\* invoke passes its checks and takes the next request id.
InvokeStart(c) ==
  /\ pc[c] = "idle"
  /\ MayCall(c, FALSE)
  /\ ~closed /\ rerr = NoValue
  /\ StartCall(c)
  /\ ridCounter' = NextRid(ridCounter)
  /\ rid' = [rid EXCEPT ![c] = NextRid(ridCounter)]
  /\ calls' = [calls EXCEPT ![c] = @ + 1]
  /\ pc' = [pc EXCEPT ![c] = "add"]
  /\ UNCHANGED <<closed, rerr, requests, rl, rlConn, errCh, connVars,
                 probes, hbDone, cbVars>>

\* c.addRequestContext(rid, ctx), before the write is issued.  From here a
\* callback is owed to a DoCallback caller, unless invoke returns an error.
AddRequestContext(c) ==
  /\ pc[c] = "add"
  /\ requests' = Register(requests, rid[c], Ctx(c))
  /\ cbOwed' = IF cb[c] THEN cbOwed \cup {Invocation(c)} ELSE cbOwed
  /\ pc' = [pc EXCEPT ![c] = "write"]
  /\ UNCHANGED <<closed, rerr, ridCounter, rl, rlConn, errCh, connVars,
                 rid, oneway, cb, tmo, calls, probes, hbDone, cbDone,
                 cbFailed>>

\* c.write through the connection GetConn returns now.  A write on a
\* connection whose transport failed unnoticed is accepted and lost.  A
\* one-way request is deregistered at once and invoke returns nil; the
\* released context's channel is not reused if the drain filled it.  A
\* callback context has no errCh, so invoke returns nil and leaves it in
\* the table.
WriteOk(c) ==
  /\ pc[c] = "write"
  /\ connState[conn] \in {"open", "broken"}
  /\ toServer' = IF connState[conn] = "open"
                   THEN [toServer EXCEPT ![conn] = @ \cup {Req(c)}]
                   ELSE toServer
  /\ requests' = IF oneway[c] THEN Unregister(requests, rid[c]) ELSE requests
  /\ errCh' = IF oneway[c] THEN AcquireInvokeContext(c) ELSE errCh
  /\ pc' = [pc EXCEPT ![c] = IF oneway[c] \/ cb[c] THEN "idle" ELSE "wait"]
  /\ UNCHANGED <<closed, rerr, ridCounter, rl, rlConn, conn, gen, connState,
                 toClient, rid, oneway, cb, tmo, calls, probes, hbDone,
                 cbVars>>

\* The write fails: c.delRequestContext(rid) and the error is returned.
\* DoTimeout releases the context; a value the drain left in its errCh makes
\* AcquireInvokeContext allocate a fresh channel.  DoCallback returns the
\* error to its caller, which is then owed no callback.
WriteFail(c) ==
  /\ pc[c] = "write"
  /\ connState[conn] \in {"broken", "closed", "error"}
  /\ requests' = Unregister(requests, rid[c])
  /\ errCh' = IF cb[c] THEN errCh ELSE AcquireInvokeContext(c)
  /\ cbOwed' = cbOwed \ {Invocation(c)}
  /\ cbFailed' = IF cb[c] THEN cbFailed \cup {Invocation(c)} ELSE cbFailed
  /\ pc' = [pc EXCEPT ![c] = "idle"]
  /\ HeartbeatResult(c, TRUE)
  /\ UNCHANGED <<closed, rerr, ridCounter, rl, rlConn, connVars,
                 rid, oneway, cb, tmo, calls, cbDone>>

\* select: a value arrives on ctx.errCh (the response, or the read error).
WaitReceive(c) ==
  /\ pc[c] = "wait"
  /\ errCh[c] # NoValue
  /\ errCh' = [errCh EXCEPT ![c] = NoValue]
  /\ pc' = [pc EXCEPT ![c] = "idle"]
  /\ HeartbeatResult(c, errCh[c].err = "read")
  /\ UNCHANGED <<closed, rerr, ridCounter, requests, rl, rlConn, connVars,
                 rid, oneway, cb, tmo, calls, cbVars>>

\* Mutant: the timeout path forgets c.delRequestContext(rid).
WaitTimeoutKeepEntry(c) ==
  /\ pc[c] = "wait"
  /\ tmo[c] = "finite"
  /\ errCh' = AcquireInvokeContext(c)
  /\ pc' = [pc EXCEPT ![c] = "idle"]
  /\ HeartbeatResult(c, TRUE)
  /\ UNCHANGED <<closed, rerr, ridCounter, requests, rl, rlConn, connVars,
                 rid, oneway, cb, tmo, calls, cbVars>>

\* select: the timer fires (Go picks either case when both are ready):
\* c.delRequestContext(rid), ErrClientTimeout, and the context is abandoned.
WaitTimeout(c) ==
  /\ pc[c] = "wait"
  /\ tmo[c] = "finite"
  /\ requests' = Unregister(requests, rid[c])
  /\ errCh' = AcquireInvokeContext(c)
  /\ pc' = [pc EXCEPT ![c] = "idle"]
  /\ HeartbeatResult(c, TRUE)
  /\ UNCHANGED <<closed, rerr, ridCounter, rl, rlConn, connVars,
                 rid, oneway, cb, tmo, calls, cbVars>>

\* Close: the first caller wins the CAS and closes the current connection.
Close ==
  /\ ~closed
  /\ closed' = TRUE
  /\ CloseGen(conn)
  /\ UNCHANGED <<rerr, ridCounter, requests, rl, rlConn, errCh, conn, gen,
                 callerVars, cbVars>>

-----------------------------------------------------------------------------
(* The read loop: doread                                                   *)

\* The callbacks of the contexts under ids run with result v, on the read
\* loop's goroutine.
InvokeCallback(ids, v) ==
  /\ cbDone' = cbDone \cup {[from |-> requests[r].from, v |-> v] : r \in ids}
  /\ cbOwed' = cbOwed \ {requests[r].from : r \in ids}
  /\ UNCHANGED cbFailed

\* The non-blocking send of the read error to the errCh of every pending
\* Do / DoTimeout context; a full channel keeps its value.
DrainErrCh ==
  [c \in Callers |->
     IF (\E r \in SyncIds : Owner(r) = c) /\ errCh[c] = NoValue
       THEN [err |-> "read", from |-> NoValue]
       ELSE errCh[c]]

\* Mutant: the context is looked up but not deleted from the table.
HandleResponseKeepEntry ==
  /\ rl = "read"
  /\ \E m \in toClient[rlConn] :
       /\ toClient' = [toClient EXCEPT ![rlConn] = @ \ {m}]
       /\ IF m.rid \in DOMAIN requests
            THEN IF requests[m.rid].cb
                   THEN /\ InvokeCallback({m.rid}, "ok")
                        /\ UNCHANGED errCh
                   ELSE /\ Invoke(Owner(m.rid), [err |-> "ok", from |-> m.from])
                        /\ UNCHANGED cbVars
            ELSE UNCHANGED <<errCh, cbVars>>
  /\ UNCHANGED <<closed, rerr, ridCounter, requests, rl, rlConn, conn, gen,
                 connState, toServer, callerVars>>

\* A response is decoded; handleResponse takes its context out of the table
\* (getAndDelRequestContext, under the lock) and InvokeContext.Invoke runs
\* the callback, or sends on errCh (a blocking send).  A response with no
\* pending context is dropped.
HandleResponse ==
  /\ rl = "read"
  /\ \E m \in toClient[rlConn] :
       /\ toClient' = [toClient EXCEPT ![rlConn] = @ \ {m}]
       /\ IF m.rid \in DOMAIN requests
            THEN /\ IF requests[m.rid].cb
                      THEN /\ InvokeCallback({m.rid}, "ok")
                           /\ UNCHANGED errCh
                      ELSE /\ Invoke(Owner(m.rid), [err |-> "ok", from |-> m.from])
                           /\ UNCHANGED cbVars
                 /\ requests' = Unregister(requests, m.rid)
            ELSE UNCHANGED <<errCh, requests, cbVars>>
  /\ UNCHANGED <<closed, rerr, ridCounter, rl, rlConn, conn, gen, connState,
                 toServer, callerVars>>

\* cmd.Read fails: the connection was closed or its transport failed, or a
\* read deadline expired (any error ends the Client's read loop).
ReadError ==
  /\ rl = "read"
  /\ connState[rlConn] # "open" \/ ReadDeadline
  /\ rl' = "drain"
  /\ UNCHANGED <<closed, rerr, ridCounter, requests, rlConn, errCh, connVars,
                 callerVars, cbVars>>

\* Mutant: the pending contexts are notified but the table is not cleared.
CleanupPendingKeepTable ==
  /\ rl = "drain"
  /\ errCh' = DrainErrCh
  /\ InvokeCallback(DOMAIN requests \ SyncIds, "read")
  /\ rl' = "redial"
  /\ UNCHANGED <<closed, rerr, ridCounter, requests, rlConn, connVars,
                 callerVars>>

\* Mutant: the table is cleared without notifying the pending contexts.
CleanupPendingSilent ==
  /\ rl = "drain"
  /\ requests' = EmptyTable
  /\ rl' = "redial"
  /\ UNCHANGED <<closed, rerr, ridCounter, rlConn, errCh, connVars,
                 callerVars, cbVars>>

CleanupPending ==
  /\ rl = "drain"
  /\ errCh' = DrainErrCh
  /\ InvokeCallback(DOMAIN requests \ SyncIds, "read")
  /\ requests' = EmptyTable
  /\ rl' = "redial"
  /\ UNCHANGED <<closed, rerr, ridCounter, rlConn, connVars, callerVars>>

\* mayRedial / redial: a closed client or a missing dialer ends the loop.
RedialStop ==
  /\ rl = "redial"
  /\ closed \/ ~HasDialer
  /\ rl' = "giveup"
  /\ UNCHANGED <<closed, rerr, ridCounter, requests, rlConn, errCh, connVars,
                 callerVars, cbVars>>

\* redial: the client is not closed; sleep the backoff, then Dial.
RedialSleep ==
  /\ rl = "redial"
  /\ ~closed /\ HasDialer
  /\ rl' = "dialing"
  /\ UNCHANGED <<closed, rerr, ridCounter, requests, rlConn, errCh, connVars,
                 callerVars, cbVars>>

\* Dial fails: continue the retry loop.
DialFail ==
  /\ rl = "dialing"
  /\ rl' = "redial"
  /\ UNCHANGED <<closed, rerr, ridCounter, requests, rlConn, errCh, connVars,
                 callerVars, cbVars>>

\* Dial succeeds: the new connection is wrapped, the old one closed, the new
\* one installed with setConn, and the loop reads from it.
DialSwap ==
  /\ rl = "dialing"
  /\ gen < MaxConns
  /\ gen' = gen + 1
  /\ connState' = [connState EXCEPT ![rlConn] = "closed", ![gen + 1] = "open"]
  /\ toServer' = [toServer EXCEPT ![rlConn] = {}]
  /\ toClient' = [toClient EXCEPT ![rlConn] = {}]
  /\ conn' = gen + 1
  /\ rlConn' = gen + 1
  /\ rl' = "read"
  /\ UNCHANGED <<closed, rerr, ridCounter, requests, errCh, callerVars, cbVars>>

\* No redial: c.Close() (closing the current connection if this CAS wins),
\* then the read error is stored.
ReadLoopExit ==
  /\ rl = "giveup"
  /\ closed' = TRUE
  /\ IF closed THEN UNCHANGED <<connState, toServer, toClient>>
               ELSE CloseGen(conn)
  /\ rerr' = "read"
  /\ rl' = "dead"
  /\ UNCHANGED <<ridCounter, requests, rlConn, errCh, conn, gen, callerVars, cbVars>>

-----------------------------------------------------------------------------
(* Environment: the peer and the transport                                 *)

\* The peer reads a request and, unless it is one-way, answers it.
Serve(g) ==
  /\ connState[g] = "open"
  /\ \E m \in toServer[g] :
       /\ toServer' = [toServer EXCEPT ![g] = @ \ {m}]
       /\ toClient' = IF m.oneway THEN toClient
                      ELSE [toClient EXCEPT ![g] = @ \cup
                              {[rid |-> m.rid, from |-> m.from]}]
  /\ UNCHANGED <<closed, rerr, ridCounter, requests, rl, rlConn, errCh,
                 conn, gen, connState, callerVars, cbVars>>

\* The transport fails: frames in flight are lost, later reads fail.
TransportFailure(g) ==
  /\ NetworkFailures
  /\ connState[g] = "open"
  /\ connState' = [connState EXCEPT ![g] = "broken"]
  /\ toServer' = [toServer EXCEPT ![g] = {}]
  /\ toClient' = [toClient EXCEPT ![g] = {}]
  /\ UNCHANGED <<closed, rerr, ridCounter, requests, rl, rlConn, errCh,
                 conn, gen, callerVars, cbVars>>

-----------------------------------------------------------------------------

CallerStep(c) ==
  \/ AddRequestContext(c) \/ WriteOk(c) \/ WriteFail(c)
  \/ WaitReceive(c) \/ WaitTimeout(c)

ReadLoop ==
  \/ HandleResponse \/ ReadError \/ CleanupPending
  \/ RedialStop \/ RedialSleep \/ DialFail \/ DialSwap \/ ReadLoopExit

\* Do / DoTimeout: one step of caller c's goroutine, from acquiring the
\* invoke context through invoke to its release.
DoTimeout(c) == InvokeRejected(c) \/ InvokeStart(c) \/ CallerStep(c)

Next ==
  \/ \E c \in Callers : DoTimeout(c)
  \/ ReadLoop
  \/ Close
  \/ \E g \in Gens : Serve(g) \/ TransportFailure(g)

\* Goroutines that can run do run: each caller inside invoke (its timer fires
\* eventually), the read loop, and the peer answering.  doheartbeat only
\* sleeps between calls, so it starts its next call too.  Other callers
\* starting a call, Close and transport failures are never forced.
Fairness ==
  /\ \A c \in Callers : WF_vars(CallerStep(c))
  /\ \A c \in Callers \cap {Heartbeat} : WF_vars(DoTimeout(c))
  /\ WF_vars(ReadLoop)
  /\ \A g \in Gens : WF_vars(Serve(g))

Spec == Init /\ [][Next]_vars /\ Fairness

-----------------------------------------------------------------------------
(* Properties                                                              *)

TypeOK ==
  /\ closed \in BOOLEAN
  /\ rerr \in {NoValue, "read"}
  /\ ridCounter \in RidSpace
  /\ DOMAIN requests \subseteq RidSpace
  /\ Range(requests) \subseteq [from : Invocations, cb : BOOLEAN]
  /\ conn \in Gens /\ gen \in Gens /\ rlConn \in Gens
  /\ connState \in [Gens -> {"undialed", "open", "broken", "closed", "error"}]
  /\ toServer \in [Gens -> SUBSET [rid : RidSpace, oneway : BOOLEAN,
                                   from : Invocations]]
  /\ toClient \in [Gens -> SUBSET [rid : RidSpace, from : Invocations]]
  /\ rl \in {"read", "drain", "redial", "dialing", "giveup", "dead"}
  /\ pc \in [Callers -> {"idle", "add", "write", "wait"}]
  /\ rid \in [Callers -> RidSpace]
  /\ oneway \in [Callers -> BOOLEAN] /\ cb \in [Callers -> BOOLEAN]
  /\ tmo \in [Callers -> Timeouts \cup {"infinite"}]
  /\ errCh \in [Callers -> {NoValue} \cup
                 [err : {"ok"}, from : Invocations] \cup
                 [err : {"read"}, from : {NoValue}]]
  /\ calls \in [Callers -> 0 .. MaxCalls]
  /\ probes \in 0 .. HeartbeatProbes + 1
  /\ hbDone \in BOOLEAN
  /\ cbOwed \subseteq Invocations
  /\ cbDone \subseteq [from : Invocations, v : {"ok", "read"}]
  /\ cbFailed \subseteq Invocations

\* Correlation (client.go invoke / handleResponse): a response handed to a
\* caller's errCh answers that caller's current request, never another
\* invocation's, whatever the order in which responses, timeouts and
\* redials interleave.
NoMisroute ==
  \A c \in Callers :
    errCh[c] # NoValue /\ errCh[c].err = "ok" => errCh[c].from = Invocation(c)

\* The read loop's send ictx.errCh <- err never blocks: a context still in
\* the table has an empty channel, so at most one value is ever sent to it
\* (by handleResponse or by the drain, not both).
DeliveryNeverBlocks ==
  \A r \in SyncIds : errCh[Owner(r)] = NoValue

\* Every errCh context in c.requests belongs to an invocation still inside
\* invoke under that request id: timeouts, write errors, one-way sends and
\* the drain leave no stale context behind.  (A callback context outlives
\* DoCallback by design.)
NoStaleEntry ==
  \A r \in SyncIds :
    /\ requests[r].from = Invocation(Owner(r))
    /\ pc[Owner(r)] \in {"write", "wait"} /\ rid[Owner(r)] = r

\* A call waiting in invoke eventually returns: by its response, by the
\* read error the drain delivers, or by its timer.
EveryCallReturns ==
  \A c \in Callers : pc[c] = "wait" ~> pc[c] = "idle"

\* The drain reaches every call it finds registered (client.go:297-314):
\* a Do / DoTimeout whose context is in c.requests when a read fails
\* eventually returns, by its response, the read error or its timer,
\* whether it is still writing or already waiting.  (A call that registers
\* after the drain is the hang of mux_redial_hang.)
DrainedCallReturns ==
  \A c \in Callers :
    (/\ rl = "drain" /\ pc[c] \in {"write", "wait"}
     /\ rid[c] \in SyncIds /\ requests[rid[c]].from = Invocation(c))
      ~> pc[c] = "idle"

\* doheartbeat (client.go:222-245) has no closed check of its own: once the
\* client is closed it ends only by counting failed probes.  With a
\* positive heartbeatProbes and heartbeatTimeout, a closed client's
\* heartbeat goroutine eventually returns, whichever step of a probe Close
\* or a failing read interrupted.  (With heartbeatTimeout 0 a probe written
\* after the drain waits forever, as in mux_redial_hang.)
HeartbeatEndsAfterClose ==
  Heartbeat # NoValue /\ HeartbeatProbes > 0 /\ HeartbeatTimeout = "finite"
    => (closed ~> hbDone)

\* A DoCallback callback runs at most once (client.go handleResponse and the
\* drain in doread): the response and the read error never both reach it,
\* whatever the order of a late response, the drain and a redial.
CallbackAtMostOnce ==
  \A d1, d2 \in cbDone : d1.from = d2.from => d1 = d2

ClosedClientStopsReading == closed ~> rl = "dead"

\* The outcome of a DoCallback is reported once (spec.md section 3: the
\* callback, not a channel, governs completion of a callback context): a
\* DoCallback that returns an error never also has its callback run.
CallbackOrError ==
  \A d \in cbDone : d.from \notin cbFailed

-----------------------------------------------------------------------------
(* Refinement of InvokeCorrelation                                         *)

\* The outcome an invocation i holds in its errCh: the read error, its own
\* response, or another invocation's response (a phase the abstract
\* specification has no name for).
ErrChPhase(e, i) ==
  IF e.err = "read" THEN "err" ELSE IF e.from = i THEN "ok" ELSE "misrouted"

\* The abstract phase of invocation i = <<c, k>>, from the callback ghosts,
\* the table, and caller c's place in invoke and its errCh.
InvocationPhase(i) ==
  LET c == i[1]
      k == i[2]
  IN CASE i \in cbFailed -> "gone"
       [] \E d \in cbDone : d.from = i ->
            IF [from |-> i, v |-> "ok"] \in cbDone THEN "ok" ELSE "err"
       [] \E r \in DOMAIN requests : requests[r].from = i -> "live"
       [] k > calls[c] \/ (k = calls[c] /\ pc[c] = "add") -> "new"
       [] k = calls[c] /\ pc[c] \in {"write", "wait"} /\ errCh[c] # NoValue ->
            ErrChPhase(errCh[c], i)
       [] OTHER -> "gone"

Correlation == INSTANCE InvokeCorrelation
  WITH phase <- [i \in Invocations |-> InvocationPhase(i)]

\* Refinement (client.go invoke, handleResponse and the drain in doread):
\* every step of the callers, the read loop, Close and the network is a
\* step of InvokeCorrelation, so an invocation is told at most one outcome,
\* only while its context is registered, a response only if it is its own,
\* and a read error reaches every registered invocation at once.
RefinesInvokeCorrelation == Correlation!Spec

=============================================================================
