---------------------------- MODULE ServerShutdown ----------------------------
(***************************************************************************)
(* Graceful shutdown of sofabolt.Server (server.go Serve, ServeConn,       *)
(* closeConns, closeListeners, Shutdown) over connections wrapped in       *)
(* stateconn.StateConn.                                                    *)
(*                                                                         *)
(* Serve accepts connections and hands each to the worker pool, whose      *)
(* worker runs ServeConn: the connection is wrapped in a StateConn, added  *)
(* to srv.conns, and served until a read or write fails; then it is closed *)
(* and removed.  Every Read and Write of a StateConn stores (now, Active). *)
(* Shutdown closes the listeners and then polls closeConns(false), which   *)
(* under srv.Lock closes and removes connections by their state and its    *)
(* time, and reports whether one was left alive; when the context is done  *)
(* it calls closeConns(true).  A connection's requests are reduced to      *)
(* "a request is in flight"; time to whole ticks of the clock the state    *)
(* stamps use (seconds in the code).                                       *)
(***************************************************************************)
EXTENDS Integers, FiniteSets

CONSTANTS
  Conns,          \* connections the listener may accept
  IdleThreshold,  \* defaultConnIdleThreshold, in ticks
  CtxDeadline,    \* tick at which Shutdown's context is done (-1: never)
  MaxTime         \* bound: clock ticks

ASSUME IdleThreshold \in Nat /\ MaxTime \in Nat /\ CtxDeadline \in Int

\* stateconn.State values (StateIdle and StateHijacked are never stored);
\* "none" marks a connection not yet wrapped.
States == {"none", "new", "active", "idle", "hijacked", "closed"}

VARIABLES
  lnOpen,     \* the listener is in srv.listeners and open
  accepted,   \* accepted by Serve, handed to the pool, ServeConn not yet run
  conns,      \* srv.conns
  st,         \* connection -> the State packed in the StateConn
  stamp,      \* connection -> the time packed with it
  rawClosed,  \* connection -> the underlying net.Conn was closed
  cph,        \* connection -> where its ServeConn goroutine is
  pendingConns, \* srv.metrics.pendingconnections
  sd,         \* where the Shutdown caller is
  result,     \* what Shutdown returned
  now         \* the clock

connVars == <<accepted, conns, st, stamp, rawClosed, cph, pendingConns>>
vars == <<lnOpen, connVars, sd, result, now>>

Init ==
  /\ lnOpen = TRUE
  /\ accepted = {}
  /\ conns = {}
  /\ st = [c \in Conns |-> "none"]
  /\ stamp = [c \in Conns |-> 0]
  /\ rawClosed = [c \in Conns |-> FALSE]
  /\ cph = [c \in Conns |-> "none"]
  /\ pendingConns = 0
  /\ sd = "off"
  /\ result = "none"
  /\ now = 0

\* StateConn.SetState: store the state with the current time.
SetState(c, s) ==
  /\ st' = [st EXCEPT ![c] = s]
  /\ stamp' = [stamp EXCEPT ![c] = now]

\* StateConn.Close: close once, by a check of the state that is not a CAS.
StateClose(c) ==
  /\ IF st[c] # "closed" THEN /\ SetState(c, "closed")
                              /\ rawClosed' = [rawClosed EXCEPT ![c] = TRUE]
                         ELSE UNCHANGED <<st, stamp, rawClosed>>

\* closeConns, for one connection: a New connection older than the
\* threshold counts as Idle; one that is not Idle and older than the
\* threshold is left open and counts as lived.
Lived(c) ==
  LET s == IF st[c] = "new" /\ stamp[c] < now - IdleThreshold THEN "idle"
                                                               ELSE st[c]
  IN  s # "idle" /\ stamp[c] < now - IdleThreshold

\* Mutant of CloseConns: the delete is done for live connections too.
CloseConnsDeleteLived(force) ==
  LET K == IF force THEN conns ELSE {c \in conns : ~Lived(c)}
  IN  /\ rawClosed' = [c \in Conns |->
                         rawClosed[c] \/ (c \in K /\ (~force \/ st[c] # "closed"))]
      /\ st' = [c \in Conns |-> IF c \in K THEN "closed" ELSE st[c]]
      /\ stamp' = [c \in Conns |->
                     IF c \in K /\ st[c] # "closed" THEN now ELSE stamp[c]]
      /\ conns' = {}

\* closeConns(force) under srv.Lock: close (the raw connection, then the
\* StateConn) and delete every connection it does not leave alive.
CloseConns(force) ==
  LET K == IF force THEN conns ELSE {c \in conns : ~Lived(c)}
      \* only the graceful path closes the raw connection itself; c.Close()
      \* closes it when the state is not Closed
  IN  /\ rawClosed' = [c \in Conns |->
                         rawClosed[c] \/ (c \in K /\ (~force \/ st[c] # "closed"))]
      /\ st' = [c \in Conns |-> IF c \in K THEN "closed" ELSE st[c]]
      /\ stamp' = [c \in Conns |->
                     IF c \in K /\ st[c] # "closed" THEN now ELSE stamp[c]]
      /\ conns' = conns \ K

AnyLived == \E c \in conns : Lived(c)

-----------------------------------------------------------------------------
(* Serve and ServeConn                                                     *)

\* ln.Accept returns a connection and servepool.Serve queues it.
Accept(c) ==
  /\ lnOpen
  /\ cph[c] = "none" /\ c \notin accepted
  /\ accepted' = accepted \cup {c}
  /\ UNCHANGED <<lnOpen, conns, st, stamp, rawClosed, cph, pendingConns,
                 sd, result, now>>

\* Mutant of ServeConnStart: the pending-connection count is not raised.
ServeConnStartNoCount(c) ==
  /\ c \in accepted
  /\ accepted' = accepted \ {c}
  /\ pendingConns' = pendingConns
  /\ SetState(c, "new")
  /\ conns' = conns \cup {c}
  /\ cph' = [cph EXCEPT ![c] = "read"]
  /\ UNCHANGED <<lnOpen, rawClosed, sd, result, now>>

\* A worker runs ServeConn: pending connections + 1, the connection is
\* wrapped (state New) and added to srv.conns.
ServeConnStart(c) ==
  /\ c \in accepted
  /\ accepted' = accepted \ {c}
  /\ pendingConns' = pendingConns + 1
  /\ SetState(c, "new")
  /\ conns' = conns \cup {c}
  /\ cph' = [cph EXCEPT ![c] = "read"]
  /\ UNCHANGED <<lnOpen, rawClosed, sd, result, now>>

\* serveConn calls Read on the StateConn, which stores Active and blocks.
ReadCall(c) ==
  /\ cph[c] = "read"
  /\ SetState(c, "active")
  /\ cph' = [cph EXCEPT ![c] = "blocked"]
  /\ UNCHANGED <<lnOpen, accepted, conns, rawClosed, pendingConns, sd,
                 result, now>>

\* Read returns a request (the connection was not closed under it); the
\* handler runs.  Nothing touches the StateConn until the response.
RequestIn(c) ==
  /\ cph[c] = "blocked" /\ ~rawClosed[c]
  /\ cph' = [cph EXCEPT ![c] = "handling"]
  /\ UNCHANGED <<lnOpen, accepted, conns, st, stamp, rawClosed,
                 pendingConns, sd, result, now>>

\* The response is flushed through StateConn.Write, which stores Active
\* before the write, on a closed connection too; a write to a closed
\* connection fails and ends serveConn.
Respond(c) ==
  /\ cph[c] = "handling"
  /\ SetState(c, "active")
  /\ cph' = [cph EXCEPT ![c] = IF rawClosed[c] THEN "end" ELSE "read"]
  /\ UNCHANGED <<lnOpen, accepted, conns, rawClosed, pendingConns, sd,
                 result, now>>

\* The blocked Read fails: the connection was closed under it.
ReadClosed(c) ==
  /\ cph[c] = "blocked" /\ rawClosed[c]
  /\ cph' = [cph EXCEPT ![c] = "end"]
  /\ UNCHANGED <<lnOpen, accepted, conns, st, stamp, rawClosed,
                 pendingConns, sd, result, now>>

\* The peer hangs up: the blocked Read returns io.EOF.
PeerHangup(c) ==
  /\ cph[c] = "blocked" /\ ~rawClosed[c]
  /\ cph' = [cph EXCEPT ![c] = "end"]
  /\ UNCHANGED <<lnOpen, accepted, conns, st, stamp, rawClosed,
                 pendingConns, sd, result, now>>

\* serveConn returned (not hijacked): sc.Close(), delConn, pending - 1.
ServeConnEnd(c) ==
  /\ cph[c] = "end"
  /\ StateClose(c)
  /\ conns' = conns \ {c}
  /\ pendingConns' = pendingConns - 1
  /\ cph' = [cph EXCEPT ![c] = "done"]
  /\ UNCHANGED <<lnOpen, accepted, sd, result, now>>

-----------------------------------------------------------------------------
(* Shutdown                                                                *)

\* Shutdown calls closeListeners: the listener is closed and removed.
ShutdownCall ==
  /\ sd = "off"
  /\ lnOpen' = FALSE
  /\ sd' = "poll"
  /\ UNCHANGED <<connVars, result, now>>

\* One turn of the loop: closeConns(false); return nil if a connection
\* was left alive, else wait on the select.
Poll ==
  /\ sd = "poll"
  /\ CloseConns(FALSE)
  /\ sd' = IF AnyLived THEN "returned" ELSE "wait"
  /\ result' = IF AnyLived THEN "nil" ELSE result
  /\ UNCHANGED <<lnOpen, accepted, cph, pendingConns, now>>

\* The ticker fires: back to the top of the loop.
TickerFires ==
  /\ sd = "wait"
  /\ sd' = "poll"
  /\ UNCHANGED <<lnOpen, connVars, result, now>>

\* ctx.Done(): closeConns(true), which never reports a live connection,
\* then return ctx.Err().
CtxDone ==
  /\ sd = "wait"
  /\ CtxDeadline >= 0 /\ now >= CtxDeadline
  /\ CloseConns(TRUE)
  /\ sd' = "returned"
  /\ result' = "ctxerr"
  /\ UNCHANGED <<lnOpen, accepted, cph, pendingConns, now>>

\* Time passes.
Tick ==
  /\ now < MaxTime
  /\ now' = now + 1
  /\ UNCHANGED <<lnOpen, connVars, sd, result>>

\* The steps the ServeConn goroutine of c takes by itself.
ConnStep(c) ==
  \/ ServeConnStart(c) \/ ReadCall(c) \/ Respond(c) \/ ReadClosed(c)
  \/ ServeConnEnd(c)

Next ==
  \/ \E c \in Conns : Accept(c) \/ ConnStep(c) \/ RequestIn(c)
                                \/ PeerHangup(c)
  \/ ShutdownCall \/ Poll \/ TickerFires \/ CtxDone
  \/ Tick

\* Each worker goroutine runs; the Shutdown goroutine runs; the clock
\* advances.  The select of Shutdown picks at random among ready cases,
\* so the context case, once ready, is taken eventually: SF(CtxDone).
Fairness ==
  /\ \A c \in Conns : WF_vars(ConnStep(c))
  /\ WF_vars(Poll \/ TickerFires)
  /\ SF_vars(CtxDone)
  /\ WF_vars(Tick)

Spec == Init /\ [][Next]_vars /\ Fairness

-----------------------------------------------------------------------------
(* Properties                                                              *)

Phases == {"none", "read", "blocked", "handling", "end", "done"}

\* A ServeConn goroutine is between addConn and delConn.
Serving(c) == cph[c] \in {"read", "blocked", "handling", "end"}

TypeOK ==
  /\ lnOpen \in BOOLEAN
  /\ accepted \subseteq Conns /\ conns \subseteq Conns
  /\ st \in [Conns -> States] /\ stamp \in [Conns -> 0..MaxTime]
  /\ rawClosed \in [Conns -> BOOLEAN] /\ cph \in [Conns -> Phases]
  /\ pendingConns \in 0..Cardinality(Conns)
  /\ sd \in {"off", "poll", "wait", "returned"}
  /\ result \in {"none", "nil", "ctxerr"}
  /\ now \in 0..MaxTime

\* Every connection a ServeConn goroutine is serving whose raw connection
\* is still open is in srv.conns, so closeConns (forced or not) reaches it:
\* the `continue` for a live connection must skip the delete as well as
\* the close.
OpenConnsRegistered ==
  \A c \in Conns : Serving(c) /\ ~rawClosed[c] => c \in conns

\* When Shutdown returns, no connection in srv.conns is still open
\* (spec.md 4.4: remaining connections are force-closed); in the code
\* closeConns(false) reporting a live connection makes Shutdown return.
DrainedOnReturn == sd = "returned" => \A c \in conns : rawClosed[c]

=============================================================================
