------------------------------ MODULE ClientConn ------------------------------
(***************************************************************************)
(* The protocol-pluggable client connection of sofabolt (clinetconn.go).  *)
(*                                                                         *)
(* NewClientConn runs polyfill on the caller's goroutine (dial, or wrap a  *)
(* given connection) and starts one read-loop goroutine, doread.  doread   *)
(* decodes frames through a bufio reader whose before-read hook re-arms   *)
(* the read deadline and reports Active, hands every frame and every read *)
(* error to the dispatcher (inline, or on a goroutine per call in block   *)
(* mode), continues past a read deadline, and on any other error reports  *)
(* TransientFailure and redials until it succeeds or the connection is    *)
(* closed.  The user may Close at any time; the peer and the transport    *)
(* are the environment.  Every status the loop stores is observable       *)
(* through the status changer.                                            *)
(*                                                                         *)
(* A frame is its number in the order the peer sent it; a dispatched item *)
(* is [n |-> frame number, g |-> generation], with n = 0 for a read error. *)
(***************************************************************************)
EXTENDS Naturals, Sequences, SequencesExt

CONSTANTS
  MaxConns,    \* bound: connections dialed, the first one included
  MaxFrames    \* bound: frames the peer sends over all connections

ASSUME MaxConns \in Nat \ {0} /\ MaxFrames \in Nat

Gens == 1 .. MaxConns
Items == [n : 0 .. MaxFrames, g : Gens]

(* ClientConnStatus, Idle being the zero value.                            *)
Statuses == {"Idle", "Connecting", "Active", "ReadTimeout",
             "TransientFailure", "Shutdown"}

(* The options a ClientConn can be built with: WithClientConnConn,        *)
(* WithClientConnRedial, blockmode, and a read timeout > 0.  polyfill     *)
(* fails without a connection and without a dialer.                        *)
Options == {o \in [conn : BOOLEAN, dialer : BOOLEAN, blockmode : BOOLEAN,
                   readTimeout : BOOLEAN] : o.conn \/ o.dialer}

VARIABLES
  opts,       \* the options of this ClientConn
  status,     \* x.status
  closed,     \* x.closed
  conn,       \* x.conn: the generation getConn returns
  gen,        \* generations dialed so far
  connState,  \* generation -> "undialed", "open", "broken", "closed", "error"
  incoming,   \* generation -> frames sent by the peer, not yet decoded
  sent,       \* frames the peer has sent
  rl,         \* program counter of doread
  rlConn,     \* doread's local conn
  inflight,   \* dispatchAsync goroutines started and not done (the wg count)
  decoded,    \* ghost: the items doread handed to DoDispatch
  log         \* ghost: the items the dispatcher has been called with, in order

vars == <<opts, status, closed, conn, gen, connState, incoming, sent, rl,
          rlConn, inflight, decoded, log>>
envVars == <<gen, sent>>

(* OnStatusChange(to): the status is stored (and reported) only if it      *)
(* changes, which for status' is the same.                                 *)
OnStatusChange(to) == status' = to

(* net.Conn.Close on generation g: an errorconn only returns its error.    *)
CloseConn(cs, g) == IF cs[g] = "error" THEN cs ELSE [cs EXCEPT ![g] = "closed"]

(* NewClientConn / polyfill: a given connection is wrapped in an          *)
(* asyncwriteconn; otherwise the status goes to Connecting and the first  *)
(* Dial either succeeds or leaves an errorconn holding its error.         *)
Init ==
  /\ opts \in Options
  /\ status = IF opts.conn THEN "Idle" ELSE "Connecting"
  /\ closed = FALSE
  /\ conn = 1
  /\ gen = 1
  /\ connState \in {[g \in Gens |-> IF g = 1 THEN s ELSE "undialed"] :
                      s \in IF opts.conn THEN {"open"} ELSE {"open", "error"}}
  /\ incoming = [g \in Gens |-> << >>]
  /\ sent = 0
  /\ rl = "start"
  /\ rlConn = 1
  /\ inflight = {}
  /\ decoded = {}
  /\ log = << >>

-----------------------------------------------------------------------------
(* The read loop: doread                                                   *)

(* Mutant: the blockmode test inverted.                                    *)
DoDispatchInverted(item) ==
  /\ decoded' = decoded \cup {item}
  /\ IF opts.blockmode THEN /\ log' = Append(log, item) /\ UNCHANGED inflight
                       ELSE /\ inflight' = inflight \cup {item} /\ UNCHANGED log

(* DoDispatch: without blockmode the dispatcher runs inline; with it,     *)
(* wg.Add(1) and a goroutine runs dispatchAsync.                           *)
DoDispatch(item) ==
  /\ decoded' = decoded \cup {item}
  /\ IF ~opts.blockmode THEN /\ log' = Append(log, item) /\ UNCHANGED inflight
                        ELSE /\ inflight' = inflight \cup {item} /\ UNCHANGED log

(* doread starts: OnStatusChange(Active) before the first decode.          *)
Start ==
  /\ rl = "start"
  /\ OnStatusChange("Active")
  /\ rl' = "decode"
  /\ UNCHANGED <<opts, closed, conn, connState, incoming, inflight, decoded,
                 log, envVars, rlConn>>

(* The before-read hook: setConnReadTimeout, whose SetReadDeadline fails  *)
(* on a closed connection and on an errorconn (the read then fails with   *)
(* that error); otherwise OnStatusChange(Active).                          *)
BeforeRead ==
  /\ rl = "decode"
  /\ IF opts.readTimeout /\ connState[rlConn] \in {"closed", "error"}
       THEN /\ rl' = "readerr" /\ UNCHANGED status
       ELSE /\ rl' = "read" /\ OnStatusChange("Active")
  /\ UNCHANGED <<opts, closed, conn, connState, incoming, inflight, decoded,
                 log, envVars, rlConn>>

(* Decode returns the next frame, which is dispatched.                     *)
ReadFrame ==
  /\ rl = "read"
  /\ connState[rlConn] = "open"
  /\ incoming[rlConn] # << >>
  /\ DoDispatch([n |-> Head(incoming[rlConn]), g |-> rlConn])
  /\ incoming' = [incoming EXCEPT ![rlConn] = Tail(@)]
  /\ rl' = "decode"
  /\ UNCHANGED <<opts, status, closed, conn, connState, envVars, rlConn>>

(* The read deadline expires: OnStatusChange(ReadTimeout) and continue,    *)
(* nothing is dispatched.                                                  *)
ReadDeadline ==
  /\ rl = "read"
  /\ opts.readTimeout
  /\ connState[rlConn] = "open"
  /\ incoming[rlConn] = << >>
  /\ OnStatusChange("ReadTimeout")
  /\ rl' = "decode"
  /\ UNCHANGED <<opts, closed, conn, connState, incoming, inflight, decoded,
                 log, envVars, rlConn>>

(* Any other read error (an errorconn, a closed connection, a failed      *)
(* transport, or the hook's error): DoDispatch(err) and break.            *)
ReadFail ==
  /\ \/ rl = "readerr"
     \/ rl = "read" /\ connState[rlConn] \in {"broken", "closed", "error"}
  /\ DoDispatch([n |-> 0, g |-> rlConn])
  /\ rl' = "failed"
  /\ UNCHANGED <<opts, status, closed, conn, connState, incoming, envVars,
                 rlConn>>

(* After the loop: OnStatusChange(TransientFailure).                       *)
LoopExit ==
  /\ rl = "failed"
  /\ OnStatusChange("TransientFailure")
  /\ rl' = "mayredial"
  /\ UNCHANGED <<opts, closed, conn, connState, incoming, inflight, decoded,
                 log, envVars, rlConn>>

(* Mutant: redial does not report Connecting.                              *)
MayRedialSilent ==
  /\ rl = "mayredial"
  /\ rl' = IF closed \/ ~opts.dialer THEN "wait" ELSE "redial"
  /\ UNCHANGED <<opts, status, closed, conn, connState, incoming, inflight,
                 decoded, log, envVars, rlConn>>

(* mayRedial: a closed connection or no dialer gives up; otherwise redial  *)
(* reports Connecting and enters its retry loop.                           *)
MayRedial ==
  /\ rl = "mayredial"
  /\ IF closed \/ ~opts.dialer
       THEN /\ rl' = "wait" /\ UNCHANGED status
       ELSE /\ rl' = "redial" /\ OnStatusChange("Connecting")
  /\ UNCHANGED <<opts, closed, conn, connState, incoming, inflight, decoded,
                 log, envVars, rlConn>>

(* The retry loop: ErrClientWasClosed once closed (mayRedial then gives    *)
(* up); otherwise sleep the backoff and Dial.                              *)
RedialCheck ==
  /\ rl = "redial"
  /\ rl' = IF closed THEN "wait" ELSE "dialing"
  /\ UNCHANGED <<opts, status, closed, conn, connState, incoming, inflight,
                 decoded, log, envVars, rlConn>>

(* Dial fails: continue.                                                   *)
DialFail ==
  /\ rl = "dialing"
  /\ rl' = "redial"
  /\ UNCHANGED <<opts, status, closed, conn, connState, incoming, inflight,
                 decoded, log, envVars, rlConn>>

(* Dial succeeds and buildAsyncWriteConn wraps it: the old connection is   *)
(* closed, the new one installed with setConn and given to the reader,     *)
(* OnStatusChange(Active), goto READLOOP.  Closed is not looked at again.  *)
DialOk ==
  /\ rl = "dialing"
  /\ gen < MaxConns
  /\ gen' = gen + 1
  /\ connState' = [CloseConn(connState, rlConn) EXCEPT ![gen + 1] = "open"]
  /\ conn' = gen + 1
  /\ rlConn' = gen + 1
  /\ OnStatusChange("Active")
  /\ rl' = "decode"
  /\ UNCHANGED <<opts, closed, incoming, inflight, decoded, log, sent>>

(* wg.Wait() for the dispatch goroutines, close x.GetConn(), and the      *)
(* deferred OnStatusChange(Shutdown).                                      *)
Finish ==
  /\ rl = "wait"
  /\ inflight = {}
  /\ connState' = CloseConn(connState, conn)
  /\ OnStatusChange("Shutdown")
  /\ rl' = "done"
  /\ UNCHANGED <<opts, closed, conn, incoming, inflight, decoded, log,
                 envVars, rlConn>>

(* dispatchAsync: the dispatcher runs, then wg.Done().                     *)
DispatchAsync(item) ==
  /\ item \in inflight
  /\ log' = Append(log, item)
  /\ inflight' = inflight \ {item}
  /\ UNCHANGED <<opts, status, closed, conn, connState, incoming, decoded,
                 envVars, rl, rlConn>>

-----------------------------------------------------------------------------
(* The user, the peer and the transport                                    *)

(* Close: the CAS on x.closed, then x.getConn().Close().                   *)
Close ==
  /\ ~closed
  /\ closed' = TRUE
  /\ connState' = CloseConn(connState, conn)
  /\ incoming' = [incoming EXCEPT ![conn] = << >>]
  /\ UNCHANGED <<opts, status, conn, inflight, decoded, log, envVars, rl,
                 rlConn>>

PeerSend(g) ==
  /\ connState[g] = "open"
  /\ sent < MaxFrames
  /\ sent' = sent + 1
  /\ incoming' = [incoming EXCEPT ![g] = Append(@, sent + 1)]
  /\ UNCHANGED <<opts, status, closed, conn, gen, connState, rl, rlConn,
                 inflight, decoded, log>>

TransportFailure(g) ==
  /\ connState[g] = "open"
  /\ connState' = [connState EXCEPT ![g] = "broken"]
  /\ incoming' = [incoming EXCEPT ![g] = << >>]
  /\ UNCHANGED <<opts, status, closed, conn, rl, rlConn, inflight, decoded,
                 log, envVars>>

ReadLoop ==
  \/ Start \/ BeforeRead \/ ReadFrame \/ ReadDeadline \/ ReadFail
  \/ LoopExit \/ MayRedial \/ RedialCheck \/ DialFail \/ DialOk \/ Finish

Next ==
  \/ ReadLoop
  \/ \E item \in inflight : DispatchAsync(item)
  \/ Close
  \/ \E g \in Gens : PeerSend(g) \/ TransportFailure(g)

Spec == Init /\ [][Next]_vars

-----------------------------------------------------------------------------
(* Properties                                                              *)

TypeOK ==
  /\ opts \in Options
  /\ status \in Statuses
  /\ closed \in BOOLEAN
  /\ conn \in Gens /\ gen \in Gens /\ rlConn \in Gens
  /\ connState \in [Gens -> {"undialed", "open", "broken", "closed", "error"}]
  /\ incoming \in [Gens -> Seq(1 .. MaxFrames)]
  /\ sent \in 0 .. MaxFrames
  /\ rl \in {"start", "decode", "read", "readerr", "failed", "mayredial",
             "redial", "dialing", "wait", "done"}
  /\ decoded \subseteq Items /\ log \in Seq(Items)
  \* dispatch goroutines exist only in block mode
  /\ inflight \subseteq decoded /\ (opts.blockmode \/ inflight = {})

(* The status changes the changer can observe (spec.md 3): Idle ->        *)
(* Connecting -> Active <-> ReadTimeout -> TransientFailure -> Shutdown,   *)
(* a redial going TransientFailure -> Connecting -> Active, or Shutdown   *)
(* when closed during it; with a given connection Connecting is skipped.   *)
(* Checked across doread's hook, deadline, failure and redial steps.       *)
StatusEdges ==
  {<<"Idle", "Connecting">>, <<"Idle", "Active">>, <<"Connecting", "Active">>,
   <<"Active", "ReadTimeout">>, <<"ReadTimeout", "Active">>,
   <<"Active", "TransientFailure">>, <<"ReadTimeout", "TransientFailure">>,
   <<"TransientFailure", "Connecting">>, <<"TransientFailure", "Shutdown">>,
   <<"Connecting", "Shutdown">>}

StatusTransitions ==
  [][status' # status => <<status, status'>> \in StatusEdges]_status

=============================================================================
