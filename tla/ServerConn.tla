------------------------------ MODULE ServerConn -----------------------------
(***************************************************************************)
(* One connection served by sofabolt.Server (server.go ServeConn and       *)
(* serveConn).                                                             *)
(*                                                                         *)
(* The connection's goroutine reads requests one at a time through a       *)
(* buffered reader whose before-read hook sets the read deadline and may   *)
(* flush the buffered writer.  Each request goes to the handler either on  *)
(* the loop goroutine (sync: the response goes into the buffered writer)   *)
(* or on a goroutine of its own (async: the response is written straight   *)
(* to the connection).  After each request the loop calls flushWrite,      *)
(* which flushes only when FlushInterval has passed since lastFlushTime.   *)
(* When the loop ends it flushes what remains, waits for the async         *)
(* handlers, and ServeConn closes the connection unless it was hijacked.   *)
(*                                                                         *)
(* The peer is the environment: it sends requests, may half-close, and    *)
(* the transport may fail.  A request is abstracted to its ordinal and     *)
(* type; a response frame to the request it answers and whether the       *)
(* server wrote it for a handler that did not ("auto").                    *)
(***************************************************************************)
EXTENDS Integers, Sequences, FiniteSets

CONSTANTS
  Options,        \* server configurations: [async, flushInterval] records
  ReadTimeout,    \* srv.options.readTimeout > 0
  IdleTimeout,    \* srv.options.idleTimeout > 0
  Behaviours,     \* what a handler may do: "write", "silent", "hijack",
                  \* "twice" (Write called twice)
  MaxRequests,    \* bound: requests the peer sends
  MaxTime         \* bound: clock ticks

ASSUME {ReadTimeout, IdleTimeout} \subseteq BOOLEAN
ASSUME Options \subseteq [async : BOOLEAN, flushInterval : Nat]
ASSUME MaxRequests \in Nat /\ MaxTime \in Nat
ASSUME Behaviours \subseteq {"write", "silent", "hijack", "twice"} /\ Behaviours # {}

\* TypeBOLTRequest, TypeBOLTRequestOneWay (or TypeTBRemotingOneWay), and any
\* other type, which the loop refuses with ErrServerNotARequest.
Types == {"twoway", "oneway", "notreq"}
Requests == [n : 1 .. MaxRequests, typ : Types]
Frames == [req : 1 .. MaxRequests, auto : BOOLEAN]

VARIABLES
  opts,           \* the server's options, fixed when it is built
  phase,          \* where the loop goroutine is in serveConn
  midFrame,       \* part of the next request has been read
  requests,       \* serveConn's requests counter
  protoSet,       \* req.GetProto() > 0 (Request.Reset keeps proto)
  deadline,       \* the timeout the hook chose last: "read" or "idle"
  armed,          \* the read deadline set on the connection, if any
  cur,            \* the request just decoded
  hijacked,       \* serveConn's hijacked (the value HandleCommand returned)
  buffered,       \* frames in the buffered writer bw
  lastFlushTime,  \* serveConn's lastFlushTime
  pending,        \* requests whose async handler has not finished (wg)
  now,            \* the clock
  wire,           \* frames written to the connection, in order
  incoming,       \* requests sent by the peer and not yet read
  sent,           \* requests the peer has sent
  peerClosed,     \* the peer half-closed: reads see EOF after incoming
  broken,         \* the transport failed: reads and writes fail
  connClosed,     \* ServeConn closed the connection
  handled,        \* ghost: requests handed to a handler
  hijackers       \* ghost: ordinals of requests whose handler hijacked

loopVars == <<phase, midFrame, requests, protoSet, deadline, armed, cur, hijacked,
              buffered, lastFlushTime, pending>>
\* srv.options.async and srv.options.flushInterval (in clock ticks; 0:
\* flush always).
Async == opts.async
FlushInterval == opts.flushInterval

\* The zero time.Time: every interval has passed since it.
ZeroTime == -FlushInterval

envVars == <<opts, now, wire, incoming, sent, peerClosed, broken, connClosed>>
ghostVars == <<handled, hijackers>>
vars == <<loopVars, envVars, ghostVars>>

Init ==
  /\ opts \in Options
  /\ phase = "beforeread"
  /\ midFrame = FALSE
  /\ requests = 0
  /\ protoSet = FALSE
  /\ deadline = "read"
  /\ armed = "none"
  /\ cur = [n |-> 1, typ |-> "twoway"]
  /\ hijacked = FALSE
  /\ buffered = << >>
  /\ lastFlushTime = ZeroTime
  /\ pending = {}
  /\ now = 0
  /\ wire = << >>
  /\ incoming = << >>
  /\ sent = 0
  /\ peerClosed = FALSE
  /\ broken = FALSE
  /\ connClosed = FALSE
  /\ handled = {}
  /\ hijackers = {}

\* Derive: the response carries the request's id (and a response code).
Frame(r, auto) == [req |-> r.n, auto |-> auto]

\* The calls a handler of each behaviour makes on its ResponseWriter.
Calls == [write |-> << "Write" >>, silent |-> << >>, hijack |-> << "Hijack" >>,
          twice |-> << "Write", "Write" >>]

\* A SofaResponseWriter as the properties tell it apart: numwrite (1 for
\* "some bytes") and the hijacked flag.  Reset (and Release, which resets
\* before the writer goes back to the pool) zeroes both.
RwReset == [numwrite |-> 0, hijacked |-> FALSE]

\* AcquireSofaResponseWriter: a writer from the pool, which holds only
\* writers that ReleaseSofaResponseWriter reset.
AcquireSofaResponseWriter == RwReset

\* Mutant: Write without the duplicated-write check.
RwWriteNoDupCheck(rw, r, auto, ok) ==
  [rw  |-> [rw EXCEPT !.numwrite = IF ok THEN 1 ELSE 0],
   out |-> IF ok THEN << Frame(r, auto) >> ELSE << >>]

\* Write: refused once numwrite > 0; otherwise the response goes to the
\* writer, and numwrite is what the writer returned (0 when it failed).
RwWrite(rw, r, auto, ok) ==
  IF rw.numwrite > 0 THEN [rw |-> rw, out |-> << >>]
  ELSE [rw  |-> [rw EXCEPT !.numwrite = IF ok THEN 1 ELSE 0],
        out |-> IF ok THEN << Frame(r, auto) >> ELSE << >>]

\* Hijack: CompareAndSwap of hijacked from 0 to 1 (a second call fails and
\* changes nothing).  IsHijacked reads the flag.
RwHijack(rw) == [rw EXCEPT !.hijacked = TRUE]

IsHijacked(rw) == rw.hijacked

\* One call c of the handler on the writer state s = [rw, out].
RwCall(s, c, r, ok) ==
  IF c = "Hijack" THEN [s EXCEPT !.rw = RwHijack(s.rw)]
  ELSE LET w == RwWrite(s.rw, r, FALSE, ok) IN [rw |-> w.rw, out |-> s.out \o w.out]

\* The handler's calls on a writer that starts as rw0, writing to a writer
\* whose Write succeeds iff ok.
RECURSIVE RunCalls(_, _, _, _)
RunCalls(s, cs, r, ok) ==
  IF cs = << >> THEN s ELSE RunCalls(RwCall(s, Head(cs), r, ok), Tail(cs), r, ok)

Handler(r, b, ok, rw0) == RunCalls([rw |-> rw0, out |-> << >>], Calls[b], r, ok)

\* Mutant: no "nil response" write at all.
ServeNoAuto(r, b, ok, rw0) == Handler(r, b, ok, rw0)

\* serveCommand, then the write the server makes "to avoid nil response"
\* when numwrite is still 0 and r is two-way: the writer's final state and
\* the frames it wrote, in order.
Serve(r, b, ok, rw0) ==
  LET s == Handler(r, b, ok, rw0)
      w == RwWrite(s.rw, r, TRUE, ok)
  IN  IF s.rw.numwrite = 0 /\ r.typ = "twoway"
      THEN [rw |-> w.rw, out |-> s.out \o w.out]
      ELSE s

\* Mutant: the "flush always" branch for a zero interval is missing.
DueNever == FlushInterval > 0 /\ now - lastFlushTime >= FlushInterval

\* flushWrite: flush when the interval has passed since lastFlushTime (or
\* always when it is 0), and return now in either case.  A flush on a
\* failed transport is an error.
Due == FlushInterval = 0 \/ now - lastFlushTime >= FlushInterval

FlushWrite ==
  /\ lastFlushTime' = now
  /\ IF Due /\ ~broken
       THEN /\ wire' = wire \o buffered
            /\ buffered' = << >>
       ELSE UNCHANGED <<wire, buffered>>

FlushFailed == Due /\ broken

-----------------------------------------------------------------------------
(* The loop goroutine: serveConn                                           *)

\* setConnReadTimeout / setConnIdleTimeout: SetReadDeadline only when the
\* timeout is positive; otherwise the deadline set before stays.
SetDeadline(kind) ==
  IF kind = "read" THEN IF ReadTimeout THEN "read" ELSE armed
                   ELSE IF IdleTimeout THEN "idle" ELSE armed

\* beforeread, run by the reader before each read from the connection: the
\* read timeout for the first requests or when a request is partly read
\* (req.GetProto() > 0), the idle timeout otherwise; then, if bw holds
\* data, flushWrite.  A failed flush fails the read.
BeforeRead ==
  /\ phase = "beforeread"
  /\ deadline' = IF requests > 1 /\ ~protoSet THEN "idle" ELSE "read"
  /\ armed' = SetDeadline(deadline')
  /\ IF buffered # << >>
       THEN /\ FlushWrite
            /\ phase' = IF FlushFailed THEN "exit" ELSE "read"
       ELSE /\ phase' = "read"
            /\ UNCHANGED <<wire, buffered, lastFlushTime>>
  /\ UNCHANGED <<opts, midFrame, requests, protoSet, cur, hijacked, pending, now,
                 incoming, sent, peerClosed, broken, connClosed, handled,
                 hijackers>>

\* Mutant: every read from the connection counts as a request.
ReadPartialCounts ==
  /\ phase = "read"
  /\ ~broken /\ ~midFrame /\ incoming # << >>
  /\ midFrame' = TRUE
  /\ protoSet' = TRUE
  /\ requests' = requests + 1
  /\ phase' = "beforeread"
  /\ UNCHANGED <<deadline, armed, cur, hijacked, buffered, lastFlushTime,
                 pending, envVars, ghostVars>>

\* Part of a request arrives; the reader will read again (and run the hook).
ReadPartial ==
  /\ phase = "read"
  /\ ~broken /\ ~midFrame /\ incoming # << >>
  /\ midFrame' = TRUE
  /\ protoSet' = TRUE
  /\ phase' = "beforeread"
  /\ UNCHANGED <<requests, deadline, armed, cur, hijacked, buffered, lastFlushTime,
                 pending, envVars, ghostVars>>

\* req.Read decodes a whole request; requests++; a frame that is not a
\* request ends the loop with ErrServerNotARequest.
ReadRequest ==
  /\ phase = "read"
  /\ ~broken /\ incoming # << >>
  /\ cur' = Head(incoming)
  /\ incoming' = Tail(incoming)
  /\ midFrame' = FALSE
  /\ protoSet' = TRUE
  /\ requests' = requests + 1
  /\ phase' = IF Head(incoming).typ = "notreq" THEN "exit" ELSE "handle"
  /\ UNCHANGED <<opts, deadline, armed, hijacked, buffered, lastFlushTime, pending,
                 now, wire, sent, peerClosed, broken, connClosed, ghostVars>>

\* req.Read fails: the transport failed, the peer closed its side and no
\* data is left (EOF), or the armed deadline expired before data came.
ReadFail ==
  /\ phase = "read"
  /\ \/ broken
     \/ incoming = << >> /\ peerClosed
     \/ armed # "none" /\ (incoming = << >> \/ midFrame)
  /\ phase' = "exit"
  /\ UNCHANGED <<midFrame, requests, protoSet, deadline, armed, cur, hijacked,
                 buffered, lastFlushTime, pending, envVars, ghostVars>>

\* HandleCommand, sync: handleCommandSync runs the handler on this
\* goroutine with rw writing into bw, adds the "nil response" write, and
\* returns rw.IsHijacked().
HandleSync ==
  /\ phase = "handle"
  /\ ~Async
  /\ \E b \in Behaviours :
       LET s == Serve(cur, b, TRUE, RwReset)
       IN  /\ buffered' = buffered \o s.out
           /\ hijacked' = IsHijacked(s.rw)
           /\ hijackers' = IF IsHijacked(s.rw) THEN hijackers \cup {cur.n}
                                                ELSE hijackers
  /\ handled' = handled \cup {cur}
  /\ phase' = "flush"
  /\ UNCHANGED <<midFrame, requests, protoSet, deadline, armed, cur, lastFlushTime,
                 pending, envVars>>

\* HandleCommand, async: handleCommandAsync copies the request, wg.Add(1),
\* starts a goroutine, and HandleCommand returns false.
HandleAsync ==
  /\ phase = "handle"
  /\ Async
  /\ pending' = pending \cup {cur}
  /\ hijacked' = FALSE
  /\ handled' = handled \cup {cur}
  /\ phase' = "flush"
  /\ UNCHANGED <<midFrame, requests, protoSet, deadline, armed, cur, buffered,
                 lastFlushTime, envVars, hijackers>>

\* flushWrite after HandleCommand; an error or a hijack ends the loop.
PostHandleFlush ==
  /\ phase = "flush"
  /\ FlushWrite
  /\ phase' = IF FlushFailed \/ hijacked THEN "exit" ELSE "beforeread"
  /\ UNCHANGED <<opts, midFrame, requests, protoSet, deadline, armed, cur, hijacked,
                 pending, now, incoming, sent, peerClosed, broken, connClosed,
                 handled, hijackers>>

\* After the loop: "flush the remaining buffer" through flushWrite (its
\* error is discarded).
ExitFlush ==
  /\ phase = "exit"
  /\ IF buffered # << >> THEN FlushWrite
                         ELSE UNCHANGED <<wire, buffered, lastFlushTime>>
  /\ phase' = "wait"
  /\ UNCHANGED <<opts, midFrame, requests, protoSet, deadline, armed, cur, hijacked,
                 pending, now, incoming, sent, peerClosed, broken, connClosed,
                 handled, hijackers>>

\* Mutant: serveConn returns without wg.Wait().
FinishNoWait ==
  /\ phase = "wait"
  /\ phase' = "done"
  /\ buffered' = << >>
  /\ connClosed' = ~hijacked
  /\ UNCHANGED <<opts, midFrame, requests, protoSet, deadline, armed, cur, hijacked,
                 lastFlushTime, pending, now, wire, incoming, sent, peerClosed,
                 broken, ghostVars>>

\* wg.Wait(), the writer is released (what it still buffers is dropped),
\* serveConn returns, and ServeConn closes the connection unless hijacked.
Finish ==
  /\ phase = "wait"
  /\ pending = {}
  /\ phase' = "done"
  /\ buffered' = << >>
  /\ connClosed' = ~hijacked
  /\ UNCHANGED <<opts, midFrame, requests, protoSet, deadline, armed, cur, hijacked,
                 lastFlushTime, pending, now, wire, incoming, sent, peerClosed, broken,
                 ghostVars>>

-----------------------------------------------------------------------------
(* Async handlers: doHandleCommandAsync                                    *)

\* The handler runs with a response writer on the connection itself; its
\* Write and the "nil response" write go straight to the connection (and
\* fail, writing nothing, on a failed transport); then wg.Done().
AsyncHandler(r) ==
  /\ r \in pending
  /\ \E b \in Behaviours :
       LET s == Serve(r, b, ~broken, AcquireSofaResponseWriter)
       IN  /\ wire' = wire \o s.out
           /\ hijackers' = IF IsHijacked(s.rw) THEN hijackers \cup {r.n}
                                                ELSE hijackers
  /\ pending' = pending \ {r}
  /\ UNCHANGED <<opts, phase, midFrame, requests, protoSet, deadline, armed, cur,
                 hijacked, buffered, lastFlushTime, now, incoming, sent,
                 peerClosed, broken, connClosed, handled>>

-----------------------------------------------------------------------------
(* Environment: the peer, the transport and the clock                      *)

PeerSend ==
  /\ sent < MaxRequests /\ ~peerClosed /\ ~broken
  /\ \E t \in Types : incoming' = Append(incoming, [n |-> sent + 1, typ |-> t])
  /\ sent' = sent + 1
  /\ UNCHANGED <<opts, loopVars, now, wire, peerClosed, broken, connClosed, ghostVars>>

PeerClose ==
  /\ ~peerClosed
  /\ peerClosed' = TRUE
  /\ UNCHANGED <<opts, loopVars, now, wire, incoming, sent, broken, connClosed,
                 ghostVars>>

TransportFailure ==
  /\ ~broken /\ phase # "done"
  /\ broken' = TRUE
  /\ incoming' = << >>
  /\ UNCHANGED <<opts, loopVars, now, wire, sent, peerClosed, connClosed, ghostVars>>

Tick ==
  /\ now < MaxTime
  /\ now' = now + 1
  /\ UNCHANGED <<opts, loopVars, wire, incoming, sent, peerClosed, broken,
                 connClosed, ghostVars>>

-----------------------------------------------------------------------------

Loop ==
  \/ BeforeRead \/ ReadPartial \/ ReadRequest \/ ReadFail
  \/ HandleSync \/ HandleAsync \/ PostHandleFlush \/ ExitFlush \/ Finish

Next ==
  \/ Loop
  \/ \E r \in pending : AsyncHandler(r)
  \/ PeerSend \/ PeerClose \/ TransportFailure \/ Tick

\* The loop goroutine and every started handler goroutine run; the peer,
\* the transport and the clock are never forced.
Fairness ==
  /\ WF_vars(Loop)
  /\ \A r \in Requests : WF_vars(AsyncHandler(r))

Spec == Init /\ [][Next]_vars /\ Fairness

-----------------------------------------------------------------------------
(* Properties                                                              *)

TypeOK ==
  /\ opts \in Options
  /\ phase \in {"beforeread", "read", "handle", "flush", "exit", "wait", "done"}
  /\ {midFrame, protoSet, hijacked, peerClosed, broken, connClosed} \subseteq BOOLEAN
  /\ requests \in 0 .. MaxRequests
  /\ deadline \in {"read", "idle"} /\ armed \in {"none", "read", "idle"}
  /\ cur \in Requests
  /\ buffered \in Seq(Frames) /\ wire \in Seq(Frames)
  /\ lastFlushTime \in ZeroTime .. MaxTime
  /\ pending \subseteq Requests /\ handled \subseteq Requests
  /\ now \in 0 .. MaxTime
  /\ incoming \in Seq(Requests) /\ sent \in 0 .. MaxRequests
  /\ hijackers \subseteq 1 .. MaxRequests

Answered(n) == \E i \in DOMAIN wire : wire[i].req = n

\* A request whose handler neither hijacked nor was one-way is owed a response.
Owed == {r \in handled : r.typ = "twoway" /\ r.n \notin hijackers}

\* The one-write guard of SofaResponseWriter and the numwrite = 0 test of
\* the "nil response" write: no request is answered twice on the wire.
AtMostOneResponse ==
  \A i, j \in DOMAIN wire : i # j => wire[i].req # wire[j].req

\* ServeConn closes the connection only after every two-way request it
\* handed to a handler has its response on the wire (unless the transport
\* failed): sync responses are flushed when the loop ends, async ones are
\* waited for (spec.md 4.4: remaining buffered data is always flushed).
AnsweredBeforeClose ==
  connClosed /\ ~broken => \A r \in Owed : Answered(r.n)

\* Every two-way request handed to a handler is eventually answered on the
\* wire, or the transport fails.
EveryRequestAnswered ==
  \A r \in Requests : r \in Owed ~> (Answered(r.n) \/ broken)

=============================================================================
