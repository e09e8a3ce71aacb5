---------------------------- MODULE PooledCommand ----------------------------
(***************************************************************************)
(* The request object of one serveConn loop (server.go), reused for every *)
(* frame of the connection: req.Reset() then req.Read() at the top of the *)
(* loop, the type check, then a sync handler that may Set and Del headers *)
(* of req before the loop reads the next frame into the same object.      *)
(* With the async option the handler gets instead a Request from          *)
(* requestPool into which handleCommandAsync copies req, and the request  *)
(* goes back to the pool, reset, when the handler returns.  Each async    *)
(* handler has its own pooled object, so handlers running at once do not *)
(* share bytes; the model runs them one at a time.  Flushing, timeouts    *)
(* and hijack are ServerConn's; this module is about the request bytes.  *)
(***************************************************************************)
EXTENDS BoltCodec

CONSTANTS Frames,     \* the commands the peer writes (records as in BoltCodec)
          Keys,       \* header keys the handler uses
          Values,     \* header values the handler sets
          MaxReads,   \* bound on the frames read
          AsyncModes  \* the values srv.options.async may have

VARIABLES req,        \* the Request's command
          phase,      \* "read": top of READLOOP; "handling": in the handler; "closed"
          reads,      \* frames read
          lastRead,   \* ghost: [len |-> frame length, used |-> bytes the reader took]
          async,      \* srv.options.async
          areq,       \* the async handler's copy of req
          pool        \* the released Requests requestPool may hand back

vars == <<req, phase, reads, lastRead, async, areq, pool>>

(* var req Request: the zero Command.                                      *)
ZeroCommand == ResetCommand([headers |-> New])

Init ==
    /\ req = ZeroCommand
    /\ phase = "read"
    /\ reads = 0
    /\ lastRead = [len |-> 0, used |-> 0]
    /\ async \in AsyncModes
    /\ areq = ZeroCommand
    /\ pool = {}

(* Request.Reset: Command.Reset, keeping proto, type and cmdcode.          *)
RequestReset(r) ==
    [ResetCommand(r) EXCEPT !.proto = r.proto, !.typ = r.typ, !.cmdcode = r.cmdcode]

(* Request.IsRequest as the loop tests it: BOLT request or oneway, or      *)
(* TBRemoting oneway (the same value as BOLT request).                     *)
IsRequest(r) == r.typ \in {TypeBOLTRequest, TypeBOLTRequestOneWay}

(* AcquireRequest: a pooled Request, or &Request{} (the pool may drop its *)
(* objects at any time), with proto, cmdcode, type and codec set.          *)
AcquireRequest(d) ==
    [d EXCEPT !.proto = ProtoBOLTV1, !.cmdcode = 1, !.typ = TypeBOLTRequest, !.codec = 1]

(* HandleCommand: sync hands req itself to the handler; async copies req   *)
(* into an acquired Request (handleCommandAsync).                         *)
HandleCommand(r) ==
    IF async THEN \E d \in pool \cup {ZeroCommand} : areq' = CopyTo(r, AcquireRequest(d))
    ELSE UNCHANGED areq

(* The top of READLOOP on the bytes data: Reset, Read, and the type check; *)
(* a read error or a non-request ends the loop.                            *)
ReadFrame(data) ==
    LET r == ReadCommand(RequestReset(req), data)
    IN  /\ phase = "read" /\ reads < MaxReads
        /\ req' = r.cmd
        /\ reads' = reads + 1
        /\ lastRead' = [len |-> Len(data), used |-> r.used]
        /\ \/ r.err = "none" /\ IsRequest(r.cmd) /\ phase' = "handling" /\ HandleCommand(r.cmd)
           \/ r.err = "none" /\ ~IsRequest(r.cmd) /\ phase' = "closed" /\ UNCHANGED areq
           \/ r.err # "none" /\ phase' = "closed" /\ UNCHANGED areq
        /\ UNCHANGED <<async, pool>>

(* The peer writes the whole frame of f.                                   *)
Receive(f) == ReadFrame(WriteCommand(f).b)

(* The peer writes the first k bytes of f's frame and closes.              *)
ReceiveCut(f) ==
    \E k \in 0..(Len(WriteCommand(f).b) - 1) : ReadFrame(SubSeq(WriteCommand(f).b, 1, k))

(* The command the handler holds: req, or the async copy.                 *)
Handled == IF async THEN areq ELSE req

(* The handler: req.GetHeaders().Set(k, v) and .Del(k) on its request.     *)
HandlerEdit(f(_)) ==
    /\ phase = "handling"
    /\ IF async THEN areq' = [areq EXCEPT !.headers = f(@)] /\ UNCHANGED req
                 ELSE req' = [req EXCEPT !.headers = f(@)] /\ UNCHANGED areq
    /\ UNCHANGED <<phase, reads, lastRead, async, pool>>

HandlerSet(k, v) ==
    /\ ~SetOverflows(Handled.headers, k)
    /\ HandlerEdit(LAMBDA m : SetOp(m, k, v))

HandlerDel(k) == HandlerEdit(LAMBDA m : DelOp(m, k))

(* ReleaseRequest: Reset, and the object goes back to requestPool.         *)
ReleaseRequest(r) == {RequestReset(r)}

(* The handler returns; the response and flush follow, then the loop reads *)
(* again.  An async handler's goroutine releases its request.              *)
HandlerReturn ==
    /\ phase = "handling"
    /\ phase' = "read"
    /\ pool' = IF async THEN ReleaseRequest(areq) ELSE pool
    /\ UNCHANGED <<req, reads, lastRead, async, areq>>

Next ==
    \/ \E f \in Frames : Receive(f) \/ ReceiveCut(f)
    \/ \E k \in Keys, v \in Values : HandlerSet(k, v)
    \/ \E k \in Keys : HandlerDel(k)
    \/ HandlerReturn

Spec == Init /\ [][Next]_vars

-----------------------------------------------------------------------------
(* What the handler can observe of req: the fields, and Get of every key.  *)
Meaning(r) ==
    [proto |-> r.proto, ver1 |-> r.ver1, typ |-> r.typ, cmdcode |-> r.cmdcode,
     ver2 |-> r.ver2, rid |-> r.rid, codec |-> r.codec, switc |-> r.switc,
     timeout |-> r.timeout, status |-> r.status, connection |-> r.connection,
     class |-> r.class, content |-> r.content, hdr |-> Abs(r.headers, Keys)]

(* Between requests the abstract command is the zero command.             *)
NoCmd == Meaning(ZeroCommand)

Abstract == INSTANCE CommandSpec
    WITH Frames <- {Meaning(f) : f \in Frames},
         cmd <- IF phase = "handling" THEN Meaning(Handled) ELSE NoCmd

(* Refinement: every frame the peer writes is seen by the handler as the   *)
(* command the peer wrote (Write then Read round trip, spec.md 4.1), and   *)
(* the reused header map behaves as a fresh map: Get after Set and Del,    *)
(* across Reset and Decode of the next frame.                              *)
RefinesCommand == Abstract!Spec

-----------------------------------------------------------------------------
ByteSeq(n) == UNION {[1..m -> Byte] : m \in 0..n}

TypeOK ==
    /\ phase \in {"read", "handling", "closed"}
    /\ reads \in 0..MaxReads
    /\ req.headers.n \in 0..req.headers.cap
    /\ req.headers.cap \in 0..KvsCap
    /\ \A i \in 1..KvsCap : req.headers.slots[i].k.a \in 0..(2 * KvsCap)
    /\ lastRead.used <= lastRead.len
    /\ areq.headers.n \in 0..areq.headers.cap

(* After any whole request the reader took exactly the bytes the writer    *)
(* produced, so the next frame starts where the peer's next frame starts:  *)
(* readers and writers agree on every header layout and on the CRC32       *)
(* trailer, and the header length GetEncodeSize predicts is what Encode    *)
(* writes, for every state the reused header map can be in.               *)
FrameConsumed == phase = "handling" => lastRead.used = lastRead.len

=============================================================================
