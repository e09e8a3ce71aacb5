---------------------------- MODULE ClientConnBOLT ----------------------------
(***************************************************************************)
(* The BOLT client over ClientConn (protocol/bolt/clientx_bolt.go).        *)
(*                                                                         *)
(* ClientConnBOLT keeps its own table xb.requests (id -> InvokeContext)    *)
(* under xb's mutex and takes ids from ClientConn.IncrementID, a 64-bit    *)
(* counter whose values above MaxUint32 are refused.  It is ClientConn's  *)
(* dispatcher: ClientConn's read loop (doread, never in block mode here)   *)
(* calls Dispatch inline with every decoded frame and with the error that *)
(* ends a connection, then redials or shuts down.  Dispatch of a response  *)
(* takes the context out of the table and then notifies it: a blocking    *)
(* send on the context's one-slot errCh, or the callback.  Dispatch of an  *)
(* error runs cleanupPendingRequests: under the lock, every pending        *)
(* context gets the error (callback, or a non-blocking send) and the table *)
(* is emptied.                                                             *)
(*                                                                         *)
(* Callers run Do/DoTimeout (a pooled InvokeContext with an errCh) and     *)
(* DoCallback (a fresh context with a callback and no errCh, so invoke     *)
(* returns once the request is written).  The peer answers two-way        *)
(* requests in any order; a transport failure makes reads and writes on    *)
(* that connection fail.                                                   *)
(*                                                                         *)
(* Each caller's pooled context is one object, reused by its next call     *)
(* unless the call timed out: DoTimeout does not release a timed-out       *)
(* context, so the next call gets a new one (obj counts them).             *)
(***************************************************************************)
EXTENDS Naturals, FiniteSets

CONSTANTS
  Callers,      \* caller goroutines
  MaxCalls,     \* bound: calls per caller
  IdLimit,      \* ids above it are refused (MaxUint32 in the code)
  MaxConns,     \* bound: connections, the first one included
  HasDialer,    \* WithClientConnBOLTRedial was given
  Kinds,        \* call kinds: "sync", "oneway", "callback"
  Timeouts,     \* "finite" and/or "infinite" (0) for Do/DoTimeout
  NoValue       \* an empty errCh

ASSUME /\ MaxCalls \in Nat \ {0} /\ IdLimit \in Nat /\ MaxConns \in Nat \ {0}
       /\ HasDialer \in BOOLEAN
       /\ Kinds \subseteq {"sync", "oneway", "callback"}
       /\ Timeouts \subseteq {"finite", "infinite"}

Ids == 1 .. IdLimit
Gens == 1 .. MaxConns
Objs == 1 .. MaxCalls + 1
NoCaller == NoValue  \* an id with no context
(* What a notification carries: the id it was sent for, and the outcome. *)
Values == [rid : Ids, v : {"ok", "err"}]

VARIABLES
  idCounter,  \* x.id
  requests,   \* xb.requests: id -> [c, obj, cb] naming the context, or NoCaller
  conn,       \* x.conn: the connection GetConn returns
  gen,        \* connections dialed so far
  connState,  \* generation -> "open", "broken" or "closed"
  toServer,   \* generation -> requests written, not yet read by the peer
  toClient,   \* generation -> response ids written by the peer, not yet read
  rl,         \* doread: "read", "deliver", "redial" or "done"
  rlConn,     \* doread's local conn
  hold,       \* the context Dispatch took out of the table, being notified
  pc,         \* caller -> place in its call
  kind,       \* caller -> kind of its current call
  tmo,        \* caller -> timeout of its current call
  rid,        \* caller -> id of its current call (0: none yet)
  calls,      \* caller -> calls made
  obj,        \* caller -> its current pooled context
  errCh,      \* caller -> the value in its current context's errCh
  got,        \* ghost: caller -> the value its current call received
  cbPending,  \* ghost: ids whose callback is still owed
  cbLog       \* ghost: callback invocations, as [rid, v]

netVars == <<conn, gen, connState, toServer, toClient>>
callerVars == <<pc, kind, tmo, rid, calls, obj, errCh, got>>
vars == <<idCounter, requests, netVars, rl, rlConn, hold, callerVars,
          cbPending, cbLog>>

(* A table entry: the caller, its pooled context, and whether the context *)
(* has a callback (DoCallback) rather than an errCh.                      *)
Entries == [c : Callers, obj : Objs, cb : BOOLEAN]
Holds == [c : Callers, obj : Objs, cb : BOOLEAN, rid : Ids]

TypeOK ==
  /\ idCounter \in 0 .. Cardinality(Callers) * MaxCalls
  /\ requests \in [Ids -> Entries \cup {NoCaller}]
  /\ conn \in Gens /\ gen \in Gens /\ rlConn \in Gens
  /\ connState \in [Gens -> {"open", "broken", "closed"}]
  /\ toServer \in [Gens -> SUBSET [rid : Ids, oneway : BOOLEAN]]
  /\ toClient \in [Gens -> SUBSET Ids]
  /\ rl \in {"read", "deliver", "redial", "done"}
  /\ hold \in Holds \cup {NoValue}
  /\ pc \in [Callers -> {"idle", "send", "senderr", "onewaydel", "wait"}]
  /\ kind \in [Callers -> Kinds] /\ tmo \in [Callers -> Timeouts]
  /\ rid \in [Callers -> 0 .. IdLimit] /\ calls \in [Callers -> 0 .. MaxCalls]
  /\ obj \in [Callers -> Objs]
  /\ errCh \in [Callers -> Values \cup {NoValue}]
  /\ got \in [Callers -> Values \cup {NoValue}]
  /\ cbPending \subseteq Ids
  /\ cbLog \subseteq [rid : Ids, v : {"ok", "err"}]

Init ==
  /\ idCounter = 0
  /\ requests = [i \in Ids |-> NoCaller]
  /\ conn = 1 /\ gen = 1 /\ rlConn = 1
  /\ connState = [g \in Gens |-> IF g = 1 THEN "open" ELSE "closed"]
  /\ toServer = [g \in Gens |-> {}] /\ toClient = [g \in Gens |-> {}]
  /\ rl = "read" /\ hold = NoValue
  /\ pc = [c \in Callers |-> "idle"]
  /\ kind = [c \in Callers |-> CHOOSE k \in Kinds : TRUE]
  /\ tmo = [c \in Callers |-> CHOOSE t \in Timeouts : TRUE]
  /\ rid = [c \in Callers |-> 0] /\ calls = [c \in Callers |-> 0]
  /\ obj = [c \in Callers |-> 1]
  /\ errCh = [c \in Callers |-> NoValue] /\ got = [c \in Callers |-> NoValue]
  /\ cbPending = {} /\ cbLog = {}

---------------------------------------------------------------------------
(* AcquireInvokeContext: a pooled context whose errCh still holds a value *)
(* gets a new channel; an empty one is reused.  Either way it is empty.   *)
AcquireNoSanity(c) == errCh
AcquireInvokeContext(c) == [errCh EXCEPT ![c] = NoValue]

(* delRequestContext(rid).                                                 *)
DelRequestContext(i) == [requests EXCEPT ![i] = NoCaller]

(* Mutant of Invoke: the id is taken without the overflow test.           *)
InvokeNoOverflow(c) ==
  /\ pc[c] = "idle" /\ calls[c] < MaxCalls
  /\ \E k \in Kinds :
     \E t \in IF k = "sync" THEN Timeouts ELSE {tmo[c]} :
       /\ kind' = [kind EXCEPT ![c] = k] /\ tmo' = [tmo EXCEPT ![c] = t]
       /\ errCh' = IF k = "callback" THEN errCh ELSE AcquireInvokeContext(c)
       /\ rid' = [rid EXCEPT ![c] = idCounter + 1]
       /\ requests' = [requests EXCEPT ![idCounter + 1] =
                         [c |-> c, obj |-> obj[c], cb |-> k = "callback"]]
       /\ pc' = [pc EXCEPT ![c] = "send"]
       /\ cbPending' = IF k = "callback" THEN cbPending \cup {idCounter + 1}
                       ELSE cbPending
  /\ idCounter' = idCounter + 1
  /\ calls' = [calls EXCEPT ![c] = @ + 1]
  /\ got' = [got EXCEPT ![c] = NoValue]
  /\ UNCHANGED <<netVars, rl, rlConn, hold, obj, cbLog>>

(* Do/DoTimeout or DoCallback, then invoke up to addRequestContext: the    *)
(* x.Closed() test (never true: ClientConnBOLT cannot close its            *)
(* ClientConn), IncrementID and the overflow test, SetRequestID, and the   *)
(* context registered under the id.                                        *)
Invoke(c) ==
  /\ pc[c] = "idle" /\ calls[c] < MaxCalls
  /\ \E k \in Kinds :
     \E t \in IF k = "sync" THEN Timeouts ELSE {tmo[c]} :
       /\ kind' = [kind EXCEPT ![c] = k] /\ tmo' = [tmo EXCEPT ![c] = t]
       /\ errCh' = IF k = "callback" THEN errCh ELSE AcquireInvokeContext(c)
       /\ IF idCounter + 1 > IdLimit
            THEN /\ pc' = [pc EXCEPT ![c] = "idle"]
                 /\ UNCHANGED <<rid, requests, cbPending>>
            ELSE /\ rid' = [rid EXCEPT ![c] = idCounter + 1]
                 /\ requests' = [requests EXCEPT ![idCounter + 1] =
                                   [c |-> c, obj |-> obj[c], cb |-> k = "callback"]]
                 /\ pc' = [pc EXCEPT ![c] = "send"]
                 /\ cbPending' = IF k = "callback" THEN cbPending \cup {idCounter + 1}
                                 ELSE cbPending
  /\ idCounter' = idCounter + 1
  /\ calls' = [calls EXCEPT ![c] = @ + 1]
  /\ got' = [got EXCEPT ![c] = NoValue]
  /\ UNCHANGED <<netVars, rl, rlConn, hold, obj, cbLog>>

(* x.Send: encode and write on the connection GetConn returns now, an    *)
(* asyncwriteconn.  A one-way request then leaves the table, a Do waits,   *)
(* and DoCallback returns nil with its callback owed.  A write on a        *)
(* connection whose transport failed unnoticed is queued and lost, or the  *)
(* writer reports the failure; a closed connection always fails it.        *)
SendReq(c) ==
  /\ pc[c] = "send"
  /\ \/ /\ connState[conn] \in {"open", "broken"}
        /\ toServer' = IF connState[conn] = "open"
                         THEN [toServer EXCEPT ![conn] = @ \cup
                                 {[rid |-> rid[c], oneway |-> kind[c] = "oneway"]}]
                         ELSE toServer
        /\ pc' = [pc EXCEPT ![c] = CASE kind[c] = "oneway" -> "onewaydel"
                                      [] kind[c] = "sync"   -> "wait"
                                      [] OTHER              -> "idle"]
     \/ /\ connState[conn] \in {"broken", "closed"}
        /\ pc' = [pc EXCEPT ![c] = "senderr"]
        /\ UNCHANGED toServer
  /\ UNCHANGED <<idCounter, requests, conn, gen, connState, toClient, rl,
                 rlConn, hold, kind, tmo, rid, calls, obj, errCh, got,
                 cbPending, cbLog>>

(* The write failed: delRequestContext, and the error is returned (the    *)
(* pooled context is released as it is); DoCallback's caller learns of    *)
(* the failure from the error.                                             *)
SendErr(c) ==
  /\ pc[c] = "senderr"
  /\ requests' = DelRequestContext(rid[c])
  /\ pc' = [pc EXCEPT ![c] = "idle"]
  /\ cbPending' = cbPending \ {rid[c]}
  /\ UNCHANGED <<idCounter, netVars, rl, rlConn, hold, kind, tmo, rid, calls,
                 obj, errCh, got, cbLog>>

(* One-way: delRequestContext and return nil.                              *)
OnewayDel(c) ==
  /\ pc[c] = "onewaydel"
  /\ requests' = DelRequestContext(rid[c])
  /\ pc' = [pc EXCEPT ![c] = "idle"]
  /\ UNCHANGED <<idCounter, netVars, rl, rlConn, hold, kind, tmo, rid, calls,
                 obj, errCh, got, cbPending, cbLog>>

(* The select takes the errCh value; the context is released.              *)
Receive(c) ==
  /\ pc[c] = "wait" /\ errCh[c] # NoValue
  /\ got' = [got EXCEPT ![c] = errCh[c]]
  /\ errCh' = [errCh EXCEPT ![c] = NoValue]
  /\ pc' = [pc EXCEPT ![c] = "idle"]
  /\ UNCHANGED <<idCounter, requests, netVars, rl, rlConn, hold, kind, tmo,
                 rid, calls, obj, cbPending, cbLog>>

(* Mutant of Timeout: the timed-out context is released to the pool.       *)
TimeoutRelease(c) ==
  /\ pc[c] = "wait" /\ tmo[c] = "finite"
  /\ requests' = DelRequestContext(rid[c])
  /\ pc' = [pc EXCEPT ![c] = "idle"]
  /\ UNCHANGED <<idCounter, netVars, rl, rlConn, hold, kind, tmo, rid, calls,
                 obj, errCh, got, cbPending, cbLog>>

(* The timer fires: delRequestContext, ErrClientTimeout, and the context   *)
(* is not released, so the caller's next call takes another one.           *)
Timeout(c) ==
  /\ pc[c] = "wait" /\ tmo[c] = "finite"
  /\ requests' = DelRequestContext(rid[c])
  /\ obj' = [obj EXCEPT ![c] = @ + 1]
  /\ errCh' = [errCh EXCEPT ![c] = NoValue]
  /\ pc' = [pc EXCEPT ![c] = "idle"]
  /\ UNCHANGED <<idCounter, netVars, rl, rlConn, hold, kind, tmo, rid, calls,
                 got, cbPending, cbLog>>

---------------------------------------------------------------------------
(* doread with Dispatch inline.                                            *)

(* A response is decoded: dispatchResponse takes its context out of the    *)
(* table (getAndDelRequestContext); a response nobody waits for is dropped. *)
ReadResponse ==
  /\ rl = "read" /\ connState[rlConn] = "open"
  /\ \E i \in toClient[rlConn] :
       /\ toClient' = [toClient EXCEPT ![rlConn] = @ \ {i}]
       /\ IF requests[i] # NoCaller
            THEN /\ hold' = [c |-> requests[i].c, obj |-> requests[i].obj,
                            cb |-> requests[i].cb, rid |-> i]
                 /\ requests' = DelRequestContext(i)
                 /\ rl' = "deliver"
            ELSE UNCHANGED <<hold, requests, rl>>
  /\ UNCHANGED <<idCounter, conn, gen, connState, toServer, rlConn, callerVars,
                 cbPending, cbLog>>

(* ictx.Invoke(nil, res): the callback runs on the read loop, or           *)
(* AssignResponse and a blocking send on the context's errCh.  A context  *)
(* its caller abandoned on a timeout has an empty channel nobody reads.    *)
Deliver ==
  LET c == hold.c IN
  /\ rl = "deliver"
  /\ IF hold.cb
       THEN /\ cbLog' = cbLog \cup {[rid |-> hold.rid, v |-> "ok"]}
            /\ cbPending' = cbPending \ {hold.rid}
            /\ UNCHANGED errCh
       ELSE /\ hold.obj = obj[c] => errCh[c] = NoValue
            /\ errCh' = IF hold.obj = obj[c]
                          THEN [errCh EXCEPT ![c] = [rid |-> hold.rid, v |-> "ok"]]
                          ELSE errCh
            /\ UNCHANGED <<cbLog, cbPending>>
  /\ hold' = NoValue /\ rl' = "read"
  /\ UNCHANGED <<idCounter, requests, netVars, rlConn, pc, kind, tmo, rid,
                 calls, obj, got>>

(* Mutant of CleanupPendingRequests: contexts with an errCh are dropped    *)
(* from the table without being told.                                      *)
CleanupNoNotify ==
  /\ cbLog' = cbLog \cup {[rid |-> i, v |-> "err"] :
                            i \in {j \in Ids : requests[j] # NoCaller /\ requests[j].cb}}
  /\ cbPending' = cbPending \ {j \in Ids : requests[j] # NoCaller /\ requests[j].cb}
  /\ requests' = [i \in Ids |-> NoCaller]
  /\ UNCHANGED errCh

(* cleanupPendingRequests(err), under the lock: a callback context has its *)
(* callback run with the error, any other gets a non-blocking send of it   *)
(* (dropped if the channel is full); then the table is emptied.            *)
CleanupPendingRequests ==
  LET pending == {i \in Ids : requests[i] # NoCaller}
      syncOf(c) == {i \in pending : requests[i].c = c /\ ~requests[i].cb}
  IN
  /\ cbLog' = cbLog \cup {[rid |-> i, v |-> "err"] :
                            i \in {j \in pending : requests[j].cb}}
  /\ cbPending' = cbPending \ {j \in pending : requests[j].cb}
  /\ errCh' = [c \in Callers |->
                 IF syncOf(c) # {} /\ errCh[c] = NoValue
                   THEN [rid |-> CHOOSE i \in syncOf(c) : TRUE, v |-> "err"]
                   ELSE errCh[c]]
  /\ requests' = [i \in Ids |-> NoCaller]

(* A read on a failed connection fails: Dispatch(err, nil), the decode     *)
(* loop breaks and TransientFailure is reported.                           *)
ReadFail ==
  /\ rl = "read" /\ connState[rlConn] = "broken"
  /\ CleanupPendingRequests
  /\ rl' = "redial"
  /\ UNCHANGED <<idCounter, netVars, rlConn, hold, pc, kind, tmo, rid, calls,
                 obj, got>>

(* mayRedial: with a dialer, redial until a dial succeeds (a failed dial   *)
(* only sleeps and retries), close the old connection, setConn, and read   *)
(* on; without one, wg.Wait() and close x.conn, and doread ends.           *)
Redial ==
  /\ rl = "redial"
  /\ IF HasDialer
       THEN /\ gen < MaxConns
            /\ connState' = [connState EXCEPT ![rlConn] = "closed",
                                              ![gen + 1] = "open"]
            /\ toServer' = [toServer EXCEPT ![rlConn] = {}]
            /\ toClient' = [toClient EXCEPT ![rlConn] = {}]
            /\ gen' = gen + 1 /\ conn' = gen + 1 /\ rlConn' = gen + 1
            /\ rl' = "read"
       ELSE /\ connState' = [connState EXCEPT ![conn] = "closed"]
            /\ toServer' = [toServer EXCEPT ![conn] = {}]
            /\ toClient' = [toClient EXCEPT ![conn] = {}]
            /\ rl' = "done"
            /\ UNCHANGED <<gen, conn, rlConn>>
  /\ UNCHANGED <<idCounter, requests, hold, callerVars, cbPending, cbLog>>

---------------------------------------------------------------------------
(* The peer reads a request and answers it unless it is one-way.           *)
PeerReply(g) ==
  /\ connState[g] = "open"
  /\ \E m \in toServer[g] :
       /\ toServer' = [toServer EXCEPT ![g] = @ \ {m}]
       /\ toClient' = IF m.oneway THEN toClient
                      ELSE [toClient EXCEPT ![g] = @ \cup {m.rid}]
  /\ UNCHANGED <<idCounter, requests, conn, gen, connState, rl, rlConn, hold,
                 callerVars, cbPending, cbLog>>

(* The transport fails both ways; frames in flight are lost.  With a       *)
(* dialer, the bound MaxConns leaves room for the redial.                  *)
Break(g) ==
  /\ connState[g] = "open"
  /\ HasDialer => gen < MaxConns
  /\ connState' = [connState EXCEPT ![g] = "broken"]
  /\ toServer' = [toServer EXCEPT ![g] = {}]
  /\ toClient' = [toClient EXCEPT ![g] = {}]
  /\ UNCHANGED <<idCounter, requests, conn, gen, rl, rlConn, hold, callerVars,
                 cbPending, cbLog>>

CallerStep(c) ==
  SendReq(c) \/ SendErr(c) \/ OnewayDel(c) \/ Receive(c) \/ Timeout(c)

ReadLoop == ReadResponse \/ Deliver \/ ReadFail \/ Redial

Next ==
  \/ \E c \in Callers : Invoke(c) \/ CallerStep(c)
  \/ ReadLoop
  \/ \E g \in Gens : PeerReply(g) \/ Break(g)

(* A caller inside invoke runs (and its finite timer fires), the read loop *)
(* runs, and the peer answers what it has read.  Starting a call and       *)
(* transport failures are never forced.                                    *)
Fairness ==
  /\ \A c \in Callers : WF_vars(CallerStep(c))
  /\ WF_vars(ReadLoop)
  /\ \A g \in Gens : WF_vars(PeerReply(g))

Spec == Init /\ [][Next]_vars /\ Fairness

---------------------------------------------------------------------------
(* Spec 8.4 and 8.5: a Do returns only the response or error meant for its *)
(* own request id, even when a late response races its timeout and the    *)
(* pooled context is reused by the caller's next call.                     *)
NoStaleResult ==
  \A c \in Callers : got[c] # NoValue => got[c].rid = rid[c]

(* dispatchResponse's blocking send on errCh never blocks the read loop:  *)
(* the context it took from the table has an empty channel.                *)
DeliveryNeverBlocks ==
  rl = "deliver" /\ ~hold.cb /\ hold.obj = obj[hold.c]
    => errCh[hold.c] = NoValue

(* cleanupPendingRequests reaches every call it finds (clientx_bolt.go    *)
(* 96-115): a Do whose context is in xb.requests when a read fails         *)
(* eventually returns, by its response, the error or its timer, whether    *)
(* it is still sending or already waiting.  (A call that registers after   *)
(* the cleanup and writes to the failed connection before the redial       *)
(* swaps it is never resolved: README finding 9.)                          *)
DrainedCallReturns ==
  \A c \in Callers :
    (/\ rl = "read" /\ connState[rlConn] = "broken"
     /\ pc[c] \in {"send", "wait"} /\ kind[c] = "sync"
     /\ requests[rid[c]] = [c |-> c, obj |-> obj[c], cb |-> FALSE])
      ~> pc[c] = "idle"
=============================================================================
