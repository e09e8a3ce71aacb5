------------------------------ MODULE KeepAliver ------------------------------
(***************************************************************************)
(* The client keep-aliver of sofabolt (keepaliver.go) over the Pool of     *)
(* one address (pool.go).                                                  *)
(*                                                                         *)
(* User goroutines Put freshly dialed clients and Get clients to call      *)
(* through.  put builds a one-client pool and LoadOrStores it, then reads  *)
(* the stored pool's Size under its own lock and, when it keeps the        *)
(* client in a pool that was already there, Pushes it under a third lock.  *)
(* get loops on Pool.Get (round robin on p.next) and retires an overused   *)
(* client when the pool holds two or more: del, then GracefullyClose,      *)
(* which closes the client at once when nobody holds a reference and      *)
(* otherwise records it in ca.dying.  The heartbeat goroutine probes the   *)
(* pool's clients with DoTimeout, deletes those whose probe failed and     *)
(* then closes them; the cleanup goroutine sweeps ca.dying, closing a      *)
(* client once no reference is held or after CleanupMaxChecks sweeps.     *)
(*                                                                         *)
(* Every step that takes a lock, or an atomic, is one action.  The          *)
(* environment breaks a client's connection at any time; a call through a  *)
(* client may block for ever (Do has no timeout).  A client closes itself  *)
(* when its read loop ends, and its user may Close it; the keep-aliver     *)
(* does not learn of either until a heartbeat probe of it fails, which may *)
(* happen to any probed client.                                            *)
(***************************************************************************)
EXTENDS Naturals, Sequences, SequencesExt, FiniteSets

CONSTANTS
  Users,             \* user goroutines calling Put and Get
  Clients,           \* the clients the users dial, each Put at most once
  NoClient,          \* a nil *Client
  MaClientConnUsed,  \* options.MaClientConnUsed (0: no limit)
  MinClientInPool,   \* options.MinClientInPool
  CleanupMaxChecks   \* options.CleanupMaxChecks

ASSUME /\ MaClientConnUsed \in Nat /\ MinClientInPool \in Nat
       /\ CleanupMaxChecks \in Nat \ {0}
       /\ NoClient \notin Clients

(* metrics.used only matters compared with MaClientConnUsed: it is kept   *)
(* saturated at UsedCap, which every comparison treats like any larger    *)
(* value.                                                                  *)
UsedCap == IF MaClientConnUsed > 0 THEN MaClientConnUsed ELSE 1
MaxRefs == Cardinality(Users)

UserPCs == {"idle", "putcheck", "putpush", "get", "getcheck", "getdel",
            "getclose", "call", "return"}

VARIABLES
  stored,   \* ca.raw holds a pool for the address
  clients,  \* that pool's p.clients
  next,     \* that pool's p.next
  used,     \* client -> metrics.used (saturated)
  refs,     \* client -> metrics.references
  closed,   \* client -> c.closed
  dying,    \* client -> ca.dying's value for it, 0 when it has no entry
  pc,       \* user -> where its Put or Get is
  cur,      \* user -> the client its put or get holds
  loaded,   \* user -> put's loaded
  force,    \* user -> put's force argument
  hb,       \* the heartbeat goroutine: "idle", "delete" or "close"
  brokens,  \* clientChecker's brokens
  putEver,  \* ghost: clients handed to Put
  pooled    \* ghost: clients that have been in the stored pool

vars == <<stored, clients, next, used, refs, closed, dying, pc, cur,
          loaded, force, hb, brokens, putEver, pooled>>

TypeOK ==
  /\ stored \in BOOLEAN
  /\ clients \in Seq(Clients) /\ Len(clients) <= Cardinality(Clients)
  /\ next \in 0 .. Cardinality(Clients)
  /\ used \in [Clients -> 0 .. UsedCap]
  /\ refs \in [Clients -> 0 .. MaxRefs]
  /\ closed \in [Clients -> BOOLEAN]
  /\ dying \in [Clients -> 0 .. CleanupMaxChecks]
  /\ pc \in [Users -> UserPCs]
  /\ cur \in [Users -> Clients \cup {NoClient}]
  /\ loaded \in [Users -> BOOLEAN] /\ force \in [Users -> BOOLEAN]
  /\ hb \in {"idle", "delete", "close"} /\ brokens \subseteq Clients
  /\ putEver \subseteq Clients /\ pooled \subseteq Clients

(* A client the users have dialed may already have been used.              *)
Init ==
  /\ stored = FALSE /\ clients = <<>> /\ next = 0
  /\ used \in [Clients -> 0 .. UsedCap]
  /\ refs = [c \in Clients |-> 0]
  /\ closed = [c \in Clients |-> FALSE]
  /\ dying = [c \in Clients |-> 0]
  /\ pc = [u \in Users |-> "idle"] /\ cur = [u \in Users |-> NoClient]
  /\ loaded = [u \in Users |-> FALSE] /\ force = [u \in Users |-> FALSE]
  /\ hb = "idle" /\ brokens = {}
  /\ putEver = {} /\ pooled = {}

---------------------------------------------------------------------------
(* metrics.used >= MaClientConnUsed with the limit on, the test put and   *)
(* get share.                                                              *)
Overused(c) == MaClientConnUsed > 0 /\ used[c] >= MaClientConnUsed

UseOnce(c) == [used EXCEPT ![c] = IF @ < UsedCap THEN @ + 1 ELSE @]

(* Pool.Delete and DeleteLocked: remove the first occurrence.             *)
PoolDelete(s, c) == RemoveFirst(s, c)

DeleteClients(s, cs) == SelectSeq(s, LAMBDA x : x \notin cs)

(* Client.Close: the CAS on c.closed; closing twice changes nothing.       *)
CloseAll(cs) == [c \in Clients |-> closed[c] \/ c \in cs]

---------------------------------------------------------------------------
(* put, up to LoadOrStore: NewPool, Push(client) into it, LoadOrStore.     *)
PutStore(u) ==
  /\ pc[u] = "idle"
  /\ \E c \in Clients \ putEver, f \in BOOLEAN :
       /\ putEver' = putEver \cup {c}
       /\ cur' = [cur EXCEPT ![u] = c] /\ force' = [force EXCEPT ![u] = f]
       /\ loaded' = [loaded EXCEPT ![u] = stored]
       /\ IF stored
            THEN UNCHANGED <<stored, clients, next, pooled>>
            ELSE /\ stored' = TRUE /\ clients' = <<c>> /\ next' = 0
                 /\ pooled' = pooled \cup {c}
  /\ pc' = [pc EXCEPT ![u] = "putcheck"]
  /\ UNCHANGED <<used, refs, closed, dying, hb, brokens>>

(* put after LoadOrStore: actual.Size() read under the pool's lock, then  *)
(* return false for an overused client, keep it (Push it if the stored    *)
(* pool was another's) when forced or the pool is small, else false.      *)
PutCheck(u) ==
  LET c == cur[u]  size == Len(clients) IN
  /\ pc[u] = "putcheck"
  /\ pc' = [pc EXCEPT ![u] =
              IF ~(size >= 2 /\ Overused(c))
                 /\ (force[u] \/ (MinClientInPool > 0 /\ size <= MinClientInPool))
                 /\ loaded[u]
              THEN "putpush" ELSE "idle"]
  /\ UNCHANGED <<stored, clients, next, used, refs, closed, dying,
                 cur, loaded, force, hb, brokens, putEver, pooled>>

(* actual.Push(client).                                                    *)
PutPush(u) ==
  /\ pc[u] = "putpush"
  /\ clients' = Append(clients, cur[u])
  /\ pooled' = pooled \cup {cur[u]}
  /\ pc' = [pc EXCEPT ![u] = "idle"]
  /\ UNCHANGED <<stored, next, used, refs, closed, dying, cur, loaded,
                 force, hb, brokens, putEver>>

---------------------------------------------------------------------------
(* get's m.Load(addr); without a pool get returns nil, false.              *)
GetLoad(u) ==
  /\ pc[u] = "idle" /\ stored
  /\ pc' = [pc EXCEPT ![u] = "get"]
  /\ UNCHANGED <<stored, clients, next, used, refs, closed, dying,
                 cur, loaded, force, hb, brokens, putEver, pooled>>

(* Pool.Get: with no client it returns nil, false and get returns too;     *)
(* otherwise p.next advances round robin and names the client.             *)
PoolGet(u) ==
  /\ pc[u] = "get"
  /\ IF clients = <<>>
       THEN /\ pc' = [pc EXCEPT ![u] = "idle"]
            /\ UNCHANGED <<next, cur>>
       ELSE /\ next' = (next + 1) % Len(clients)
            /\ cur' = [cur EXCEPT ![u] = clients[next' + 1]]
            /\ pc' = [pc EXCEPT ![u] = "getcheck"]
  /\ UNCHANGED <<stored, clients, used, refs, closed, dying, loaded,
                 force, hb, brokens, putEver, pooled>>

(* get's test on p.Size(), read under a second lock: retire an overused    *)
(* client from a pool of two or more, else return it to the caller.        *)
GetCheck(u) ==
  /\ pc[u] = "getcheck"
  /\ pc' = [pc EXCEPT ![u] = IF Len(clients) >= 2 /\ Overused(cur[u])
                               THEN "getdel" ELSE "call"]
  /\ UNCHANGED <<stored, clients, next, used, refs, closed, dying,
                 cur, loaded, force, hb, brokens, putEver, pooled>>

(* t.del(m, addr, c): Load finds the pool (entries are never removed),     *)
(* then Pool.Delete.                                                       *)
GetDel(u) ==
  /\ pc[u] = "getdel"
  /\ clients' = PoolDelete(clients, cur[u])
  /\ pc' = [pc EXCEPT ![u] = "getclose"]
  /\ UNCHANGED <<stored, next, used, refs, closed, dying, cur, loaded,
                 force, hb, brokens, putEver, pooled>>

(* GracefullyClose, then get's continue.                                   *)
GracefullyClose(u) ==
  LET c == cur[u] IN
  /\ pc[u] = "getclose"
  /\ IF refs[c] > 0
       THEN /\ dying' = [dying EXCEPT ![c] = 1]
            /\ UNCHANGED closed
       ELSE /\ closed' = CloseAll({c})
            /\ UNCHANGED dying
  /\ pc' = [pc EXCEPT ![u] = "get"]
  /\ UNCHANGED <<stored, clients, next, used, refs, cur, loaded,
                 force, hb, brokens, putEver, pooled>>

(* The caller of Get calls through the client: DoTimeout's two            *)
(* AddInt64s before the invoke.                                            *)
CallStart(u) ==
  /\ pc[u] = "call"
  /\ refs' = [refs EXCEPT ![cur[u]] = @ + 1]
  /\ used' = UseOnce(cur[u])
  /\ pc' = [pc EXCEPT ![u] = "return"]
  /\ UNCHANGED <<stored, clients, next, closed, dying, cur, loaded,
                 force, hb, brokens, putEver, pooled>>

(* Mutant of CallEnd: DoTimeout returns without dropping its reference.   *)
CallEndNoRelease(u) ==
  /\ pc[u] = "return"
  /\ pc' = [pc EXCEPT ![u] = "idle"]
  /\ cur' = [cur EXCEPT ![u] = NoClient]
  /\ UNCHANGED <<stored, clients, next, used, refs, closed, dying, loaded,
                 force, hb, brokens, putEver, pooled>>

(* The invoke returns (or fails on a closed client) and                   *)
(* DoTimeout drops its reference.                                          *)
CallEnd(u) ==
  /\ pc[u] = "return"
  /\ refs' = [refs EXCEPT ![cur[u]] = @ - 1]
  /\ pc' = [pc EXCEPT ![u] = "idle"]
  /\ cur' = [cur EXCEPT ![u] = NoClient]
  /\ UNCHANGED <<stored, clients, next, used, closed, dying, loaded,
                 force, hb, brokens, putEver, pooled>>

---------------------------------------------------------------------------
(* A heartbeat tick: clientChecker copies the pool's clients and probes    *)
(* those idle for a heartbeat interval (any subset, as lasted is time) with *)
(* DoTimeout, which counts a use; the probe fails on a closed client and   *)
(* on any other whose connection has failed or that does not answer in    *)
(* HeartbeatTimeout, which the model does not tell apart.                  *)
HeartbeatProbe ==
  /\ hb = "idle" /\ stored
  /\ \E probed \in SUBSET ToSet(clients), failed \in SUBSET Clients :
       /\ {c \in probed : closed[c]} \subseteq failed
       /\ failed \subseteq probed
       /\ used' = [c \in Clients |->
                     IF c \in probed /\ used[c] < UsedCap THEN used[c] + 1
                     ELSE used[c]]
       /\ brokens' = failed
  /\ hb' = "delete"
  /\ UNCHANGED <<stored, clients, next, refs, closed, dying, pc, cur,
                 loaded, force, putEver, pooled>>

(* p.DeleteClients(brokens).                                               *)
HeartbeatDelete ==
  /\ hb = "delete"
  /\ clients' = DeleteClients(clients, brokens)
  /\ hb' = "close"
  /\ UNCHANGED <<stored, next, used, refs, closed, dying, pc, cur,
                 loaded, force, brokens, putEver, pooled>>

(* Close every broken client; the tick is over.                            *)
HeartbeatClose ==
  /\ hb = "close"
  /\ closed' = CloseAll(brokens)
  /\ hb' = "idle" /\ brokens' = {}
  /\ UNCHANGED <<stored, clients, next, used, refs, dying, pc, cur,
                 loaded, force, putEver, pooled>>

(* Client.Close from outside the keep-aliver: doread ends (a read error   *)
(* and no redial) and runs _ = c.Close(), or a user closes the client.     *)
(* The client stays where it is, pooled or not.                            *)
ClientClose(c) ==
  /\ ~closed[c]
  /\ closed' = CloseAll({c})
  /\ UNCHANGED <<stored, clients, next, used, refs, dying, pc, cur, loaded,
                 force, hb, brokens, putEver, pooled>>

(* Mutant of Cleanup: without the CleanupMaxChecks branch a dying client  *)
(* is closed only once no reference is held.                               *)
CleanupNoMaxChecks ==
  /\ \E c \in Clients : dying[c] > 0
  /\ closed' = [c \in Clients |-> closed[c] \/ (dying[c] > 0 /\ refs[c] = 0)]
  /\ dying' = [c \in Clients |->
                 IF dying[c] > 0 /\ dying[c] < CleanupMaxChecks /\ refs[c] > 0
                 THEN dying[c] + 1 ELSE dying[c]]
  /\ UNCHANGED <<stored, clients, next, used, refs, pc, cur, loaded,
                 force, hb, brokens, putEver, pooled>>

(* One sweep of doCleanup over ca.dying; entries are never deleted.        *)
Cleanup ==
  /\ \E c \in Clients : dying[c] > 0
  /\ closed' = [c \in Clients |->
                  closed[c] \/ (dying[c] > 0 /\ (dying[c] >= CleanupMaxChecks
                                                 \/ refs[c] = 0))]
  /\ dying' = [c \in Clients |->
                 IF dying[c] > 0 /\ dying[c] < CleanupMaxChecks /\ refs[c] > 0
                 THEN dying[c] + 1 ELSE dying[c]]
  /\ UNCHANGED <<stored, clients, next, used, refs, pc, cur, loaded,
                 force, hb, brokens, putEver, pooled>>

User(u) ==
  \/ PutStore(u) \/ PutCheck(u) \/ PutPush(u)
  \/ GetLoad(u) \/ PoolGet(u) \/ GetCheck(u) \/ GetDel(u) \/ GracefullyClose(u)
  \/ CallStart(u) \/ CallEnd(u)

Next ==
  \/ \E u \in Users : User(u)
  \/ HeartbeatProbe \/ HeartbeatDelete \/ HeartbeatClose
  \/ Cleanup
  \/ \E c \in Clients : ClientClose(c)

(* Get's and put's steps between locks, the heartbeat's delete and close   *)
(* and the cleanup sweep run on goroutines that never block there.  A call *)
(* through a client (CallEnd) may block for ever and a heartbeat tick need *)
(* not come, so neither is fair; nor is a client closing on its own.       *)
Fairness ==
  /\ \A u \in Users : /\ WF_vars(PutCheck(u)) /\ WF_vars(PutPush(u))
                      /\ WF_vars(PoolGet(u)) /\ WF_vars(GetCheck(u))
                      /\ WF_vars(GetDel(u)) /\ WF_vars(GracefullyClose(u))
  /\ WF_vars(HeartbeatDelete) /\ WF_vars(HeartbeatClose)
  /\ WF_vars(Cleanup)

Spec == Init /\ [][Next]_vars /\ Fairness

---------------------------------------------------------------------------
RetiredEventuallyClosed ==
  \A c \in Clients : (c \in pooled /\ c \notin ToSet(clients)) ~> closed[c]
=============================================================================
