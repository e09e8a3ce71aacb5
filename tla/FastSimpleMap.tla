---------------------------- MODULE FastSimpleMap ----------------------------
(***************************************************************************)
(* simplemap/fastsimplemap: the header map of a command.  Four well-known *)
(* keys have fields of their own; every other pair lives in the slice     *)
(* kvs of kvHeader{key, value []byte}.                                    *)
(*                                                                         *)
(* The slice is modelled with its backing array: slots[1..KvsCap] are the *)
(* kvHeader structs of the backing array, n = len(kvs), cap = cap(kvs).   *)
(* A slot holds two slice headers [a |-> array id, l |-> length]; the     *)
(* byte arrays themselves are arr[id], so two slots that share an id      *)
(* share their bytes, as two Go slice headers that point at one array.    *)
(* arr[0] is the nil array.  append(x[:0], b...) writes b over the prefix *)
(* of x's array when x is not nil (user keys and values are at most 8     *)
(* bytes, the smallest size class, so they always fit), and allocates a   *)
(* fresh array when it is nil and b is not empty.                        *)
(***************************************************************************)
EXTENDS Buffer, SequencesExt

CONSTANT KvsCap   \* the largest cap(kvs) the model lets the slice reach

NilHeader == [a |-> 0, l |-> 0]
NilSlot == [k |-> NilHeader, v |-> NilHeader]
ArrIds == 1..(2 * KvsCap)

(* The well-known keys, as the bytes of StrService, StrHost,               *)
(* StrContentType and StrAuthorization, in the order Encode writes them.   *)
StrService == <<115, 101, 114, 118, 105, 99, 101>>
StrHost == <<104, 111, 115, 116>>
StrContentType == <<99, 111, 110, 116, 101, 110, 116, 45, 116, 121, 112, 101>>
StrAuthorization == <<97, 117, 116, 104, 111, 114, 105, 122, 97, 116, 105, 111, 110>>
WellKnown == <<StrService, StrHost, StrContentType, StrAuthorization>>
WKNames == {WellKnown[i] : i \in 1..4}

(* New(): the zero FastSimpleMap.                                          *)
New == [wk    |-> [w \in WKNames |-> <<>>],
        n     |-> 0,
        cap   |-> 0,
        slots |-> [i \in 1..KvsCap |-> NilSlot],
        arr   |-> [a \in {0} \cup ArrIds |-> <<>>]]

(* The bytes a slice header of slot i sees: b2s(m.kvs[i].key) etc.         *)
View(m, i, f) == SubSeq(m.arr[m.slots[i][f].a], 1, m.slots[i][f].l)

UsedArrs(m) == {m.slots[i][f].a : i \in 1..KvsCap, f \in {"k", "v"}} \ {0}

(* Arrays no slot of the backing array refers to are garbage.              *)
Collect(m) == [m EXCEPT !.arr = [a \in DOMAIN m.arr |->
                                   IF a \in UsedArrs(m) THEN m.arr[a] ELSE <<>>]]

(* m.kvs[i].f = append(m.kvs[i].f[:0], x...)                               *)
Put(m, i, f, x) ==
    LET a == m.slots[i][f].a
    IN  IF a # 0
        THEN [m EXCEPT !.arr[a] = x \o SubSeq(@, Len(x) + 1, Len(@)),
                       !.slots[i][f].l = Len(x)]
        ELSE IF x = <<>> THEN m   \* append(nil, nothing...) stays nil
        ELSE LET b == Min(ArrIds \ UsedArrs(m))
             IN  [m EXCEPT !.arr[b] = x, !.slots[i][f] = [a |-> b, l |-> Len(x)]]

(* The first i < len(kvs) whose key equals k, or 0.                        *)
FirstKey(m, k) ==
    LET I == {i \in 1..m.n : View(m, i, "k") = k}
    IN  IF I = {} THEN 0 ELSE Min(I)

(* append(m.kvs, make([]kvHeader, 4)...) when cap(m.kvs) <= n: growslice  *)
(* doubles the capacity, or takes n+4 when that is more.                   *)
NewCap(c) == IF 2 * c >= c + 4 THEN 2 * c ELSE c + 4

(* Whether set(k, _) would grow kvs past KvsCap.                           *)
SetOverflows(m, k) ==
    k \notin WKNames /\ FirstKey(m, k) = 0 /\ m.cap <= m.n
    /\ NewCap(m.cap) > KvsCap

(* Mutant: the capacity check before m.kvs = m.kvs[:n+1] left out.       *)
SetOpNoGrow(m, k, v) ==
    IF k \in WKNames THEN [m EXCEPT !.wk[k] = v]
    ELSE LET i == FirstKey(m, k)
         IN  IF i # 0 THEN Collect(Put(m, i, "v", v))
             ELSE LET s == [m EXCEPT !.n = m.n + 1]
                  IN  Collect(Put(Put(s, s.n, "k", k), s.n, "v", v))

(* set: a well-known key goes to its field; a key already in kvs has its   *)
(* value overwritten in place; otherwise kvs grows by one and the new      *)
(* slot's key and value are appended to whatever arrays it already holds.  *)
SetOp(m, k, v) ==
    IF k \in WKNames THEN [m EXCEPT !.wk[k] = v]
    ELSE LET i == FirstKey(m, k)
         IN  IF i # 0 THEN Collect(Put(m, i, "v", v))
             ELSE LET g == IF m.cap <= m.n THEN [m EXCEPT !.cap = NewCap(m.cap)]
                           ELSE m
                      s == [g EXCEPT !.n = m.n + 1]
                  IN  Collect(Put(Put(s, s.n, "k", k), s.n, "v", v))

(* get / Get: "" stands for both nil and the empty value.                  *)
GetOp(m, k) ==
    IF k \in WKNames THEN m.wk[k]
    ELSE IF FirstKey(m, k) # 0 THEN View(m, FirstKey(m, k), "v") ELSE <<>>

(* m.kvs = append(m.kvs[:i], m.kvs[i+1:]...): slots i+1..n move down one;  *)
(* slot n, now past len, keeps its headers, which the new slot n-1 shares. *)
RemoveSlot(m, i) ==
    [m EXCEPT !.n = m.n - 1,
              !.slots = [j \in DOMAIN m.slots |->
                           IF i <= j /\ j < m.n THEN m.slots[j + 1] ELSE m.slots[j]]]

(* The loop of del: i advances after a removal too, so the pair that moved *)
(* into slot i is not compared.                                            *)
RECURSIVE DelFrom(_, _, _)
DelFrom(m, k, i) ==
    IF i > m.n THEN m
    ELSE IF View(m, i, "k") = k THEN DelFrom(RemoveSlot(m, i), k, i + 1)
    ELSE DelFrom(m, k, i + 1)

DelOp(m, k) ==
    IF k \in WKNames THEN [m EXCEPT !.wk[k] = <<>>] ELSE Collect(DelFrom(m, k, 1))

(* Reset: every field and kvs to length 0; the backing arrays are kept.    *)
ResetOp(m) == [m EXCEPT !.wk = [w \in WKNames |-> <<>>], !.n = 0]

(* Range: the non-empty well-known pairs in order, then kvs.               *)
Pairs(m) ==
    SelectSeq([i \in 1..4 |-> <<WellKnown[i], m.wk[WellKnown[i]]>>],
              LAMBDA p : p[2] # <<>>)
    \o [i \in 1..m.n |-> <<View(m, i, "k"), View(m, i, "v")>>]

(* Encode: each pair as two uint32-length-prefixed strings.                *)
EncodeOp(m) ==
    FoldLeft(LAMBDA acc, p : acc \o PutUint32String(p[1]) \o PutUint32String(p[2]),
             <<>>, Pairs(m))

(* GetEncodeSize                                                           *)
GetEncodeSize(m) ==
    FoldLeft(LAMBDA acc, p : acc + 4 + Len(p[1]) + 4 + Len(p[2]), 0, Pairs(m))

(* Decode, from cursor pos: a key string, a uint32 value length (0 and     *)
(* MaxUint32 both mean ""), the value, then set.  A short buffer stops the *)
(* loop with the pairs decoded so far already set.                        *)
RECURSIVE DecodeFrom(_, _, _)
DecodeFrom(m, data, pos) ==
    IF pos = Len(data) THEN [m |-> m, err |-> "none"]
    ELSE IF ~Check(data, pos, 4) \/ ~Check(data, pos + 4, Uint32At(data, pos))
    THEN [m |-> m, err |-> "key"]
    ELSE LET k == Slice(data, pos + 4, Uint32At(data, pos))
             q == pos + 4 + Len(k)
         IN  IF ~Check(data, q, 4) THEN [m |-> m, err |-> "value"]
             ELSE LET u == IF IsMaxUint32At(data, q) THEN 0 ELSE Uint32At(data, q)
                  IN  IF IsMaxUint32At(data, q) \/ u = 0
                      THEN DecodeFrom(SetOp(m, k, <<>>), data, q + 4)
                      ELSE IF ~Check(data, q + 4, u) THEN [m |-> m, err |-> "value"]
                      ELSE DecodeFrom(SetOp(m, k, Slice(data, q + 4, u)), data, q + 4 + u)

DecodeOp(m, data) == DecodeFrom(m, data, 0)

(* The loop of CopyTo: slot i's key, then its value, appended over what    *)
(* dst's slot i already holds.                                            *)
RECURSIVE CopyKvs(_, _, _)
CopyKvs(dst, m, i) ==
    IF i > m.n THEN dst
    ELSE CopyKvs(Put(Put(dst, i, "k", View(m, i, "k")), i, "v", View(m, i, "v")), m, i + 1)

(* CopyTo(dst): the well-known values copied; when cap(dst.kvs) < n a new  *)
(* slice of length and capacity n takes copy(tmp, dst.kvs), the first      *)
(* len(dst.kvs) headers; then dst.kvs = dst.kvs[:n] and the loop.         *)
CopyToOp(m, dst) ==
    LET g == IF dst.cap < m.n
             THEN [dst EXCEPT !.cap = m.n,
                              !.slots = [i \in DOMAIN dst.slots |->
                                           IF i <= dst.n THEN dst.slots[i] ELSE NilSlot]]
             ELSE dst
    IN  Collect(CopyKvs([g EXCEPT !.wk = m.wk, !.n = m.n], m, 1))

(* What the map means to its user: Get of every key of Keys.               *)
Abs(m, Keys) == [k \in Keys |-> GetOp(m, k)]

=============================================================================
