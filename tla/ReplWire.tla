----------------------------- MODULE ReplWire ------------------------------
(***************************************************************************)
(* What the nodes write into packets and read out of them, byte by byte:   *)
(* the status of the slices (LcNodeInfo), the addresses of a node          *)
(* (StaticNodeInfo), the counts of its containers (NodeInfo and            *)
(* Int2IntMap), one changed entry (ReplicableLruHash), a batch of          *)
(* transactions (ReplicableShmTid), and the lists of times by container    *)
(* (IntDArr and Int2IntArrMap).  A packet carries, beside its bytes, the   *)
(* value it was made from.  The order of a hash map is any order.          *)
(***************************************************************************)
EXTENDS ReplNodes

CONSTANTS
    ByteMod,         \* values of a byte
    WireTids,        \* transaction ids
    WireSlices,      \* numbers of slices
    WireIps,         \* addresses of the nodes
    WirePorts,       \* ports they are configured with
    WireVals,        \* counts and times
    MaxPacketSize,   \* ReplShmHelper::m_iMaxPacketSize
    MaxWireOps       \* bound of the model: steps of a behaviour

VARIABLE rw          \* one of the exchanges below, with the peer's view
wireVars == <<rw>>

R_MASTER == 2
R_SLAVE == 3
R_FLIPING_MASTER == 4
WireRoles == {R_MASTER, R_SLAVE, R_FLIPING_MASTER}

(* memcpy on a little-endian machine, and arrays of numbers. *)
bytes(v, w) == [i \in 1 .. w |-> (v \div ByteMod ^ (i - 1)) % ByteMod]
words(a, w) == FlattenSeq([i \in DOMAIN a |-> bytes(a[i], w)])
word(b, off, w) == FoldRight(LAMBDA x, v : x + ByteMod * v, SubSeq(b, off + 1, off + w), 0)
wordsAt(b, off, w, n) == [i \in 1 .. n |-> word(b, off + w * (i - 1), w)]
Orders(S) == SetToSeqs(S)

-----------------------------------------------------------------------------
(* LcNodeInfo: the arrays of a node with n slices. *)
NewLcNodeInfo(n) ==
    [ids |-> [i \in 1 .. n |-> i], tid |-> [i \in 1 .. n |-> 0], prio |-> [i \in 1 .. n |-> 0],
     num |-> [i \in 1 .. n |-> 0], role |-> [i \in 1 .. n |-> R_SLAVE], fsync |-> [i \in 1 .. n |-> 0]]
NoLcNodeInfo == << >>

lcTotalSize(n) == 4 + (4 + 8 + 4 + 4 + 2 + 2) * n
lcSerialize(s) ==
    bytes(Len(s.ids), 4) \o words(s.ids, 4) \o words(s.tid, 8) \o words(s.prio, 4)
    \o words(s.num, 4) \o words(s.role, 2) \o words(s.fsync, 2)
lcDeserialize(b) ==
    LET n == word(b, 0, 4)
    IN  IF lcTotalSize(n) # Len(b) THEN NoLcNodeInfo
        ELSE [ids |-> wordsAt(b, 4, 4, n), tid |-> wordsAt(b, 4 + 4 * n, 8, n),
              prio |-> wordsAt(b, 4 + 12 * n, 4, n), num |-> wordsAt(b, 4 + 16 * n, 4, n),
              role |-> wordsAt(b, 4 + 20 * n, 2, n), fsync |-> wordsAt(b, 4 + 22 * n, 2, n)]

(* copyAll copies as many entries as the node info has that it copies to. *)
lcCopyAll(i, r) ==
    LET n == Len(i.ids) IN [f \in DOMAIN i |-> [k \in 1 .. n |-> r[f][k]]]
lcAddNodeInfo(t, r) == IF t = NoLcNodeInfo THEN r ELSE lcCopyAll(t, r)
isSynced(i, idx, r) == i.tid[idx] = r.tid[idx]

setRole(s, idx, r) == IF s.role[idx] = r THEN s ELSE [s EXCEPT !.role[idx] = r]
setAllRole(s, r) == [s EXCEPT !.role = [i \in DOMAIN @ |-> setRole(s, i, r).role[i]]]

InitLc == \E n \in WireSlices, p \in 0 .. 1 :
    rw = [kind |-> "lc", local |-> [NewLcNodeInfo(n) EXCEPT !.prio[1] = p], chan |-> << >>,
          table |-> NoLcNodeInfo, told |-> NoLcNodeInfo, ops |-> 0]

(* The master's side: refresh, a new role, a finished full sync. *)
lcChange(s) == rw' = [rw EXCEPT !.local = s, !.ops = @ + 1] /\ s # rw.local
lcRefresh == \E t \in [DOMAIN rw.local.tid -> WireTids] :
    lcChange([rw.local EXCEPT !.tid = t])
lcRoles == \E r \in WireRoles :
    \/ lcChange(setAllRole(rw.local, r))
    \/ \E i \in DOMAIN rw.local.role : lcChange(setRole(rw.local, i, r))
lcDidFsync == \E i \in DOMAIN rw.local.fsync : lcChange([rw.local EXCEPT !.fsync[i] = 1])

sendLocalReplStatus ==
    rw' = [rw EXCEPT !.chan = Append(@, [b |-> lcSerialize(rw.local), of |-> rw.local]), !.ops = @ + 1]
handleStatus ==
    /\ rw.chan # << >>
    /\ rw' = [rw EXCEPT !.chan = Tail(@), !.table = lcAddNodeInfo(@, lcDeserialize(rw.chan[1].b)),
                        !.told = rw.chan[1].of]
lcForget ==
    rw' = [rw EXCEPT !.chan = << >>, !.table = NoLcNodeInfo, !.told = NoLcNodeInfo, !.ops = @ + 1]

NextLc ==
    /\ rw.kind = "lc"
    /\ \/ rw.ops < MaxWireOps /\ (lcRefresh \/ lcRoles \/ lcDidFsync \/ sendLocalReplStatus \/ lcForget)
       \/ handleStatus

(* The peer's node info is the last status it was sent, slice by slice,    *)
(* and a slice compares as in sync exactly when that status has its tid    *)
(* (LcNodeInfo::serialize, deserialize, copyAll, isSynced).                *)
StatusExact ==
    rw.kind = "lc" =>
        /\ rw.table = rw.told
        /\ rw.told # NoLcNodeInfo =>
              \A i \in DOMAIN rw.local.tid :
                  isSynced(rw.local, i, rw.table) <=> rw.told.tid[i] = rw.local.tid[i]

-----------------------------------------------------------------------------
(* StaticNodeInfo: addresses and ports; an address is [ip, port]. *)
NewStaticNodeInfo(svr, shm) ==
    [ip |-> svr.ip, port |-> svr.port, shmIp |-> shm.ip, shmPort |-> shm.port]
NoStatic == << >>
stSerialize(s) == bytes(s.ip, 4) \o bytes(s.port, 2) \o bytes(s.shmIp, 4) \o bytes(s.shmPort, 2)
stTotalSize == 4 + 2 + 4 + 2
stDeserialize(b) ==
    IF stTotalSize # Len(b) THEN NoStatic
    ELSE [ip |-> word(b, 0, 4), port |-> word(b, 4, 2), shmIp |-> word(b, 6, 4), shmPort |-> word(b, 10, 2)]
getSvrAddr(ip, port) == [ip |-> ip, port |-> port]

(* StNodeInfoMgr, by the IP of the connection's peer, whatever its port: a *)
(* second join of the same IP is not entered.                              *)
setHashKey(addr) == addr.ip
WireConns == [ip : WireIps, port : 1 .. 2]
stAddNodeInfo(t, ip, s) == IF ip \in DOMAIN t THEN t ELSE (ip :> s) @@ t
stDelNodeInfo(t, ip) == [i \in DOMAIN t \ {ip} |-> t[i]]

InitJoin == \E conf \in [WireIps -> WirePorts] :
    rw = [kind |-> "join", conf |-> conf, chan |-> << >>, table |-> << >>,
          joins |-> [ip \in WireIps |-> {}], ops |-> 0]

LocalStatic(ip) == NewStaticNodeInfo([ip |-> ip, port |-> 5], [ip |-> ip, port |-> rw.conf[ip]])
clientJoinListenSvrReq(c) ==
    LET s == LocalStatic(c.ip)
    IN  rw' = [rw EXCEPT !.chan = Append(@, [from |-> c, b |-> stSerialize(s), of |-> s]), !.ops = @ + 1]
handleJoinReq ==
    /\ rw.chan # << >>
    /\ LET p == rw.chan[1]
           key == setHashKey(p.from)
       IN  rw' = [rw EXCEPT !.chan = Tail(@), !.table = stAddNodeInfo(@, key, stDeserialize(p.b)),
                            !.joins[p.from.ip] = @ \cup {p.of}]
(* A connection closes; another one of the same IP may be open. *)
closeClnt(c) ==
    /\ setHashKey(c) \in DOMAIN rw.table
    /\ rw' = [rw EXCEPT !.table = stDelNodeInfo(@, setHashKey(c)), !.joins[c.ip] = {}, !.ops = @ + 1,
                        !.chan = SelectSeq(@, LAMBDA p : p.from # c)]
(* The node starts again with another dispatch port. *)
reconfigure(ip) == \E port \in WirePorts \ {rw.conf[ip]} :
    rw' = [rw EXCEPT !.conf[ip] = port, !.ops = @ + 1]

NextJoin ==
    /\ rw.kind = "join"
    /\ \/ rw.ops < MaxWireOps /\ \E c \in WireConns :
             clientJoinListenSvrReq(c) \/ closeClnt(c) \/ reconfigure(c.ip)
       \/ handleJoinReq

(* The address the workers are given for a master is one that its node     *)
(* itself announced since its info was last removed, never another node's  *)
(* or a mixture (StaticNodeInfo::serialize, StNodeInfoMgr::addNodeInfo).   *)
AddrAnnounced ==
    rw.kind = "join" =>
        \A ip \in DOMAIN rw.table :
            LET s == rw.table[ip]
            IN  \E j \in rw.joins[ip] : /\ getSvrAddr(s.ip, s.port) = getSvrAddr(j.ip, j.port)
                                        /\ getSvrAddr(s.shmIp, s.shmPort) = getSvrAddr(j.shmIp, j.shmPort)

-----------------------------------------------------------------------------
(* Int2IntMap and NodeInfo; getVal, addSetVal, assignTo, isEqual are those *)
(* of ReplNodes.                                                           *)
mapAdd(m, k, v) == IF k \in DOMAIN m THEN m ELSE (k :> v) @@ m
mapSetVal(m, k, v) == [m EXCEPT ![k] = v]
serialze(m, order) == FlattenSeq([i \in DOMAIN order |-> bytes(order[i], 4) \o bytes(m[order[i]], 4)])
deserialze(m, b) ==
    FoldLeft(LAMBDA r, i : mapAdd(r, word(b, 8 * (i - 1), 4), word(b, 8 * (i - 1) + 4, 4)),
             m, [i \in 1 .. (Len(b) \div 4) \div 2 |-> i])

niSerialize(n, order) == bytes(n.sync, 4) \o bytes(n.up, 4) \o serialze(n.cnt, order)
niDeserialize(b) ==
    [sync |-> word(b, 0, 4), up |-> word(b, 4, 4), cnt |-> deserialze(NoCounts, SubSeq(b, 9, Len(b)))]
niCopyAll(i, r) == [sync |-> r.sync, up |-> r.up, cnt |-> assignTo(r.cnt, i.cnt)]
NewNodeInfo == [sync |-> 0, up |-> 0, cnt |-> NoCounts]

InitNode == \E up \in 1 .. 2 :
    rw = [kind |-> "node", local |-> [NewNodeInfo EXCEPT !.up = up], chan |-> << >>,
          peer |-> NewNodeInfo, same |-> FALSE, ops |-> 0]

niChange(n) == rw' = [rw EXCEPT !.local = n, !.same = FALSE, !.ops = @ + 1] /\ n # rw.local
contChange == \E k \in ContIds, v \in WireVals :
    \/ niChange([rw.local EXCEPT !.cnt = mapAdd(@, k, v)])
    \/ niChange([rw.local EXCEPT !.cnt = addSetVal(@, k, v)])
    \/ k \in DOMAIN rw.local.cnt /\ niChange([rw.local EXCEPT !.cnt = mapSetVal(@, k, v)])
setSyncTime == \E v \in WireVals : niChange([rw.local EXCEPT !.sync = v])
sendNodeStatus == \E order \in Orders(DOMAIN rw.local.cnt) :
    rw' = [rw EXCEPT !.chan = Append(@, [b |-> niSerialize(rw.local, order), of |-> rw.local]), !.ops = @ + 1]
handleNodeStatus ==
    /\ rw.chan # << >>
    /\ rw' = [rw EXCEPT !.chan = Tail(@), !.peer = niCopyAll(@, niDeserialize(rw.chan[1].b)),
                        !.same = rw.chan[1].of = rw.local]

NextNode ==
    /\ rw.kind = "node"
    /\ \/ rw.ops < MaxWireOps /\ (contChange \/ setSyncTime \/ sendNodeStatus)
       \/ handleNodeStatus

(* Once a node has read the other's present status, in whatever order its  *)
(* map was written, the two compare as in sync (serialze, deserialze,      *)
(* assignTo, isEqual).                                                     *)
CountsExact ==
    (rw.kind = "node" /\ rw.same) =>
        /\ isEqual(rw.peer.cnt, rw.local.cnt) /\ isEqual(rw.local.cnt, rw.peer.cnt)
        /\ rw.peer.sync = rw.local.sync /\ rw.peer.up = rw.local.up

-----------------------------------------------------------------------------
(* ReplPacker into a buffer of a given size: the bytes written, the place  *)
(* of the next one, and whether one was written before the buffer.  A      *)
(* value that does not fit yields -1, which the callers add to the place.  *)
NewBuf(size) == [mem |-> [i \in 1 .. size |-> 0], at |-> 0, under |-> FALSE]
packBytes(u, b) ==
    IF Len(b) > Len(u.mem) - u.at THEN [u EXCEPT !.at = @ - 1]
    ELSE [mem |-> [i \in DOMAIN u.mem |-> IF i - u.at \in DOMAIN b THEN b[i - u.at] ELSE u.mem[i]],
          at |-> u.at + Len(b), under |-> u.under \/ (u.at < 0 /\ b # << >>)]
pack(u, w, v) == packBytes(u, bytes(v, w))
packRawStr(u, str) == packBytes(u, str)
unpackVal(b, off, w) == word(b, off, w)

(* ReplicableLruHash: one entry of a container's hash. *)
LruHashDatas == [tm : WireVals, id : {<<1>>, <<1, 0>>}, data : {<< >>, <<1, 2, 3>>}]
NoLruHashData == [tm |-> 0, id |-> << >>, data |-> << >>]
getSize(d) == 4 + 4 + 4 + Len(d.id) + Len(d.data)
lruPackObj(d, size) ==
    packRawStr(packRawStr(pack(pack(pack(NewBuf(size), 4, d.tm), 4, Len(d.id)), 4, Len(d.data)), d.id), d.data)
lruPackAuto(d) == bytes(d.tm, 4) \o bytes(Len(d.id), 4) \o bytes(Len(d.data), 4) \o d.id \o d.data
lruUnpackObj(b) ==
    LET idLen == unpackVal(b, 4, 4)
        dataLen == unpackVal(b, 8, 4)
    IN  [tm |-> unpackVal(b, 0, 4), id |-> SubSeq(b, 13, 12 + idLen), data |-> SubSeq(b, 13 + idLen, 12 + idLen + dataLen)]

(* A batch of transactions: ReplicableShmTid.  A packet is its size, the   *)
(* four bytes of the size included, and its content.                       *)
TidPackets == UNION {[1 .. n -> {1}] : n \in {1, 3}}
tidSize(p) == 4 + Len(p)
tidGetsize(l) == 4 + FoldLeft(LAMBDA n, p : n + tidSize(p), 0, l)
ReplPacketHeaderLen == 4 * 4
(* The limit is tested in the loop over the packets already there. *)
addTidPacket(l, p) ==
    IF l # << >> /\ MaxPacketSize <= ReplPacketHeaderLen + tidGetsize(l) + tidSize(p)
    THEN l ELSE Append(l, p)
tidPackObj(l) ==
    FoldLeft(LAMBDA u, p : packRawStr(pack(u, 4, tidSize(p)), p),
             pack(NewBuf(tidGetsize(l)), 4, Len(l)), l)
tidPackAuto(l) == bytes(Len(l), 4) \o FlattenSeq([i \in DOMAIN l |-> bytes(tidSize(l[i]), 4) \o l[i]])

(* ReplShmTidContainer::verifyObj: the number of packets, or -1. *)
verifyObj(b) ==
    LET n == unpackVal(b, 0, 4)
        total == FoldLeft(LAMBDA at, i : at + (IF at + 4 <= Len(b) THEN unpackVal(b, at, 4) ELSE 0),
                          4, [i \in 1 .. n |-> i])
    IN  IF n = 0 \/ total # Len(b) THEN -1 ELSE n

InitObj ==
    rw = [kind |-> "obj", lru |-> NoLruHashData, list |-> << >>, wire |-> << >>, got |-> NoLruHashData, ops |-> 0]

addReplicalbe == \E d \in LruHashDatas : rw' = [rw EXCEPT !.lru = d, !.ops = @ + 1]
sendLruObj ==
    /\ rw.lru.id # << >>
    /\ rw' = [rw EXCEPT !.wire = Append(@, lruPackObj(rw.lru, getSize(rw.lru))), !.ops = @ + 1]
unpackLruObj ==
    /\ rw.wire # << >>
    /\ rw' = [rw EXCEPT !.wire = Tail(@), !.got = lruUnpackObj(rw.wire[1].mem)]
addTid == \E p \in TidPackets :
    rw' = [rw EXCEPT !.list = addTidPacket(@, p), !.ops = @ + 1]

NextObj ==
    /\ rw.kind = "obj"
    /\ \/ rw.ops < MaxWireOps /\ (addReplicalbe \/ sendLruObj \/ addTid)
       \/ unpackLruObj

(* Packing fills exactly the buffer that the size asked for, as the        *)
(* assertion in packObj says, writes nothing before it, and gives the      *)
(* bytes that the form with a growing buffer gives and the reader takes    *)
(* apart again.                                                            *)
PackedFits ==
    rw.kind = "obj" =>
        /\ \A i \in DOMAIN rw.wire : rw.wire[i].at = Len(rw.wire[i].mem) /\ ~rw.wire[i].under
        /\ rw.got \in LruHashDatas \cup {NoLruHashData}
        /\ rw.lru.id # << >> => /\ lruPackObj(rw.lru, getSize(rw.lru)).mem = lruPackAuto(rw.lru)
                                /\ lruUnpackObj(lruPackAuto(rw.lru)) = rw.lru
(* A batch of two or more transactions fits the packet with its header     *)
(* though only the packets before the new one are looked at, and the       *)
(* receiver's check accepts what was packed (addTidPacket, verifyObj).     *)
BatchFits ==
    rw.kind = "obj" =>
        /\ Len(rw.list) >= 2 => ReplPacketHeaderLen + tidGetsize(rw.list) < MaxPacketSize
        /\ tidPackObj(rw.list).at = tidGetsize(rw.list) /\ tidPackObj(rw.list).mem = tidPackAuto(rw.list)
        /\ verifyObj(tidPackAuto(rw.list)) = IF rw.list = << >> THEN -1 ELSE Len(rw.list)

-----------------------------------------------------------------------------
(* IntDArr, integers in a byte buffer, and Int2IntArrMap. *)
arrSize(a) == Len(a) \div 4
arrAdd(a, v) == a \o bytes(v, 4)
arrGet(a, idx) == word(a, 4 * idx, 4)
arrSet(a, idx, v) == [i \in DOMAIN a |-> IF (i - 1) \div 4 = idx THEN bytes(v, 4)[((i - 1) % 4) + 1] ELSE a[i]]
popFront(a) == SubSeq(a, 5, Len(a))
popBack(a) == SubSeq(a, 1, Len(a) - 4)
addKey(m, k, a) == IF k \in DOMAIN m THEN m ELSE (k :> a) @@ m
removeKey(m, k) == [i \in DOMAIN m \ {k} |-> m[i]]

(* The times of the changes not acknowledged, by container, in a packet:   *)
(* getPackedCacheFn over the map; and taken apart again by its counts, as  *)
(* BulkReplCtx::start does, which passes over empty lists.                 *)
packLists(m, order) ==
    FlattenSeq([i \in DOMAIN order |-> bytes(arrSize(m[order[i]]), 4) \o bytes(order[i], 4) \o m[order[i]]])
listStep(b, r) ==
    IF r.at >= Len(b) THEN r
    ELSE LET n == word(b, r.at, 4)
             k == word(b, r.at + 4, 4)
         IN  [at |-> r.at + 8 + 4 * n, got |-> IF n > 0 THEN (k :> wordsAt(b, r.at + 8, 4, n)) @@ r.got ELSE r.got]
readLists(b) ==
    FoldLeft(LAMBDA r, c : listStep(b, r), [at |-> 0, got |-> << >>], SetToSeq(ContIds))

InitLists ==
    rw = [kind |-> "lists", map |-> << >>, of |-> << >>, ops |-> 0]

listChange(k, a, of) ==
    rw' = [rw EXCEPT !.map = (k :> a) @@ @, !.of = (k :> of) @@ @, !.ops = @ + 1]
NextLists ==
    /\ rw.kind = "lists" /\ rw.ops < MaxWireOps
    /\ \E k \in ContIds, v \in WireVals :
          \/ /\ k \notin DOMAIN rw.map
             /\ rw' = [rw EXCEPT !.map = addKey(@, k, arrAdd(<< >>, v)), !.of = (k :> <<v>>) @@ @, !.ops = @ + 1]
          \/ /\ k \in DOMAIN rw.map
             /\ rw' = [rw EXCEPT !.map = removeKey(@, k), !.of = removeKey(@, k), !.ops = @ + 1]
          \/ /\ k \in DOMAIN rw.map
             /\ LET a == rw.map[k]
                    l == rw.of[k]
                IN  \/ listChange(k, arrAdd(a, v), Append(l, v))
                    \/ \E i \in 0 .. arrSize(a) - 1 : listChange(k, arrSet(a, i, v), [l EXCEPT ![i + 1] = v])
                    \/ arrSize(a) > 0 /\ listChange(k, popFront(a), Tail(l))
                    \/ arrSize(a) > 0 /\ listChange(k, popBack(a), Front(l))

(* The lists of times hold what was put into them and travel unchanged, in *)
(* whatever order the map is written (IntDArr, getPackedCacheFn).          *)
ListsExact ==
    rw.kind = "lists" =>
        /\ \A k \in DOMAIN rw.map : [i \in 1 .. arrSize(rw.map[k]) |-> arrGet(rw.map[k], i - 1)] = rw.of[k]
        /\ \A order \in Orders(DOMAIN rw.map) : 
              LET full == {k \in DOMAIN rw.of : rw.of[k] # << >>}
              IN  readLists(packLists(rw.map, order)).got = [k \in full |-> rw.of[k]]

-----------------------------------------------------------------------------
(* ReplRegistry on two nodes: container ids with their names.  A name and  *)
(* its MD5 are one number; the lists are sorted by name.                   *)
InitRegistry ==
    rw = [kind |-> "registry", mine |-> << >>, theirs |-> << >>, ops |-> 0]
regGet(r, id) == IF id \in DOMAIN r THEN r[id] ELSE -1
regInsert(r, id, name) == IF id \in DOMAIN r THEN r ELSE (id :> name) @@ r
regRemove(r, id) == [i \in DOMAIN r \ {id} |-> r[i]]
getContNameMD5Lst(r, order) == SortSeq([i \in DOMAIN order |-> r[order[i]]], LAMBDA x, y : x < y)
cmpContNameMD5Lst(l, p) == Len(l) = Len(p) /\ \A i \in DOMAIN l : l[i] = p[i]

NextRegistry ==
    /\ rw.kind = "registry" /\ rw.ops < MaxWireOps
    /\ \E id \in ContIds :
          \/ \E name \in WireVals :
                \/ rw' = [rw EXCEPT !.mine = regInsert(@, id, name), !.ops = @ + 1]
                \/ rw' = [rw EXCEPT !.theirs = regInsert(@, id, name), !.ops = @ + 1]
          \/ id \in DOMAIN rw.mine /\ rw' = [rw EXCEPT !.mine = regRemove(@, id), !.ops = @ + 1]

(* Two nodes take their configurations for the same exactly when they have *)
(* containers of the same names, though the ids differ and the maps are    *)
(* walked in any order (getContNameMD5Lst, cmpContNameMD5Lst).             *)
NamesCompared ==
    rw.kind = "registry" =>
        LET count(r, n) == Cardinality({id \in DOMAIN r : regGet(r, id) = n})
        IN  \A o1 \in Orders(DOMAIN rw.mine), o2 \in Orders(DOMAIN rw.theirs) :
                cmpContNameMD5Lst(getContNameMD5Lst(rw.mine, o1), getContNameMD5Lst(rw.theirs, o2))
                <=> \A n \in WireVals : count(rw.mine, n) = count(rw.theirs, n)

-----------------------------------------------------------------------------
InitWire == InitLc \/ InitJoin \/ InitNode \/ InitObj \/ InitLists \/ InitRegistry
NextWire == NextLc \/ NextJoin \/ NextNode \/ NextObj \/ NextLists \/ NextRegistry
=============================================================================
