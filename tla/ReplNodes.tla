----------------------------- MODULE ReplNodes -----------------------------
(***************************************************************************)
(* What a node of the generic replication library knows of the others:     *)
(* the containers it registered and their sizes, one NodeInfo per node,    *)
(* the connections to and from its peers, and for each connection the      *)
(* changes that were sent, or would have been, and are not acknowledged.   *)
(* A container and the time of a change are numbers; the order of the      *)
(* hash maps is NodeOrder.                                                 *)
(***************************************************************************)
EXTENDS Integers, Sequences, FiniteSets, SequencesExt, TLC

CONSTANTS
    NodeOrder,       \* all nodes, in the order the hash maps iterate over them
    SelfNode,        \* the local one
    ContIds,         \* container ids
    AckCacheEntries, \* ACKCACHESIZE, in entries
    SeqWrap,          \* the sequence numbers wrap at this value
    MaxChanges,      \* bound of the model: changes made here
    MaxReports,      \* bound of the model: status messages of the peers
    MaxConnOps       \* bound of the model: connections made, closed and removed

VARIABLES
    rn,       \* this node: registry, connections, sequence number
    infos,    \* NodeInfoMgr: node -> NodeInfo
    rnHist    \* per peer the unacknowledged changes and its last report; counts
rnVars == <<rn, infos, rnHist>>

Peers == ToSet(NodeOrder) \ {SelfNode}
InMap(S) == SelectSeq(NodeOrder, LAMBDA n : n \in S)
NoCounts == << >>
NewInfo(up) == [up |-> up, cnt |-> NoCounts]
NewReplClnt == [up |-> FALSE, cache |-> << >>, over |-> FALSE]

InitRn ==
    /\ rn = [conts |-> << >>, clnt |-> << >>, acpt |-> {}, seq |-> 0]
    /\ \E up \in 1 .. 2 : infos = SelfNode :> NewInfo(up)
    /\ rnHist = [unacked |-> [p \in Peers |-> << >>], told |-> [p \in Peers |-> << >>],
                 changes |-> 0, reports |-> 0, conns |-> 0]

-----------------------------------------------------------------------------
(* Int2IntMap: a function from the keys to the values. *)
getVal(m, k) == IF k \in DOMAIN m THEN m[k] ELSE -1
addSetVal(m, k, v) == (k :> v) @@ m
assignTo(m, r) == m @@ r
isEqual(m, r) == Cardinality(DOMAIN m) = Cardinality(DOMAIN r) /\ \A k \in DOMAIN m : getVal(r, k) = m[k]

(* NodeInfo. *)
copyAll(i, r) == [up |-> r.up, cnt |-> assignTo(r.cnt, i.cnt)]
refresh(i, conts) == [i EXCEPT !.cnt = assignTo(conts, @)]
isSyncWith(i, peer) == isEqual(i.cnt, peer.cnt)

(* NodeInfoMgr. *)
getLeaderNodeStep(best, n) ==
    IF best = "" \/ (infos[n].up > 0 /\ infos[n].up < infos[best].up) THEN n ELSE best
getLeaderNode == FoldLeft(getLeaderNodeStep, "", InMap(DOMAIN infos))
isSelfFirstUp == infos[SelfNode].up = infos[getLeaderNode].up

cmpLeaderNode(n) == n = getLeaderNode \/ isSyncWith(infos[n], infos[getLeaderNode])

(* The status file: this node, then the accepted peers in the order of the *)
(* map; isAceptedIpActv is their connection.                               *)
JsonNode(n) == [ip |-> n, leader |-> n = getLeaderNode, sync |-> cmpLeaderNode(n)]
getGroupJsonStatus ==
    LET nodes == <<SelfNode>> \o InMap((DOMAIN infos \cap rn.acpt) \ {SelfNode})
    IN  [i \in DOMAIN nodes |-> JsonNode(nodes[i])]

-----------------------------------------------------------------------------
(* WaitAckCache: sequence number, container and time of each change. *)
addCache(c, e) ==
    IF Len(c.cache) >= AckCacheEntries THEN [c EXCEPT !.over = TRUE, !.cache = << >>]
    ELSE [c EXCEPT !.cache = Append(@, e)]

clearCacheUpTo(c, seq) ==
    LET i == SelectInSeq(c.cache, LAMBDA e : e.seq = seq)
    IN  [c EXCEPT !.cache = SubSeq(@, i + 1, Len(@))]
clearCache(c, seq) ==
    LET i == SelectInSeq(c.cache, LAMBDA e : e.seq = seq)
    IN  IF i = 0 THEN c ELSE [c EXCEPT !.cache = RemoveAt(@, i)]

getPackedCache(c) ==
    [k \in {c.cache[i].cont : i \in DOMAIN c.cache} |->
        LET mine == SelectSeq(c.cache, LAMBDA e : e.cont = k) IN [i \in DOMAIN mine |-> mine[i].tm]]

(* ReplSender. *)
getSeqNum(n) == IF (n + 1) % SeqWrap = 0 THEN 1 ELSE (n + 1) % SeqWrap

(* A number for every connection, active or not; the change is kept for    *)
(* each until its acknowledgement.                                         *)
bcastStep(cont, tm, st, p) ==
    LET s == getSeqNum(st.seq)
        e == [seq |-> s, cont |-> cont, tm |-> tm]
    IN  [seq |-> s, clnt |-> [st.clnt EXCEPT ![p] = addCache(@, e)],
         unacked |-> [st.unacked EXCEPT ![p] = Append(@, e)]]
bcastReplicableData(cont, tm) ==
    FoldLeft(LAMBDA st, p : bcastStep(cont, tm, st, p),
             [seq |-> rn.seq, clnt |-> rn.clnt, unacked |-> rnHist.unacked], InMap(DOMAIN rn.clnt))

-----------------------------------------------------------------------------
(* Actions. *)

(* ReplRegistry::add. *)
regAdd(c) ==
    /\ c \notin DOMAIN rn.conts
    /\ rn' = [rn EXCEPT !.conts = (c :> 0) @@ @]
    /\ UNCHANGED <<infos, rnHist>>

(* A change of a container's hash, sent to every peer. *)
sendLruHashData(c) ==
    /\ c \in DOMAIN rn.conts /\ rnHist.changes < MaxChanges
    /\ LET b == bcastReplicableData(c, rnHist.changes + 1)
           conts == [rn.conts EXCEPT ![c] = @ + 1]
       IN  /\ rn' = [rn EXCEPT !.seq = b.seq, !.clnt = b.clnt, !.conts = conts]
           /\ rnHist' = [rnHist EXCEPT !.unacked = b.unacked, !.changes = @ + 1]
           /\ infos' = [infos EXCEPT ![SelfNode] = refresh(@, conts)]

(* The peer's acknowledgement of one change. *)
clearWaitAckData(p) ==
    /\ p \in DOMAIN rn.clnt /\ rn.clnt[p].up
    /\ \E i \in DOMAIN rnHist.unacked[p] :
          /\ rn' = [rn EXCEPT !.clnt[p] = clearCache(@, rnHist.unacked[p][i].seq)]
          /\ rnHist' = [rnHist EXCEPT !.unacked[p] = RemoveAt(@, i)]
    /\ UNCHANGED infos

clearAckCache ==
    /\ \E p \in DOMAIN rn.clnt : rn.clnt[p].cache # << >>
    /\ rn' = [rn EXCEPT !.clnt = [p \in DOMAIN @ |-> [@[p] EXCEPT !.cache = << >>]]]
    /\ rnHist' = [rnHist EXCEPT !.unacked = [p \in Peers |-> << >>]]
    /\ UNCHANGED infos

(* SockConnMgr: connections to the peers' listeners, and from them. *)
addClntNode(p) ==
    /\ p \notin DOMAIN rn.clnt /\ rnHist.conns < MaxConnOps
    /\ rn' = [rn EXCEPT !.clnt = (p :> NewReplClnt) @@ @]
    /\ rnHist' = [rnHist EXCEPT !.conns = @ + 1]
    /\ UNCHANGED infos

delClntNode(p) ==
    /\ p \in DOMAIN rn.clnt /\ rnHist.conns < MaxConnOps
    /\ rn' = [rn EXCEPT !.clnt = [q \in DOMAIN @ \ {p} |-> @[q]]]
    /\ rnHist' = [rnHist EXCEPT !.unacked[p] = << >>, !.conns = @ + 1]
    /\ UNCHANGED infos

SetClntActive(p) ==
    /\ p \in DOMAIN rn.clnt /\ rnHist.conns < MaxConnOps
    /\ rn' = [rn EXCEPT !.clnt[p].up = ~@]
    /\ rnHist' = [rnHist EXCEPT !.conns = @ + 1]
    /\ UNCHANGED infos

(* An accepted peer gets a NodeInfo without times until it reports. *)
addAcceptedNode(p) ==
    /\ p \notin rn.acpt /\ rnHist.conns < MaxConnOps
    /\ rn' = [rn EXCEPT !.acpt = @ \cup {p}]
    /\ infos' = (IF p \in DOMAIN infos THEN infos ELSE (p :> NewInfo(0)) @@ infos)
    /\ rnHist' = [rnHist EXCEPT !.told[p] = IF p \in DOMAIN infos THEN @ ELSE << >>, !.conns = @ + 1]

delAcceptedNode(p) ==
    /\ p \in rn.acpt /\ rnHist.conns < MaxConnOps
    /\ rn' = [rn EXCEPT !.acpt = @ \ {p}]
    /\ infos' = [n \in DOMAIN infos \ {p} |-> infos[n]]
    /\ rnHist' = [rnHist EXCEPT !.conns = @ + 1]

(* updateNodeInfo: a status message of a peer, whose containers and counts *)
(* only grow.                                                              *)
updateNodeInfo(p) ==
    /\ p \in rn.acpt /\ rnHist.reports < MaxReports
    /\ \E up \in (IF infos[p].up = 0 THEN 1 .. 3 ELSE {infos[p].up}), c \in ContIds, v \in 0 .. 1 :
          /\ v >= getVal(rnHist.told[p], c)
          /\ LET told == addSetVal(rnHist.told[p], c, v)
             IN  /\ infos' = [infos EXCEPT ![p] = copyAll(@, [up |-> up, cnt |-> told])]
                 /\ rnHist' = [rnHist EXCEPT !.told[p] = told, !.reports = @ + 1]
    /\ UNCHANGED rn

NextRn ==
    \/ \E c \in ContIds : regAdd(c) \/ sendLruHashData(c)
    \/ clearAckCache
    \/ \E p \in Peers :
          \/ clearWaitAckData(p) \/ addClntNode(p) \/ delClntNode(p) \/ SetClntActive(p)
          \/ addAcceptedNode(p) \/ delAcceptedNode(p) \/ updateNodeInfo(p)

-----------------------------------------------------------------------------
(* Properties. *)

(* What a peer is to be sent again is what it has not acknowledged, by     *)
(* container and in order: changes made while it was away included,        *)
(* whatever the order of the acknowledgements, until the cache overflows   *)
(* (WaitAckCache::clearCache, getPackedCache, addCache).                   *)
UnackedPacked ==
    \A p \in DOMAIN rn.clnt :
        ~rn.clnt[p].over =>
            getPackedCache(rn.clnt[p]) = getPackedCache([cache |-> rnHist.unacked[p]])

(* A node that takes itself for the first one up, and so for the source of *)
(* a full replication, knows of no node that was up earlier                *)
(* (getLeaderNode over the map in any order, isSelfFirstUp).               *)
FirstUpSound ==
    isSelfFirstUp => \A n \in DOMAIN infos : infos[n].up > 0 => infos[SelfNode].up <= infos[n].up

(* The status file shows every accepted peer once and one node as the      *)
(* first up; a peer shown as in sync with this node as the leader has      *)
(* reported exactly its containers and counts (isEqual compares one way    *)
(* only, and copyAll merges maps; getGroupJsonStatus, cmpLeaderNode).      *)
SyncTold ==
    LET shown == getGroupJsonStatus
    IN  /\ {shown[i].ip : i \in DOMAIN shown} = {SelfNode} \cup rn.acpt
        /\ \A i, j \in DOMAIN shown :
              /\ i # j => shown[i].ip # shown[j].ip
              /\ shown[i].leader /\ shown[j].leader => i = j
        /\ \A i \in DOMAIN shown :
              (shown[i].sync /\ getLeaderNode = SelfNode /\ shown[i].ip # SelfNode)
              => rnHist.told[shown[i].ip] = infos[SelfNode].cnt
=============================================================================
