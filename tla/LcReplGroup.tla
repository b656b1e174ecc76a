---------------------------- MODULE LcReplGroup ----------------------------
(***************************************************************************)
(* Roles and election of one slice: the repld processes of a group         *)
(* (lcrepl/lcreplgroup, lcreplreceiver, lcreplsender, lcnodeinfo,          *)
(* repl/sockconn, repl/repllistener).                                      *)
(*                                                                         *)
(* Every node opens one ClientConn to every other node and accepts one     *)
(* from it.  Node infos are keyed by IP and learnt from the pings of the   *)
(* peer's ClientConn; accepted connections are keyed by IP and port, so an *)
(* old one and a new one of the same peer can exist together.              *)
(***************************************************************************)
EXTENDS Integers, Sequences, FiniteSets
LOCAL INSTANCE FiniteSetsExt

CONSTANTS
    Nodes,          \* the nodes of the group
    Prio,           \* Cached.Slice.Priority of each node
    MaxEvents,      \* bound: transactions committed and faults, together
    MaxPings,       \* bound: heartbeats under way
    FaultKinds      \* the faults considered: "timeout", "restart"

ASSUME NodesAssumption == IsFiniteSet(Nodes) /\ Nodes # {}
ASSUME PrioAssumption  == Prio \in [Nodes -> Nat]

VARIABLES
    role,           \* role of the local node info
    fsync,          \* its DidFsync
    info,           \* info[n][m]: what n knows of m
    stinfo,         \* peers with static node info (addresses)
    cl,             \* cl[n][m]: the ClientConn of n to m
    sv,             \* sv[m][n]: the ServerConns m has accepted from n
    tid,            \* last tid of the slice in the shared memory of a node
    roleMsgs,       \* role updates on the way from repld to the workers
    wdst,           \* the node the workers take for the master
    aborted,        \* nodes whose repld failed an assertion
    events          \* how many transactions and faults there have been

vars == <<role, fsync, info, stinfo, cl, sv, tid, roleMsgs, wdst, aborted, events>>

Roles == {"MASTER", "SLAVE", "FLIPING_MASTER"}
NoInfo == [tid |-> -1, role |-> "UNKNOWN", fsync |-> FALSE]
NodeInfos == [tid : 0 .. MaxEvents, role : Roles, fsync : BOOLEAN]
Peers(n) == Nodes \ {n}

(* Packets.  A node info carries the sender's own slice only; data stands
   for the batches up to a tid. *)
Msg(type)     == [type |-> type]
InfoMsg(type, i) == [type |-> type, info |-> i]
TidMsg(type, t)  == [type |-> type, tid |-> t]

Down == [st |-> "down", buf |-> << >>, in |-> << >>]

-----------------------------------------------------------------------------
(* Connections *)

(* A ClientConn can be written to: what is sent while it connects waits in
   its buffer, what is sent once it is up is at the peer's newest ServerConn,
   and what is sent on one that is down is dropped with the buffer. *)
Buffered(con, msg) ==
    IF con.st = "connecting" THEN [con EXCEPT !.buf = Append(@, msg)] ELSE con

Received(con, conns, msg) ==
    IF con.st = "up"
    THEN [k \in DOMAIN conns |-> IF k # Len(conns) THEN conns[k]
                                 ELSE [conns[k] EXCEPT !.in = Append(@, msg)]]
    ELSE conns

ClntSend(c, s, n, m, msg) ==
    <<[c EXCEPT ![n][m] = Buffered(@, msg)],
      [s EXCEPT ![m][n] = Received(c[n][m], @, msg)]>>

(* bcastNewMstrElectDone and bcastReplicableDataFn: one packet on every
   ClientConn of n that the predicate admits. *)
BcastTo(c, s, n, msg, states) ==
    LET to == {m \in Peers(n) : c[n][m].st \in states}
    IN  <<[c EXCEPT ![n] = [m \in Nodes |-> IF m \in to THEN Buffered(c[n][m], msg)
                                            ELSE c[n][m]]],
          [m \in Nodes |-> IF m \in to
                           THEN [s[m] EXCEPT ![n] = Received(c[n][m], @, msg)]
                           ELSE s[m]]>>

(* ServerConn k at m answers its client n, if that is still there. *)
SvrSend(c, m, n, k, msgs) ==
    IF sv[m][n][k].open THEN [c EXCEPT ![n][m].in = @ \o msgs] ELSE c

SetNet(cs) == cl' = cs[1] /\ sv' = cs[2]

isConnected(n, m) == cl[n][m].st \in {"up", "broken"}
inNum(n)  == MapThenSumSet(LAMBDA m : Len(sv[n][m]), Peers(n))
outNum(n) == Cardinality({m \in Peers(n) : isConnected(n, m)})
Known(n)  == {m \in Peers(n) : info[n][m] # NoInfo}

Local(n) == [tid |-> tid[n], role |-> role[n], fsync |-> fsync[n]]

-----------------------------------------------------------------------------
(* Roles *)

isAllClientSync(n) == \A m \in Known(n) : info[n][m].tid = tid[n]

roleExistInGroup(n, r) == role[n] = r \/ \E m \in Known(n) : info[n][m].role = r

(* Wrong variant: any other node will do. *)
hasHighPriorityClientAny(n, m) ==
    m \in Known(n) /\ \A o \in Known(n) : Prio[o] <= Prio[m]

hasHighPriorityClient(n, m) ==
    /\ m \in Known(n) /\ Prio[m] > Prio[n]
    /\ \A o \in Known(n) : Prio[o] <= Prio[m]

(* isSelfMinAddr returns true whatever the addresses are, so equal nodes all
   qualify. *)
isSelfMinAddr(n, peers) == TRUE

isLegalClientBeMstr(n) ==
    LET same == {m \in Known(n) : Prio[m] = Prio[n]}
    IN  /\ \A m \in Known(n) : Prio[m] <= Prio[n]
        /\ \A m \in same : info[n][m].tid <= tid[n]
        /\ isSelfMinAddr(n, {m \in same : info[n][m].tid = tid[n]})

(* The node infos of n after setNewMstrClearOthers with new master m. *)
setNewMstrClearOthers(n, m) ==
    /\ role' = [role EXCEPT ![n] = IF n = m THEN "MASTER" ELSE "SLAVE"]
    /\ info' = [info EXCEPT ![n] =
         [o \in Nodes |-> IF o \in Known(n)
                          THEN [info[n][o] EXCEPT !.role = IF o = m THEN "MASTER"
                                                           ELSE "SLAVE"]
                          ELSE info[n][o]]]

(* repldNotifyRole: the workers of n are told which node is the master. *)
notifyRole(n, m) == roleMsgs' = [roleMsgs EXCEPT ![n] = Append(@, m)]

flipSelfBeMstr(n) ==
    IF role[n] = "MASTER" THEN UNCHANGED <<role, info, roleMsgs>>
    ELSE setNewMstrClearOthers(n, n) /\ notifyRole(n, n)

(* The new master tells its peers, on all its connections. *)
clientsElectMstr(n, c) ==
    IF isLegalClientBeMstr(n)
    THEN /\ role' = [role EXCEPT ![n] = "MASTER"]
         /\ SetNet(BcastTo(c, sv, n, Msg("NEWMASTER"), {"up", "connecting"}))
    ELSE cl' = c /\ UNCHANGED <<role, sv>>

(* A master that sees all peers at its tid offers the slice to the one with
   the highest priority above its own. *)
offerFlip(n, c) ==
    IF isAllClientSync(n) /\ \E m \in Nodes : hasHighPriorityClient(n, m)
    THEN /\ \E m \in Nodes : /\ hasHighPriorityClient(n, m)
                             /\ SetNet(ClntSend(c, sv, n, m, Msg("FLIPREQ")))
         /\ role' = [role EXCEPT ![n] = "FLIPING_MASTER"]
    ELSE cl' = c /\ UNCHANGED <<role, sv>>

monitorRoles(n, c) ==
    LET ready == inNum(n) = outNum(n) /\ inNum(n) = Cardinality(Known(n)) /\ inNum(n) > 0
    IN  \/ /\ inNum(n) = 0 /\ outNum(n) = 0
           /\ flipSelfBeMstr(n)
           /\ cl' = c /\ UNCHANGED sv
        \/ /\ ready /\ role[n] = "MASTER"
           /\ offerFlip(n, c)
           /\ UNCHANGED <<info, roleMsgs>>
        \/ /\ ready /\ role[n] # "MASTER" /\ ~roleExistInGroup(n, "MASTER")
           /\ clientsElectMstr(n, c)
           /\ UNCHANGED <<info, roleMsgs>>
        \/ /\ inNum(n) # 0 \/ outNum(n) # 0
           /\ ready => role[n] # "MASTER" /\ roleExistInGroup(n, "MASTER")
           /\ cl' = c /\ UNCHANGED <<role, info, roleMsgs, sv>>

(* ClientConns that are down connect again, with the join request queued. *)
connGroupLstnrs(n) ==
    [cl EXCEPT ![n] = [m \in Nodes |->
        IF m # n /\ cl[n][m].st = "down"
        THEN [Down EXCEPT !.st = "connecting", !.buf = <<Msg("JOINREQ")>>]
        ELSE cl[n][m]]]

(* Every fourth second of repld's timer. *)
onTimer1s(n) ==
    /\ n \notin aborted
    /\ monitorRoles(n, connGroupLstnrs(n))
    /\ UNCHANGED <<fsync, stinfo, tid, wdst, aborted, events>>

-----------------------------------------------------------------------------
(* Connection events *)

(* The connect of n completes and the listener of m accepts it. *)
ReplListenerAccept(n, m) ==
    /\ {n, m} \cap aborted = {}
    /\ cl[n][m].st = "connecting"
    /\ cl' = [cl EXCEPT ![n][m] = [Down EXCEPT !.st = "up"]]
    /\ sv' = [sv EXCEPT ![m][n] = Append(@, [in |-> cl[n][m].buf, open |-> TRUE])]
    /\ UNCHANGED <<role, fsync, info, stinfo, tid, roleMsgs, wdst, aborted, events>>

(* The other end of a connection of n goes: unread packets up to any point
   are still delivered. *)
CutTo(conns, l) ==
    [k \in DOMAIN conns |->
        IF conns[k].open
        THEN [in |-> SubSeq(conns[k].in, 1, IF l < Len(conns[k].in) THEN l ELSE Len(conns[k].in)),
              open |-> FALSE]
        ELSE conns[k]]

Orphan(s, m, n) ==
    {[s EXCEPT ![m][n] = CutTo(@, l)] :
        l \in {0} \cup UNION {0 .. Len(s[m][n][k].in) : k \in DOMAIN s[m][n]}}

(* No packet for too long: ClientConn::onTimer clears the connection. *)
HBTimeout(n, m) ==
    /\ "timeout" \in FaultKinds /\ events < MaxEvents
    /\ n \notin aborted /\ cl[n][m].st = "up"
    /\ cl' = [cl EXCEPT ![n][m] = Down]
    /\ sv' \in Orphan(sv, m, n)
    /\ events' = events + 1
    /\ UNCHANGED <<role, fsync, info, stinfo, tid, roleMsgs, wdst, aborted>>

(* ClientConn::handleSockCloseEvent. *)
ClientConnClose(n, m) ==
    /\ n \notin aborted /\ cl[n][m].st = "broken" /\ cl[n][m].in = << >>
    /\ cl' = [cl EXCEPT ![n][m] = Down]
    /\ UNCHANGED <<role, fsync, info, stinfo, sv, tid, roleMsgs, wdst, aborted, events>>

(* ServerConn::handleSockCloseEvent: clearClntOnClose deletes by IP what is
   known of the peer, a newer connection from it or not. *)
clearClntOnClose(m, n, k) ==
    /\ m \notin aborted /\ k \in DOMAIN sv[m][n]
    /\ ~sv[m][n][k].open /\ sv[m][n][k].in = << >>
    /\ sv' = [sv EXCEPT ![m][n] = SubSeq(@, 1, k - 1) \o SubSeq(@, k + 1, Len(@))]
    /\ info' = [info EXCEPT ![m][n] = NoInfo]
    /\ stinfo' = [stinfo EXCEPT ![m] = @ \ {n}]
    /\ UNCHANGED <<role, fsync, cl, tid, roleMsgs, wdst, aborted, events>>

(* A heartbeat of n to m, or its answer, is under way. *)
PingUnread(n, m) ==
    \/ \E k \in DOMAIN sv[m][n] : \E i \in DOMAIN sv[m][n][k].in :
                                       sv[m][n][k].in[i].type = "PING"
    \/ \E i \in DOMAIN cl[n][m].in : cl[n][m].in[i].type = "BOTHDONE"

(* The heartbeat of a ClientConn.  Bounds: one under way per connection and
   MaxPings in the group, and none that would tell the server nothing new. *)
sockClientPingSvrStatus(n, m) ==
    /\ n \notin aborted /\ cl[n][m].st = "up"
    /\ info[m][n] # Local(n) \/ ~fsync[n]
    /\ ~PingUnread(n, m)
    /\ Cardinality({p \in Nodes \X Nodes : PingUnread(p[1], p[2])}) < MaxPings
    /\ SetNet(ClntSend(cl, sv, n, m, InfoMsg("PING", Local(n))))
    /\ UNCHANGED <<role, fsync, info, stinfo, tid, roleMsgs, wdst, aborted, events>>

(* A node stops and starts again; the shared memory files survive. *)
Restart(n) ==
    /\ "restart" \in FaultKinds /\ events < MaxEvents
    /\ events' = events + 1
    /\ role' = [role EXCEPT ![n] = "SLAVE"]
    /\ fsync' = [fsync EXCEPT ![n] = FALSE]
    /\ info' = [info EXCEPT ![n] = [m \in Nodes |-> NoInfo]]
    /\ stinfo' = [stinfo EXCEPT ![n] = {}]
    /\ cl' = [x \in Nodes |-> [y \in Nodes |->
                CASE x = n -> Down
                  [] y = n /\ cl[x][n].st = "up" -> [cl[x][n] EXCEPT !.st = "broken"]
                  [] y = n /\ cl[x][n].st = "connecting" -> Down
                  [] OTHER -> cl[x][y]]]
    /\ sv' = [x \in Nodes |-> [y \in Nodes |->
                CASE x = n -> << >>
                  [] y = n -> [k \in DOMAIN sv[x][n] |-> [sv[x][n][k] EXCEPT !.open = FALSE]]
                  [] OTHER -> sv[x][y]]]
    /\ roleMsgs' = [roleMsgs EXCEPT ![n] = << >>]
    /\ wdst' = [wdst EXCEPT ![n] = n]
    /\ aborted' = aborted \ {n}
    /\ UNCHANGED tid

-----------------------------------------------------------------------------
(* Packets.  FromClnt(m, n, k, type): the next packet on ServerConn k of m,
   which client n has sent; FromSvr(n, m, type): the next one on the
   ClientConn of n. *)
FromClnt(m, n, k, type) ==
    /\ m \notin aborted /\ k \in DOMAIN sv[m][n]
    /\ sv[m][n][k].in # << >> /\ Head(sv[m][n][k].in).type = type

FromSvr(n, m, type) ==
    /\ n \notin aborted /\ cl[n][m].in # << >> /\ Head(cl[n][m].in).type = type

PopSv(m, n, k) == [sv EXCEPT ![m][n][k].in = Tail(@)]
PopCl(n, m)    == [cl EXCEPT ![n][m].in = Tail(@)]

svrHandleClntJoinReq(m, n, k) ==
    /\ FromClnt(m, n, k, "JOINREQ")
    /\ stinfo' = [stinfo EXCEPT ![m] = @ \cup {n}]
    /\ sv' = PopSv(m, n, k)
    /\ cl' = SvrSend(cl, m, n, k, <<Msg("JOINACK")>>)
    /\ UNCHANGED <<role, fsync, info, tid, roleMsgs, wdst, aborted, events>>

(* The client side of a join: ping, and point the workers to that server if
   the local node is a slave. *)
clntHandleJoinSvrResp(n, m) ==
    /\ FromSvr(n, m, "JOINACK")
    /\ SetNet(ClntSend(PopCl(n, m), sv, n, m, InfoMsg("PING", Local(n))))
    /\ IF role[n] = "SLAVE" THEN notifyRole(n, m) ELSE UNCHANGED roleMsgs
    /\ UNCHANGED <<role, fsync, info, stinfo, tid, wdst, aborted, events>>

isFullReplNeeded(m, i) ==
    \/ tid[m] = i.tid /\ role[m] = "MASTER"
    \/ tid[m] > i.tid

(* The full sync and its BOTHDONE.  The DidFsync the server sets for the peer
   stays only in an info that is new.  The echo it answers with otherwise is
   for container 0, which nothing is registered for: it is left out. *)
svrHandleClientPingStatus(m, n, k) ==
    /\ FromClnt(m, n, k, "PING")
    /\ LET i    == Head(sv[m][n][k].in).info
           sync == ~i.fsync /\ isFullReplNeeded(m, i)
           data == IF tid[m] > i.tid THEN <<TidMsg("DATA", tid[m])>> ELSE << >>
       IN  /\ info' = [info EXCEPT ![m][n] =
                          IF info[m][n] = NoInfo /\ sync THEN [i EXCEPT !.fsync = TRUE] ELSE i]
           /\ fsync' = [fsync EXCEPT ![m] = @ \/ sync]
           /\ cl' = IF sync THEN SvrSend(cl, m, n, k, Append(data, Msg("BOTHDONE"))) ELSE cl
    /\ sv' = PopSv(m, n, k)
    /\ UNCHANGED <<role, stinfo, tid, roleMsgs, wdst, aborted, events>>

handleFreplBothDone(n, m) ==
    /\ FromSvr(n, m, "BOTHDONE")
    /\ cl' = PopCl(n, m)
    /\ fsync' = [fsync EXCEPT ![n] = TRUE]
    /\ UNCHANGED <<role, info, stinfo, sv, tid, roleMsgs, wdst, aborted, events>>

(* Data of a peer that is not known is dropped; the assertion of
   addAndUpdateData ends the process unless it is a slave. *)
handleData(n, m, t) ==
    IF info[n][m] = NoInfo
    THEN UNCHANGED <<info, tid, aborted>>
    ELSE /\ info' = [info EXCEPT ![n][m].tid = t]
         /\ IF role[n] = "SLAVE"
            THEN /\ tid' = [tid EXCEPT ![n] = IF t > @ THEN t ELSE @]
                 /\ UNCHANGED aborted
            ELSE /\ aborted' = aborted \cup {n}
                 /\ UNCHANGED tid

(* Acknowledgements are sent at most once a second, so each may be left out. *)
svrHandleData(m, n, k) ==
    /\ FromClnt(m, n, k, "DATA")
    /\ handleData(m, n, Head(sv[m][n][k].in).tid)
    /\ sv' = PopSv(m, n, k)
    /\ \/ UNCHANGED cl
       \/ /\ info[m][n] # NoInfo
          /\ cl' = SvrSend(cl, m, n, k, <<TidMsg("ACK", tid'[m])>>)
    /\ UNCHANGED <<role, fsync, stinfo, roleMsgs, wdst, events>>

clntHandleData(n, m) ==
    /\ FromSvr(n, m, "DATA")
    /\ handleData(n, m, Head(cl[n][m].in).tid)
    /\ \/ cl' = PopCl(n, m) /\ UNCHANGED sv
       \/ /\ info[n][m] # NoInfo
          /\ SetNet(ClntSend(PopCl(n, m), sv, n, m, TidMsg("ACK", tid'[n])))
    /\ UNCHANGED <<role, fsync, stinfo, roleMsgs, wdst, events>>

(* Wrong variant: the tid of the receiver is taken for the one acknowledged. *)
handleDataAckOwnTid(n, m, t) ==
    IF info[n][m] = NoInfo THEN aborted' = aborted \cup {n} /\ UNCHANGED info
    ELSE info' = [info EXCEPT ![n][m].tid = tid[n]] /\ UNCHANGED aborted

(* handleDataAck uses the node info of the peer without a test. *)
handleDataAck(n, m, t) ==
    IF info[n][m] = NoInfo THEN aborted' = aborted \cup {n} /\ UNCHANGED info
    ELSE info' = [info EXCEPT ![n][m].tid = t] /\ UNCHANGED aborted

svrHandleDataAck(m, n, k) ==
    /\ FromClnt(m, n, k, "ACK")
    /\ handleDataAck(m, n, Head(sv[m][n][k].in).tid)
    /\ sv' = PopSv(m, n, k)
    /\ UNCHANGED <<role, fsync, stinfo, cl, tid, roleMsgs, wdst, events>>

clntHandleDataAck(n, m) ==
    /\ FromSvr(n, m, "ACK")
    /\ handleDataAck(n, m, Head(cl[n][m].in).tid)
    /\ cl' = PopCl(n, m)
    /\ UNCHANGED <<role, fsync, stinfo, sv, tid, roleMsgs, wdst, events>>

(* Wrong variant: the request is not answered. *)
clientHandleMasterFlipingSilent(m, n, k) ==
    /\ FromClnt(m, n, k, "FLIPREQ")
    /\ sv' = PopSv(m, n, k)
    /\ UNCHANGED <<role, fsync, info, stinfo, cl, tid, roleMsgs, wdst, aborted, events>>

clientHandleMasterFliping(m, n, k) ==
    /\ FromClnt(m, n, k, "FLIPREQ")
    /\ sv' = PopSv(m, n, k)
    /\ cl' = SvrSend(cl, m, n, k, <<Msg("FLIPACK")>>)
    /\ UNCHANGED <<role, fsync, info, stinfo, tid, roleMsgs, wdst, aborted, events>>

(* The tid in FLIPDONE is not in the packet: it records what the old master
   had when it gave the slice away. *)
masterHandleClientToFlip(n, m) ==
    /\ FromSvr(n, m, "FLIPACK")
    /\ SetNet(ClntSend(PopCl(n, m), sv, n, m, TidMsg("FLIPDONE", tid[n])))
    /\ role' = [role EXCEPT ![n] = "SLAVE"]
    /\ UNCHANGED <<fsync, info, stinfo, tid, roleMsgs, wdst, aborted, events>>

clientHandleTakeMstr(m, n, k) ==
    /\ FromClnt(m, n, k, "FLIPDONE")
    /\ setNewMstrClearOthers(m, m)
    /\ SetNet(BcastTo(cl, PopSv(m, n, k), m, Msg("NEWMASTER"), {"up", "connecting"}))
    /\ notifyRole(m, m)
    /\ UNCHANGED <<fsync, stinfo, tid, wdst, aborted, events>>

(* Wrong variant: the workers are not told. *)
handleNewElectedMasterSilent(m, n, k) ==
    /\ FromClnt(m, n, k, "NEWMASTER")
    /\ setNewMstrClearOthers(m, n)
    /\ sv' = PopSv(m, n, k)
    /\ UNCHANGED <<fsync, stinfo, cl, tid, roleMsgs, wdst, aborted, events>>

(* The address of the new master comes from its static info, which is used
   without a test. *)
handleNewElectedMaster(m, n, k) ==
    /\ FromClnt(m, n, k, "NEWMASTER")
    /\ setNewMstrClearOthers(m, n)
    /\ IF n \in stinfo[m] THEN notifyRole(m, n) /\ UNCHANGED aborted
       ELSE aborted' = aborted \cup {m} /\ UNCHANGED roleMsgs
    /\ sv' = PopSv(m, n, k)
    /\ UNCHANGED <<fsync, stinfo, cl, tid, wdst, events>>

-----------------------------------------------------------------------------
(* The workers *)

recvRoleChange(n) ==
    /\ roleMsgs[n] # << >>
    /\ wdst' = [wdst EXCEPT ![n] = Head(roleMsgs[n])]
    /\ roleMsgs' = [roleMsgs EXCEPT ![n] = Tail(@)]
    /\ UNCHANGED <<role, fsync, info, stinfo, cl, sv, tid, aborted, events>>

(* A worker that takes its own node for the master commits a transaction;
   repld broadcasts it on the connections that are up (see TidRepl). *)
Commit(n) ==
    /\ n \notin aborted /\ wdst[n] = n /\ events < MaxEvents
    /\ events' = events + 1
    /\ tid' = [tid EXCEPT ![n] = @ + 1]
    /\ SetNet(BcastTo(cl, sv, n, TidMsg("DATA", tid[n] + 1), {"up"}))
    /\ UNCHANGED <<role, fsync, info, stinfo, roleMsgs, wdst, aborted>>

-----------------------------------------------------------------------------
Init ==
    /\ role = [n \in Nodes |-> "SLAVE"]
    /\ fsync = [n \in Nodes |-> FALSE]
    /\ info = [n \in Nodes |-> [m \in Nodes |-> NoInfo]]
    /\ stinfo = [n \in Nodes |-> {}]
    /\ cl = [n \in Nodes |-> [m \in Nodes |-> Down]]
    /\ sv = [n \in Nodes |-> [m \in Nodes |-> << >>]]
    /\ tid = [n \in Nodes |-> 0]
    /\ roleMsgs = [n \in Nodes |-> << >>]
    /\ wdst = [n \in Nodes |-> n]
    /\ aborted = {}
    /\ events = 0

SvrConnEvent(m, n, k) ==
    \/ svrHandleClntJoinReq(m, n, k) \/ svrHandleClientPingStatus(m, n, k)
    \/ svrHandleData(m, n, k) \/ svrHandleDataAck(m, n, k)
    \/ clientHandleMasterFliping(m, n, k) \/ clientHandleTakeMstr(m, n, k)
    \/ handleNewElectedMaster(m, n, k) \/ clearClntOnClose(m, n, k)

ClntConnEvent(n, m) ==
    \/ clntHandleJoinSvrResp(n, m)
    \/ handleFreplBothDone(n, m) \/ clntHandleData(n, m) \/ clntHandleDataAck(n, m)
    \/ masterHandleClientToFlip(n, m) \/ ClientConnClose(n, m)

Next ==
    \/ \E n \in Nodes : onTimer1s(n) \/ recvRoleChange(n) \/ Commit(n) \/ Restart(n)
    \/ \E n \in Nodes : \E m \in Peers(n) :
          \/ ReplListenerAccept(n, m) \/ HBTimeout(n, m) \/ sockClientPingSvrStatus(n, m)
          \/ ClntConnEvent(n, m)
          \/ \E k \in DOMAIN sv[n][m] : SvrConnEvent(n, m, k)

Spec == Init /\ [][Next]_vars

(* The timer of repld fires, the event loop serves every connection, and a
   worker reads its Unix socket. *)
Fairness ==
    /\ \A n \in Nodes : WF_vars(onTimer1s(n)) /\ WF_vars(recvRoleChange(n))
    /\ \A n \in Nodes : \A m \in Peers(n) :
          /\ WF_vars(ReplListenerAccept(n, m)) /\ WF_vars(sockClientPingSvrStatus(n, m))
          /\ WF_vars(ClntConnEvent(n, m))
          /\ WF_vars(\E k \in DOMAIN sv[n][m] : SvrConnEvent(n, m, k))

FairSpec == Spec /\ Fairness

-----------------------------------------------------------------------------
(* The types of the variables. *)
TypeOK ==
    /\ role \in [Nodes -> Roles]
    /\ fsync \in [Nodes -> BOOLEAN]
    /\ info \in [Nodes -> [Nodes -> NodeInfos \cup {NoInfo}]]
    /\ stinfo \in [Nodes -> SUBSET Nodes]
    /\ \A n, m \in Nodes : cl[n][m].st \in {"down", "connecting", "up", "broken"}
    /\ tid \in [Nodes -> 0 .. MaxEvents]
    /\ wdst \in [Nodes -> Nodes]
    /\ aborted \subseteq Nodes
    /\ events \in 0 .. MaxEvents

(* What a node knows of a peer's tid may be old but is never ahead of the peer:
   isAllClientSync does not let a master flip to a node that lacks what the
   master takes it to have. *)
KnownTidReached == \A n \in Nodes : \A m \in Known(n) : info[n][m].tid <= tid[m]

Top(n) == \A m \in Peers(n) : Prio[m] < Prio[n]

Settled ==
    /\ \A n \in Nodes : /\ role[n] = (IF Top(n) THEN "MASTER" ELSE "SLAVE")
                         /\ \A m \in Peers(n) : cl[n][m].st = "up" /\ info[n][m] # NoInfo

(* The group ends with one master, the node with the highest priority, and the
   workers of every node send their commands there. *)
Converges ==
    <>[](Settled /\ \A n \in Nodes : Top(wdst[n]))

(* A flip that has begun ends: FLIPING_MASTER waits for the answer of the peer
   without a timeout. *)
FlipEnds == \A n \in Nodes : role[n] = "FLIPING_MASTER" ~> role[n] # "FLIPING_MASTER"

(* The role is stable while nothing fails. *)
SettledStays == [][Settled /\ events' = events => role' = role]_vars
=============================================================================
