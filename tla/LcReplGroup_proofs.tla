------------------------ MODULE LcReplGroup_proofs ------------------------
(***************************************************************************)
(* Proofs about the roles and node infos of a slice, for any number of     *)
(* nodes, any priorities, and any faults.                                  *)
(***************************************************************************)
EXTENDS LcReplGroup, FiniteSetTheorems, TLAPS

(* Node infos and packets that claim no tid above t. *)
InfosTo(t) == [tid : 0 .. t, role : Roles, fsync : BOOLEAN]
PlainTypes == {"JOINREQ", "JOINACK", "BOTHDONE", "FLIPREQ", "FLIPACK", "NEWMASTER"}
PacketsTo(t) ==
    [type : PlainTypes] \cup [type : {"PING"}, info : InfosTo(t)]
        \cup [type : {"DATA", "ACK", "FLIPDONE"}, tid : 0 .. t]

(* A ClientConn between a client and a server at these tids, and the
   ServerConns a server has accepted from a client at tid t. *)
ConnStates == {"down", "connecting", "up", "broken"}
ClntConns(t, u) == [st : ConnStates, buf : Seq(PacketsTo(t)), in : Seq(PacketsTo(u))]
SvrConns(t) == Seq([in : Seq(PacketsTo(t)), open : BOOLEAN])

Grid(f) == DOMAIN f = Nodes /\ \A n \in Nodes : DOMAIN f[n] = Nodes

ClOk(c, t) == Grid(c) /\ \A n, m \in Nodes : c[n][m] \in ClntConns(t[n], t[m])
SvOk(s, t) == Grid(s) /\ \A n, m \in Nodes : s[m][n] \in SvrConns(t[n])
InfoOk(i, t) == Grid(i) /\ \A n, m \in Nodes : i[n][m] \in InfosTo(t[m]) \cup {NoInfo}

LocalOk == role \in [Nodes -> Roles] /\ fsync \in [Nodes -> BOOLEAN] /\ tid \in [Nodes -> Nat]

(* The inductive invariant: nothing that is under way, is waiting to be sent,
   or is known, is ahead of the node it speaks of. *)
IInv == LocalOk /\ ClOk(cl, tid) /\ SvOk(sv, tid) /\ InfoOk(info, tid)

-----------------------------------------------------------------------------
(* What the packets are. *)

(* The packets of respondPacket and of a ping are typed. *)
LEMMA MsgsTyped ==
  ASSUME NEW t \in Nat
  PROVE  /\ \A type \in PlainTypes : Msg(type) \in PacketsTo(t)
         /\ \A i \in InfosTo(t) : InfoMsg("PING", i) \in PacketsTo(t)
         /\ \A type \in {"DATA", "ACK", "FLIPDONE"} : \A u \in 0 .. t :
               TidMsg(type, u) \in PacketsTo(t)
<1>1. \A type \in PlainTypes : Msg(type) \in [type : PlainTypes]
  BY DEF Msg
<1>2. \A i \in InfosTo(t) : InfoMsg("PING", i) \in [type : {"PING"}, info : InfosTo(t)]
  BY DEF InfoMsg
<1>3. \A type \in {"DATA", "ACK", "FLIPDONE"} : \A u \in 0 .. t :
         TidMsg(type, u) \in [type : {"DATA", "ACK", "FLIPDONE"}, tid : 0 .. t]
  BY DEF TidMsg
<1> QED
  BY <1>1, <1>2, <1>3, Zenon DEF PacketsTo

(* What processPacket finds in a packet of each type. *)
LEMMA PacketFields ==
  ASSUME NEW t \in Nat, NEW x \in PacketsTo(t)
  PROVE  /\ x.type = "PING" => x.info \in InfosTo(t)
         /\ x.type \in {"DATA", "ACK", "FLIPDONE"} => x.tid \in 0 .. t
<1>1. CASE x \in [type : PlainTypes]
  BY <1>1 DEF PlainTypes
<1>2. CASE x \in [type : {"PING"}, info : InfosTo(t)]
  BY <1>2
<1>3. CASE x \in [type : {"DATA", "ACK", "FLIPDONE"}, tid : 0 .. t]
  BY <1>3
<1> QED
  BY <1>1, <1>2, <1>3 DEF PacketsTo

(* A tid only grows, so what was no claim too many stays none. *)
LEMMA PacketsGrow ==
  ASSUME NEW t \in Nat, NEW u \in Nat, t <= u
  PROVE  /\ InfosTo(t) \subseteq InfosTo(u)
         /\ PacketsTo(t) \subseteq PacketsTo(u)
         /\ Seq(PacketsTo(t)) \subseteq Seq(PacketsTo(u))
<1>1. 0 .. t \subseteq 0 .. u
  OBVIOUS
<1>2. InfosTo(t) \subseteq InfosTo(u)
  BY <1>1 DEF InfosTo
<1>3. [type : {"PING"}, info : InfosTo(t)] \subseteq [type : {"PING"}, info : InfosTo(u)]
  BY <1>2
<1>4. [type : {"DATA", "ACK", "FLIPDONE"}, tid : 0 .. t]
         \subseteq [type : {"DATA", "ACK", "FLIPDONE"}, tid : 0 .. u]
  BY <1>1
<1>5. PacketsTo(t) \subseteq PacketsTo(u)
  BY <1>3, <1>4, Zenon DEF PacketsTo
<1>6. Seq(PacketsTo(t)) \subseteq Seq(PacketsTo(u))
  BY <1>5
<1> QED
  BY <1>2, <1>5, <1>6

(* What a peer may have been told stays possible when its tid grows. *)
LEMMA SvrConnsGrow ==
  ASSUME NEW t \in Nat, NEW u \in Nat, t <= u
  PROVE  SvrConns(t) \subseteq SvrConns(u)
<1> DEFINE A == [in : Seq(PacketsTo(t)), open : BOOLEAN]
           B == [in : Seq(PacketsTo(u)), open : BOOLEAN]
<1>1. A \subseteq B
  BY PacketsGrow
<1>2. Seq(A) \subseteq Seq(B)
  <2> HIDE DEF A, B
  <2> QED BY <1>1
<1> QED
  BY <1>2 DEF SvrConns

Below(t, u) == t \in [Nodes -> Nat] /\ u \in [Nodes -> Nat] /\ \A n \in Nodes : t[n] <= u[n]

(* Every node's tid grew or stayed: the network is as good as before. *)
LEMMA ClGrows ==
  ASSUME NEW c, NEW t, NEW u, ClOk(c, t), Below(t, u)
  PROVE  ClOk(c, u)
<1> SUFFICES ASSUME NEW n \in Nodes, NEW m \in Nodes
             PROVE  c[n][m] \in ClntConns(u[n], u[m])
  BY DEF ClOk
<1>1. c[n][m] \in ClntConns(t[n], t[m])
  BY DEF ClOk
<1>2. t[n] \in Nat /\ u[n] \in Nat /\ t[n] <= u[n]
  BY DEF Below
<1>3. t[m] \in Nat /\ u[m] \in Nat /\ t[m] <= u[m]
  BY DEF Below
<1>4. Seq(PacketsTo(t[n])) \subseteq Seq(PacketsTo(u[n]))
  BY <1>2, PacketsGrow, Zenon
<1>5. Seq(PacketsTo(t[m])) \subseteq Seq(PacketsTo(u[m]))
  BY <1>3, PacketsGrow, Zenon
<1> QED
  BY <1>1, <1>4, <1>5 DEF ClntConns

(* The accepted connections stay typed when tids grow. *)
LEMMA SvGrows ==
  ASSUME NEW s, NEW t, NEW u, SvOk(s, t), Below(t, u)
  PROVE  SvOk(s, u)
<1> SUFFICES ASSUME NEW n \in Nodes, NEW m \in Nodes
             PROVE  s[m][n] \in SvrConns(u[n])
  BY DEF SvOk
<1>1. t[n] \in Nat /\ u[n] \in Nat /\ t[n] <= u[n]
  BY DEF Below
<1>2. SvrConns(t[n]) \subseteq SvrConns(u[n])
  BY <1>1, SvrConnsGrow, Zenon
<1> QED
  BY <1>2, Zenon DEF SvOk

(* So does what a node knows of its peers. *)
LEMMA InfoGrows ==
  ASSUME NEW i, NEW t, NEW u, InfoOk(i, t), Below(t, u)
  PROVE  InfoOk(i, u)
<1> SUFFICES ASSUME NEW n \in Nodes, NEW m \in Nodes
             PROVE  i[n][m] \in InfosTo(u[m]) \cup {NoInfo}
  BY DEF InfoOk
<1>1. t[m] \in Nat /\ u[m] \in Nat /\ t[m] <= u[m]
  BY DEF Below
<1>2. InfosTo(t[m]) \subseteq InfosTo(u[m])
  BY <1>1, PacketsGrow, Zenon
<1> QED
  BY <1>2, Zenon DEF InfoOk

-----------------------------------------------------------------------------
(* Sending *)

(* A packet put in a connection's buffer leaves the connection typed. *)
LEMMA BufferedTyped ==
  ASSUME NEW A, NEW B, NEW con \in [st : ConnStates, buf : Seq(A), in : Seq(B)], NEW msg \in A
  PROVE  Buffered(con, msg) \in [st : ConnStates, buf : Seq(A), in : Seq(B)]
BY DEF Buffered

(* So does a packet that reaches the connections of a peer. *)
LEMMA ReceivedTyped ==
  ASSUME NEW t, NEW con, NEW conns \in SvrConns(t), NEW msg \in PacketsTo(t)
  PROVE  Received(con, conns, msg) \in SvrConns(t)
<1> DEFINE R == [in : Seq(PacketsTo(t)), open : BOOLEAN]
<1>1. \A r \in R : [r EXCEPT !.in = Append(@, msg)] \in R
  OBVIOUS
<1>2. conns \in Seq(R)
  BY DEF SvrConns
<1>3. Received(con, conns, msg) \in Seq(R)
  <2> HIDE DEF R
  <2> QED BY <1>1, <1>2 DEF Received
<1> QED
  BY <1>3 DEF SvrConns

(* SockConn::sendPacket keeps the network good, for a packet that claims no
   more than its sender has. *)
LEMMA SendOk ==
  ASSUME NEW t \in [Nodes -> Nat], NEW c, NEW s, ClOk(c, t), SvOk(s, t),
         NEW n \in Nodes, NEW m \in Nodes, NEW msg \in PacketsTo(t[n])
  PROVE  ClOk(ClntSend(c, s, n, m, msg)[1], t) /\ SvOk(ClntSend(c, s, n, m, msg)[2], t)
<1> DEFINE c2 == [c EXCEPT ![n][m] = Buffered(@, msg)]
           s2 == [s EXCEPT ![m][n] = Received(c[n][m], @, msg)]
<1>1. c[n][m] \in ClntConns(t[n], t[m]) /\ s[m][n] \in SvrConns(t[n])
  BY DEF ClOk, SvOk
<1>2. Buffered(c[n][m], msg) \in ClntConns(t[n], t[m])
  BY <1>1, BufferedTyped DEF ClntConns
<1>3. Received(c[n][m], s[m][n], msg) \in SvrConns(t[n])
  BY <1>1, ReceivedTyped, Zenon
<1>4. ClOk(c2, t)
  BY <1>2 DEF ClOk, Grid
<1>5. SvOk(s2, t)
  BY <1>3 DEF SvOk, Grid
<1> QED
  BY <1>4, <1>5 DEF ClntSend

(* A broadcast keeps both ends of every connection typed. *)
LEMMA BcastOk ==
  ASSUME NEW t \in [Nodes -> Nat], NEW c, NEW s, ClOk(c, t), SvOk(s, t),
         NEW n \in Nodes, NEW msg \in PacketsTo(t[n]), NEW states
  PROVE  ClOk(BcastTo(c, s, n, msg, states)[1], t) /\ SvOk(BcastTo(c, s, n, msg, states)[2], t)
<1> DEFINE to == {m \in Peers(n) : c[n][m].st \in states}
           c2 == [c EXCEPT ![n] = [m \in Nodes |-> IF m \in to THEN Buffered(c[n][m], msg)
                                                   ELSE c[n][m]]]
           s2 == [m \in Nodes |-> IF m \in to
                                  THEN [s[m] EXCEPT ![n] = Received(c[n][m], @, msg)]
                                  ELSE s[m]]
<1>1. \A m \in Nodes : c[n][m] \in ClntConns(t[n], t[m]) /\ s[m][n] \in SvrConns(t[n])
  BY DEF ClOk, SvOk
<1>2. \A m \in Nodes : Buffered(c[n][m], msg) \in ClntConns(t[n], t[m])
  BY <1>1, BufferedTyped DEF ClntConns
<1>3. \A m \in Nodes : Received(c[n][m], s[m][n], msg) \in SvrConns(t[n])
  BY <1>1, ReceivedTyped, Zenon
<1>4. ClOk(c2, t)
  <2> HIDE DEF to
  <2> QED BY <1>2 DEF ClOk, Grid
<1>5. SvOk(s2, t)
  <2> DEFINE row(m) == [s[m] EXCEPT ![n] = Received(c[n][m], @, msg)]
  <2>1. \A m \in Nodes : DOMAIN s[m] = Nodes /\ \A o \in Nodes : s[m][o] \in SvrConns(t[o])
    BY DEF SvOk, Grid
  <2>2. \A m \in Nodes : DOMAIN row(m) = Nodes
    BY <2>1
  <2>3. \A m, o \in Nodes : row(m)[o] = IF o = n THEN Received(c[n][m], s[m][n], msg) ELSE s[m][o]
    BY <2>1
  <2>4. \A m, o \in Nodes : row(m)[o] \in SvrConns(t[o])
    BY <1>3, <2>1, <2>3
  <2>5. \A m \in Nodes : s2[m] = row(m) \/ s2[m] = s[m]
    OBVIOUS
  <2> HIDE DEF row, to
  <2> QED BY <2>1, <2>2, <2>4, <2>5 DEF SvOk, Grid
<1>6. BcastTo(c, s, n, msg, states) = <<c2, s2>>
  BY DEF BcastTo
<1> HIDE DEF c2, s2
<1> QED
  BY <1>4, <1>5, <1>6

(* ServerConn k of m answers n. *)
LEMMA AnswerOk ==
  ASSUME NEW t \in [Nodes -> Nat], NEW c, ClOk(c, t),
         NEW n \in Nodes, NEW m \in Nodes, NEW k, NEW msgs \in Seq(PacketsTo(t[m]))
  PROVE  ClOk(SvrSend(c, m, n, k, msgs), t)
<1>1. c[n][m] \in ClntConns(t[n], t[m])
  BY DEF ClOk
<1>2. [c[n][m] EXCEPT !.in = @ \o msgs] \in ClntConns(t[n], t[m])
  <2>1. c[n][m].in \in Seq(PacketsTo(t[m]))
    BY <1>1 DEF ClntConns
  <2>2. PICK q : q = c[n][m].in \o msgs
    OBVIOUS
  <2>3. q \in Seq(PacketsTo(t[m]))
    BY <2>1, <2>2
  <2> QED
    BY <1>1, <2>2, <2>3 DEF ClntConns
<1>3. ClOk([c EXCEPT ![n][m].in = @ \o msgs], t)
  BY <1>2 DEF ClOk, Grid
<1> QED
  BY <1>3 DEF SvrSend

(* A packet is taken off a connection. *)
LEMMA PopOk ==
  ASSUME NEW t \in [Nodes -> Nat], NEW n \in Nodes, NEW m \in Nodes,
         ClOk(cl, t), SvOk(sv, t)
  PROVE  /\ cl[n][m].in # << >> =>
               /\ ClOk(PopCl(n, m), t)
               /\ Head(cl[n][m].in) \in PacketsTo(t[m])
         /\ \A k \in DOMAIN sv[n][m] : sv[n][m][k].in # << >> =>
               /\ SvOk(PopSv(n, m, k), t)
               /\ Head(sv[n][m][k].in) \in PacketsTo(t[m])
<1>1. ASSUME cl[n][m].in # << >>
      PROVE  ClOk(PopCl(n, m), t) /\ Head(cl[n][m].in) \in PacketsTo(t[m])
  <2>1. cl[n][m] \in ClntConns(t[n], t[m])
    BY DEF ClOk
  <2>2. cl[n][m].in \in Seq(PacketsTo(t[m]))
    BY <2>1 DEF ClntConns
  <2>3. Tail(cl[n][m].in) \in Seq(PacketsTo(t[m])) /\ Head(cl[n][m].in) \in PacketsTo(t[m])
    BY <1>1, <2>2
  <2>4. [cl[n][m] EXCEPT !.in = Tail(@)] \in ClntConns(t[n], t[m])
    BY <2>1, <2>3 DEF ClntConns
  <2>5. ClOk(PopCl(n, m), t)
    BY <2>4 DEF ClOk, Grid, PopCl
  <2> QED
    BY <2>3, <2>5
<1>2. ASSUME NEW k \in DOMAIN sv[n][m], sv[n][m][k].in # << >>
      PROVE  SvOk(PopSv(n, m, k), t) /\ Head(sv[n][m][k].in) \in PacketsTo(t[m])
  <2> DEFINE R == [in : Seq(PacketsTo(t[m])), open : BOOLEAN]
  <2>1. sv[n][m] \in Seq(R)
    BY DEF SvOk, SvrConns
  <2>2. sv[n][m][k] \in R
    <3> HIDE DEF R
    <3> QED BY <2>1
  <2>3. sv[n][m][k].in \in Seq(PacketsTo(t[m]))
    BY <2>2
  <2>4. Tail(sv[n][m][k].in) \in Seq(PacketsTo(t[m])) /\ Head(sv[n][m][k].in) \in PacketsTo(t[m])
    BY <1>2, <2>3
  <2>5. [sv[n][m][k] EXCEPT !.in = Tail(@)] \in R
    BY <2>2, <2>4
  <2>6. [sv[n][m] EXCEPT ![k].in = Tail(@)] \in Seq(R)
    <3> HIDE DEF R
    <3> QED BY <1>2, <2>1, <2>5
  <2>7. [sv[n][m] EXCEPT ![k].in = Tail(@)] \in SvrConns(t[m])
    BY <2>6 DEF SvrConns
  <2>8. SvOk(PopSv(n, m, k), t)
    BY <2>7 DEF SvOk, Grid, PopSv
  <2> QED
    BY <2>4, <2>8
<1> QED
  BY <1>1, <1>2

-----------------------------------------------------------------------------
(* Node infos *)

(* What a node knows of a peer is replaced by something the peer has reached. *)
LEMMA InfoSetOk ==
  ASSUME NEW t \in [Nodes -> Nat], NEW i, InfoOk(i, t), NEW n \in Nodes, NEW m \in Nodes,
         NEW x \in InfosTo(t[m]) \cup {NoInfo}
  PROVE  InfoOk([i EXCEPT ![n][m] = x], t)
BY DEF InfoOk, Grid

(* A node takes down a tid that its peer has reached. *)
LEMMA InfoTidOk ==
  ASSUME NEW t \in [Nodes -> Nat], NEW i, InfoOk(i, t), NEW n \in Nodes, NEW m \in Nodes,
         i[n][m] # NoInfo, NEW u \in 0 .. t[m]
  PROVE  InfoOk([i EXCEPT ![n][m].tid = u], t)
<1>1. i[n][m] \in InfosTo(t[m])
  BY DEF InfoOk
<1>2. [i[n][m] EXCEPT !.tid = u] \in InfosTo(t[m])
  BY <1>1 DEF InfosTo
<1> QED
  BY <1>2 DEF InfoOk, Grid

(* A node names a new master among its peers. *)
LEMMA NewMasterOk ==
  ASSUME LocalOk, InfoOk(info, tid), NEW n \in Nodes, NEW m \in Nodes,
         setNewMstrClearOthers(n, m)
  PROVE  role' \in [Nodes -> Roles] /\ InfoOk(info', tid)
<1> DEFINE new(o) == [info[n][o] EXCEPT !.role = IF o = m THEN "MASTER" ELSE "SLAVE"]
           row == [o \in Nodes |-> IF o \in Known(n) THEN new(o) ELSE info[n][o]]
<1>1. role' \in [Nodes -> Roles]
  BY DEF setNewMstrClearOthers, LocalOk, Roles
<1>2. ASSUME NEW o \in Known(n)
      PROVE  new(o) \in InfosTo(tid[o])
  <2>1. info[n][o] \in InfosTo(tid[o])
    BY <1>2 DEF Known, Peers, InfoOk
  <2> QED
    BY <2>1 DEF InfosTo, Roles
<1>3. \A o \in Nodes : row[o] \in InfosTo(tid[o]) \cup {NoInfo}
  <2>1. \A o \in Nodes : info[n][o] \in InfosTo(tid[o]) \cup {NoInfo}
    BY DEF InfoOk
  <2> HIDE DEF new
  <2> QED BY <1>2, <2>1
<1>4. info' = [info EXCEPT ![n] = row]
  BY Zenon DEF setNewMstrClearOthers
<1>5. DOMAIN row = Nodes
  OBVIOUS
<1>6. InfoOk(info', tid)
  <2> HIDE DEF row
  <2> QED BY <1>3, <1>4, <1>5 DEF InfoOk, Grid
<1> QED
  BY <1>1, <1>6

(* What a node reports of itself. *)
LEMMA LocalTyped ==
  ASSUME LocalOk, NEW n \in Nodes
  PROVE  Local(n) \in InfosTo(tid[n]) /\ tid[n] \in Nat
BY DEF LocalOk, Local, InfosTo

-----------------------------------------------------------------------------
(* The actions *)

(* A ClientConn that is closed, or opened again. *)
LEMMA DownTyped ==
  ASSUME NEW t, NEW u
  PROVE  Down \in ClntConns(t, u)
BY DEF Down, ClntConns, ConnStates

(* A connection that is being opened. *)
LEMMA OpenTyped ==
  ASSUME NEW t, NEW u, NEW st \in ConnStates, NEW b \in Seq(PacketsTo(t))
  PROVE  /\ [Down EXCEPT !.st = st] \in ClntConns(t, u)
         /\ [Down EXCEPT !.st = st, !.buf = b] \in ClntConns(t, u)
<1>1. Down \in [st : ConnStates, buf : Seq(PacketsTo(t)), in : Seq(PacketsTo(u))]
  BY DownTyped DEF ClntConns
<1> QED
  BY <1>1 DEF ClntConns

(* Nothing is under way or known in a group that starts. *)
LEMMA InitIInv == Init => IInv
<1> SUFFICES ASSUME Init PROVE IInv
  OBVIOUS
<1>1. LocalOk
  BY DEF Init, LocalOk, Roles
<1>2. \A t, u : Down \in ClntConns(t, u)
  BY DownTyped
<1>3. ClOk(cl, tid)
  BY <1>2 DEF Init, ClOk, Grid
<1>4. \A t : << >> \in SvrConns(t)
  BY DEF SvrConns
<1>5. SvOk(sv, tid)
  BY <1>4 DEF Init, SvOk, Grid
<1>6. InfoOk(info, tid)
  BY DEF Init, InfoOk, Grid
<1> QED
  BY <1>1, <1>3, <1>5, <1>6 DEF IInv

(* connGroupLstnrs: a new ClientConn has the join request in its buffer. *)
LEMMA ConnectOk ==
  ASSUME IInv, NEW n \in Nodes
  PROVE  ClOk(connGroupLstnrs(n), tid)
<1> DEFINE new == [Down EXCEPT !.st = "connecting", !.buf = <<Msg("JOINREQ")>>]
           row == [m \in Nodes |-> IF m # n /\ cl[n][m].st = "down" THEN new ELSE cl[n][m]]
<1>1. tid[n] \in Nat
  BY DEF IInv, LocalOk
<1>2. Msg("JOINREQ") \in PacketsTo(tid[n])
  BY <1>1, MsgsTyped DEF PlainTypes
<1>3. \A u : new \in ClntConns(tid[n], u)
  <2>1. <<Msg("JOINREQ")>> \in Seq(PacketsTo(tid[n]))
    BY <1>2
  <2> QED
    BY <2>1, OpenTyped DEF ConnStates
<1>4. Grid(cl) /\ \A o, m \in Nodes : cl[o][m] \in ClntConns(tid[o], tid[m])
  BY DEF IInv, ClOk
<1>5. \A m \in Nodes : row[m] \in ClntConns(tid[n], tid[m])
  <2> HIDE DEF new
  <2> QED BY <1>3, <1>4
<1>6. connGroupLstnrs(n) = [cl EXCEPT ![n] = row]
  BY Zenon DEF connGroupLstnrs
<1>7. DOMAIN row = Nodes
  OBVIOUS
<1> HIDE DEF row
<1> QED
  BY <1>4, <1>5, <1>6, <1>7 DEF ClOk, Grid

(* monitorRoles changes roles and sends; it learns and commits nothing. *)
LEMMA TimerStep ==
  ASSUME IInv, NEW n \in Nodes, onTimer1s(n)
  PROVE  IInv'
<1> PICK c : c = connGroupLstnrs(n)
  OBVIOUS
<1>1. ClOk(c, tid)
  BY ConnectOk
<1>2. monitorRoles(n, c) /\ UNCHANGED <<fsync, tid>>
  BY DEF onTimer1s
<1>3. tid \in [Nodes -> Nat] /\ SvOk(sv, tid) /\ InfoOk(info, tid) /\ LocalOk
  BY DEF IInv, LocalOk
<1>4. \A type \in PlainTypes : Msg(type) \in PacketsTo(tid[n])
  <2>1. tid[n] \in Nat
    BY <1>3
  <2> QED
    BY <2>1, MsgsTyped, Zenon
<1>5. CASE flipSelfBeMstr(n) /\ cl' = c /\ UNCHANGED sv
  <2>1. role' \in [Nodes -> Roles] /\ InfoOk(info', tid)
    <3>1. CASE role[n] = "MASTER"
      BY <1>3, <1>5, <3>1 DEF flipSelfBeMstr, LocalOk
    <3>2. CASE role[n] # "MASTER"
      BY <1>3, <1>5, <3>2, NewMasterOk DEF flipSelfBeMstr
    <3> QED BY <3>1, <3>2
  <2> QED
    BY <1>1, <1>2, <1>3, <1>5, <2>1 DEF IInv, LocalOk
<1>6. CASE offerFlip(n, c) /\ UNCHANGED <<info, roleMsgs>>
  <2>1. role' \in [Nodes -> Roles]
    BY <1>3, <1>6 DEF offerFlip, LocalOk, Roles
  <2>2. ClOk(cl', tid) /\ SvOk(sv', tid)
    <3>1. CASE cl' = c /\ UNCHANGED sv
      BY <1>1, <1>3, <3>1
    <3>2. CASE \E m \in Nodes : SetNet(ClntSend(c, sv, n, m, Msg("FLIPREQ")))
      <4>1. PICK m \in Nodes : SetNet(ClntSend(c, sv, n, m, Msg("FLIPREQ")))
        BY <3>2
      <4>2. Msg("FLIPREQ") \in PacketsTo(tid[n])
        BY <1>4 DEF PlainTypes
      <4> QED
        BY <1>1, <1>3, <4>1, <4>2, SendOk DEF SetNet
    <3> QED
      BY <1>6, <3>1, <3>2 DEF offerFlip
  <2> QED
    BY <1>2, <1>3, <1>6, <2>1, <2>2 DEF IInv, LocalOk
<1>7. CASE clientsElectMstr(n, c) /\ UNCHANGED <<info, roleMsgs>>
  <2>1. role' \in [Nodes -> Roles]
    BY <1>3, <1>7 DEF clientsElectMstr, LocalOk, Roles
  <2>2. ClOk(cl', tid) /\ SvOk(sv', tid)
    <3>1. CASE cl' = c /\ UNCHANGED sv
      BY <1>1, <1>3, <3>1
    <3>2. CASE SetNet(BcastTo(c, sv, n, Msg("NEWMASTER"), {"up", "connecting"}))
      <4>1. Msg("NEWMASTER") \in PacketsTo(tid[n])
        BY <1>4 DEF PlainTypes
      <4> QED
        BY <1>1, <1>3, <3>2, <4>1, BcastOk DEF SetNet
    <3> QED
      BY <1>7, <3>1, <3>2 DEF clientsElectMstr
  <2> QED
    BY <1>2, <1>3, <1>7, <2>1, <2>2 DEF IInv, LocalOk
<1>8. CASE cl' = c /\ UNCHANGED <<role, info, roleMsgs, sv>>
  BY <1>1, <1>2, <1>3, <1>8 DEF IInv, LocalOk
<1> QED
  BY <1>2, <1>5, <1>6, <1>7, <1>8 DEF monitorRoles

-----------------------------------------------------------------------------
(* Connection events. *)

(* A connection is accepted. *)
LEMMA AcceptStep ==
  ASSUME IInv, NEW n \in Nodes, NEW m \in Nodes, ReplListenerAccept(n, m)
  PROVE  IInv'
<1> DEFINE R == [in : Seq(PacketsTo(tid[n])), open : BOOLEAN]
           new == [in |-> cl[n][m].buf, open |-> TRUE]
<1>1. cl[n][m] \in ClntConns(tid[n], tid[m]) /\ sv[m][n] \in SvrConns(tid[n])
  BY DEF IInv, ClOk, SvOk
<1>2. new \in R
  BY <1>1 DEF ClntConns
<1>3. Append(sv[m][n], new) \in SvrConns(tid[n])
  <2>1. sv[m][n] \in Seq(R)
    BY <1>1 DEF SvrConns
  <2>2. Append(sv[m][n], new) \in Seq(R)
    <3> HIDE DEF R, new
    <3> QED BY <1>2, <2>1
  <2> QED
    BY <2>2 DEF SvrConns
<1>4. SvOk(sv', tid)
  <2>1. sv' = [sv EXCEPT ![m][n] = Append(sv[m][n], new)]
    BY DEF ReplListenerAccept
  <2> HIDE DEF new
  <2> QED BY <1>3, <2>1 DEF IInv, SvOk, Grid
<1>5. [Down EXCEPT !.st = "up"] \in ClntConns(tid[n], tid[m])
  <2>1. << >> \in Seq(PacketsTo(tid[n]))
    OBVIOUS
  <2> QED
    BY <2>1, OpenTyped DEF ConnStates
<1>6. ClOk(cl', tid)
  BY <1>5 DEF ReplListenerAccept, IInv, ClOk, Grid
<1> QED
  BY <1>4, <1>6 DEF ReplListenerAccept, IInv, LocalOk

(* The ServerConns of an orphan hold a part of what they held. *)
LEMMA OrphanOk ==
  ASSUME NEW t \in [Nodes -> Nat], SvOk(sv, t), NEW n \in Nodes, NEW m \in Nodes,
         sv' \in Orphan(sv, m, n)
  PROVE  SvOk(sv', t)
<1> DEFINE R == [in : Seq(PacketsTo(t[n])), open : BOOLEAN]
<1>1. PICK conns : conns = sv[m][n]
  OBVIOUS
<1>2. conns \in Seq(R)
  BY <1>1 DEF SvOk, SvrConns
<1>3. ASSUME NEW l \in Nat
      PROVE  CutTo(conns, l) \in Seq(R)
  <2> DEFINE cut(k) == [in |-> SubSeq(conns[k].in, 1, IF l < Len(conns[k].in) THEN l
                                                      ELSE Len(conns[k].in)),
                        open |-> FALSE]
  <2>1. \A k \in DOMAIN conns : conns[k] \in R
    <3> HIDE DEF R
    <3> QED BY <1>2
  <2>2. ASSUME NEW k \in DOMAIN conns
        PROVE  cut(k) \in R
    <3>1. PICK q : q = conns[k].in
      OBVIOUS
    <3>2. q \in Seq(PacketsTo(t[n]))
      BY <2>1, <2>2, <3>1
    <3>3. PICK i : i = IF l < Len(q) THEN l ELSE Len(q)
      OBVIOUS
    <3>4. i \in 0 .. Len(q)
      BY <3>2, <3>3
    <3>5. SubSeq(q, 1, i) \in Seq(PacketsTo(t[n]))
      BY <3>2, <3>4
    <3>6. cut(k) = [in |-> SubSeq(q, 1, i), open |-> FALSE]
      BY <3>1, <3>3
    <3> QED
      BY <3>5, <3>6
  <2>3. CutTo(conns, l) = [k \in DOMAIN conns |-> IF conns[k].open THEN cut(k) ELSE conns[k]]
    BY DEF CutTo
  <2> HIDE DEF R, cut
  <2> QED BY <1>2, <2>1, <2>2, <2>3
<1>4. PICK l \in {0} \cup UNION {0 .. Len(sv[m][n][k].in) : k \in DOMAIN sv[m][n]} :
         sv' = [sv EXCEPT ![m][n] = CutTo(conns, l)]
  BY <1>1 DEF Orphan
<1>5. l \in Nat
  BY <1>4
<1>6. CutTo(conns, l) \in SvrConns(t[n])
  BY <1>3, <1>5 DEF SvrConns
<1> QED
  BY <1>4, <1>6 DEF SvOk, Grid

(* A heartbeat is overdue. *)
LEMMA HBTimeoutStep ==
  ASSUME IInv, NEW n \in Nodes, NEW m \in Nodes, HBTimeout(n, m)
  PROVE  IInv'
<1>1. Down \in ClntConns(tid[n], tid[m])
  BY DownTyped
<1>2. ClOk(cl', tid)
  BY <1>1 DEF HBTimeout, IInv, ClOk, Grid
<1>3. SvOk(sv', tid)
  BY OrphanOk DEF HBTimeout, IInv, LocalOk
<1> QED
  BY <1>2, <1>3 DEF HBTimeout, IInv, LocalOk

(* The connection to a peer is closed. *)
LEMMA ClientCloseStep ==
  ASSUME IInv, NEW n \in Nodes, NEW m \in Nodes, ClientConnClose(n, m)
  PROVE  IInv'
<1>1. Down \in ClntConns(tid[n], tid[m])
  BY DownTyped
<1>2. ClOk(cl', tid)
  BY <1>1 DEF ClientConnClose, IInv, ClOk, Grid
<1> QED
  BY <1>2 DEF ClientConnClose, IInv, LocalOk

(* clearClntOnClose: a ServerConn goes, and with it what was known. *)
LEMMA ServerCloseStep ==
  ASSUME IInv, NEW n \in Nodes, NEW m \in Nodes, NEW k, clearClntOnClose(m, n, k)
  PROVE  IInv'
<1> DEFINE R == [in : Seq(PacketsTo(tid[n])), open : BOOLEAN]
<1>1. PICK conns : conns = sv[m][n]
  OBVIOUS
<1>2. conns \in Seq(R) /\ k \in DOMAIN conns
  BY <1>1 DEF IInv, SvOk, SvrConns, clearClntOnClose
<1>3. PICK rest : rest = SubSeq(conns, 1, k - 1) \o SubSeq(conns, k + 1, Len(conns))
  OBVIOUS
<1>4. rest \in Seq(R)
  <2> HIDE DEF R
  <2>1. k \in 1 .. Len(conns)
    BY <1>2
  <2>2. SubSeq(conns, 1, k - 1) \in Seq(R)
    BY <1>2, <2>1
  <2>3. SubSeq(conns, k + 1, Len(conns)) \in Seq(R)
    BY <1>2, <2>1
  <2> QED
    BY <1>3, <2>2, <2>3
<1>5. rest \in SvrConns(tid[n])
  BY <1>4 DEF SvrConns
<1>6. sv' = [sv EXCEPT ![m][n] = rest]
  BY <1>1, <1>3 DEF clearClntOnClose
<1>7. SvOk(sv', tid)
  BY <1>5, <1>6 DEF IInv, SvOk, Grid
<1>8. InfoOk(info', tid)
  BY InfoSetOk DEF clearClntOnClose, IInv, LocalOk
<1> QED
  BY <1>7, <1>8 DEF clearClntOnClose, IInv, LocalOk

(* The heartbeat tells the tid the node has now. *)
LEMMA PingStep ==
  ASSUME IInv, NEW n \in Nodes, NEW m \in Nodes, sockClientPingSvrStatus(n, m)
  PROVE  IInv'
<1>1. Local(n) \in InfosTo(tid[n]) /\ tid[n] \in Nat
  BY LocalTyped DEF IInv
<1>2. InfoMsg("PING", Local(n)) \in PacketsTo(tid[n])
  BY <1>1, MsgsTyped
<1>3. ClOk(cl', tid) /\ SvOk(sv', tid)
  BY <1>2, SendOk DEF sockClientPingSvrStatus, SetNet, IInv, LocalOk
<1> QED
  BY <1>3 DEF sockClientPingSvrStatus, IInv, LocalOk

(* A node that starts again has its tids; what it sent before may still be
   read, and claims no more than it has. *)
LEMMA RestartStep ==
  ASSUME IInv, NEW n \in Nodes, Restart(n)
  PROVE  IInv'
<1>1. LocalOk' /\ tid' = tid
  BY DEF Restart, IInv, LocalOk, Roles
<1>2. InfoOk(info', tid)
  BY DEF Restart, IInv, InfoOk, Grid
<1>3. ClOk(cl', tid)
  <2> SUFFICES ASSUME NEW x \in Nodes, NEW y \in Nodes
               PROVE  cl'[x][y] \in ClntConns(tid[x], tid[y])
    BY DEF Restart, ClOk, Grid
  <2>1. PICK con : con = cl[x][y]
    OBVIOUS
  <2>2. con \in ClntConns(tid[x], tid[y]) /\ Down \in ClntConns(tid[x], tid[y])
    BY <2>1, DownTyped DEF IInv, ClOk
  <2>3. [con EXCEPT !.st = "broken"] \in ClntConns(tid[x], tid[y])
    BY <2>2 DEF ClntConns, ConnStates
  <2>4. \/ cl'[x][y] = Down
        \/ cl'[x][y] = [con EXCEPT !.st = "broken"]
        \/ cl'[x][y] = con
    <3>1. cl'[x][y] = CASE x = n -> Down
                        [] y = n /\ cl[x][n].st = "up" -> [cl[x][n] EXCEPT !.st = "broken"]
                        [] y = n /\ cl[x][n].st = "connecting" -> Down
                        [] OTHER -> cl[x][y]
      BY DEF Restart
    <3>2. CASE x = n
      <4>1. cl'[x][y] = Down \/ y = n
        BY <3>1, <3>2
      <4> QED BY <3>1, <3>2, <4>1, <2>1
    <3>3. CASE x # n /\ y = n
      BY <3>1, <3>3, <2>1
    <3>4. CASE x # n /\ y # n
      BY <3>1, <3>4, <2>1
    <3> QED
      BY <3>2, <3>3, <3>4
  <2> QED
    BY <2>2, <2>3, <2>4
<1>4. SvOk(sv', tid)
  <2> SUFFICES ASSUME NEW x \in Nodes, NEW y \in Nodes
               PROVE  sv'[x][y] \in SvrConns(tid[y])
    BY DEF Restart, SvOk, Grid
  <2> DEFINE R == [in : Seq(PacketsTo(tid[y])), open : BOOLEAN]
             row(q) == [k \in DOMAIN q |-> [q[k] EXCEPT !.open = FALSE]]
  <2>1. PICK conns : conns = sv[x][y]
    OBVIOUS
  <2>2. conns \in Seq(R)
    BY <2>1 DEF IInv, SvOk, SvrConns
  <2>3. \A r \in R : [r EXCEPT !.open = FALSE] \in R
    OBVIOUS
  <2>4. row(conns) \in Seq(R) /\ << >> \in Seq(R)
    <3> HIDE DEF R
    <3> QED BY <2>2, <2>3
  <2>5. sv'[x][y] = << >> \/ sv'[x][y] = row(conns) \/ sv'[x][y] = conns
    <3>1. sv'[x][y] = CASE x = n -> << >>
                        [] y = n -> row(sv[x][n])
                        [] OTHER -> sv[x][y]
      BY DEF Restart
    <3> HIDE DEF row
    <3>2. CASE x # n /\ y = n
      BY <3>1, <3>2, <2>1
    <3>3. CASE x = n /\ y # n
      BY <3>1, <3>3
    <3>4. CASE x = n /\ y = n
      BY <3>1, <3>4, <2>1
    <3>5. CASE x # n /\ y # n
      BY <3>1, <3>5, <2>1
    <3> QED
      BY <3>2, <3>3, <3>4, <3>5
  <2>6. sv'[x][y] \in Seq(R)
    <3> HIDE DEF R, row
    <3> QED BY <2>2, <2>4, <2>5
  <2> QED
    BY <2>6 DEF SvrConns
<1> QED
  BY <1>1, <1>2, <1>3, <1>4 DEF IInv

-----------------------------------------------------------------------------
(* Packets *)

(* The next packet of client n at server m, and of server m at client n. *)
LEMMA ClntPacket ==
  ASSUME IInv, NEW n \in Nodes, NEW m \in Nodes, NEW k, NEW type, FromClnt(m, n, k, type)
  PROVE  /\ SvOk(PopSv(m, n, k), tid)
         /\ type = "PING" => Head(sv[m][n][k].in).info \in InfosTo(tid[n])
         /\ type \in {"DATA", "ACK", "FLIPDONE"} => Head(sv[m][n][k].in).tid \in 0 .. tid[n]
<1>1. k \in DOMAIN sv[m][n] /\ sv[m][n][k].in # << >> /\ Head(sv[m][n][k].in).type = type
  BY DEF FromClnt
<1>2. tid \in [Nodes -> Nat] /\ ClOk(cl, tid) /\ SvOk(sv, tid)
  BY DEF IInv, LocalOk
<1>3. SvOk(PopSv(m, n, k), tid) /\ Head(sv[m][n][k].in) \in PacketsTo(tid[n])
  BY <1>1, <1>2, PopOk
<1>4. PICK x : x = Head(sv[m][n][k].in)
  OBVIOUS
<1>5. tid[n] \in Nat /\ x \in PacketsTo(tid[n])
  BY <1>2, <1>3, <1>4
<1> QED
  BY <1>1, <1>3, <1>4, <1>5, PacketFields

(* The packet that a node reads from a peer names a tid which the peer has reached. *)
LEMMA SvrPacket ==
  ASSUME IInv, NEW n \in Nodes, NEW m \in Nodes, NEW type, FromSvr(n, m, type)
  PROVE  /\ ClOk(PopCl(n, m), tid)
         /\ type \in {"DATA", "ACK", "FLIPDONE"} => Head(cl[n][m].in).tid \in 0 .. tid[m]
<1>1. cl[n][m].in # << >> /\ Head(cl[n][m].in).type = type
  BY DEF FromSvr
<1>2. tid \in [Nodes -> Nat] /\ ClOk(cl, tid) /\ SvOk(sv, tid)
  BY DEF IInv, LocalOk
<1>3. ClOk(PopCl(n, m), tid) /\ Head(cl[n][m].in) \in PacketsTo(tid[m])
  BY <1>1, <1>2, PopOk
<1>4. PICK x : x = Head(cl[n][m].in)
  OBVIOUS
<1>5. tid[m] \in Nat /\ x \in PacketsTo(tid[m])
  BY <1>2, <1>3, <1>4
<1> QED
  BY <1>1, <1>3, <1>4, <1>5, PacketFields

(* A packet without a tid may be sent by anybody. *)
LEMMA PlainTyped ==
  ASSUME IInv, NEW n \in Nodes, NEW type \in PlainTypes
  PROVE  Msg(type) \in PacketsTo(tid[n]) /\ <<Msg(type)>> \in Seq(PacketsTo(tid[n]))
<1>1. tid[n] \in Nat
  BY DEF IInv, LocalOk
<1>2. Msg(type) \in PacketsTo(tid[n])
  BY <1>1, MsgsTyped, Zenon
<1> QED
  BY <1>2

(* A join request is served. *)
LEMMA JoinReqStep ==
  ASSUME IInv, NEW n \in Nodes, NEW m \in Nodes, NEW k, svrHandleClntJoinReq(m, n, k)
  PROVE  IInv'
<1>1. SvOk(sv', tid)
  BY ClntPacket DEF svrHandleClntJoinReq
<1>2. <<Msg("JOINACK")>> \in Seq(PacketsTo(tid[m]))
  BY PlainTyped DEF PlainTypes
<1>3. ClOk(cl', tid)
  BY <1>2, AnswerOk DEF svrHandleClntJoinReq, IInv, LocalOk
<1> QED
  BY <1>1, <1>3 DEF svrHandleClntJoinReq, IInv, LocalOk

(* The answer to a join request. *)
LEMMA JoinAckStep ==
  ASSUME IInv, NEW n \in Nodes, NEW m \in Nodes, clntHandleJoinSvrResp(n, m)
  PROVE  IInv'
<1>1. ClOk(PopCl(n, m), tid)
  BY SvrPacket DEF clntHandleJoinSvrResp
<1>2. Local(n) \in InfosTo(tid[n]) /\ tid[n] \in Nat
  BY LocalTyped DEF IInv
<1>3. InfoMsg("PING", Local(n)) \in PacketsTo(tid[n])
  BY <1>2, MsgsTyped
<1>4. ClOk(cl', tid) /\ SvOk(sv', tid)
  BY <1>1, <1>3, SendOk DEF clntHandleJoinSvrResp, SetNet, IInv, LocalOk
<1> QED
  BY <1>4 DEF clntHandleJoinSvrResp, IInv, LocalOk

(* A ping is what the peer had when it sent it; the full sync that answers it
   is what this node has now. *)
LEMMA PingStatusStep ==
  ASSUME IInv, NEW n \in Nodes, NEW m \in Nodes, NEW k, svrHandleClientPingStatus(m, n, k)
  PROVE  IInv'
<1>1. PICK i : i = Head(sv[m][n][k].in).info
  OBVIOUS
<1>2. PICK sync : sync = (~i.fsync /\ isFullReplNeeded(m, i))
  OBVIOUS
<1>3. PICK data : data = IF tid[m] > i.tid THEN <<TidMsg("DATA", tid[m])>> ELSE << >>
  OBVIOUS
<1>4. /\ FromClnt(m, n, k, "PING")
      /\ info' = [info EXCEPT ![m][n] =
                     IF info[m][n] = NoInfo /\ sync THEN [i EXCEPT !.fsync = TRUE] ELSE i]
      /\ fsync' = [fsync EXCEPT ![m] = @ \/ sync]
      /\ cl' = IF sync THEN SvrSend(cl, m, n, k, Append(data, Msg("BOTHDONE"))) ELSE cl
      /\ sv' = PopSv(m, n, k)
      /\ UNCHANGED <<role, tid>>
  BY <1>1, <1>2, <1>3 DEF svrHandleClientPingStatus
<1>5. SvOk(sv', tid) /\ i \in InfosTo(tid[n])
  BY <1>1, <1>4, ClntPacket
<1>6. [i EXCEPT !.fsync = TRUE] \in InfosTo(tid[n])
  BY <1>5 DEF InfosTo
<1>7. InfoOk(info', tid)
  <2>1. PICK x : x = IF info[m][n] = NoInfo /\ sync THEN [i EXCEPT !.fsync = TRUE] ELSE i
    OBVIOUS
  <2>2. x \in InfosTo(tid[n]) \cup {NoInfo}
    BY <1>5, <1>6, <2>1
  <2>3. info' = [info EXCEPT ![m][n] = x]
    BY <1>4, <2>1
  <2> QED
    BY <2>2, <2>3, InfoSetOk DEF IInv, LocalOk
<1>8. fsync' \in [Nodes -> BOOLEAN]
  <2>1. (fsync[m] \/ sync) \in BOOLEAN
    OBVIOUS
  <2> QED
    BY <1>4, <2>1 DEF IInv, LocalOk
<1>9. Append(data, Msg("BOTHDONE")) \in Seq(PacketsTo(tid[m]))
  <2>1. tid[m] \in Nat
    BY DEF IInv, LocalOk
  <2>2. TidMsg("DATA", tid[m]) \in PacketsTo(tid[m])
    <3>1. tid[m] \in 0 .. tid[m]
      BY <2>1
    <3> QED
      BY <2>1, <3>1, MsgsTyped
  <2>3. data \in Seq(PacketsTo(tid[m]))
    <3>1. <<TidMsg("DATA", tid[m])>> \in Seq(PacketsTo(tid[m]))
      BY <2>2
    <3>2. CASE tid[m] > i.tid
      BY <1>3, <3>1, <3>2, Zenon
    <3>3. CASE ~(tid[m] > i.tid)
      <4>1. data = << >>
        BY <1>3, <3>3, Zenon
      <4> QED
        BY <4>1
    <3> QED
      BY <3>2, <3>3
  <2>4. Msg("BOTHDONE") \in PacketsTo(tid[m])
    BY PlainTyped DEF PlainTypes
  <2> QED
    BY <2>3, <2>4
<1>10. ClOk(cl', tid)
  BY <1>4, <1>9, AnswerOk DEF IInv, LocalOk
<1> QED
  BY <1>4, <1>5, <1>7, <1>8, <1>10 DEF IInv, LocalOk

(* The end of a full sync. *)
LEMMA BothDoneStep ==
  ASSUME IInv, NEW n \in Nodes, NEW m \in Nodes, handleFreplBothDone(n, m)
  PROVE  IInv'
<1>1. ClOk(cl', tid)
  BY SvrPacket DEF handleFreplBothDone
<1> QED
  BY <1>1 DEF handleFreplBothDone, IInv, LocalOk

(* Data of m up to t, which m has: the node knows that of m, and has it itself
   if it is a slave. *)
LEMMA DataOk ==
  ASSUME IInv, NEW n \in Nodes, NEW m \in Nodes, NEW t \in 0 .. tid[m], handleData(n, m, t)
  PROVE  Below(tid, tid') /\ InfoOk(info', tid)
<1>1. tid \in [Nodes -> Nat] /\ InfoOk(info, tid)
  BY DEF IInv, LocalOk
<1>2. CASE info[n][m] = NoInfo
  BY <1>1, <1>2 DEF handleData, Below
<1>3. CASE info[n][m] # NoInfo
  <2>1. InfoOk([info EXCEPT ![n][m].tid = t], tid)
    BY <1>1, <1>3, InfoTidOk
  <2>2. InfoOk(info', tid)
    BY <1>3, <2>1 DEF handleData
  <2>3. Below(tid, tid')
    <3>1. t \in Nat
      BY <1>1
    <3>2. PICK u : u = IF t > tid[n] THEN t ELSE tid[n]
      OBVIOUS
    <3>3. tid' = [tid EXCEPT ![n] = u] \/ tid' = tid
      BY <1>3, <3>2 DEF handleData
    <3>4. u \in Nat /\ tid[n] <= u
      BY <1>1, <3>1, <3>2
    <3> QED
      BY <1>1, <3>3, <3>4 DEF Below
  <2> QED
    BY <2>2, <2>3
<1> QED
  BY <1>2, <1>3

(* An acknowledgement names the sender's own tid. *)
LEMMA AckTyped ==
  ASSUME NEW t \in [Nodes -> Nat], NEW n \in Nodes
  PROVE  TidMsg("ACK", t[n]) \in PacketsTo(t[n]) /\ <<TidMsg("ACK", t[n])>> \in Seq(PacketsTo(t[n]))
<1>1. t[n] \in Nat /\ t[n] \in 0 .. t[n]
  OBVIOUS
<1>2. TidMsg("ACK", t[n]) \in PacketsTo(t[n])
  BY <1>1, MsgsTyped
<1> QED
  BY <1>2

(* Data that arrives on an accepted connection. *)
LEMMA SvrDataStep ==
  ASSUME IInv, NEW n \in Nodes, NEW m \in Nodes, NEW k, svrHandleData(m, n, k)
  PROVE  IInv'
<1>1. FromClnt(m, n, k, "DATA") /\ sv' = PopSv(m, n, k) /\ UNCHANGED <<role, fsync>>
  BY DEF svrHandleData
<1>2. SvOk(sv', tid) /\ Head(sv[m][n][k].in).tid \in 0 .. tid[n]
  BY <1>1, ClntPacket
<1>3. Below(tid, tid') /\ InfoOk(info', tid)
  BY <1>2, DataOk DEF svrHandleData
<1>4. PICK t : t = tid'
  OBVIOUS
<1>5. t \in [Nodes -> Nat] /\ Below(tid, t)
  BY <1>3, <1>4 DEF Below
<1>6. SvOk(sv', t) /\ InfoOk(info', t)
  BY <1>2, <1>3, <1>5, SvGrows, InfoGrows
<1>7. ClOk(cl, t)
  BY <1>5, ClGrows DEF IInv
<1>8. ClOk(cl', t)
  <2>1. UNCHANGED cl \/ cl' = SvrSend(cl, m, n, k, <<TidMsg("ACK", t[m])>>)
    BY <1>4 DEF svrHandleData
  <2>2. <<TidMsg("ACK", t[m])>> \in Seq(PacketsTo(t[m]))
    BY <1>5, AckTyped
  <2> QED
    BY <1>5, <1>7, <2>1, <2>2, AnswerOk
<1> QED
  BY <1>1, <1>4, <1>5, <1>6, <1>8 DEF IInv, LocalOk

(* Data that arrives on a connection the node opened. *)
LEMMA ClntDataStep ==
  ASSUME IInv, NEW n \in Nodes, NEW m \in Nodes, clntHandleData(n, m)
  PROVE  IInv'
<1>1. FromSvr(n, m, "DATA") /\ UNCHANGED <<role, fsync>>
  BY DEF clntHandleData
<1>2. ClOk(PopCl(n, m), tid) /\ Head(cl[n][m].in).tid \in 0 .. tid[m]
  BY <1>1, SvrPacket
<1>3. Below(tid, tid') /\ InfoOk(info', tid)
  BY <1>2, DataOk DEF clntHandleData
<1>4. PICK t : t = tid'
  OBVIOUS
<1>5. t \in [Nodes -> Nat] /\ Below(tid, t)
  BY <1>3, <1>4 DEF Below
<1>6. SvOk(sv, t) /\ InfoOk(info', t) /\ ClOk(PopCl(n, m), t)
  BY <1>2, <1>3, <1>5, SvGrows, InfoGrows, ClGrows DEF IInv
<1>7. ClOk(cl', t) /\ SvOk(sv', t)
  <2>1. \/ cl' = PopCl(n, m) /\ UNCHANGED sv
        \/ SetNet(ClntSend(PopCl(n, m), sv, n, m, TidMsg("ACK", t[n])))
    BY <1>4 DEF clntHandleData
  <2>2. TidMsg("ACK", t[n]) \in PacketsTo(t[n])
    BY <1>5, AckTyped
  <2> QED
    BY <1>5, <1>6, <2>1, <2>2, SendOk DEF SetNet
<1> QED
  BY <1>1, <1>4, <1>5, <1>6, <1>7 DEF IInv, LocalOk

(* An acknowledgement is what the peer had when it sent it. *)
LEMMA AckOk ==
  ASSUME IInv, NEW n \in Nodes, NEW m \in Nodes, NEW t \in 0 .. tid[m], handleDataAck(n, m, t)
  PROVE  InfoOk(info', tid)
BY InfoTidOk DEF handleDataAck, IInv, LocalOk

(* An acknowledgement on an accepted connection. *)
LEMMA SvrAckStep ==
  ASSUME IInv, NEW n \in Nodes, NEW m \in Nodes, NEW k, svrHandleDataAck(m, n, k)
  PROVE  IInv'
<1>1. SvOk(sv', tid) /\ Head(sv[m][n][k].in).tid \in 0 .. tid[n]
  BY ClntPacket DEF svrHandleDataAck
<1>2. InfoOk(info', tid)
  BY <1>1, AckOk DEF svrHandleDataAck
<1> QED
  BY <1>1, <1>2 DEF svrHandleDataAck, IInv, LocalOk

(* An acknowledgement on a connection the node opened. *)
LEMMA ClntAckStep ==
  ASSUME IInv, NEW n \in Nodes, NEW m \in Nodes, clntHandleDataAck(n, m)
  PROVE  IInv'
<1>1. ClOk(cl', tid) /\ Head(cl[n][m].in).tid \in 0 .. tid[m]
  BY SvrPacket DEF clntHandleDataAck
<1>2. InfoOk(info', tid)
  BY <1>1, AckOk DEF clntHandleDataAck
<1> QED
  BY <1>1, <1>2 DEF clntHandleDataAck, IInv, LocalOk

(* The master offers its role to a peer. *)
LEMMA FlipReqStep ==
  ASSUME IInv, NEW n \in Nodes, NEW m \in Nodes, NEW k, clientHandleMasterFliping(m, n, k)
  PROVE  IInv'
<1>1. SvOk(sv', tid)
  BY ClntPacket DEF clientHandleMasterFliping
<1>2. <<Msg("FLIPACK")>> \in Seq(PacketsTo(tid[m]))
  BY PlainTyped DEF PlainTypes
<1>3. ClOk(cl', tid)
  BY <1>2, AnswerOk DEF clientHandleMasterFliping, IInv, LocalOk
<1> QED
  BY <1>1, <1>3 DEF clientHandleMasterFliping, IInv, LocalOk

(* The peer agrees to take it. *)
LEMMA FlipAckStep ==
  ASSUME IInv, NEW n \in Nodes, NEW m \in Nodes, masterHandleClientToFlip(n, m)
  PROVE  IInv'
<1>1. ClOk(PopCl(n, m), tid)
  BY SvrPacket DEF masterHandleClientToFlip
<1>2. TidMsg("FLIPDONE", tid[n]) \in PacketsTo(tid[n])
  <2>1. tid[n] \in Nat /\ tid[n] \in 0 .. tid[n]
    BY DEF IInv, LocalOk
  <2> QED
    BY <2>1, MsgsTyped
<1>3. ClOk(cl', tid) /\ SvOk(sv', tid)
  BY <1>1, <1>2, SendOk DEF masterHandleClientToFlip, SetNet, IInv, LocalOk
<1> QED
  BY <1>3 DEF masterHandleClientToFlip, IInv, LocalOk, Roles

(* The peer takes the role. *)
LEMMA TakeMstrStep ==
  ASSUME IInv, NEW n \in Nodes, NEW m \in Nodes, NEW k, clientHandleTakeMstr(m, n, k)
  PROVE  IInv'
<1>1. SvOk(PopSv(m, n, k), tid)
  BY ClntPacket DEF clientHandleTakeMstr
<1>2. Msg("NEWMASTER") \in PacketsTo(tid[m])
  BY PlainTyped DEF PlainTypes
<1>3. ClOk(cl', tid) /\ SvOk(sv', tid)
  BY <1>1, <1>2, BcastOk DEF clientHandleTakeMstr, SetNet, IInv, LocalOk
<1>4. role' \in [Nodes -> Roles] /\ InfoOk(info', tid)
  BY NewMasterOk DEF clientHandleTakeMstr, IInv
<1> QED
  BY <1>3, <1>4 DEF clientHandleTakeMstr, IInv, LocalOk

(* A peer announces that it was elected. *)
LEMMA NewElectedStep ==
  ASSUME IInv, NEW n \in Nodes, NEW m \in Nodes, NEW k, handleNewElectedMaster(m, n, k)
  PROVE  IInv'
<1>1. SvOk(sv', tid)
  BY ClntPacket DEF handleNewElectedMaster
<1>2. role' \in [Nodes -> Roles] /\ InfoOk(info', tid)
  BY NewMasterOk DEF handleNewElectedMaster, IInv
<1> QED
  BY <1>1, <1>2 DEF handleNewElectedMaster, IInv, LocalOk

(* A transaction: the new tid is announced once the node has it. *)
LEMMA CommitStep ==
  ASSUME IInv, NEW n \in Nodes, Commit(n)
  PROVE  IInv'
<1>1. PICK t : t = [tid EXCEPT ![n] = @ + 1]
  OBVIOUS
<1>2. tid' = t /\ UNCHANGED <<role, fsync, info>>
  BY <1>1 DEF Commit
<1>3. t \in [Nodes -> Nat] /\ t[n] = tid[n] + 1 /\ Below(tid, t)
  BY <1>1 DEF IInv, LocalOk, Below
<1>4. ClOk(cl, t) /\ SvOk(sv, t) /\ InfoOk(info, t)
  BY <1>3, ClGrows, SvGrows, InfoGrows DEF IInv
<1>5. TidMsg("DATA", t[n]) \in PacketsTo(t[n])
  <2>1. t[n] \in Nat /\ t[n] \in 0 .. t[n]
    BY <1>3
  <2> QED
    BY <2>1, MsgsTyped
<1>6. SetNet(BcastTo(cl, sv, n, TidMsg("DATA", t[n]), {"up"}))
  BY <1>3 DEF Commit
<1>7. ClOk(cl', t) /\ SvOk(sv', t)
  BY <1>3, <1>4, <1>5, <1>6, BcastOk DEF SetNet
<1> QED
  BY <1>2, <1>3, <1>4, <1>7 DEF IInv, LocalOk

-----------------------------------------------------------------------------
(* Every step of Next keeps the invariant. *)
LEMMA NextIInv == IInv /\ [Next]_vars => IInv'
<1> SUFFICES ASSUME IInv, [Next]_vars PROVE IInv'
  OBVIOUS
<1>1. CASE UNCHANGED vars
  BY <1>1 DEF vars, IInv, LocalOk
<1>2. ASSUME NEW n \in Nodes,
             onTimer1s(n) \/ recvRoleChange(n) \/ Commit(n) \/ Restart(n)
      PROVE  IInv'
  <2>1. CASE recvRoleChange(n)
    BY <2>1 DEF recvRoleChange, IInv, LocalOk
  <2> QED
    BY <1>2, <2>1, TimerStep, CommitStep, RestartStep
<1>3. ASSUME NEW n \in Nodes, NEW m \in Nodes,
             ReplListenerAccept(n, m) \/ HBTimeout(n, m) \/ sockClientPingSvrStatus(n, m)
      PROVE  IInv'
  BY <1>3, AcceptStep, HBTimeoutStep, PingStep
<1>4. ASSUME NEW n \in Nodes, NEW m \in Nodes, ClntConnEvent(n, m)
      PROVE  IInv'
  BY <1>4, JoinAckStep, BothDoneStep, ClntDataStep, ClntAckStep, FlipAckStep,
     ClientCloseStep
     DEF ClntConnEvent
<1>5. ASSUME NEW n \in Nodes, NEW m \in Nodes, NEW k, SvrConnEvent(n, m, k)
      PROVE  IInv'
  BY <1>5, JoinReqStep, PingStatusStep, SvrDataStep, SvrAckStep, FlipReqStep,
     TakeMstrStep, 
     NewElectedStep, ServerCloseStep DEF SvrConnEvent
<1> QED
  BY <1>1, <1>2, <1>3, <1>4, <1>5 DEF Next, Peers

(* What a node knows of a peer's tid, from pings, data and acknowledgements,
   is never ahead of the peer, with any number of nodes, priorities,
   connections that break and close late, and restarts: isAllClientSync never
   lets a master flip to a node that lacks what it is taken to have. *)
THEOREM KnownTidIsReached == Spec => []KnownTidReached
<1>1. IInv => KnownTidReached
  <2> SUFFICES ASSUME IInv, NEW n \in Nodes, NEW m \in Known(n)
               PROVE  info[n][m].tid <= tid[m]
    BY DEF KnownTidReached
  <2>1. m \in Nodes /\ info[n][m] \in InfosTo(tid[m])
    BY DEF Known, Peers, IInv, InfoOk
  <2>2. tid[m] \in Nat
    BY <2>1 DEF IInv, LocalOk
  <2> QED
    BY <2>1, <2>2 DEF InfosTo
<1> QED
  BY <1>1, InitIInv, NextIInv, PTL DEF Spec

-----------------------------------------------------------------------------
(* Settled roles stay, in a group of two nodes with different priorities. *)

TwoNodes == \E a, b \in Nodes : Nodes = {a, b} /\ Prio[a] < Prio[b]

(* The packets of a flip go to the node with the higher priority, which alone
   announces itself as a new master. *)
AnyPackets == UNION {PacketsTo(t) : t \in Nat}
Sends(n, m) ==
    {x \in AnyPackets : /\ x.type \in {"FLIPREQ", "FLIPDONE"} => Prio[n] < Prio[m]
                        /\ x.type = "NEWMASTER" => Prio[m] < Prio[n]}
Answers(n, m) == {x \in AnyPackets : x.type = "FLIPACK" => Prio[n] < Prio[m]}

ConnsFit(n, m) == [st : ConnStates, buf : Seq(Sends(n, m)), in : Seq(Answers(n, m))]
AcceptedFit(n, m) == [in : Seq(Sends(n, m)), open : BOOLEAN]
ClFit(c) == Grid(c) /\ \A n, m \in Nodes : c[n][m] \in ConnsFit(n, m)
SvFit(s) == Grid(s) /\ \A n, m \in Nodes : s[m][n] \in Seq(AcceptedFit(n, m))

(* The invariant of the flip, on top of IInv. *)
FlipInv == ClFit(cl) /\ SvFit(sv) /\ events \in Nat

(* What every node may send to every other. *)
LEMMA SendsAny ==
  ASSUME NEW n, NEW m
  PROVE  /\ Msg("JOINREQ") \in Sends(n, m)
         /\ \A t \in Nat : \A i \in InfosTo(t) : InfoMsg("PING", i) \in Sends(n, m)
         /\ \A t \in Nat : TidMsg("DATA", t) \in Sends(n, m) /\ TidMsg("ACK", t) \in Sends(n, m)
<1>1. 0 \in Nat /\ \A t \in Nat : t \in 0 .. t
  OBVIOUS
<1>2. \A t \in Nat : PacketsTo(t) \subseteq AnyPackets
  BY DEF AnyPackets
<1>3. Msg("JOINREQ") \in PacketsTo(0)
  BY <1>1, MsgsTyped DEF PlainTypes
<1>4. \A t \in Nat : \A i \in InfosTo(t) : InfoMsg("PING", i) \in PacketsTo(t)
  BY MsgsTyped
<1>5. \A t \in Nat : TidMsg("DATA", t) \in PacketsTo(t) /\ TidMsg("ACK", t) \in PacketsTo(t)
  BY <1>1, MsgsTyped
<1>6. Msg("JOINREQ").type = "JOINREQ"
  BY DEF Msg
<1>7. \A i : InfoMsg("PING", i).type = "PING"
  BY DEF InfoMsg
<1>8. \A t : TidMsg("DATA", t).type = "DATA" /\ TidMsg("ACK", t).type = "ACK"
  BY DEF TidMsg
<1> QED
  BY <1>1, <1>2, <1>3, <1>4, <1>5, <1>6, <1>7, <1>8 DEF Sends

(* What every node may answer. *)
LEMMA AnswersAny ==
  ASSUME NEW n, NEW m
  PROVE  /\ Msg("JOINACK") \in Answers(n, m) /\ Msg("BOTHDONE") \in Answers(n, m)
         /\ \A t \in Nat : TidMsg("DATA", t) \in Answers(n, m) /\ TidMsg("ACK", t) \in Answers(n, m)
<1>1. 0 \in Nat /\ \A t \in Nat : t \in 0 .. t
  OBVIOUS
<1>2. \A t \in Nat : PacketsTo(t) \subseteq AnyPackets
  BY DEF AnyPackets
<1>3. Msg("JOINACK") \in PacketsTo(0) /\ Msg("BOTHDONE") \in PacketsTo(0)
  BY <1>1, MsgsTyped DEF PlainTypes
<1>4. \A t \in Nat : TidMsg("DATA", t) \in PacketsTo(t) /\ TidMsg("ACK", t) \in PacketsTo(t)
  BY <1>1, MsgsTyped
<1>5. Msg("JOINACK").type = "JOINACK" /\ Msg("BOTHDONE").type = "BOTHDONE"
  BY DEF Msg
<1>6. \A t : TidMsg("DATA", t).type = "DATA" /\ TidMsg("ACK", t).type = "ACK"
  BY DEF TidMsg
<1> QED
  BY <1>1, <1>2, <1>3, <1>4, <1>5, <1>6 DEF Answers

(* The packets of a flip, from a node to one with a higher priority, and the
   announcement of the new master. *)
LEMMA FlipPackets ==
  ASSUME NEW n \in Nodes, NEW m \in Nodes, Prio[n] < Prio[m], NEW t \in Nat
  PROVE  /\ Msg("FLIPREQ") \in Sends(n, m) /\ TidMsg("FLIPDONE", t) \in Sends(n, m)
         /\ Msg("FLIPACK") \in Answers(n, m)
         /\ Msg("NEWMASTER") \in Sends(m, n)
<1>1. 0 \in Nat /\ t \in 0 .. t
  OBVIOUS
<1>2. PacketsTo(t) \subseteq AnyPackets /\ PacketsTo(0) \subseteq AnyPackets
  BY <1>1 DEF AnyPackets
<1>3. /\ Msg("FLIPREQ") \in PacketsTo(0) /\ Msg("FLIPACK") \in PacketsTo(0)
      /\ Msg("NEWMASTER") \in PacketsTo(0)
  BY <1>1, MsgsTyped DEF PlainTypes
<1>4. TidMsg("FLIPDONE", t) \in PacketsTo(t)
  BY <1>1, MsgsTyped
<1>5. /\ Msg("FLIPREQ").type = "FLIPREQ" /\ Msg("FLIPACK").type = "FLIPACK"
      /\ Msg("NEWMASTER").type = "NEWMASTER"
  BY DEF Msg
<1>6. TidMsg("FLIPDONE", t).type = "FLIPDONE"
  BY DEF TidMsg
<1> QED
  BY <1>2, <1>3, <1>4, <1>5, <1>6 DEF Sends, Answers

(* A packet that n may send to m reaches connections it may be on. *)
LEMMA AppendFits ==
  ASSUME NEW A, NEW r \in [in : Seq(A), open : BOOLEAN], NEW msg \in A
  PROVE  [r EXCEPT !.in = Append(@, msg)] \in [in : Seq(A), open : BOOLEAN]
OBVIOUS

(* So it stays a connection that fits. *)
LEMMA ReceivedFits ==
  ASSUME NEW A, NEW con, NEW conns \in Seq([in : Seq(A), open : BOOLEAN]), NEW msg \in A
  PROVE  Received(con, conns, msg) \in Seq([in : Seq(A), open : BOOLEAN])
<1> DEFINE R == [in : Seq(A), open : BOOLEAN]
<1>1. \A r \in R : [r EXCEPT !.in = Append(@, msg)] \in R
  BY AppendFits
<1> HIDE DEF R
<1>2. conns \in Seq(R)
  BY DEF R
<1>3. Received(con, conns, msg) \in Seq(R)
  BY <1>1, <1>2 DEF Received
<1> QED
  BY <1>3 DEF R

(* SockConn::sendPacket, of a packet that n may send to m. *)
LEMMA SendFits ==
  ASSUME NEW c, NEW s, ClFit(c), SvFit(s), NEW n \in Nodes, NEW m \in Nodes,
         NEW msg \in Sends(n, m)
  PROVE  ClFit(ClntSend(c, s, n, m, msg)[1]) /\ SvFit(ClntSend(c, s, n, m, msg)[2])
<1> DEFINE c2 == [c EXCEPT ![n][m] = Buffered(@, msg)]
           s2 == [s EXCEPT ![m][n] = Received(c[n][m], @, msg)]
<1>1. c[n][m] \in ConnsFit(n, m) /\ s[m][n] \in Seq(AcceptedFit(n, m))
  BY DEF ClFit, SvFit
<1>2. Buffered(c[n][m], msg) \in ConnsFit(n, m)
  BY <1>1, BufferedTyped DEF ConnsFit
<1>3. Received(c[n][m], s[m][n], msg) \in Seq(AcceptedFit(n, m))
  BY <1>1, ReceivedFits DEF AcceptedFit
<1>4. ClFit(c2)
  BY <1>2 DEF ClFit, Grid
<1>5. SvFit(s2)
  BY <1>3 DEF SvFit, Grid
<1> QED
  BY <1>4, <1>5 DEF ClntSend

(* A broadcast of a packet that n may send to all its peers. *)
LEMMA BcastFits ==
  ASSUME NEW c, NEW s, ClFit(c), SvFit(s), NEW n \in Nodes, NEW msg, NEW states,
         \A m \in Peers(n) : msg \in Sends(n, m)
  PROVE  ClFit(BcastTo(c, s, n, msg, states)[1]) /\ SvFit(BcastTo(c, s, n, msg, states)[2])
<1> DEFINE to == {m \in Peers(n) : c[n][m].st \in states}
           c2 == [c EXCEPT ![n] = [m \in Nodes |-> IF m \in to THEN Buffered(c[n][m], msg)
                                                   ELSE c[n][m]]]
           s2 == [m \in Nodes |-> IF m \in to
                                  THEN [s[m] EXCEPT ![n] = Received(c[n][m], @, msg)]
                                  ELSE s[m]]
<1>1. \A m \in Nodes : c[n][m] \in ConnsFit(n, m) /\ s[m][n] \in Seq(AcceptedFit(n, m))
  BY DEF ClFit, SvFit
<1>2. ASSUME NEW m \in to
      PROVE  /\ m \in Nodes
             /\ Buffered(c[n][m], msg) \in ConnsFit(n, m)
             /\ Received(c[n][m], s[m][n], msg) \in Seq(AcceptedFit(n, m))
  <2>1. m \in Nodes /\ msg \in Sends(n, m)
    BY <1>2 DEF Peers
  <2>2. Buffered(c[n][m], msg) \in ConnsFit(n, m)
    BY <1>1, <2>1, BufferedTyped DEF ConnsFit
  <2>3. Received(c[n][m], s[m][n], msg) \in Seq(AcceptedFit(n, m))
    BY <1>1, <2>1, ReceivedFits DEF AcceptedFit
  <2> QED
    BY <2>1, <2>2, <2>3
<1>3. ClFit(c2)
  <2> HIDE DEF to
  <2> QED BY <1>2 DEF ClFit, Grid
<1>4. SvFit(s2)
  <2> DEFINE row(m) == [s[m] EXCEPT ![n] = Received(c[n][m], @, msg)]
  <2>1. \A m \in Nodes : DOMAIN s[m] = Nodes /\ \A o \in Nodes : s[m][o] \in Seq(AcceptedFit(o, m))
    BY DEF SvFit, Grid
  <2>2. \A m \in Nodes : DOMAIN row(m) = Nodes
    BY <2>1
  <2>3. \A m, o \in Nodes : row(m)[o] = IF o = n THEN Received(c[n][m], s[m][n], msg) ELSE s[m][o]
    BY <2>1
  <2>4. \A m \in to, o \in Nodes : row(m)[o] \in Seq(AcceptedFit(o, m))
    <3> HIDE DEF to, row
    <3> QED BY <1>2, <2>1, <2>3
  <2>5. \A m \in Nodes : (m \in to /\ s2[m] = row(m)) \/ s2[m] = s[m]
    OBVIOUS
  <2>6. DOMAIN s2 = Nodes
    OBVIOUS
  <2> HIDE DEF row, to, s2
  <2> QED BY <2>1, <2>2, <2>4, <2>5, <2>6 DEF SvFit, Grid
<1>5. BcastTo(c, s, n, msg, states) = <<c2, s2>>
  BY DEF BcastTo
<1> HIDE DEF c2, s2
<1> QED
  BY <1>3, <1>4, <1>5

(* ServerConn k of m answers n. *)
LEMMA AnswerFits ==
  ASSUME NEW c, ClFit(c), NEW n \in Nodes, NEW m \in Nodes, NEW k,
         NEW msgs \in Seq(Answers(n, m))
  PROVE  ClFit(SvrSend(c, m, n, k, msgs))
<1>1. c[n][m] \in ConnsFit(n, m)
  BY DEF ClFit
<1>2. PICK q : q = c[n][m].in \o msgs
  OBVIOUS
<1>3. c[n][m].in \in Seq(Answers(n, m))
  BY <1>1 DEF ConnsFit
<1>4. q \in Seq(Answers(n, m))
  BY <1>2, <1>3
<1>5. [c[n][m] EXCEPT !.in = @ \o msgs] \in ConnsFit(n, m)
  BY <1>1, <1>2, <1>4 DEF ConnsFit
<1>6. ClFit([c EXCEPT ![n][m].in = @ \o msgs])
  BY <1>5 DEF ClFit, Grid
<1> QED
  BY <1>6 DEF SvrSend

(* A packet is taken off a ClientConn. *)
LEMMA PopClFits ==
  ASSUME ClFit(cl), NEW n \in Nodes, NEW m \in Nodes, cl[n][m].in # << >>
  PROVE  ClFit(PopCl(n, m)) /\ Head(cl[n][m].in) \in Answers(n, m)
<1>1. cl[n][m] \in ConnsFit(n, m)
  BY DEF ClFit
<1>2. cl[n][m].in \in Seq(Answers(n, m))
  BY <1>1 DEF ConnsFit
<1>3. Tail(cl[n][m].in) \in Seq(Answers(n, m)) /\ Head(cl[n][m].in) \in Answers(n, m)
  BY <1>2
<1>4. [cl[n][m] EXCEPT !.in = Tail(@)] \in ConnsFit(n, m)
  BY <1>1, <1>3 DEF ConnsFit
<1>5. ClFit(PopCl(n, m))
  BY <1>4 DEF ClFit, Grid, PopCl
<1> QED
  BY <1>3, <1>5

(* A packet is taken off a ServerConn. *)
LEMMA PopSvFits ==
  ASSUME SvFit(sv), NEW n \in Nodes, NEW m \in Nodes, NEW k \in DOMAIN sv[m][n],
         sv[m][n][k].in # << >>
  PROVE  SvFit(PopSv(m, n, k)) /\ Head(sv[m][n][k].in) \in Sends(n, m)
<1> DEFINE R == AcceptedFit(n, m)
<1>1. sv[m][n] \in Seq(R)
  BY DEF SvFit
<1>2. sv[m][n][k] \in R
  <2> HIDE DEF R
  <2> QED BY <1>1
<1>3. sv[m][n][k].in \in Seq(Sends(n, m))
  BY <1>2 DEF AcceptedFit
<1>4. Tail(sv[m][n][k].in) \in Seq(Sends(n, m)) /\ Head(sv[m][n][k].in) \in Sends(n, m)
  BY <1>3
<1>5. [sv[m][n][k] EXCEPT !.in = Tail(@)] \in R
  BY <1>2, <1>4 DEF AcceptedFit
<1>6. [sv[m][n] EXCEPT ![k].in = Tail(@)] \in Seq(R)
  <2> HIDE DEF R
  <2> QED BY <1>1, <1>5
<1>7. SvFit(PopSv(m, n, k))
  <2> HIDE DEF R
  <2>1. R = AcceptedFit(n, m)
    BY DEF R
  <2> QED BY <1>6, <2>1 DEF SvFit, Grid, PopSv
<1> QED
  BY <1>4, <1>7

(* The next packet of client n at server m, and of server m at client n. *)
LEMMA ClntPacketFits ==
  ASSUME FlipInv, NEW n \in Nodes, NEW m \in Nodes, NEW k, NEW type, FromClnt(m, n, k, type)
  PROVE  /\ SvFit(PopSv(m, n, k))
         /\ type \in {"FLIPREQ", "FLIPDONE"} => Prio[n] < Prio[m]
         /\ type = "NEWMASTER" => Prio[m] < Prio[n]
<1>1. k \in DOMAIN sv[m][n] /\ sv[m][n][k].in # << >> /\ Head(sv[m][n][k].in).type = type
  BY DEF FromClnt
<1>2. SvFit(PopSv(m, n, k)) /\ Head(sv[m][n][k].in) \in Sends(n, m)
  BY <1>1, PopSvFits DEF FlipInv
<1> QED
  BY <1>1, <1>2 DEF Sends

(* An agreement to take the role comes from a node with a higher priority. *)
LEMMA SvrPacketFits ==
  ASSUME FlipInv, NEW n \in Nodes, NEW m \in Nodes, NEW type, FromSvr(n, m, type)
  PROVE  ClFit(PopCl(n, m)) /\ (type = "FLIPACK" => Prio[n] < Prio[m])
<1>1. cl[n][m].in # << >> /\ Head(cl[n][m].in).type = type
  BY DEF FromSvr
<1>2. ClFit(PopCl(n, m)) /\ Head(cl[n][m].in) \in Answers(n, m)
  BY <1>1, PopClFits DEF FlipInv
<1> QED
  BY <1>1, <1>2 DEF Answers

(* A connection that is closed, or opened with the join request. *)
LEMMA NewConnFits ==
  ASSUME NEW n, NEW m
  PROVE  /\ Down \in ConnsFit(n, m)
         /\ [Down EXCEPT !.st = "up"] \in ConnsFit(n, m)
         /\ [Down EXCEPT !.st = "connecting", !.buf = <<Msg("JOINREQ")>>] \in ConnsFit(n, m)
<1>1. Msg("JOINREQ") \in Sends(n, m)
  BY SendsAny
<1>2. PICK b : b = <<Msg("JOINREQ")>>
  OBVIOUS
<1>3. b \in Seq(Sends(n, m))
  BY <1>1, <1>2
<1>4. << >> \in Seq(Sends(n, m)) /\ << >> \in Seq(Answers(n, m))
  OBVIOUS
<1>5. Down \in [st : ConnStates, buf : Seq(Sends(n, m)), in : Seq(Answers(n, m))]
  BY <1>4 DEF Down, ConnStates
<1>6. [Down EXCEPT !.st = "up"] \in ConnsFit(n, m)
  BY <1>5 DEF ConnsFit, ConnStates
<1>7. [Down EXCEPT !.st = "connecting", !.buf = b] \in ConnsFit(n, m)
  BY <1>3, <1>5 DEF ConnsFit, ConnStates
<1> QED
  BY <1>2, <1>5, <1>6, <1>7 DEF ConnsFit

(* connGroupLstnrs: the connections of a node that are down are opened. *)
LEMMA ConnectFits ==
  ASSUME FlipInv, NEW n \in Nodes
  PROVE  ClFit(connGroupLstnrs(n))
<1> DEFINE new == [Down EXCEPT !.st = "connecting", !.buf = <<Msg("JOINREQ")>>]
           row == [m \in Nodes |-> IF m # n /\ cl[n][m].st = "down" THEN new ELSE cl[n][m]]
<1>1. \A m : new \in ConnsFit(n, m)
  BY NewConnFits
<1>2. Grid(cl) /\ \A o, m \in Nodes : cl[o][m] \in ConnsFit(o, m)
  BY DEF FlipInv, ClFit
<1>3. \A m \in Nodes : row[m] \in ConnsFit(n, m)
  <2> HIDE DEF new
  <2> QED BY <1>1, <1>2
<1>4. connGroupLstnrs(n) = [cl EXCEPT ![n] = row]
  BY Zenon DEF connGroupLstnrs
<1>5. DOMAIN row = Nodes
  OBVIOUS
<1> HIDE DEF row
<1> QED
  BY <1>2, <1>3, <1>4, <1>5 DEF ClFit, Grid

(* In a group of two, whoever may elect itself knows the other, and whoever is
   given the role gets it from the other. *)
LEMMA OfTwo ==
  ASSUME TwoNodes, NEW n \in Nodes
  PROVE  /\ Prio[n] \in Nat
         /\ \A m \in Peers(n) : /\ m \in Nodes /\ Prio[m] \in Nat /\ Prio[m] # Prio[n]
                                /\ Peers(n) = {m}
         /\ IsFiniteSet(Known(n)) /\ IsFiniteSet(Peers(n)) /\ Peers(n) # {}
<1>1. PICK a, b \in Nodes : Nodes = {a, b} /\ Prio[a] < Prio[b]
  BY DEF TwoNodes
<1>2. \A m \in Nodes : Prio[m] \in Nat
  BY PrioAssumption
<1>3. a # b
  BY <1>1, <1>2
<1>4. Peers(n) \subseteq Nodes /\ Known(n) \subseteq Nodes /\ IsFiniteSet(Nodes)
  BY NodesAssumption DEF Peers, Known
<1>5. IsFiniteSet(Known(n)) /\ IsFiniteSet(Peers(n))
  BY <1>4, FS_Subset
<1>6. Peers(n) # {}
  BY <1>1, <1>3 DEF Peers
<1> QED
  BY <1>1, <1>2, <1>3, <1>5, <1>6 DEF Peers

(* A node that may elect itself, among all it knows, is the one with the higher
   priority. *)
LEMMA ElectedIsTop ==
  ASSUME TwoNodes, NEW n \in Nodes, isLegalClientBeMstr(n), Cardinality(Known(n)) > 0
  PROVE  \A m \in Peers(n) : Prio[m] < Prio[n]
<1>1. Known(n) # {}
  BY FS_EmptySet
<1>2. SUFFICES ASSUME NEW m \in Peers(n)
               PROVE  Prio[m] < Prio[n]
  OBVIOUS
<1>3. /\ Prio[n] \in Nat /\ Prio[m] \in Nat /\ Prio[m] # Prio[n]
      /\ Peers(n) = {m}
  BY <1>2, OfTwo
<1>4. m \in Known(n)
  BY <1>1, <1>3 DEF Known
<1>5. Prio[m] <= Prio[n]
  BY <1>4 DEF isLegalClientBeMstr
<1> QED
  BY <1>3, <1>5

(* monitorRoles: a flip is offered to a higher priority, and who elects itself
   has the highest. *)
LEMMA TimerFits ==
  ASSUME TwoNodes, FlipInv, NEW n \in Nodes, onTimer1s(n)
  PROVE  FlipInv'
<1> PICK c : c = connGroupLstnrs(n)
  OBVIOUS
<1>1. ClFit(c) /\ SvFit(sv) /\ events \in Nat
  BY ConnectFits DEF FlipInv
<1>2. monitorRoles(n, c) /\ UNCHANGED events
  BY DEF onTimer1s
<1>3. ASSUME NEW m \in Nodes, hasHighPriorityClient(n, m),
             SetNet(ClntSend(c, sv, n, m, Msg("FLIPREQ")))
      PROVE  FlipInv'
  <2>1. Prio[n] < Prio[m]
    <3>1. Prio[n] \in Nat /\ Prio[m] \in Nat /\ Prio[m] > Prio[n]
      BY <1>3, OfTwo DEF hasHighPriorityClient
    <3> QED
      BY <3>1
  <2>2. Msg("FLIPREQ") \in Sends(n, m)
    BY <2>1, FlipPackets
  <2> QED
    BY <1>1, <1>2, <1>3, <2>2, SendFits DEF SetNet, FlipInv
<1>4. ASSUME isLegalClientBeMstr(n), Cardinality(Known(n)) > 0,
             SetNet(BcastTo(c, sv, n, Msg("NEWMASTER"), {"up", "connecting"}))
      PROVE  FlipInv'
  <2>1. \A m \in Peers(n) : m \in Nodes /\ Prio[m] < Prio[n]
    BY <1>4, ElectedIsTop DEF Peers
  <2>2. \A m \in Peers(n) : Msg("NEWMASTER") \in Sends(n, m)
    BY <2>1, FlipPackets
  <2> QED
    BY <1>1, <1>2, <1>4, <2>2, BcastFits DEF SetNet, FlipInv
<1>5. CASE cl' = c /\ UNCHANGED sv
  BY <1>1, <1>2, <1>5 DEF FlipInv
<1>6. CASE offerFlip(n, c)
  BY <1>3, <1>5, <1>6 DEF offerFlip
<1>7. CASE inNum(n) = Cardinality(Known(n)) /\ inNum(n) > 0 /\ clientsElectMstr(n, c)
  BY <1>4, <1>5, <1>7 DEF clientsElectMstr
<1> QED
  BY <1>2, <1>5, <1>6, <1>7 DEF monitorRoles

(* Connections that are accepted. *)
LEMMA AcceptFits ==
  ASSUME FlipInv, NEW n \in Nodes, NEW m \in Nodes, ReplListenerAccept(n, m)
  PROVE  FlipInv'
<1> DEFINE R == AcceptedFit(n, m)
           new == [in |-> cl[n][m].buf, open |-> TRUE]
<1>1. cl[n][m] \in ConnsFit(n, m) /\ sv[m][n] \in Seq(R)
  BY DEF FlipInv, ClFit, SvFit
<1>2. new \in R
  BY <1>1 DEF ConnsFit, AcceptedFit
<1>3. Append(sv[m][n], new) \in Seq(R)
  <2> HIDE DEF R, new
  <2> QED BY <1>1, <1>2
<1>4. SvFit(sv')
  <2>1. sv' = [sv EXCEPT ![m][n] = Append(sv[m][n], new)]
    BY DEF ReplListenerAccept
  <2>2. R = AcceptedFit(n, m)
    OBVIOUS
  <2> HIDE DEF new, R
  <2> QED BY <1>3, <2>1, <2>2 DEF FlipInv, SvFit, Grid
<1>5. ClFit(cl')
  <2>1. [Down EXCEPT !.st = "up"] \in ConnsFit(n, m)
    BY NewConnFits
  <2> QED
    BY <2>1 DEF ReplListenerAccept, FlipInv, ClFit, Grid
<1> QED
  BY <1>4, <1>5 DEF ReplListenerAccept, FlipInv

(* A connection is cut: what is left of its packets is a part of them. *)
LEMMA TimeoutFits ==
  ASSUME FlipInv, NEW n \in Nodes, NEW m \in Nodes, HBTimeout(n, m)
  PROVE  FlipInv'
<1> DEFINE R == AcceptedFit(n, m)
<1>1. PICK conns : conns = sv[m][n]
  OBVIOUS
<1>2. conns \in Seq(R)
  BY <1>1 DEF FlipInv, SvFit
<1>3. ASSUME NEW l \in Nat
      PROVE  CutTo(conns, l) \in Seq(R)
  <2> DEFINE cut(k) == [in |-> SubSeq(conns[k].in, 1, IF l < Len(conns[k].in) THEN l
                                                      ELSE Len(conns[k].in)),
                        open |-> FALSE]
  <2>1. \A k \in DOMAIN conns : conns[k] \in R
    <3> HIDE DEF R
    <3> QED BY <1>2
  <2>2. ASSUME NEW k \in DOMAIN conns
        PROVE  cut(k) \in R
    <3>1. PICK q : q = conns[k].in
      OBVIOUS
    <3>2. q \in Seq(Sends(n, m))
      BY <2>1, <2>2, <3>1 DEF AcceptedFit
    <3>3. PICK i : i = IF l < Len(q) THEN l ELSE Len(q)
      OBVIOUS
    <3>4. i \in 0 .. Len(q)
      BY <3>2, <3>3
    <3>5. SubSeq(q, 1, i) \in Seq(Sends(n, m))
      BY <3>2, <3>4
    <3>6. cut(k) = [in |-> SubSeq(q, 1, i), open |-> FALSE]
      BY <3>1, <3>3
    <3> QED
      BY <3>5, <3>6 DEF AcceptedFit
  <2>3. CutTo(conns, l) = [k \in DOMAIN conns |-> IF conns[k].open THEN cut(k) ELSE conns[k]]
    BY DEF CutTo
  <2> HIDE DEF R, cut
  <2> QED BY <1>2, <2>1, <2>2, <2>3
<1>4. PICK l \in {0} \cup UNION {0 .. Len(sv[m][n][k].in) : k \in DOMAIN sv[m][n]} :
         sv' = [sv EXCEPT ![m][n] = CutTo(conns, l)]
  BY <1>1 DEF HBTimeout, Orphan
<1>5. l \in Nat
  BY <1>4
<1>6. CutTo(conns, l) \in Seq(AcceptedFit(n, m))
  BY <1>3, <1>5
<1>7. SvFit(sv')
  BY <1>4, <1>6 DEF FlipInv, SvFit, Grid
<1>8. ClFit(cl')
  <2>1. Down \in ConnsFit(n, m)
    BY NewConnFits
  <2> QED
    BY <2>1 DEF HBTimeout, FlipInv, ClFit, Grid
<1> QED
  BY <1>7, <1>8 DEF HBTimeout, FlipInv

(* Either end of a connection is closed. *)
LEMMA CloseFits ==
  ASSUME FlipInv, NEW n \in Nodes, NEW m \in Nodes, NEW k,
         ClientConnClose(n, m) \/ clearClntOnClose(m, n, k)
  PROVE  FlipInv'
<1>1. CASE ClientConnClose(n, m)
  <2>1. Down \in ConnsFit(n, m)
    BY NewConnFits
  <2>2. ClFit(cl')
    BY <1>1, <2>1 DEF ClientConnClose, FlipInv, ClFit, Grid
  <2> QED
    BY <1>1, <2>2 DEF ClientConnClose, FlipInv
<1>2. CASE clearClntOnClose(m, n, k)
  <2> DEFINE R == AcceptedFit(n, m)
  <2>1. PICK conns : conns = sv[m][n]
    OBVIOUS
  <2>2. conns \in Seq(R) /\ k \in DOMAIN conns
    BY <1>2, <2>1 DEF FlipInv, SvFit, clearClntOnClose
  <2>3. PICK rest : rest = SubSeq(conns, 1, k - 1) \o SubSeq(conns, k + 1, Len(conns))
    OBVIOUS
  <2>4. rest \in Seq(R)
    <3> HIDE DEF R
    <3>1. k \in 1 .. Len(conns)
      BY <2>2
    <3>2. SubSeq(conns, 1, k - 1) \in Seq(R)
      BY <2>2, <3>1
    <3>3. SubSeq(conns, k + 1, Len(conns)) \in Seq(R)
      BY <2>2, <3>1
    <3> QED
      BY <2>3, <3>2, <3>3
  <2>5. sv' = [sv EXCEPT ![m][n] = rest]
    BY <1>2, <2>1, <2>3 DEF clearClntOnClose
  <2>6. SvFit(sv')
    BY <2>4, <2>5 DEF FlipInv, SvFit, Grid
  <2> QED
    BY <1>2, <2>6 DEF clearClntOnClose, FlipInv
<1> QED
  BY <1>1, <1>2

(* A node starts again: what it has sent may still be read. *)
LEMMA RestartFits ==
  ASSUME FlipInv, NEW n \in Nodes, Restart(n)
  PROVE  FlipInv'
<1>1. ClFit(cl')
  <2> SUFFICES ASSUME NEW x \in Nodes, NEW y \in Nodes
               PROVE  cl'[x][y] \in ConnsFit(x, y)
    BY DEF Restart, ClFit, Grid
  <2>1. PICK con : con = cl[x][y]
    OBVIOUS
  <2>2. con \in ConnsFit(x, y) /\ Down \in ConnsFit(x, y)
    BY <2>1, NewConnFits DEF FlipInv, ClFit
  <2>3. [con EXCEPT !.st = "broken"] \in ConnsFit(x, y)
    BY <2>2 DEF ConnsFit, ConnStates
  <2>4. \/ cl'[x][y] = Down
        \/ cl'[x][y] = [con EXCEPT !.st = "broken"]
        \/ cl'[x][y] = con
    <3>1. cl'[x][y] = CASE x = n -> Down
                        [] y = n /\ cl[x][n].st = "up" -> [cl[x][n] EXCEPT !.st = "broken"]
                        [] y = n /\ cl[x][n].st = "connecting" -> Down
                        [] OTHER -> cl[x][y]
      BY DEF Restart
    <3>2. CASE x = n
      <4>1. cl'[x][y] = Down \/ y = n
        BY <3>1, <3>2
      <4> QED BY <3>1, <3>2, <4>1, <2>1
    <3>3. CASE x # n /\ y = n
      BY <3>1, <3>3, <2>1
    <3>4. CASE x # n /\ y # n
      BY <3>1, <3>4, <2>1
    <3> QED
      BY <3>2, <3>3, <3>4
  <2> QED
    BY <2>2, <2>3, <2>4
<1>2. SvFit(sv')
  <2> SUFFICES ASSUME NEW x \in Nodes, NEW y \in Nodes
               PROVE  sv'[x][y] \in Seq(AcceptedFit(y, x))
    BY DEF Restart, SvFit, Grid
  <2> DEFINE R == AcceptedFit(y, x)
             row(q) == [k \in DOMAIN q |-> [q[k] EXCEPT !.open = FALSE]]
  <2>1. PICK conns : conns = sv[x][y]
    OBVIOUS
  <2>2. conns \in Seq(R)
    BY <2>1 DEF FlipInv, SvFit
  <2>3. \A r \in R : [r EXCEPT !.open = FALSE] \in R
    BY DEF AcceptedFit
  <2>4. row(conns) \in Seq(R) /\ << >> \in Seq(R)
    <3> HIDE DEF R
    <3> QED BY <2>2, <2>3
  <2>5. sv'[x][y] = << >> \/ sv'[x][y] = row(conns) \/ sv'[x][y] = conns
    <3>1. sv'[x][y] = CASE x = n -> << >>
                        [] y = n -> row(sv[x][n])
                        [] OTHER -> sv[x][y]
      BY DEF Restart
    <3> HIDE DEF row
    <3>2. CASE x # n /\ y = n
      BY <3>1, <3>2, <2>1
    <3>3. CASE x = n /\ y # n
      BY <3>1, <3>3
    <3>4. CASE x = n /\ y = n
      BY <3>1, <3>4, <2>1
    <3>5. CASE x # n /\ y # n
      BY <3>1, <3>5, <2>1
    <3> QED
      BY <3>2, <3>3, <3>4, <3>5
  <2> HIDE DEF R, row
  <2>6. sv'[x][y] \in Seq(R)
    BY <2>2, <2>4, <2>5
  <2> QED
    BY <2>6 DEF R
<1> QED
  BY <1>1, <1>2 DEF Restart, FlipInv

(* A tid, or what a node reports of itself, may be told to any other. *)
LEMMA LocalFits ==
  ASSUME IInv, NEW n \in Nodes, NEW m \in Nodes
  PROVE  /\ tid[n] \in Nat
         /\ InfoMsg("PING", Local(n)) \in Sends(n, m)
<1>1. Local(n) \in InfosTo(tid[n]) /\ tid[n] \in Nat
  BY LocalTyped DEF IInv
<1> QED
  BY <1>1, SendsAny

(* Pings and joins. *)
LEMMA PingFits ==
  ASSUME IInv, FlipInv, NEW n \in Nodes, NEW m \in Nodes,
         sockClientPingSvrStatus(n, m) \/ clntHandleJoinSvrResp(n, m)
  PROVE  FlipInv'
<1>1. InfoMsg("PING", Local(n)) \in Sends(n, m)
  BY LocalFits
<1>2. CASE sockClientPingSvrStatus(n, m)
  BY <1>1, <1>2, SendFits DEF sockClientPingSvrStatus, SetNet, FlipInv
<1>3. CASE clntHandleJoinSvrResp(n, m)
  <2>1. ClFit(PopCl(n, m))
    BY <1>3, SvrPacketFits DEF clntHandleJoinSvrResp
  <2> QED
    BY <1>1, <1>3, <2>1, SendFits DEF clntHandleJoinSvrResp, SetNet, FlipInv
<1> QED
  BY <1>2, <1>3

(* The server's side of a join, and of a ping with its full sync. *)
LEMMA ServeFits ==
  ASSUME IInv, FlipInv, NEW n \in Nodes, NEW m \in Nodes, NEW k,
         svrHandleClntJoinReq(m, n, k) \/ svrHandleClientPingStatus(m, n, k)
  PROVE  FlipInv'
<1>1. Msg("JOINACK") \in Answers(n, m) /\ Msg("BOTHDONE") \in Answers(n, m)
  BY AnswersAny
<1>2. CASE svrHandleClntJoinReq(m, n, k)
  <2>1. SvFit(sv')
    BY <1>2, ClntPacketFits DEF svrHandleClntJoinReq
  <2>2. <<Msg("JOINACK")>> \in Seq(Answers(n, m))
    BY <1>1
  <2>3. ClFit(cl')
    BY <1>2, <2>2, AnswerFits DEF svrHandleClntJoinReq, FlipInv
  <2> QED
    BY <1>2, <2>1, <2>3 DEF svrHandleClntJoinReq, FlipInv
<1>3. CASE svrHandleClientPingStatus(m, n, k)
  <2>1. PICK i : i = Head(sv[m][n][k].in).info
    OBVIOUS
  <2>2. PICK data : data = IF tid[m] > i.tid THEN <<TidMsg("DATA", tid[m])>> ELSE << >>
    OBVIOUS
  <2>3. /\ FromClnt(m, n, k, "PING") /\ sv' = PopSv(m, n, k) /\ events' = events
        /\ cl' = SvrSend(cl, m, n, k, Append(data, Msg("BOTHDONE"))) \/ cl' = cl
    BY <1>3, <2>1, <2>2, Zenon DEF svrHandleClientPingStatus
  <2>4. SvFit(sv')
    BY <2>3, ClntPacketFits
  <2>5. data \in Seq(Answers(n, m))
    <3>1. TidMsg("DATA", tid[m]) \in Answers(n, m)
      BY LocalFits, AnswersAny
    <3>2. PICK d : d = <<TidMsg("DATA", tid[m])>>
      OBVIOUS
    <3>3. d \in Seq(Answers(n, m)) /\ << >> \in Seq(Answers(n, m))
      BY <3>1, <3>2
    <3> QED
      BY <2>2, <3>2, <3>3
  <2>6. Append(data, Msg("BOTHDONE")) \in Seq(Answers(n, m))
    BY <1>1, <2>5
  <2>7. ClFit(cl')
    BY <2>3, <2>6, AnswerFits DEF FlipInv
  <2> QED
    BY <2>3, <2>4, <2>7 DEF FlipInv
<1> QED
  BY <1>2, <1>3

(* The tid of a node is a number after data came, too. *)
LEMMA TidNext ==
  ASSUME IInv', NEW n \in Nodes
  PROVE  tid'[n] \in Nat
BY DEF IInv, LocalOk

(* Data and acknowledgements. *)
LEMMA DataFits ==
  ASSUME IInv', FlipInv, NEW n \in Nodes, NEW m \in Nodes, NEW k,
         \/ svrHandleData(m, n, k) \/ clntHandleData(n, m)
         \/ svrHandleDataAck(m, n, k) \/ clntHandleDataAck(n, m)
         \/ handleFreplBothDone(n, m)
  PROVE  FlipInv'
<1>1. CASE svrHandleData(m, n, k)
  <2>1. SvFit(sv')
    BY <1>1, ClntPacketFits DEF svrHandleData
  <2>2. PICK msg : msg = TidMsg("ACK", tid'[m])
    OBVIOUS
  <2>3. msg \in Answers(n, m)
    BY <2>2, TidNext, AnswersAny
  <2>4. <<msg>> \in Seq(Answers(n, m))
    BY <2>3
  <2>5. cl' = cl \/ cl' = SvrSend(cl, m, n, k, <<msg>>)
    BY <1>1, <2>2 DEF svrHandleData
  <2>6. ClFit(cl')
    BY <2>4, <2>5, AnswerFits DEF FlipInv
  <2> QED
    BY <1>1, <2>1, <2>6 DEF svrHandleData, FlipInv
<1>2. CASE clntHandleData(n, m)
  <2>1. ClFit(PopCl(n, m))
    BY <1>2, SvrPacketFits DEF clntHandleData
  <2>2. PICK msg : msg = TidMsg("ACK", tid'[n])
    OBVIOUS
  <2>3. msg \in Sends(n, m)
    BY <2>2, TidNext, SendsAny
  <2>4. \/ cl' = PopCl(n, m) /\ sv' = sv
        \/ SetNet(ClntSend(PopCl(n, m), sv, n, m, msg))
    BY <1>2, <2>2 DEF clntHandleData
  <2>5. ClFit(cl') /\ SvFit(sv')
    BY <2>1, <2>3, <2>4, SendFits DEF SetNet, FlipInv
  <2> QED
    BY <1>2, <2>5 DEF clntHandleData, FlipInv
<1>3. CASE svrHandleDataAck(m, n, k)
  <2>1. SvFit(sv')
    BY <1>3, ClntPacketFits DEF svrHandleDataAck
  <2> QED
    BY <1>3, <2>1 DEF svrHandleDataAck, FlipInv
<1>4. CASE clntHandleDataAck(n, m)
  <2>1. ClFit(cl')
    BY <1>4, SvrPacketFits DEF clntHandleDataAck
  <2> QED
    BY <1>4, <2>1 DEF clntHandleDataAck, FlipInv
<1>5. CASE handleFreplBothDone(n, m)
  <2>1. ClFit(cl')
    BY <1>5, SvrPacketFits DEF handleFreplBothDone
  <2> QED
    BY <1>5, <2>1 DEF handleFreplBothDone, FlipInv
<1> QED
  BY <1>1, <1>2, <1>3, <1>4, <1>5

(* The three packets of a flip, and the announcement that ends it. *)
LEMMA FlipFits ==
  ASSUME TwoNodes, IInv, FlipInv, NEW n \in Nodes, NEW m \in Peers(n), NEW k,
         \/ clientHandleMasterFliping(m, n, k) \/ masterHandleClientToFlip(n, m)
         \/ clientHandleTakeMstr(m, n, k) \/ handleNewElectedMaster(m, n, k)
  PROVE  FlipInv'
<1>0. m \in Nodes /\ Peers(m) = {n}
  <2>1. m \in Nodes /\ n \in Peers(m)
    BY DEF Peers
  <2> QED
    BY <2>1, OfTwo
<1>1. CASE clientHandleMasterFliping(m, n, k)
  <2>1. SvFit(sv') /\ Prio[n] < Prio[m]
    BY <1>0, <1>1, ClntPacketFits DEF clientHandleMasterFliping
  <2>2. Msg("FLIPACK") \in Answers(n, m)
    BY <1>0, <2>1, LocalFits, FlipPackets
  <2>3. <<Msg("FLIPACK")>> \in Seq(Answers(n, m))
    BY <2>2
  <2>4. ClFit(cl')
    BY <1>0, <1>1, <2>3, AnswerFits DEF clientHandleMasterFliping, FlipInv
  <2> QED
    BY <1>1, <2>1, <2>4 DEF clientHandleMasterFliping, FlipInv
<1>2. CASE masterHandleClientToFlip(n, m)
  <2>1. ClFit(PopCl(n, m)) /\ Prio[n] < Prio[m]
    BY <1>0, <1>2, SvrPacketFits DEF masterHandleClientToFlip
  <2>2. TidMsg("FLIPDONE", tid[n]) \in Sends(n, m)
    BY <1>0, <2>1, LocalFits, FlipPackets
  <2>3. ClFit(cl') /\ SvFit(sv')
    BY <1>0, <1>2, <2>1, <2>2, SendFits DEF masterHandleClientToFlip, SetNet, FlipInv
  <2> QED
    BY <1>2, <2>3 DEF masterHandleClientToFlip, FlipInv
<1>3. CASE clientHandleTakeMstr(m, n, k)
  <2>1. SvFit(PopSv(m, n, k)) /\ Prio[n] < Prio[m]
    BY <1>0, <1>3, ClntPacketFits DEF clientHandleTakeMstr
  <2>2. \A o \in Peers(m) : Msg("NEWMASTER") \in Sends(m, o)
    BY <1>0, <2>1, LocalFits, FlipPackets
  <2>3. ClFit(cl') /\ SvFit(sv')
    BY <1>0, <1>3, <2>1, <2>2, BcastFits DEF clientHandleTakeMstr, SetNet, FlipInv
  <2> QED
    BY <1>3, <2>3 DEF clientHandleTakeMstr, FlipInv
<1>4. CASE handleNewElectedMaster(m, n, k)
  <2>1. SvFit(sv')
    BY <1>0, <1>4, ClntPacketFits DEF handleNewElectedMaster
  <2> QED
    BY <1>4, <2>1 DEF handleNewElectedMaster, FlipInv
<1> QED
  BY <1>1, <1>2, <1>3, <1>4

(* A transaction is broadcast. *)
LEMMA CommitFits ==
  ASSUME IInv, FlipInv, NEW n \in Nodes, Commit(n)
  PROVE  FlipInv'
<1>1. tid[n] + 1 \in Nat
  BY DEF IInv, LocalOk
<1>2. \A m \in Peers(n) : TidMsg("DATA", tid[n] + 1) \in Sends(n, m)
  BY <1>1, SendsAny
<1>3. ClFit(cl') /\ SvFit(sv')
  BY <1>2, BcastFits DEF Commit, SetNet, FlipInv
<1> QED
  BY <1>3 DEF Commit, FlipInv

(* Every step keeps the packets of a flip where they belong. *)
LEMMA FlipInvStep ==
  ASSUME TwoNodes, IInv, IInv', FlipInv, [Next]_vars
  PROVE  FlipInv'
<1>1. CASE UNCHANGED vars
  BY <1>1 DEF vars, FlipInv
<1>2. ASSUME NEW n \in Nodes,
             onTimer1s(n) \/ recvRoleChange(n) \/ Commit(n) \/ Restart(n)
      PROVE  FlipInv'
  <2>1. CASE recvRoleChange(n)
    BY <2>1 DEF recvRoleChange, FlipInv
  <2> QED
    BY <1>2, <2>1, TimerFits, CommitFits, RestartFits
<1>3. ASSUME NEW n \in Nodes, NEW m \in Nodes,
             ReplListenerAccept(n, m) \/ HBTimeout(n, m) \/ sockClientPingSvrStatus(n, m)
      PROVE  FlipInv'
  BY <1>3, AcceptFits, TimeoutFits, PingFits
<1>4. ASSUME NEW n \in Nodes, NEW m \in Peers(n), ClntConnEvent(n, m)
      PROVE  FlipInv'
  <2>1. m \in Nodes
    BY DEF Peers
  <2> QED
    BY <1>4, <2>1, PingFits, DataFits, FlipFits, CloseFits DEF ClntConnEvent
<1>5. ASSUME NEW m \in Nodes, NEW n \in Peers(m), NEW k, SvrConnEvent(m, n, k)
      PROVE  FlipInv'
  <2>1. n \in Nodes /\ m \in Peers(n)
    BY DEF Peers
  <2> QED
    BY <1>5, <2>1, ServeFits, DataFits, FlipFits, CloseFits DEF SvrConnEvent
<1> QED
  BY <1>1, <1>2, <1>3, <1>4, <1>5 DEF Next, Peers

(* Nothing is under way in a group that starts. *)
LEMMA FlipInvInit == Init => FlipInv
<1> SUFFICES ASSUME Init PROVE FlipInv
  OBVIOUS
<1>1. \A n, m : Down \in ConnsFit(n, m)
  BY NewConnFits
<1>2. ClFit(cl)
  BY <1>1 DEF Init, ClFit, Grid
<1>3. SvFit(sv)
  BY DEF Init, SvFit, Grid
<1> QED
  BY <1>2, <1>3 DEF Init, FlipInv

-----------------------------------------------------------------------------
(* Where the roles are settled, they are those of the priorities. *)
LEMMA SettledRole ==
  ASSUME TwoNodes, IInv, Settled, NEW n \in Nodes, NEW m \in Peers(n)
  PROVE  /\ Prio[m] < Prio[n] => role[n] = "MASTER"
         /\ Prio[n] < Prio[m] => role[n] = "SLAVE"
<1>1. Peers(n) = {m} /\ Prio[n] \in Nat /\ Prio[m] \in Nat
  BY OfTwo
<1>2. role[n] = (IF Top(n) THEN "MASTER" ELSE "SLAVE")
  BY DEF Settled
<1>3. Top(n) <=> Prio[m] < Prio[n]
  BY <1>1 DEF Top
<1> QED
  BY <1>1, <1>2, <1>3

(* The role a node has already is no new one. *)
LEMMA SameRole ==
  ASSUME IInv, NEW n \in Nodes, NEW r, role[n] = r, role' = [role EXCEPT ![n] = r]
  PROVE  role' = role
BY DEF IInv, LocalOk

(* monitorRoles changes nothing then. *)
LEMMA TimerStays ==
  ASSUME TwoNodes, IInv, Settled, NEW n \in Nodes, onTimer1s(n)
  PROVE  role' = role
<1>1. PICK c : monitorRoles(n, c)
  BY DEF onTimer1s
<1>2. PICK m : m \in Peers(n)
  BY OfTwo
<1>3. /\ m \in Nodes /\ Peers(n) = {m} /\ Prio[n] \in Nat /\ Prio[m] \in Nat
      /\ Prio[m] # Prio[n] /\ IsFiniteSet(Peers(n))
  BY <1>2, OfTwo
<1>4. cl[n][m].st = "up" /\ m \in Known(n)
  BY <1>2 DEF Settled, Known
<1>5. outNum(n) # 0
  <2> DEFINE up == {o \in Peers(n) : isConnected(n, o)}
  <2>1. m \in up
    BY <1>2, <1>4 DEF isConnected
  <2>2. IsFiniteSet(up)
    BY <1>3, FS_Subset
  <2>3. Cardinality(up) # 0
    BY <2>1, <2>2, FS_EmptySet
  <2> QED
    BY <2>3 DEF outNum
<1>6. CASE role[n] = "MASTER" /\ offerFlip(n, c)
  <2>1. Prio[m] < Prio[n]
    BY <1>2, <1>3, <1>6, SettledRole
  <2>2. \A o \in Nodes : ~hasHighPriorityClient(n, o)
    BY <1>3, <2>1 DEF hasHighPriorityClient, Known
  <2> QED
    BY <1>6, <2>2 DEF offerFlip
<1>7. CASE role[n] # "MASTER" /\ clientsElectMstr(n, c)
  <2>1. Prio[n] < Prio[m]
    BY <1>2, <1>3, <1>7, SettledRole
  <2>2. ~isLegalClientBeMstr(n)
    BY <1>3, <1>4, <2>1 DEF isLegalClientBeMstr
  <2> QED
    BY <1>7, <2>2 DEF clientsElectMstr
<1> QED
  BY <1>1, <1>5, <1>6, <1>7 DEF monitorRoles

(* Nor does a packet of a flip, or the announcement of a master, that is still
   on its way. *)
LEMMA PacketStays ==
  ASSUME TwoNodes, IInv, FlipInv, Settled, NEW n \in Nodes, NEW m \in Peers(n), NEW k,
         \/ masterHandleClientToFlip(n, m)
         \/ clientHandleTakeMstr(m, n, k) \/ handleNewElectedMaster(m, n, k)
  PROVE  role' = role
<1>0. m \in Nodes /\ n \in Peers(m) /\ n # m
  BY DEF Peers
<1>1. CASE masterHandleClientToFlip(n, m)
  <2>1. Prio[n] < Prio[m] /\ role' = [role EXCEPT ![n] = "SLAVE"]
    BY <1>0, <1>1, SvrPacketFits DEF masterHandleClientToFlip
  <2> QED
    BY <2>1, SettledRole, SameRole
<1>2. CASE clientHandleTakeMstr(m, n, k)
  <2>1. Prio[n] < Prio[m] /\ role' = [role EXCEPT ![m] = "MASTER"]
    BY <1>0, <1>2, ClntPacketFits DEF clientHandleTakeMstr, setNewMstrClearOthers
  <2>2. role[m] = "MASTER"
    BY <1>0, <2>1, SettledRole
  <2> QED
    BY <1>0, <2>1, <2>2, SameRole
<1>3. CASE handleNewElectedMaster(m, n, k)
  <2>1. Prio[m] < Prio[n] /\ role' = [role EXCEPT ![m] = "SLAVE"]
    BY <1>0, <1>3, ClntPacketFits DEF handleNewElectedMaster, setNewMstrClearOthers
  <2>2. role[m] = "SLAVE"
    BY <1>0, <2>1, SettledRole
  <2> QED
    BY <1>0, <2>1, <2>2, SameRole
<1> QED
  BY <1>1, <1>2, <1>3

(* A step without a transaction or a fault keeps settled roles. *)
LEMMA StaysStep ==
  ASSUME TwoNodes, IInv, FlipInv, [Next]_vars, Settled, events' = events
  PROVE  role' = role
<1>1. CASE UNCHANGED vars
  BY <1>1 DEF vars
<1>2. ASSUME NEW n \in Nodes,
             onTimer1s(n) \/ recvRoleChange(n) \/ Commit(n) \/ Restart(n)
      PROVE  role' = role
  <2>1. CASE recvRoleChange(n)
    BY <2>1 DEF recvRoleChange
  <2>2. CASE Commit(n) \/ Restart(n)
    BY <2>2 DEF Commit, Restart, FlipInv
  <2> QED
    BY <1>2, <2>1, <2>2, TimerStays
<1>3. ASSUME NEW n \in Nodes, NEW m \in Nodes,
             ReplListenerAccept(n, m) \/ HBTimeout(n, m) \/ sockClientPingSvrStatus(n, m)
      PROVE  role' = role
  BY <1>3 DEF ReplListenerAccept, HBTimeout, sockClientPingSvrStatus
<1>4. ASSUME NEW n \in Nodes, NEW m \in Peers(n), ClntConnEvent(n, m)
      PROVE  role' = role
  <2>1. CASE masterHandleClientToFlip(n, m)
    BY <2>1, PacketStays
  <2> QED
    BY <1>4, <2>1 DEF ClntConnEvent, clntHandleJoinSvrResp, handleFreplBothDone,
       clntHandleData, clntHandleDataAck, ClientConnClose
<1>5. ASSUME NEW m \in Nodes, NEW n \in Peers(m), NEW k, SvrConnEvent(m, n, k)
      PROVE  role' = role
  <2>1. n \in Nodes /\ m \in Peers(n)
    BY DEF Peers
  <2>2. CASE clientHandleTakeMstr(m, n, k) \/ handleNewElectedMaster(m, n, k)
    BY <2>1, <2>2, PacketStays
  <2>3. CASE svrHandleClientPingStatus(m, n, k)
    BY <2>3, Zenon DEF svrHandleClientPingStatus
  <2> QED
    BY <1>5, <2>2, <2>3 DEF SvrConnEvent, svrHandleClntJoinReq,
       svrHandleData, svrHandleDataAck, clientHandleMasterFliping, clearClntOnClose
<1> QED
  BY <1>1, <1>2, <1>3, <1>4, <1>5, Zenon DEF Next, Peers

(* In a group of two nodes with different priorities, through any number of
   transactions, broken connections, late closes and restarts: once the node
   with the higher priority is the master and both are connected and known,
   nothing that is still on its way from before (a request to flip, its answer,
   the announcement of a master) takes the role away.  With three nodes a flip
   between two of them can be under way while the third settles as master. *)
THEOREM SettledRolesStay ==
  ASSUME TwoNodes
  PROVE  Spec => SettledStays
<1>1. Init => FlipInv
  BY FlipInvInit
<1>2. IInv /\ IInv' /\ FlipInv /\ [Next]_vars => FlipInv'
  BY FlipInvStep
<1>3. IInv /\ FlipInv /\ [Next]_vars => [Settled /\ events' = events => role' = role]_vars
  BY StaysStep
<1> QED
  BY <1>1, <1>2, <1>3, InitIInv, NextIInv, PTL DEF Spec, SettledStays
=============================================================================
