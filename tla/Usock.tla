------------------------------- MODULE Usock -------------------------------
(***************************************************************************)
(* The UNIX sockets between repld and the cached workers: role and         *)
(* connection updates go down, and so do the descriptors of connections    *)
(* other nodes open to a worker's slice.  A message is a type and a body;  *)
(* the worker reads one of them for each event.                            *)
(***************************************************************************)
EXTENDS Integers, SequencesExt, TLC

CONSTANTS
    CachedProcCnt,   \* getCachedProcCnt(); the guard starts one more worker
    UsockSlices,     \* the slices
    UsockRoom,       \* units (a type, a body) a socket buffers
    MaxUsockMsgs,    \* bound of the model: messages repld sends
    MaxUsockExits    \* bound of the model: workers that exit

VARIABLES
    clnt,       \* UsockClnt of each worker
    svr,        \* UsocklListener::m_svrMap: the UsockSvr of each worker
    down,       \* what is on its way to each worker
    repld,      \* repld: the masters it last decided on (role), the table of them all
                \* UsockConn objects share (data, m_pRoleData), whether others connect
    usockUb     \* an object was used after it was freed; nothing is said of what follows
usockVars == <<clnt, svr, down, repld, usockUb>>

ProcIds == 1 .. CachedProcCnt + 1
MsgKinds == {"CONN", "ROLE", "FD"}
Type(kind) == [unit |-> "type", kind |-> kind, val |-> 0]
Body(kind, val) == [unit |-> "body", kind |-> kind, val |-> val]

(* A role is 0 (this node is master) or the node that is.  A new RoleTracker *)
(* is filled with 0xFF, which reads as the address 255.255.255.255:65535.    *)
Dirty == 255
Roles == {0, 1}
NewTracker == [s \in UsockSlices |-> Dirty]
NullTracker == [s \in {} |-> 0]

NewClnt == [st |-> "out", proto |-> "NONE", role |-> NewTracker,
            dst |-> [s \in UsockSlices |-> 0], notify |-> 0, fd |-> 0,
            told |-> {}, cut |-> FALSE, last |-> 0]

InitUsock ==
    /\ clnt = [p \in ProcIds |-> NewClnt] /\ svr = [p \in ProcIds |-> "none"]
    /\ down = [p \in ProcIds |-> << >>]
    /\ repld = [role |-> [s \in UsockSlices |-> 0], data |-> NullTracker,
                conn |-> 0, sent |-> 0, exits |-> 0]
    /\ usockUb = FALSE

-----------------------------------------------------------------------------
(* Workers come and go. *)

(* UsockClnt::connectTo, from a path that ends in the process number. *)
usockConnect(p) ==
    /\ clnt[p].st = "out"
    /\ clnt' = [clnt EXCEPT ![p] = [NewClnt EXCEPT !.st = "connecting"]]
    /\ UNCHANGED <<svr, down, repld, usockUb>>

(* handleEvents of the listener: a number above the count is refused; an    *)
(* earlier UsockSvr of the number is deleted, also when it deleted itself   *)
(* before or is still known to the event loop.  The constructor puts a new  *)
(* RoleTracker in the place of the one all share.                           *)
usockAccept(p) ==
    /\ clnt[p].st = "connecting"
    /\ \/ /\ p > CachedProcCnt
          /\ clnt' = [clnt EXCEPT ![p].st = "refused"]
          /\ UNCHANGED <<svr, down, repld, usockUb>>
       \/ /\ p <= CachedProcCnt
          /\ usockUb' = (svr[p] # "none")
          /\ svr' = [svr EXCEPT ![p] = "open"] /\ down' = [down EXCEPT ![p] = << >>]
          /\ clnt' = [clnt EXCEPT ![p].st = "connected"]
          /\ repld' = [repld EXCEPT !.data = NewTracker]

workerExits(p) ==
    /\ clnt[p].st # "out" /\ repld.exits < MaxUsockExits
    /\ clnt' = [clnt EXCEPT ![p] = NewClnt] /\ down' = [down EXCEPT ![p] = << >>]
    /\ repld' = [repld EXCEPT !.exits = @ + 1]
    /\ UNCHANGED <<svr, usockUb>>

(* UsockConn::handleEvents at the hang-up: closed and deleted, and with it  *)
(* the RoleTracker all share, while the map keeps the pointer.              *)
usockHup(p) ==
    /\ svr[p] = "open" /\ clnt[p].st # "connected"
    /\ svr' = [svr EXCEPT ![p] = "freed"]
    /\ repld' = [repld EXCEPT !.data = NullTracker]
    /\ UNCHANGED <<clnt, down, usockUb>>

-----------------------------------------------------------------------------
(* repld sends. *)

CanSend == repld.sent < MaxUsockMsgs

(* SendEx: what the buffer has room for is sent, the rest is dropped. *)
Sent(p, units) ==
    IF Len(down[p]) + Len(units) <= UsockRoom THEN units
    ELSE SubSeq(units, 1, UsockRoom - Len(down[p]))
SendToAll(units) ==
    /\ usockUb' = \E p \in ProcIds : svr[p] = "freed"
    /\ down' = [p \in ProcIds |->
                   IF svr[p] = "open" /\ clnt[p].st = "connected"
                   THEN down[p] \o Sent(p, units) ELSE down[p]]
    /\ clnt' = [p \in ProcIds |->
                   IF svr[p] = "open" /\ clnt[p].st = "connected"
                      /\ Len(down[p]) + Len(units) > UsockRoom
                   THEN [clnt[p] EXCEPT !.cut = TRUE] ELSE clnt[p]]

(* The roles of some slices are set (setRoleAddr), then all of the table is *)
(* sent.  Without a table, as before any worker has connected, repld dies.  *)
repldNotifyRole(roles) ==
    /\ CanSend
    /\ repld' = [repld EXCEPT !.role = roles @@ @, !.sent = @ + 1,
                              !.data = IF @ = NullTracker THEN @ ELSE roles @@ @]
    /\ IF repld.data = NullTracker THEN usockUb' = TRUE /\ UNCHANGED <<down, clnt>>
       ELSE SendToAll(<<Type("ROLE"), Body("ROLE", repld'.data)>>)
    /\ UNCHANGED svr

repldNotifyConn(conn) ==
    /\ CanSend /\ SendToAll(<<Type("CONN"), Body("CONN", conn)>>)
    /\ repld' = [repld EXCEPT !.conn = conn, !.sent = @ + 1]
    /\ UNCHANGED svr

(* Wrong variant: the descriptor goes to the first worker of the map. *)
forwardFdFirst(p, fd) ==
    /\ svr[1] = "open" /\ clnt[1].st = "connected" /\ clnt[p].st = "connected"
    /\ down' = [down EXCEPT ![1] = @ \o Sent(1, <<Type("FD"), Body("FD", fd)>>)]
    /\ clnt' = [clnt EXCEPT ![p].last = fd,
                            ![1].cut = @ \/ Len(down[1]) + 2 > UsockRoom]
    /\ UNCHANGED usockUb

(* FdPassLstnr::handleEvents, forwardFd, sendPassingFd: the type with       *)
(* SendEx, then the body with the descriptor.                               *)
forwardFd(p, fd) ==
    \/ /\ svr[p] = "open" /\ clnt[p].st = "connected"
       /\ down' = [down EXCEPT ![p] = @ \o Sent(p, <<Type("FD"), Body("FD", fd)>>)]
       /\ clnt' = [clnt EXCEPT ![p].last = fd,
                               ![p].cut = @ \/ Len(down[p]) + 2 > UsockRoom]
       /\ UNCHANGED usockUb
    \/ /\ svr[p] = "none" \/ (svr[p] = "open" /\ clnt[p].st # "connected")
       /\ UNCHANGED <<down, clnt, usockUb>>
    \/ /\ svr[p] = "freed" /\ usockUb' = TRUE /\ UNCHANGED <<down, clnt>>

FdPass(p) ==
    /\ CanSend /\ forwardFd(p, repld.sent + 1)
    /\ repld' = [repld EXCEPT !.sent = @ + 1] /\ UNCHANGED svr

-----------------------------------------------------------------------------
(* The worker reads. *)

(* recvRoleChange: setSliceDst for a slice whose master has changed. *)
recvRoleChange(c, u) ==
    [c EXCEPT !.role = u.val, !.told = @ \cup {"ROLE"},
              !.dst = [s \in UsockSlices |-> IF u.val[s] # c.role[s] THEN u.val[s] ELSE @[s]]]
recvConnChange(c, u) == [c EXCEPT !.notify = u.val, !.told = @ \cup {"CONN"}]

(* acceptRepldFwFd: replaces the connection of the slice. *)
acceptRepldFwFd(c, fd) == [c EXCEPT !.fd = fd]

(* FDPass::read_fd: 0 when no descriptor came with what was read. *)
read_fd(u) == IF u.unit = "body" /\ u.kind = "FD" THEN u.val ELSE 0
recvPassingFd(c, u) == IF read_fd(u) > 0 THEN acceptRepldFwFd(c, read_fd(u)) ELSE c

Received(c, u) ==
    CASE c.proto = "ROLE" -> recvRoleChange(c, u)
      [] c.proto = "CONN" -> recvConnChange(c, u)
      [] c.proto = "FD" -> recvPassingFd(c, u)
      [] OTHER -> c

(* UsockClnt::onRead: a type it does not know is never read past. *)
usockRead(p) ==
    /\ clnt[p].st = "connected" /\ down[p] # << >> /\ clnt[p].proto \in MsgKinds \cup {"NONE"}
    /\ LET u == Head(down[p]) IN
       clnt' = [clnt EXCEPT ![p] =
                   IF @.proto = "NONE"
                   THEN [@ EXCEPT !.proto = IF u.unit = "type" THEN u.kind ELSE "junk"]
                   ELSE [Received(@, u) EXCEPT !.proto = "NONE"]]
    /\ down' = [down EXCEPT ![p] = Tail(@)]
    /\ UNCHANGED <<svr, repld, usockUb>>

NextUsock ==
    /\ ~usockUb
    /\ \/ \E p \in ProcIds : usockConnect(p) \/ usockAccept(p) \/ workerExits(p)
                                \/ usockHup(p) \/ FdPass(p) \/ usockRead(p)
       \/ \E S \in SUBSET UsockSlices \ {{}}, v \in Roles : repldNotifyRole([s \in S |-> v])
       \/ \E v \in {0, 1} : repldNotifyConn(v)

-----------------------------------------------------------------------------
Whole(p) == clnt[p].st = "connected" /\ svr[p] = "open" /\ ~clnt[p].cut /\ ~usockUb
Drained(p) == down[p] = << >> /\ clnt[p].proto = "NONE"

(* As long as no message was cut short by a full socket, the worker reads   *)
(* types where types are and bodies where bodies are.                       *)
Framed ==
    \A p \in ProcIds : Whole(p) /\ down[p] # << >> =>
       Head(down[p]).unit = (IF clnt[p].proto = "NONE" THEN "type" ELSE "body")

(* A worker that has read everything forwards each slice to the master      *)
(* repld has decided on and knows whether anybody wants its changes, if it  *)
(* has been told since it connected: repld does not tell a worker when it   *)
(* connects.  A slice is excepted while the table of repld does not have    *)
(* it: each accept of a worker replaces the table by one filled with 0xFF,  *)
(* and the next announcement, of any slice, sends that address for the rest.*)
Forgotten(s) == repld.data = NullTracker \/ repld.data[s] = Dirty
ToldAgree ==
    \A p \in ProcIds : Whole(p) /\ Drained(p) =>
       /\ "ROLE" \in clnt[p].told =>
              \A s \in UsockSlices :
                 \/ clnt[p].dst[s] = repld.role[s]
                 \/ clnt[p].role[s] = Dirty /\ Forgotten(s)
       /\ "CONN" \in clnt[p].told => clnt[p].notify = repld.conn

(* A descriptor reaches the worker it was meant for, and the last one       *)
(* replaces the others.                                                     *)
FdReached == \A p \in ProcIds : Whole(p) /\ Drained(p) => clnt[p].fd = clnt[p].last
=============================================================================
