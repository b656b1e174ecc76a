------------------------------- MODULE MCNet -------------------------------
(* The parts of the event loop, the connections and the generic replication   *)
(* library side by side: a behaviour is one of them, chosen at the start.     *)
EXTENDS Epoll, PollfdReactor, McConn, ReplLink, Usock,
        ReplNodes, ReplWire, ReplAudit, HttpFetch

MCNoByte == [pack |-> 0, at |-> 0]
MCNodeOrder == <<"p1", "p2", "s">>

VARIABLE part     \* the part this behaviour is of

Off == "off"      \* the variables of the other parts

Init ==
    \E p \in {"epoll", "poll", "evtcb", "conn", "link", "usock", "nodes", "wire", "audit", "fetch"} :
       /\ part = p
       /\ IF p = "epoll" THEN InitEpoll ELSE ep = Off
       /\ IF p = "poll" THEN InitPoll ELSE pf = Off
       /\ IF p = "evtcb" THEN InitCb ELSE cq = Off /\ pass = Off /\ cbHist = Off
       /\ IF p = "conn" THEN InitCn
          ELSE /\ cn = Off /\ cnSrc = Off /\ cnGot = Off
               /\ cnDone = Off /\ probe = Off
       /\ IF p = "link" THEN InitLink ELSE rl = Off
       /\ IF p = "usock" THEN InitUsock
          ELSE /\ clnt = Off /\ svr = Off /\ down = Off
               /\ repld = Off /\ usockUb = Off
       /\ IF p = "nodes" THEN InitRn ELSE rn = Off /\ infos = Off /\ rnHist = Off
       /\ IF p = "wire" THEN InitWire ELSE rw = Off
       /\ IF p = "audit" THEN InitAudit
          ELSE /\ lru = Off /\ peerLru = Off /\ clock = Off
               /\ auditor = Off /\ track = Off /\ bulk = Off
       /\ IF p = "fetch" THEN InitFetch
          ELSE /\ fetch = Off /\ wire = Off
               /\ fetchEnd = Off

Others(p) ==
    /\ UNCHANGED part
    /\ IF p = "epoll" THEN TRUE ELSE UNCHANGED epollVars
    /\ IF p = "poll" THEN TRUE ELSE UNCHANGED pollVars
    /\ IF p = "evtcb" THEN TRUE ELSE UNCHANGED cbVars
    /\ IF p = "conn" THEN TRUE ELSE UNCHANGED cnVars
    /\ IF p = "link" THEN TRUE ELSE UNCHANGED linkVars
    /\ IF p = "usock" THEN TRUE ELSE UNCHANGED usockVars
    /\ IF p = "nodes" THEN TRUE ELSE UNCHANGED rnVars
    /\ IF p = "wire" THEN TRUE ELSE UNCHANGED wireVars
    /\ IF p = "audit" THEN TRUE ELSE UNCHANGED auditVars
    /\ IF p = "fetch" THEN TRUE ELSE UNCHANGED fetchVars

EpollStep == part = "epoll" /\ NextEpoll /\ Others("epoll")
PollfdReactorStep == part = "poll" /\ NextPoll /\ Others("poll")
EvtcbQueStep == part = "evtcb" /\ NextCb /\ Others("evtcb")
McConnStep == part = "conn" /\ NextCn /\ Others("conn")
ReplLinkStep == part = "link" /\ NextLink /\ Others("link")
UsockStep == part = "usock" /\ NextUsock /\ Others("usock")
ReplNodesStep == part = "nodes" /\ NextRn /\ Others("nodes")
ReplWireStep == part = "wire" /\ NextWire /\ Others("wire")
ReplAuditStep == part = "audit" /\ NextAudit /\ Others("audit")
HttpFetchStep == part = "fetch" /\ NextFetch /\ Others("fetch")

Next ==
    \/ EpollStep \/ PollfdReactorStep \/ EvtcbQueStep \/ McConnStep
    \/ ReplLinkStep \/ UsockStep \/ ReplNodesStep \/ ReplWireStep
    \/ ReplAuditStep \/ HttpFetchStep

allVars == <<part, epollVars, pollVars, cbVars, cnVars, linkVars,
             usockVars, rnVars, wireVars, auditVars, fetchVars>>
Spec == Init /\ [][Next]_allVars

-----------------------------------------------------------------------------
(* A descriptor, or a slot of the poll array, is used again while events of   *)
(* the same round are still to be handed out: epoll::processEvents and        *)
(* PollfdReactor::processEvents call a handler only for the registration the  *)
(* event was reported for, while it sleeps the kernel watches what the        *)
(* reactors asked for last, and the free slots of the array stay linked.      *)
EventsReachOwner ==
    /\ part = "epoll" => EventsToOwner /\ InterestApplied
    /\ part = "poll" => SlotsSound /\ PollToOwner

(* EvtcbQue::run calls every callback that was queued when it began, though   *)
(* callbacks, sessions and other threads schedule and remove others meanwhile;*)
(* the list and the heads of the sessions refer to queued nodes only, and no  *)
(* node is free and queued.  This holds until a thread takes a node from the  *)
(* pool between the read and the write of EvtcbQue::recycle, which does not   *)
(* hold the lock: then the node taken may be handed out a second time.        *)
CallbacksRun ==
    part = "evtcb" => HeadQueued /\ PassComplete /\ (cbHist.raced \/ CbListSound)

(* A client connection: however reads and writes are cut up, MemcacheConn     *)
(* executes each command once, in order and when all of it has arrived, and   *)
(* the answers reach the client whole and in the same order; an answer in the *)
(* buffer has its write interest on; a name is looked up exactly.             *)
ClientServed ==
    part = "conn" => AnswersInOrder /\ WriteKept /\ CmdsWhole /\ TableExact

(* A replication link: through ring buffers that wrap and grow, cut reads and *)
(* writes and a new socket for the same object, packets arrive in order, none *)
(* damaged, and bytes left to send wait for a write event; and what a node    *)
(* reads out of a packet is what the other wrote into it: status, addresses,  *)
(* counts, entries, batches and lists of times.                               *)
LinkSound ==
    /\ part = "link" => PacketsInOrder /\ HeadersSound /\ WriteWatched
    /\ part = "wire" => (StatusExact /\ AddrAnnounced /\ CountsExact /\ PackedFits
                         /\ BatchFits /\ ListsExact /\ NamesCompared)

(* repld and its workers, which read messages whole however late they connect *)
(* or exit: a worker that has read all that repld sent, if it sent any since  *)
(* the worker connected, agrees with it on connections and on the masters of  *)
(* the slices set since the last worker connected (recvRoleChange; UsockConn  *)
(* forgets the others), and descriptors reach the worker they were accepted   *)
(* for.                                                                       *)
WorkersTold ==
    part = "usock" => Framed /\ ToldAgree /\ FdReached

(* What a node knows of its peers: the changes to send again are those not    *)
(* acknowledged, whatever the order of acknowledgements; the first node up    *)
(* and the peers in sync are told right.                                      *)
PeersTracked ==
    part = "nodes" => UnackedPacked /\ FirstUpSound /\ SyncTold

(* Audit and full replication by time slots: an entry the audit has passed    *)
(* was sent or is at the peer, though entries are set, used and erased and    *)
(* reads are cut off by full buffers.                                         *)
AuditComplete ==
    part = "audit" => AuditedSlots /\ FullySent

(* Each resumption of a transfer moves on in its list of slots, so that it    *)
(* ends however little room each write finds (advBReplTmSlot).                *)
TransferMovesOn ==
    [][part = "audit" => ResumeAdvances]_auditVars

(* HttpFetch: the server gets the request whole and in order, however writes  *)
(* are cut, and a request that succeeded has its status and all of its body,  *)
(* however the reads are, as long as they cut no line of the header after the *)
(* first.  (A request may also never end: HttpFetch, "spin".)                 *)
FetchSound ==
    part = "fetch" => RequestWhole /\ FetchWhole

=============================================================================
