------------------------------- MODULE Epoll -------------------------------
(***************************************************************************)
(* The event loop: one epoll set, the reactors indexed by file descriptor, *)
(* the list of descriptors whose interest mask waits to be applied, and    *)
(* the batch of events that handlers are working through.  Handlers close  *)
(* connections, their own and others', and open new ones; the kernel hands *)
(* out the lowest free descriptor, so a descriptor of the batch may belong *)
(* to a new reactor when its turn comes.                                   *)
(***************************************************************************)
EXTENDS Integers, Sequences, SequencesExt, FiniteSets

(***************************************************************************)
(* The queue of event callbacks: a doubly linked list with a head node     *)
(* (node 0), nodes taken from an object pool, and in every session a       *)
(* pointer to the first of its nodes.  Any thread may schedule; the event  *)
(* loop runs the queue, and a callback may schedule and remove in turn.    *)
(* Node -1 is NULL; a session's evtcb_head is 0 for NULL.                  *)
(***************************************************************************)

CONSTANTS
    CbSessions,    \* the sessions
    NoSession,     \* a callback without one
    CbNodes,       \* bound of the model: nodes of the pool
    MaxCallbacks   \* bound of the model: callbacks scheduled in all

VARIABLES
    cq,       \* the list, the nodes' fields, the pool, evtcb_head of each session
    pass,     \* the run in progress: where it is, what it will do next
    cbHist    \* callbacks scheduled, due at the start of the pass, visited by it, and
              \* whether a thread took a node while another was returned to the pool
cbVars == <<cq, pass, cbHist>>

NoPass == [st |-> "none", cur |-> 0, next |-> 0, last |-> 0, session |-> NoSession,
           free |-> << >>]

InitCb ==
    /\ cq = [next |-> [n \in 0 .. CbNodes |-> IF n = 0 THEN 0 ELSE -1],
             prev |-> [n \in 0 .. CbNodes |-> IF n = 0 THEN 0 ELSE -1],
             total |-> 0,
             cb |-> [n \in 1 .. CbNodes |-> 0],
             sess |-> [n \in 1 .. CbNodes |-> NoSession],
             free |-> [i \in 1 .. CbNodes |-> i],
             head |-> [s \in CbSessions |-> 0]]
    /\ pass = NoPass
    /\ cbHist = [made |-> 0, due |-> {}, seen |-> {}, raced |-> FALSE]

-----------------------------------------------------------------------------
(* DLinkedObj and DLinkQueue. *)
addNext(q, p, n) ==
    [q EXCEPT !.next = [@ EXCEPT ![p] = n, ![n] = q.next[p]],
              !.prev = [@ EXCEPT ![n] = p, ![q.next[p]] = n]]
insertAfter(q, p, n) == [addNext(q, p, n) EXCEPT !.total = @ + 1]
appendNode(q, n) == insertAfter(q, q.prev[0], n)

unlinkNode(q, n) ==
    [q EXCEPT !.next = [@ EXCEPT ![q.prev[n]] = q.next[n], ![n] = -1],
              !.prev = [@ EXCEPT ![q.next[n]] = q.prev[n], ![n] = -1]]
removeNode(q, n) == IF q.next[n] = -1 THEN q ELSE [unlinkNode(q, n) EXCEPT !.total = @ - 1]

(* The nodes of the list in its order. *)
Chain(q) ==
    LET f[i \in 0 .. CbNodes] ==
            IF i = 0 THEN <<q.next[0]>>
            ELSE IF Last(f[i - 1]) < 1 THEN f[i - 1] ELSE Append(f[i - 1], q.next[Last(f[i - 1])])
    IN  Front(f[CbNodes])

-----------------------------------------------------------------------------
(* Scheduling. *)
getNodeObj(q, s, id) ==
    LET n == Last(q.free) IN [q EXCEPT !.free = Front(@), !.cb[n] = id, !.sess[n] = s]

enqueue(q, n) ==
    LET s == q.sess[n]
    IN  CASE s # NoSession /\ q.head[s] = 0 -> appendNode([q EXCEPT !.head[s] = n], n)
          [] s # NoSession /\ q.head[s] # 0 -> insertAfter(q, q.head[s], n)
          [] OTHER -> appendNode(q, n)

schedule(s) ==
    /\ cbHist.made < MaxCallbacks /\ cq.free # << >>
    /\ cq' = enqueue(getNodeObj(cq, s, cbHist.made + 1), Last(cq.free))
    /\ cbHist' = [cbHist EXCEPT !.made = @ + 1]
    /\ UNCHANGED pass

(* removeSessionCb: the nodes from the session's first one on, as long as  *)
(* they are its own.                                                       *)
ownRun(q, s) ==
    LET c == Chain(q)
        at == CHOOSE i \in 1 .. Len(c) : c[i] = q.head[s]
    IN  {c[i] : i \in {j \in at .. Len(c) : \A k \in at .. j : q.sess[c[k]] = s}}

removeSessionCb(s) ==
    /\ cq.head[s] # 0
    /\ LET own == ownRun(cq, s)
       IN  cq' = [cq EXCEPT !.head[s] = 0,
                            !.cb = [n \in DOMAIN @ |-> IF n \in own THEN 0 ELSE @[n]],
                            !.sess = [n \in DOMAIN @ |-> IF n \in own THEN NoSession ELSE @[n]]]
    /\ UNCHANGED <<pass, cbHist>>

-----------------------------------------------------------------------------
(* Running. *)

(* Due: the callbacks the pass is to reach; nodes are named by what was    *)
(* scheduled with them (0 once removed).                                   *)
runAll ==
    /\ pass.st = "none" /\ cq.next[0] # 0
    /\ pass' = [NoPass EXCEPT !.st = "at", !.cur = cq.next[0], !.last = cq.prev[0]]
    /\ cbHist' = [cbHist EXCEPT !.due = ToSet(Chain(cq)), !.seen = {}]
    /\ UNCHANGED cq

runSession(s) ==
    /\ pass.st = "none" /\ cq.total > 0
    /\ pass' = IF cq.head[s] = 0 THEN NoPass
               ELSE [NoPass EXCEPT !.st = "at", !.cur = cq.head[s], !.last = cq.prev[0], !.session = s]
    /\ cbHist' = [cbHist EXCEPT !.due = {}, !.seen = {}]
    /\ cq' = [cq EXCEPT !.head[s] = 0]

(* The next node is looked up, and run() lets go of the session's head,    *)
(* under one lock.                                                         *)
lookNext(q, n) ==
    LET s == q.sess[n] IN IF s # NoSession /\ q.head[s] = n THEN [q EXCEPT !.head[s] = 0] ELSE q

LookNext ==
    /\ pass.st = "at"
    /\ pass' = [pass EXCEPT !.st = "looked", !.next = cq.next[pass.cur]]
    /\ cq' = IF pass.session = NoSession THEN lookNext(cq, pass.cur) ELSE cq
    /\ UNCHANGED cbHist

(* runOne: unlinked under the lock, then called. *)
runOne ==
    /\ pass.st = "looked"
    /\ cq' = removeNode(cq, pass.cur)
    /\ pass' = [pass EXCEPT !.st = "called"]
    /\ cbHist' = [cbHist EXCEPT !.seen = @ \cup {pass.cur}]

(* The callback returned: the node is cleared and pushed on the pool's free *)
(* list, neither of it under lock_add.  The push first reads the list.      *)
recycle ==
    /\ pass.st = "called"
    /\ cq' = [cq EXCEPT !.cb[pass.cur] = 0, !.sess[pass.cur] = NoSession]
    /\ pass' = [pass EXCEPT !.st = "push", !.free = cq.free]
    /\ UNCHANGED cbHist

(* The free list after the push of n that read it as `was`.  When a thread  *)
(* took a node in between, the writes of both race: both count, the node    *)
(* taken comes back, or the one returned is lost.                           *)
Pushed(was, now, n) ==
    IF was = now THEN {Append(now, n)} ELSE {Append(now, n), Append(was, n), now}

(* The loop of run() ends at the node that was last when it began; that of *)
(* run(session) also at the first node of another session.                 *)
advanceShort(q, p) ==
    IF p.cur = p.last \/ p.next = p.last THEN NoPass ELSE [p EXCEPT !.st = "at", !.cur = p.next]
advance(q, p) ==
    IF p.cur = p.last \/ (p.session # NoSession /\ (p.next = 0 \/ q.sess[p.next] # p.session))
    THEN NoPass
    ELSE [p EXCEPT !.st = "at", !.cur = p.next]

Returned ==
    /\ pass.st = "push"
    /\ \E free \in Pushed(pass.free, cq.free, pass.cur) : cq' = [cq EXCEPT !.free = free]
    /\ pass' = advance(cq', [pass EXCEPT !.free = << >>])
    /\ cbHist' = [cbHist EXCEPT !.raced = pass.free # cq.free]

(* What follows such a race is not defined: a node may be handed out twice. *)
NextCb ==
    /\ ~cbHist.raced
    /\ \/ \E s \in CbSessions \cup {NoSession} : schedule(s)
       \/ \E s \in CbSessions : removeSessionCb(s) \/ runSession(s)
       \/ runAll \/ LookNext \/ runOne \/ recycle \/ Returned

-----------------------------------------------------------------------------
(* Properties. *)

(* The links agree in both directions, the count is the length, and no     *)
(* node is both queued, being run and free: whatever is scheduled or       *)
(* removed by callbacks and other threads while a run holds pointers into  *)
(* the list (EvtcbQue::run, DLinkedObj::remove).                           *)
CbListSound ==
    LET c == Chain(cq)
    IN  /\ Len(c) = cq.total
        /\ \A i \in 1 .. Len(c) : cq.prev[c[i]] = (IF i = 1 THEN 0 ELSE c[i - 1])
        /\ cq.prev[0] = (IF c = << >> THEN 0 ELSE Last(c))
        /\ IsInjective(c) /\ ToSet(c) \cap ToSet(cq.free) = {}
        /\ IsInjective(cq.free)

(* A session's head is a queued node of that session, never one that was   *)
(* run and recycled: the next schedule links behind it (schedule, and the  *)
(* clearing of evtcb_head in both runs).                                   *)
HeadQueued ==
    \A s \in CbSessions :
        cq.head[s] # 0 => cq.head[s] \in ToSet(Chain(cq)) /\ cq.sess[cq.head[s]] = s

(* A run of the whole queue calls every callback that was queued when it   *)
(* began, though the callbacks schedule and remove others while it walks   *)
(* the list (pObjNext and pLast in EvtcbQue::run).                         *)
PassComplete ==
    pass.st = "none" => cbHist.due \subseteq cbHist.seen
-----------------------------------------------------------------------------

CONSTANTS
    Reactors,   \* EventReactor objects
    NoReactor,
    MaxFd,      \* bound of the model: descriptors 1..MaxFd
    ResultMax,  \* EPOLL_RESULT_MAX (10)
    MaxAdds     \* bound of the model: registrations

Fds == 1 .. MaxFd
Unregistered == {"none"}

VARIABLE ep
epollVars == <<ep>>

NotOpen == [fd |-> -1, events |-> {}, revent |-> {}, eventSet |-> {}, reg |-> 0]
Idle == [on |-> FALSE, was |-> 0, is |-> 0]

InitEpoll ==
    ep = [ reactor  |-> [r \in Reactors |-> NotOpen],
           index    |-> [f \in Fds |-> NoReactor],   \* ReactorIndex
           used     |-> 0,
           flag     |-> [f \in Fds |-> FALSE],       \* ERF_UPDATE
           updates  |-> << >>,                       \* m_pUpdates
           kernel   |-> [f \in Fds |-> Unregistered],
           results  |-> << >>,                       \* m_pResCur .. m_pResEnd
           phase    |-> "wait",
           handler  |-> Idle,  \* the handler running: registration the event
                               \* came from, and the one it is handed to
           adds     |-> 0 ]

-----------------------------------------------------------------------------
(* ReactorIndex *)
get(e, fd) == IF fd <= e.used THEN e.index[fd] ELSE NoReactor

setFd(e, fd, r) ==
    [e EXCEPT !.used = IF fd > @ THEN fd ELSE @, !.index[fd] = r]

-----------------------------------------------------------------------------
(* What handlers and timers call. *)

FreeFds == {f \in Fds : \A r \in Reactors : ep.reactor[r].fd # f}

(* setfd clears what an earlier descriptor left, add registers. *)
add(e, r, fd, mask) ==
    [setFd(e, fd, r) EXCEPT
        !.reactor[r] = [fd |-> fd, events |-> mask, revent |-> {},
                        eventSet |-> mask, reg |-> e.adds + 1],
        !.kernel[fd] = mask,
        !.adds = @ + 1]

Open(r) ==
    /\ ep.handler.on /\ ep.adds < MaxAdds /\ FreeFds # {}
    /\ ep.reactor[r] = NotOpen
    /\ \E mask \in {{"IN"}, {"IN", "OUT"}} :
          ep' = add(ep, r, CHOOSE f \in FreeFds : \A g \in FreeFds : f <= g, mask)

(* remove, close and setfd(-1). *)
remove(r) ==
    LET fd == ep.reactor[r].fd IN
    /\ ep.handler.on /\ fd # -1
    /\ ep' = [ep EXCEPT !.reactor[r] = NotOpen,
                        !.index[fd] = IF fd <= ep.used THEN NoReactor ELSE @,
                        !.kernel[fd] = Unregistered]

appendEvent(e, fd) ==
    IF e.flag[fd] THEN e
    ELSE [e EXCEPT !.flag[fd] = TRUE, !.updates = Append(@, fd)]

updateEvents(e, r, mask) ==
    appendEvent([e EXCEPT !.reactor[r].events = mask], e.reactor[r].fd)

(* continueRead, continueWrite, suspendRead, suspendWrite, and the switches. *)
addEvent(r, m) ==
    /\ ep.handler.on /\ ep.reactor[r].fd # -1 /\ m \notin ep.reactor[r].events
    /\ ep' = updateEvents(ep, r, ep.reactor[r].events \cup {m})

removeEvent(r, m) ==
    /\ ep.handler.on /\ ep.reactor[r].fd # -1 /\ m \in ep.reactor[r].events
    /\ ep' = updateEvents(ep, r, ep.reactor[r].events \ {m})

setEvents(r, m) ==
    /\ ep.handler.on /\ ep.reactor[r].fd # -1 /\ ep.reactor[r].events # {m}
    /\ ep' = updateEvents(ep, r, {m})

-----------------------------------------------------------------------------
(* The loop. *)

Due(e, f) ==
    /\ f \in ToSet(e.updates) /\ get(e, f) # NoReactor /\ e.kernel[f] # Unregistered
    /\ e.reactor[get(e, f)].eventSet # e.reactor[get(e, f)].events   \* isApplyEvents

applyEvents(e) ==
    [e EXCEPT
        !.flag = [f \in Fds |-> e.flag[f] /\ f \notin ToSet(e.updates)],
        !.updates = << >>,
        !.kernel = [f \in Fds |-> IF Due(e, f) THEN e.reactor[get(e, f)].events
                                  ELSE e.kernel[f]],
        !.reactor = [r \in Reactors |->
            IF \E f \in Fds : Due(e, f) /\ get(e, f) = r
            THEN [e.reactor[r] EXCEPT !.eventSet = e.reactor[r].events]
            ELSE e.reactor[r]]]

(* waitAndProcessEvents up to epoll_wait. *)
Wait ==
    /\ ep.phase = "wait" /\ ~ep.handler.on
    /\ ep' = [applyEvents(ep) EXCEPT !.phase = "blocked"]

Timeout == ep.phase = "blocked" /\ ep' = [ep EXCEPT !.phase = "wait"]

Ready == {f \in Fds : ep.kernel[f] # Unregistered}
Events(f) == (SUBSET ep.kernel[f] \ {{}}) \cup {{"HUP"}}
Result(f, evs) == [fd |-> f, events |-> evs, reg |-> ep.reactor[ep.index[f]].reg]

(* One event: its reactor is called at once. *)
WakeOne ==
    /\ ep.phase = "blocked"
    /\ \E f \in Ready : \E evs \in Events(f) :
          LET r == get(ep, f) IN
          ep' = IF r # NoReactor /\ ep.reactor[r].fd = f
                THEN [ep EXCEPT !.phase = "wait", !.reactor[r].revent = evs,
                        !.handler = [on |-> TRUE, was |-> ep.reactor[r].reg,
                                     is |-> ep.reactor[r].reg]]
                ELSE [ep EXCEPT !.phase = "wait"]

(* More than one: each is noted in its reactor, then processEvents starts. *)
WakeMany ==
    /\ ep.phase = "blocked"
    /\ \E f, g \in Ready : \E fe \in Events(f) : \E ge \in Events(g) :
          /\ f # g /\ ResultMax >= 2
          /\ \A x \in {f, g} : get(ep, x) # NoReactor /\ ep.reactor[get(ep, x)].fd = x
          /\ ep' = [ep EXCEPT !.phase = "events",
                      !.results = <<Result(f, fe), Result(g, ge)>>,
                      !.reactor[get(ep, f)].revent = fe,
                      !.reactor[get(ep, g)].revent = ge]

processEvents ==
    /\ ep.phase = "events" /\ ~ep.handler.on /\ ep.results # << >>
    /\ LET p == Head(ep.results)
           r == get(ep, p.fd)
       IN ep' = [ep EXCEPT !.results = Tail(@),
                   !.handler = IF r # NoReactor /\ ep.reactor[r].revent = p.events
                               THEN [on |-> TRUE, was |-> p.reg, is |-> ep.reactor[r].reg]
                               ELSE Idle]

EventsDone ==
    /\ ep.phase = "events" /\ ~ep.handler.on /\ ep.results = << >>
    /\ ep' = [applyEvents(ep) EXCEPT !.phase = "wait"]

(* timerExec runs onTimer of every reactor; the table first shrinks. *)
timerExec ==
    /\ ep.phase = "wait" /\ ~ep.handler.on
    /\ ep' = [ep EXCEPT !.handler.on = TRUE,
                !.used = LET live == {f \in 1 .. ep.used : ep.index[f] # NoReactor}
                         IN IF live = {} THEN 0
                            ELSE CHOOSE f \in live : \A g \in live : g <= f]

HandlerReturns == ep.handler.on /\ ep' = [ep EXCEPT !.handler = Idle]

NextEpoll ==
    \/ Wait \/ Timeout \/ WakeOne \/ WakeMany \/ processEvents \/ EventsDone \/ timerExec
    \/ HandlerReturns
    \/ \E r \in Reactors :
          \/ Open(r) \/ remove(r)
          \/ \E m \in {"IN", "OUT"} : addEvent(r, m) \/ removeEvent(r, m) \/ setEvents(r, m)

-----------------------------------------------------------------------------
(* An event is handed to the registration it was reported for: when a handler
   earlier in the batch closed that connection and a new one took over its
   descriptor, the new one does not get it (the test on getAssignedRevent in
   processEvents). *)
EventsToOwner == ep.handler.was = ep.handler.is

(* While the process sleeps in epoll_wait the kernel watches each registered
   descriptor for exactly what its reactor asked for last, although requests are
   only noted and applied later: no connection sleeps through an event it waits
   for. *)
InterestApplied ==
    ep.phase = "blocked" =>
        \A f \in Fds :
            ep.kernel[f] = IF get(ep, f) = NoReactor THEN Unregistered
                           ELSE ep.reactor[get(ep, f)].events
=============================================================================
