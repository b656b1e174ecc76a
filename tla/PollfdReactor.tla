--------------------------- MODULE PollfdReactor ---------------------------
(***************************************************************************)
(* The poll(2) event loop: an array of pollfd slots that grows, with a     *)
(* list of holes threaded through the slots' events field, and handlers    *)
(* that add and remove reactors while the array is being walked.           *)
(***************************************************************************)
EXTENDS Integers, FiniteSets

CONSTANTS
    PollReactors,   \* EventReactor objects
    NoPollReactor,
    PollCapacity,   \* slots at first (DEFAULT_CAPACITY 16)
    PollStore,      \* bound of the model: slots after the array has grown
    MaxPollAdds     \* bound of the model: registrations

Nil == 65535
Slots == 0 .. PollStore - 1

VARIABLE pf
pollVars == <<pf>>

Hole == [who |-> NoPollReactor, reg |-> 0, revents |-> FALSE, next |-> Nil]

InitPoll ==
    pf = [ slot |-> [i \in Slots |-> Hole],
           at |-> [r \in PollReactors |-> -1],    \* EventReactor::m_pfd
           end |-> 0, store |-> PollCapacity,
           first |-> Nil,                         \* m_iFirstRecycled
           cur |-> 0, events |-> 0,               \* m_pCur, m_iEvents
           p |-> -1,                              \* slot whose handler runs
           asked |-> {},                          \* registrations poll reported
           adds |-> 0, phase |-> "wait" ]

-----------------------------------------------------------------------------
(* getAvail takes the first hole of the list below the end of the array, drops
   those beyond it, and otherwise extends the array, doubling the storage. *)
RECURSIVE fromList(_, _)
fromList(q, i) ==
    IF i = Nil THEN [at |-> -1, first |-> Nil]
    ELSE IF i < q.end THEN [at |-> i, first |-> q.slot[i].next]
    ELSE fromList(q, q.slot[i].next)

getAvail(q) ==
    LET l == fromList(q, q.first) IN
    IF l.at # -1
    THEN [at |-> l.at, first |-> l.first, end |-> q.end, store |-> q.store]
    ELSE [at |-> q.end, first |-> Nil, end |-> q.end + 1,
          store |-> IF q.end >= q.store THEN q.store * 2 ELSE q.store]

pollAdd(r) ==
    LET a == getAvail(pf) IN
    /\ pf.at[r] = -1 /\ pf.adds < MaxPollAdds /\ a.store <= PollStore
    /\ pf.phase = "wait" \/ pf.p # -1
    /\ pf' = [pf EXCEPT !.slot[a.at].who = r, !.slot[a.at].reg = pf.adds + 1,
                        !.slot[a.at].next = Nil,
                        !.at[r] = a.at, !.first = a.first, !.end = a.end,
                        !.store = a.store, !.adds = @ + 1]

(* Wrong variant: what poll() reported for the slot is left in it. *)
pollRemoveStale(r) ==
    LET i == pf.at[r]
        freed == [pf.slot EXCEPT ![i] = [Hole EXCEPT !.next = pf.slot[i].next,
                                                !.revents = pf.slot[i].revents]]
        live == {j \in 0 .. i - 1 : freed[j].who # NoPollReactor}
    IN
    /\ i # -1 /\ (pf.phase = "wait" \/ pf.p # -1)
    /\ pf' = [pf EXCEPT !.at[r] = -1,
                !.slot = IF i = pf.end - 1 THEN freed
                         ELSE [freed EXCEPT ![i].next = pf.first],
                !.first = IF i = pf.end - 1 THEN @ ELSE i,
                !.end = IF i # pf.end - 1 THEN @
                        ELSE IF live = {} THEN 0
                        ELSE 1 + CHOOSE j \in live : \A k \in live : k <= j,
                !.events = IF pf.slot[i].revents THEN @ - 1 ELSE @]

(* Removing the last slot pulls the end back over the holes before it; any
   other slot goes on the list.  Removing does not touch slots it passes, so
   the list may go on through slots beyond the end. *)
pollRemove(r) ==
    LET i == pf.at[r]
        freed == [pf.slot EXCEPT ![i] = [Hole EXCEPT !.next = pf.slot[i].next]]
        live == {j \in 0 .. i - 1 : freed[j].who # NoPollReactor}
    IN
    /\ i # -1 /\ (pf.phase = "wait" \/ pf.p # -1)
    /\ pf' = [pf EXCEPT !.at[r] = -1,
                !.slot = IF i = pf.end - 1 THEN freed
                         ELSE [freed EXCEPT ![i].next = pf.first],
                !.first = IF i = pf.end - 1 THEN @ ELSE i,
                !.end = IF i # pf.end - 1 THEN @
                        ELSE IF live = {} THEN 0
                        ELSE 1 + CHOOSE j \in live : \A k \in live : k <= j,
                !.events = IF pf.slot[i].revents THEN @ - 1 ELSE @]

-----------------------------------------------------------------------------
(* Poller::waitAndProcessEvents: poll sets revents of every slot. *)
Poll ==
    /\ pf.phase = "wait"
    /\ \E S \in SUBSET {i \in Slots : i < pf.end /\ pf.slot[i].who # NoPollReactor} :
          /\ S # {}
          /\ pf' = [pf EXCEPT !.phase = "events", !.cur = 0, !.events = Cardinality(S),
                      !.slot = [i \in Slots |-> [pf.slot[i] EXCEPT !.revents = i \in S]],
                      !.asked = {pf.slot[i].reg : i \in S}]

slotDue(i) == i < pf.end /\ pf.slot[i].who # NoPollReactor /\ pf.slot[i].revents

processPollEvents ==
    /\ pf.phase = "events" /\ pf.p = -1
    /\ pf' = IF pf.events > 0 /\ pf.cur < pf.end
             THEN [pf EXCEPT !.cur = @ + 1, !.p = IF slotDue(pf.cur) THEN pf.cur ELSE -1]
             ELSE [pf EXCEPT !.phase = "wait"]

(* When the array was moved meanwhile, the write to p->revents goes to its old
   storage; poll() sets the field again before it is next read. *)
PollHandlerReturns ==
    /\ pf.p # -1
    /\ \E moved \in IF pf.store > PollCapacity THEN {TRUE, FALSE} ELSE {FALSE} :
          pf' = [pf EXCEPT !.p = -1,
                   !.slot[pf.p].revents = moved /\ @,
                   !.events = IF @ <= 0 THEN @ ELSE @ - 1,
                   !.phase = IF pf.events <= 0 THEN "wait" ELSE @]

NextPoll ==
    \/ Poll \/ processPollEvents \/ PollHandlerReturns
    \/ \E r \in PollReactors : pollAdd(r) \/ pollRemove(r)

-----------------------------------------------------------------------------
RECURSIVE PollListed(_, _)
PollListed(i, n) == IF i = Nil \/ n = 0 THEN {} ELSE {i} \cup PollListed(pf.slot[i].next, n - 1)

(* The array stays consistent however adds and removes alternate with the end
   moving back over holes that are still listed: a registered reactor has its own
   slot below the end, and every hole below the end is on the list, so that the
   storage is only moved (allocate, which follows every reactor pointer) when
   there is none. *)
SlotsSound ==
    /\ \A r \in PollReactors :
          pf.at[r] # -1 => pf.at[r] < pf.end /\ pf.slot[pf.at[r]].who = r
    /\ \A i \in Slots :
          i < pf.end /\ pf.slot[i].who = NoPollReactor => i \in PollListed(pf.first, PollStore)

(* A handler runs only for a registration that poll() reported in this round,
   although handlers earlier in the round free slots and new reactors take them. *)
PollToOwner ==
    pf.p # -1 /\ pf.slot[pf.p].who # NoPollReactor /\ pf.slot[pf.p].revents
        => pf.slot[pf.p].reg \in pf.asked
=============================================================================
