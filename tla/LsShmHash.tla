------------------------------ MODULE LsShmHash ------------------------------
(****************************************************************************)
(* The hash table in shared memory: an index of chains, the list of elements *)
(* by last use (LRU), and a rehash that another process can finish when the   *)
(* one that began it dies.  An element is the offset the pool gave it; 0 is   *)
(* no element.  An operation runs under the lock of the table and is one      *)
(* step; the rehash inside an insertion takes a step for each write to shared *)
(* memory, so that the process can die between any two of them.               *)
(****************************************************************************)
EXTENDS Integers, FiniteSets, SequencesExt

CONSTANTS
    Keys,         \* the keys
    HashKey,      \* x_hkey of a key
    Offs,         \* the offsets of elements: what the pool has room for
    PrimeList,    \* s_primeList; PrimeList[i + 1] is s_primeList[i]
    InitSize,     \* the initial size asked for
    MinBitmap,    \* MINSZ_FOR_BITMAP
    MaxTime       \* bound of the clock

FullFactor == 2
GrowFactor == 2
NoKey == 0
Tables == {1, 2}  \* a table and the one it is rehashed into
Lens == 1..2      \* lengths of a value, in steps of round4

ASSUME HashAssumption ==
    /\ HashKey \in [Keys -> Nat] /\ NoKey \notin Keys
    /\ Offs \subseteq Nat \ {0} /\ Tables \cap Offs = {}
    /\ PrimeList \in Seq(Nat \ {0}) /\ MaxTime \in Nat

VARIABLES
    h,            \* the table, its elements and the LRU list; h.ahead (ghost) holds the
                  \* elements whose time was ahead of the clock when it was set
    pc,           \* what the holder of the lock does
    arg,          \* the key and length it inserts after the rehash
    clock
hashVars == <<h, pc, arg, clock>>

(****************************************************************************)
(* The index                                                                 *)
(****************************************************************************)
findRange(sz) ==
    LET R == {i \in 2..(Len(PrimeList) - 1) : sz <= PrimeList[i]}
    IN  IF R = {} THEN Len(PrimeList) ELSE Min(R)
roundUp(sz) == PrimeList[findRange(sz)]

MaxCap == Max(ToSet(PrimeList))
NoEntries == [i \in 0..(MaxCap - 1) |-> 0]
getIndex(k, cap) == HashKey[k] % cap

Live == {o \in Offs : h.key[o] # NoKey}

(* The elements of the chain that starts at o, in order.                      *)
ChainOf(t, o) ==
    LET Reach[n \in 0..Cardinality(Offs)] ==
            IF n = 0 THEN IF o = 0 THEN <<>> ELSE <<o>>
            ELSE LET p == Reach[n - 1] IN
                 IF p = <<>> \/ t.next[Last(p)] \in {0} \cup ToSet(p) THEN p
                 ELSE Append(p, t.next[Last(p)])
    IN  Reach[Cardinality(Offs)]

(* A table with no bitmap answers 1 for every index.                          *)
getBitMapEnt(t, i) == t.bitCap < MinBitmap \/ i \in t.bits[t.bitmap]
setBitMapEnt(t, i) == IF t.bitCap < MinBitmap THEN t ELSE [t EXCEPT !.bits[t.bitmap] = @ \cup {i}]
clrBitMapEnt(t, i) == IF t.bitCap < MinBitmap THEN t ELSE [t EXCEPT !.bits[t.bitmap] = @ \ {i}]

find2(t, k) ==
    LET i == getIndex(k, t.cap)
        C == SelectSeq(ChainOf(t, t.tab[t.idx][i]), LAMBDA o : t.key[o] = k)
    IN  IF ~getBitMapEnt(t, i) \/ C = <<>> THEN 0 ELSE Head(C)

(* What the caller of find gets: where the value is, and its length.          *)
find(t, k) == LET o == find2(t, k) IN [off |-> o, len |-> IF o = 0 THEN 0 ELSE t.len[o]]

(* The first element of the first chain from index i up.                      *)
FirstFrom(t, i) ==
    LET used == {j \in i..(t.cap - 1) : t.tab[t.idx][j] # 0}
    IN  IF used = {} THEN 0 ELSE t.tab[t.idx][Min(used)]

begin(t) == IF t.size = 0 THEN 0 ELSE FirstFrom(t, 0)

(* An element that follows itself is cut off there.                           *)
next(t, o) ==
    IF t.next[o] \notin {0, o} THEN t.next[o] ELSE FirstFrom(t, getIndex(t.key[o], t.cap) + 1)

(* for_each: the successor is taken before the function is called.  Stops     *)
(* after the last of the elements the table has room for.                     *)
for_each(t) ==
    LET Visit[n \in 0..Cardinality(Offs)] ==
            IF n = 0 THEN IF begin(t) = 0 THEN <<>> ELSE <<begin(t)>>
            ELSE LET p == Visit[n - 1] IN
                 IF p = <<>> \/ next(t, Last(p)) = 0 THEN p ELSE Append(p, next(t, Last(p)))
    IN  Visit[Cardinality(Offs)]

(* stat: how many elements each chain has, in classes by length, and how many *)
(* share the hash of one before them (of the first NUM_SAMPLE hashes).        *)
statIdx(t, o) ==
    LET chain == ChainOf(t, o)
        keys == {HashKey[t.key[p]] : p \in ToSet(chain)}
    IN  [num |-> Len(chain), dup |-> Len(chain) - Cardinality(keys)]

TopLimits == <<1, 2, 3, 4, 5, 10, 20, 50, 100>>
topidx(num) == Min({i \in DOMAIN TopLimits : num <= TopLimits[i]} \cup {10}) - 1
stat(t) ==
    LET Idx == 0..(t.cap - 1)
        Used == {i \in Idx : t.tab[t.idx][i] # 0}
        s == [i \in Used |-> statIdx(t, t.tab[t.idx][i])]
    IN  [numIdx |-> Cardinality(Idx), numIdxOccupied |-> Cardinality(Used),
         num |-> MapThenSumSet(LAMBDA i : s[i].num, Used),
         numDup |-> MapThenSumSet(LAMBDA i : s[i].dup, Used),
         maxLink |-> Max({0} \cup {s[i].num : i \in Used}),
         top |-> [c \in 0..9 |-> Cardinality({i \in Used : topidx(s[i].num) = c})]]

(****************************************************************************)
(* The LRU list: first is the one used last, lnext leads towards it.  The     *)
(* element at an end of the list should have no link beyond it; use of such a *)
(* link is recorded in bad: from then on the code follows links to elements   *)
(* that moved or were released.                                               *)
(****************************************************************************)
Use(t, o) == [t EXCEPT !.bad = @ \/ (t.first = o /\ t.lnext[o] # 0)
                                 \/ (t.last = o /\ t.lprev[o] # 0)]

getLruTop(t) == t.first
getLruBottom(t) == t.last
nextLruIterOff(t, o) == IF o = 0 THEN getLruBottom(t) ELSE t.lnext[o]
prevLruIterOff(t, o) == IF o = 0 THEN getLruTop(t) ELSE t.lprev[o]

(* The value is tested for 0, not the element it is stored in.                *)
set_linkNext(t, this, o) == IF o = 0 THEN t ELSE [t EXCEPT !.lnext[this] = o]
set_linkPrev(t, this, o) == IF o = 0 THEN t ELSE [t EXCEPT !.lprev[this] = o]

linkHElem(t, o) ==
    LET u == IF t.first # 0
             THEN [set_linkNext(t, t.first, o) EXCEPT !.lprev[o] = t.first]
             ELSE [t EXCEPT !.lprev[o] = 0, !.last = o]
    IN  [u EXCEPT !.lnext[o] = 0, !.time[o] = clock, !.ahead = @ \ {o}, !.first = o,
                  !.nvalset = @ + 1]

(* The neighbour above loses its link when the top is erased.                 *)
unlinkHElemTop(t, o) ==
    LET up == t.lnext[o]  down == t.lprev[o]
        u == IF up # 0 THEN set_linkPrev(Use(t, o), up, down) ELSE Use(t, o)
        v == IF down # 0 THEN set_linkNext(u, down, up) ELSE [u EXCEPT !.last = up]
    IN  [v EXCEPT !.nvalset = @ - 1]

unlinkHElem(t, o) ==
    LET up == t.lnext[o]  down == t.lprev[o]
        u == IF up # 0 THEN set_linkPrev(Use(t, o), up, down)
             ELSE [Use(t, o) EXCEPT !.first = down]
        v == IF down # 0 THEN set_linkNext(u, down, up) ELSE [u EXCEPT !.last = up]
    IN  [v EXCEPT !.nvalset = @ - 1]

linkSetTop(t, o) ==
    LET up == t.lnext[o]  down == t.lprev[o]
        u == IF down = 0 THEN [Use(t, o) EXCEPT !.last = up] ELSE set_linkNext(Use(t, o), down, up)
        v == [set_linkPrev(u, up, down) EXCEPT !.lnext[o] = 0, !.lprev[o] = u.first]
        w == [set_linkNext(v, v.first, o) EXCEPT !.first = o]
    IN  [(IF up # 0 THEN w ELSE t) EXCEPT !.time[o] = clock, !.ahead = @ \ {o}]

(****************************************************************************)
(* Elements                                                                  *)
(****************************************************************************)
Linked(t, o) ==
    LET i == getIndex(t.key[o], t.cap)
        u == [t EXCEPT !.next[o] = t.tab[t.idx][i], !.tab[t.idx][i] = o, !.size = @ + 1]
    IN  setBitMapEnt(u, i)

(* allocIter and the end of insertCopy2.                                      *)
InsertElem(t, o, k, len) ==
    Linked(linkHElem([t EXCEPT !.key[o] = k, !.len[o] = len], o), o)
FreeOffs(t) == {o \in Offs : t.key[o] = NoKey}
allocIter(t, k, len) ==
    IF FreeOffs(t) = {} THEN t ELSE InsertElem(t, Min(FreeOffs(t)), k, len)

(* What released memory holds means nothing.                                  *)
Released(t, os) ==
    LET Wiped(f) == [o \in Offs |-> IF o \in os THEN 0 ELSE f[o]] IN
    [t EXCEPT !.key = Wiped(@), !.next = Wiped(@), !.len = Wiped(@), !.time = Wiped(@),
              !.lnext = Wiped(@), !.lprev = Wiped(@), !.ahead = @ \ os]

eraseIteratorHelper(t, o) ==
    LET i == getIndex(t.key[o], t.cap)
        u == unlinkHElem(t, o)
        before == {p \in ToSet(ChainOf(t, t.tab[t.idx][i])) : t.next[p] = o}
        v == IF t.tab[t.idx][i] = o
             THEN LET w == [u EXCEPT !.tab[t.idx][i] = t.next[o]]
                  IN  IF t.next[o] = 0 THEN clrBitMapEnt(w, i) ELSE w
             ELSE [u EXCEPT !.next = [p \in Offs |-> IF p \in before THEN t.next[o] ELSE @[p]]]
    IN  [Released(v, {o}) EXCEPT !.size = @ - 1]

NeedsRehash(t) == t.size * FullFactor > t.cap

(****************************************************************************)
(* Actions: insertion, and the rehash in it                                  *)
(****************************************************************************)
InitHash ==
    /\ h = [cap |-> roundUp(InitSize), capNew |-> 0, idx |-> 1, idxNew |-> 1, work |-> 0,
            tab |-> [t \in Tables |-> NoEntries], bits |-> [t \in Tables |-> {}],
            bitmap |-> 1, bitCap |-> roundUp(InitSize), freed |-> {2}, size |-> 0,
            key |-> [o \in Offs |-> NoKey], next |-> [o \in Offs |-> 0],
            len |-> [o \in Offs |-> 0],
            lnext |-> [o \in Offs |-> 0], lprev |-> [o \in Offs |-> 0],
            time |-> [o \in Offs |-> 0], ahead |-> {}, first |-> 0, last |-> 0, nvalset |-> 0, bad |-> FALSE]
    /\ pc = "idle" /\ arg = <<>> /\ clock = 0

Idle == pc = "idle" /\ ~h.bad

(* insertCopy2: the rehash comes first; when its table cannot be allocated    *)
(* the insertion goes on unless the table is full.                            *)
insertCopy2(t, k, len) ==
    \/ /\ NeedsRehash(t)
       /\ h' = t /\ pc' = "alloc" /\ arg' = <<k, len>>
    \/ /\ IF NeedsRehash(t) THEN t.size # t.cap ELSE TRUE
       /\ h' = allocIter(t, k, len)
       /\ UNCHANGED <<pc, arg>>

doInsert(o, k, len) == o = 0 /\ insertCopy2(h, k, len)

doGet(o, k) ==
    \/ o # 0 /\ h' = linkSetTop(h, o) /\ UNCHANGED <<pc, arg>>
    \/ o = 0 /\ insertCopy2(h, k, 1)

doSet(o, k, len) ==
    \/ /\ o # 0 /\ h.len[o] >= len
       /\ h' = linkSetTop(h, o)
       /\ UNCHANGED <<pc, arg>>
    \/ /\ IF o = 0 THEN TRUE ELSE h.len[o] < len
       /\ insertCopy2(IF o = 0 THEN h ELSE eraseIteratorHelper(h, o), k, len)

doUpdate(o, k, len) == o # 0 /\ doSet(o, k, len)

(* The operations, on what find2 gives for the key.                           *)
insertPtr(k, len) == Idle /\ doInsert(find2(h, k), k, len) /\ UNCHANGED clock
getPtr(k) == Idle /\ doGet(find2(h, k), k) /\ UNCHANGED clock
setPtr(k, len) == Idle /\ doSet(find2(h, k), k, len) /\ UNCHANGED clock
updatePtr(k, len) == Idle /\ doUpdate(find2(h, k), k, len) /\ UNCHANGED clock

remove(k) ==
    /\ Idle /\ find2(h, k) # 0
    /\ h' = eraseIteratorHelper(h, find2(h, k))
    /\ UNCHANGED <<pc, arg, clock>>

(* A copy with a longer value takes the place of the element.                 *)
iterGrowValue(k) ==
    /\ Idle
    /\ LET o == find2(h, k) IN
       /\ o # 0 /\ h.len[o] + 1 \in Lens
       /\ FreeOffs(h) # {}
       /\ LET n == Min(FreeOffs(h))
              t == [h EXCEPT !.key[n] = k, !.len[n] = h.len[o] + 1]
          IN  h' = Linked(linkHElem(eraseIteratorHelper(t, o), n), n)
    /\ UNCHANGED <<pc, arg, clock>>

(* clear: the index and its bitmap are wiped in one memset over the memory    *)
(* that starts at the bitmap.                                                 *)
clear ==
    /\ Idle
    /\ h' = [Released(h, Offs) EXCEPT !.tab[h.bitmap] = NoEntries, !.bits[h.bitmap] = {},
                                      !.size = 0, !.first = 0, !.last = 0, !.nvalset = 0]
    /\ UNCHANGED <<pc, arg, clock>>

(* trimsize: erases from the bottom while more is needed.                     *)
RECURSIVE TrimFrom(_, _, _)
TrimFrom(t, o, need) ==
    IF o = 0 \/ need <= 0 \/ t.bad THEN t
    ELSE TrimFrom(eraseIteratorHelper(t, o), t.lnext[o], need - t.len[o])
trimsize(need) ==
    /\ Idle /\ h.last # 0
    /\ h' = TrimFrom(h, h.last, need)
    /\ UNCHANGED <<pc, arg, clock>>

(* trim: erases what was last used before the cutoff; the callback may ask to *)
(* keep an element, which then goes to the top.                               *)
RECURSIVE TrimBefore(_, _, _, _)
TrimBefore(t, o, cutoff, keep) ==
    IF o = 0 \/ t.bad THEN t
    ELSE IF t.time[o] >= cutoff THEN t
    ELSE TrimBefore(IF o \in keep THEN linkSetTop(t, o) ELSE eraseIteratorHelper(t, o),
                    t.lnext[o], cutoff, keep)
trim(cutoff, keep) ==
    /\ Idle /\ h.last # 0
    /\ h' = TrimBefore(h, h.last, cutoff, keep)
    /\ UNCHANGED <<pc, arg, clock>>

(* trimByCb: asks the callback about the maxCnt oldest elements.              *)
RECURSIVE TrimByCb(_, _, _, _)
TrimByCb(t, o, cnt, keep) ==
    IF o = 0 \/ cnt = 0 \/ t.bad THEN t
    ELSE TrimByCb(IF o \in keep THEN Use(t, o) ELSE eraseIteratorHelper(t, o), t.lnext[o], cnt - 1, keep)
trimByCb(cnt, keep) ==
    /\ Idle /\ h.last # 0
    /\ h' = TrimByCb(h, h.last, cnt, keep)
    /\ UNCHANGED <<pc, arg, clock>>

touchLru(o) == Idle /\ h' = linkSetTop(h, o) /\ UNCHANGED <<pc, arg, clock>>

(* The top element gets an older time, not older than that of the one below.  *)
(* What takes over a time ahead of the clock is ahead of it too.              *)
linkSetTopTime(o, tm) ==
    /\ Idle /\ h.lnext[o] = 0 /\ tm <= clock
    /\ LET down == h.lprev[o]
           raised == IF down = 0 THEN FALSE ELSE tm < h.time[down]
       IN  h' = [h EXCEPT !.time[o] = IF raised THEN h.time[down] ELSE tm,
                          !.ahead = IF raised /\ down \in @ THEN @ \cup {o} ELSE @ \ {o}]
    /\ UNCHANGED <<pc, arg, clock>>

(* The top element gets a time of its own, a later one than the clock if the  *)
(* caller says so (ahead keeps those), and moves down to where it belongs.    *)
RECURSIVE MvDown(_, _, _, _)
MvDown(t, o, above, tm) ==
    LET down == t.lprev[above] IN
    IF down = 0 THEN [t EXCEPT !.lprev[above] = o, !.lnext[o] = above, !.lprev[o] = 0, !.last = o]
    ELSE IF t.last = above THEN [t EXCEPT !.bad = TRUE]
    ELSE IF t.time[down] <= tm
    THEN [t EXCEPT !.lnext[o] = t.lnext[down], !.lprev[o] = down, !.lnext[down] = o,
                   !.lprev[t.lnext[down]] = o]
    ELSE MvDown(t, o, down, tm)
linkMvTopTime(o, tm) ==
    /\ Idle /\ h.lnext[o] = 0 /\ tm > 0
    /\ LET down == h.lprev[o]
           t == [h EXCEPT !.time[o] = tm, !.ahead = IF tm > clock THEN @ \cup {o} ELSE @ \ {o}]
       IN  h' = IF down = 0 THEN t
                ELSE IF h.last = o THEN [t EXCEPT !.bad = TRUE]
                ELSE IF h.time[down] <= tm THEN t
                ELSE MvDown([t EXCEPT !.lnext[down] = 0, !.first = down], o, down, tm)
    /\ UNCHANGED <<pc, arg, clock>>

Tick == clock < MaxTime /\ clock' = clock + 1 /\ UNCHANGED <<h, pc, arg>>

(****************************************************************************)
(* rehash, write by write                                                     *)
(****************************************************************************)
Goto(p, t) == pc' = p /\ h' = t /\ UNCHANGED <<arg, clock>>
Other == CHOOSE t \in Tables : t # h.idx
OldHead == begin(h)

rehashAlloc ==
    /\ pc = "alloc" /\ Other \in h.freed
    /\ Goto("bitmap", [h EXCEPT !.freed = @ \ {Other}, !.tab[Other] = NoEntries,
                                !.bits[Other] = {}])
rehashBitmap ==
    /\ pc = "bitmap"
    /\ LET n == PrimeList[findRange(h.cap) + GrowFactor] IN
       Goto("publish", [h EXCEPT !.bitmap = Other, !.bitCap = n, !.capNew = n])
rehashPublish == pc = "publish" /\ Goto("loop", [h EXCEPT !.idxNew = Other])

rehashWork ==
    /\ pc = "loop" /\ begin(h) # 0
    /\ Goto("unlink", [setBitMapEnt(h, getIndex(h.key[OldHead], h.capNew)) EXCEPT !.work = OldHead])
rehashUnlink ==
    /\ pc = "unlink"
    /\ Goto("chain", [h EXCEPT !.tab[h.idx][getIndex(h.key[h.work], h.cap)] = h.next[h.work]])
rehashChain ==
    /\ pc = "chain"
    /\ Goto("link", [h EXCEPT !.next[h.work] = h.tab[h.idxNew][getIndex(h.key[h.work], h.capNew)]])
rehashLink ==
    /\ pc = "link"
    /\ Goto("loop", [h EXCEPT !.tab[h.idxNew][getIndex(h.key[h.work], h.capNew)] = h.work])

rehashDone == pc = "loop" /\ begin(h) = 0 /\ Goto("release", [h EXCEPT !.work = 0])
rehashRelease == pc = "release" /\ Goto("cap", [h EXCEPT !.freed = @ \cup {h.idx}])
rehashCap == pc = "cap" /\ Goto("idx", [h EXCEPT !.cap = h.capNew])
rehashIdx ==
    /\ pc = "idx" /\ pc' = "insert"
    /\ h' = [h EXCEPT !.idx = h.idxNew] /\ UNCHANGED <<arg, clock>>

(* The insertion that asked for the rehash; none after a recovery.            *)
rehashInsert ==
    /\ pc = "insert" /\ pc' = "idle" /\ arg' = <<>> /\ UNCHANGED clock
    /\ \/ arg = <<>> /\ h' = h
       \/ arg # <<>> /\ h' = allocIter(h, arg[1], arg[2])

(* The process dies in the rehash.  The next one to lock takes the lock from  *)
(* it (autoLockChkRehash) and goes on if the two index offsets differ.        *)
Unsafe == {"publish", "cap", "idx"}
Crash ==
    /\ pc \notin {"idle", "lost", "dead"}
    /\ pc' = IF pc \in Unsafe THEN "lost" ELSE "dead"
    /\ arg' = <<>> /\ UNCHANGED <<h, clock>>

(* An element the dead process was moving and that is not yet in its new      *)
(* chain is taken out of the old one and linked.                              *)
ResumeMissed == [h EXCEPT !.work = 0]
Resume ==
    LET o == h.work
        old == getIndex(h.key[o], h.cap)
        new == getIndex(h.key[o], h.capNew)
        t == IF h.tab[h.idx][old] = o THEN [h EXCEPT !.tab[h.idx][old] = h.next[o]] ELSE h
    IN  IF o = 0 \/ h.tab[h.idxNew][new] = o THEN h
        ELSE [t EXCEPT !.next[o] = h.tab[h.idxNew][new], !.tab[h.idxNew][new] = o]
autoLockChkRehash ==
    /\ pc = "dead"
    /\ IF h.idx # h.idxNew THEN Goto("loop", Resume) ELSE Goto("idle", h)

(* The times callers give: past ones, and a future one while no element has   *)
(* one (a bound).                                                             *)
GivenTimes == 0..clock \cup {tm \in {clock + 1} : tm = MaxTime /\ h.ahead = {}}

NextHash ==
    \/ \E k \in Keys, len \in Lens : insertPtr(k, len) \/ setPtr(k, len) \/ updatePtr(k, len)
    \/ \E k \in Keys : getPtr(k) \/ remove(k) \/ iterGrowValue(k)
    \/ clear \/ Tick
    \/ \E need \in 1..4 : trimsize(need)
    \/ \E cutoff \in 1..clock, keep \in SUBSET Live : trim(cutoff, keep)
    \/ \E cnt \in 1..2, keep \in SUBSET Live : trimByCb(cnt, keep)
    \/ \E o \in Live : touchLru(o)
    \/ \E o \in Live, tm \in GivenTimes : linkSetTopTime(o, tm) \/ linkMvTopTime(o, tm)
    \/ rehashAlloc \/ rehashBitmap \/ rehashPublish \/ rehashWork \/ rehashUnlink
    \/ rehashChain \/ rehashLink \/ rehashDone \/ rehashRelease \/ rehashCap \/ rehashIdx
    \/ rehashInsert \/ Crash \/ autoLockChkRehash

(****************************************************************************)
(* Properties                                                                 *)
(****************************************************************************)
Settled == pc = "idle" /\ ~h.bad

(* Whenever the lock is free, after any mix of operations, rehashes and       *)
(* deaths inside a rehash that a later process finished, every stored element *)
(* is found by its key and by the walk over all elements, once, and the count *)
(* and the statistics agree.  (A death between the writes named in Unsafe leaves the table in   *)
(* neither state; pc is then "lost".)                                         *)
Findable ==
    Settled =>
        /\ \A o \in Live : find(h, h.key[o]) = [off |-> o, len |-> h.len[o]]
        /\ \A k \in Keys : find(h, k).off \in Live \cup {0}
        /\ ToSet(for_each(h)) = Live /\ Len(for_each(h)) = h.size
        /\ Cardinality(Live) = h.size
        /\ LET st == stat(h) IN
           /\ st.num = h.size /\ st.maxLink <= h.size
           /\ MapThenSumSet(LAMBDA c : st.top[c], 0..9) = st.numIdxOccupied
           /\ st.numDup = Cardinality(Live) - Cardinality({HashKey[h.key[o]] : o \in Live})

(* The elements from the bottom up, as trim walks them.                       *)
LruUp ==
    LET Up[n \in 0..Cardinality(Offs)] ==
            IF n = 0 THEN IF h.last = 0 THEN <<>> ELSE <<nextLruIterOff(h, 0)>>
            ELSE LET p == Up[n - 1] IN
                 IF p = <<>> \/ Last(p) = h.first \/ nextLruIterOff(h, Last(p)) = 0 THEN p
                 ELSE Append(p, nextLruIterOff(h, Last(p)))
    IN  Up[Cardinality(Offs)]

(* check: the walk to the top counts the elements.                            *)
check == Len(LruUp) = h.nvalset

(* The LRU list from bottom to top holds every stored element once, and the   *)
(* walk down meets the same elements in reverse.  No element has a later time *)
(* than one above it, so trim and trimsize drop the least recently used       *)
(* first, except an element whose time linkMvTopTime set ahead of the clock:  *)
(* the code does not refuse such a time, what is used after it comes to lie   *)
(* above it with an earlier one, and trim stops at it.                        *)
LruOrdered ==
    (pc = "idle" \/ pc = "dead") /\ ~h.bad =>
        /\ Len(LruUp) = Cardinality(Live) /\ ToSet(LruUp) = Live
        /\ check /\ h.nvalset = Cardinality(Live)
        /\ LruUp # <<>> => Last(LruUp) = prevLruIterOff(h, 0)
        /\ \A i \in 2..Len(LruUp) : prevLruIterOff(h, LruUp[i]) = LruUp[i - 1]
        /\ \A i, j \in DOMAIN LruUp :
               i < j /\ LruUp[i] \notin h.ahead => h.time[LruUp[i]] <= h.time[LruUp[j]]

(* Erasing an element destroys the links to it: the list and its elements     *)
(* refer to stored elements only.                                             *)
EraseUnlinks ==
    ~h.bad => /\ \A o \in Live : {h.lnext[o], h.lprev[o]} \subseteq Live \cup {0}
              /\ {h.first, h.last} \subseteq Live \cup {0}
==============================================================================
