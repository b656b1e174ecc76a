------------------------------ MODULE LsShmPool ------------------------------
(****************************************************************************)
(* The allocator of the shared-memory file: pages from the file (LsShm), a   *)
(* list of free page runs with boundary tags, and, for what is smaller than   *)
(* a page, buckets by size, a list of larger pieces and a chunk that is cut   *)
(* up (LsShmPool).  Offsets and sizes count units of LSSHM_POOL_UNITSIZE      *)
(* bytes; offset 0 means failure.  The pool is the global one, the only one   *)
(* lsmcd opens.  One operation runs under the pool lock and is one step.      *)
(****************************************************************************)
EXTENDS Integers, FiniteSets, SequencesExt

CONSTANTS
    PageUnits,    \* LSSHM_SHM_UNITSIZE
    MaxBckt,      \* LSSHM_POOL_MAXBCKTSIZE, at most a page
    MaxSlot,      \* LSSHM_MAX_BUCKET_SLOT
    LargeUnits,   \* LARGE_PAGE_SIZE, what is mapped at one address
    GrowUnits,    \* the file grows to a multiple of this
    MaxFile,      \* m_iMaxShmSize, or what the disk holds
    Sizes,        \* the sizes that are asked for
    MaxHeld       \* bound: blocks in use at once

ASSUME PoolAssumption ==
    /\ {PageUnits, MaxBckt, MaxSlot, LargeUnits, GrowUnits, MaxFile} \subseteq Nat \ {0}
    /\ MaxBckt <= PageUnits
    /\ LargeUnits % GrowUnits = 0 /\ GrowUnits % PageUnits = 0
    /\ MaxFile >= GrowUnits
    /\ Sizes \subseteq Nat \ {0}

VARIABLES
    shm,          \* the file, its address map and the pool header
    held          \* the blocks in use: offset and size
poolVars == <<shm, held>>

RoundUp(x, n) == ((x + n - 1) \div n) * n
roundPageSize(size) == RoundUp(size, PageUnits)
Block(off, size) == [off |-> off, size |-> size]
Pages == {p * PageUnits : p \in 0..MaxFile \div PageUnits}

(* What mmap returns for more address space is up to the system: right behind *)
(* the last large page or elsewhere, aligned by luck (one large page more) or *)
(* not.                                                                       *)
Mappings == [contig : BOOLEAN, extra : BOOLEAN]

(****************************************************************************)
(* LsShm: pages from the end of the file                                     *)
(****************************************************************************)
mapAddrSpace(s, mm) ==
    LET needed == s.file - s.large * LargeUnits
        n == RoundUp(needed, LargeUnits) \div LargeUnits
    IN  IF needed <= 0 THEN s
        ELSE [s EXCEPT !.large = @ + n + (IF mm.extra THEN 1 ELSE 0),
                       !.seams = IF mm.contig \/ s.large = 0 THEN @
                                 ELSE @ \cup {s.large - 1}]

(* How far memory goes on at consecutive addresses from off.                  *)
getAvailAddrSpace(s, off, size) ==
    LET page == off \div LargeUnits
        first == LargeUnits - (off % LargeUnits)
        GoesOn(i) == /\ first + i * LargeUnits < size /\ size > LargeUnits
                     /\ page + i < s.large - 1 /\ page + i \notin s.seams
    IN  first + LargeUnits * Min({i \in 0..s.large : ~GoesOn(i)})

(****************************************************************************)
(* The free page runs.  The first words of a run hold a marker and its size   *)
(* (top), its last words a marker and its offset (bot); list is the order.    *)
(****************************************************************************)
isFreeBlockAbove(s, off) ==
    LET b == s.bot[off] IN b # 0 /\ b >= PageUnits /\ b < off /\ s.top[b] # 0
                           /\ b + s.top[b] = off

isFreeBlockBelow(s, off, size) ==
    LET below == off + size IN
    /\ below < s.file /\ s.top[below] # 0
    /\ below + s.top[below] <= s.file
    /\ s.bot[below + s.top[below]] = below

joinFreeList(s, off, size) ==
    [s EXCEPT !.top[off] = size, !.bot[off + size] = off, !.list = <<off>> \o @]

disconnectFromFree(s, off) == [s EXCEPT !.list = SelectSeq(@, LAMBDA o : o # off)]

(* Joins the run below: with join 2 the run at off is in the list already,    *)
(* with join 1 it takes the place of the one below.                           *)
JoinBelow(s, off, size, join) ==
    LET below == off + size
        more == s.top[below]
        t == [s EXCEPT !.top[below] = 0, !.top[off] = size + more,
                       !.bot[below + more] = off]
    IN  IF join = 2 THEN disconnectFromFree(t, below)
        ELSE [t EXCEPT !.list = [i \in DOMAIN @ |-> IF @[i] = below THEN off ELSE @[i]]]

JoinAbove(s, off, size) ==
    LET b == s.bot[off] IN
    [[s EXCEPT !.top[b] = @ + size, !.bot[off + size] = b] EXCEPT !.top[off] = 0]

releasePageLocked(s, off, pagesize) ==
    LET size == roundPageSize(pagesize)
        b == s.bot[off]
        t == JoinAbove(s, off, size)
    IN  IF isFreeBlockAbove(s, off)
        THEN IF isFreeBlockBelow(t, b, t.top[b]) THEN JoinBelow(t, b, t.top[b], 2) ELSE t
        ELSE IF isFreeBlockBelow(s, off, size) THEN JoinBelow(s, off, size, 1)
        ELSE joinFreeList(s, off, size)

(* LsShm::allocPage: what is left of the addresses that end too early goes    *)
(* to the free runs.                                                          *)
shmAllocPage(s, size, mm) ==
    LET avail == s.file - s.used
        addr == getAvailAddrSpace(s, s.used, size)
        leaves == size > addr
        target == RoundUp(s.file + size - avail + (IF leaves THEN addr ELSE 0), GrowUnits)
        t == mapAddrSpace([s EXCEPT !.file = target], mm)
        u == IF leaves THEN [releasePageLocked(t, t.used, addr) EXCEPT !.used = @ + addr]
             ELSE t
        Take(v) == [s |-> [v EXCEPT !.used = @ + size], off |-> v.used]
    IN  IF size <= avail THEN Take(s)
        ELSE IF target > MaxFile THEN [s |-> s, off |-> 0]
        ELSE Take(u)

(* The last units of the page in front keep their bot tag until written.      *)

(* Takes the end of the first run that is large enough.                       *)
getFromFreeList(s, size) ==
    LET off == s.list[Min({i \in DOMAIN s.list : s.top[s.list[i]] >= size})]
        left == s.top[off] - size
    IN  [s |-> IF left = 0 THEN disconnectFromFree([s EXCEPT !.top[off] = 0], off)
               ELSE [s EXCEPT !.top[off] = left, !.bot[off + left] = off],
         off |-> off + left]

allocPage(s, pagesize, mm) ==
    LET size == roundPageSize(pagesize)
        r == shmAllocPage(s, size, mm)
    IN  IF \E i \in DOMAIN s.list : s.top[s.list[i]] >= size
        THEN getFromFreeList(s, size)
        ELSE IF r.off = 0 THEN r
        ELSE [r EXCEPT !.s.top[r.off] = 0]

(****************************************************************************)
(* LsShmPool: pieces smaller than a page                                      *)
(****************************************************************************)
releaseData(s, off, size) ==
    IF size >= MaxBckt THEN [s EXCEPT !.fl = <<Block(off, size)>> \o @]
    ELSE [s EXCEPT !.bk[size] = <<off>> \o @]

(* num pieces of size units from the chunk, fewer when it ends, or from a new *)
(* chunk.  The rest of the old chunk is released or joined, or, when there is *)
(* no page, forgotten: lost is the memory no list refers to.                  *)
allocFromDataChunk(s, size, num, mm) ==
    LET start == s.start
        avail == s.end - start
        n == Min({avail \div size, num})
        needed == roundPageSize(size * num)
        Fresh(r) ==
            IF avail = 0 THEN [r.s EXCEPT !.start = r.off, !.end = r.off + needed]
            ELSE IF start + avail = r.off
                 THEN [r.s EXCEPT !.start = start, !.end = r.off + needed]
                 ELSE [releaseData(r.s, start, avail)
                           EXCEPT !.start = r.off, !.end = r.off + needed]
        FirstOf(t) == [s |-> [t EXCEPT !.start = @ + num * size], off |-> t.start, num |-> num]
        Refill(r) ==
            IF r.off # 0 THEN FirstOf(Fresh(r))
            ELSE [s |-> IF avail = 0 THEN r.s
                        ELSE [r.s EXCEPT !.lost = @ \cup {Block(start, avail)}],
                  off |-> 0, num |-> 0]
    IN  IF n > 0 THEN [s |-> [s EXCEPT !.start = @ + n * size], off |-> start, num |-> n]
        ELSE Refill(allocPage([s EXCEPT !.start = s.end], needed, mm))

rmFromDataFreeList(s, i) == [s EXCEPT !.fl = RemoveAt(@, i)]
mvDataFreeListToBucket(s, i) ==
    [rmFromDataFreeList(s, i) EXCEPT !.bk[s.fl[i].size] = <<s.fl[i].off>> \o @]

(* The tail of the first piece that is large enough; a rest that fits a bucket *)
(* moves there.                                                               *)
allocFromDataFreeList(s, size, mm) ==
    LET fits == {i \in DOMAIN s.fl : s.fl[i].size >= size}
        i == Min(fits)
        left == s.fl[i].size - size
        cut == [s EXCEPT !.fl[i].size = left]
        rest == IF left >= MaxBckt THEN cut
                ELSE IF left = 0 THEN rmFromDataFreeList(s, i)
                ELSE mvDataFreeListToBucket(cut, i)
        r == allocFromDataChunk(s, size, 1, mm)
    IN  IF fits # {} THEN [s |-> rest, off |-> s.fl[i].off + left]
        ELSE [s |-> r.s, off |-> r.off]

(* The first piece stays in the bucket it was taken from.                     *)
fillDataBucketAll(s, size, mm) ==
    LET r == allocFromDataChunk(s, size, Min({(4 * MaxBckt) \div size, MaxSlot}), mm)
    IN  [s |-> IF r.num = 0 THEN r.s
               ELSE [r.s EXCEPT !.bk[size] = [j \in 1..r.num |-> r.off + (j - 1) * size]],
         off |-> r.off]

fillDataBucket(s, size, mm) ==
    LET r == allocFromDataChunk(s, size, Min({(4 * MaxBckt) \div size, MaxSlot}), mm)
    IN  [s |-> IF r.num = 0 THEN r.s
               ELSE [r.s EXCEPT !.bk[size] = [j \in 1..(r.num - 1) |-> r.off + j * size]],
         off |-> r.off]

allocFromDataBucket(s, size, mm) ==
    IF s.bk[size] # <<>>
    THEN [s |-> [s EXCEPT !.bk[size] = Tail(@)], off |-> Head(s.bk[size])]
    ELSE fillDataBucket(s, size, mm)

alloc2Ex(s, size, mm) ==
    IF size >= PageUnits THEN allocPage(s, size, mm)
    ELSE IF size >= MaxBckt THEN allocFromDataFreeList(s, size, mm)
    ELSE allocFromDataBucket(s, size, mm)

Extent(off, size) == Block(off, IF size >= PageUnits THEN roundPageSize(size) ELSE size)

(* A piece that crosses the end of a large page is dropped and a whole large  *)
(* page is taken in its place.                                                *)
alloc2(s, size, mm) ==
    LET Crosses(off) == /\ size < LargeUnits /\ off # 0
                        /\ off \div LargeUnits # (off + size - 1) \div LargeUnits
        Result(q, n) == [s |-> q.s, off |-> q.off, size |-> n]
        Placed(r) ==
            IF ~Crosses(r.off) THEN Result(r, size)
            ELSE Result(alloc2Ex([r.s EXCEPT !.lost = @ \cup {Extent(r.off, size)}],
                                 LargeUnits, mm), LargeUnits)
    IN  Placed(alloc2Ex(s, size, mm))

release2(s, off, size) ==
    IF size >= PageUnits THEN releasePageLocked(s, off, size) ELSE releaseData(s, off, size)

(****************************************************************************)
(* Actions                                                                    *)
(****************************************************************************)
(* newShmMap and createStaticData: the first page holds the headers.          *)
InitPool ==
    /\ shm = [file |-> GrowUnits, used |-> PageUnits, large |-> 1, seams |-> {},
              top |-> [p \in Pages |-> 0], bot |-> [p \in Pages |-> 0], list |-> <<>>,
              start |-> 0, end |-> 0, fl |-> <<>>,
              bk |-> [b \in 1..(MaxBckt - 1) |-> <<>>], lost |-> {}]
    /\ held = {}

PoolAlloc(size, mm) ==
    /\ Cardinality(held) < MaxHeld
    /\ \E r \in {alloc2(shm, size, mm)} :
       /\ shm' = r.s
       /\ held' = IF r.off = 0 THEN held ELSE held \cup {Block(r.off, r.size)}

PoolRelease(b) ==
    /\ shm' = release2(shm, b.off, b.size)
    /\ held' = held \ {b}

(* The owner of a block fills it with data: the tags of earlier free runs     *)
(* inside it are gone.                                                        *)
Fill(b) ==
    LET e == Extent(b.off, b.size)
        inside == {p \in Pages : p > e.off /\ p <= e.off + e.size /\ e.size >= PageUnits}
    IN  /\ \E p \in inside : shm.bot[p] # 0
        /\ shm' = [shm EXCEPT !.bot = [p \in Pages |-> IF p \in inside THEN 0 ELSE @[p]]]
        /\ UNCHANGED held

NextPool ==
    \/ \E size \in Sizes, mm \in Mappings : PoolAlloc(size, mm)
    \/ \E b \in held : PoolRelease(b)
    \/ \E b \in held : Fill(b)

(****************************************************************************)
(* Properties                                                                 *)
(****************************************************************************)
(* Every piece of memory the pool knows of, by what refers to it.             *)
Free ==
    {Block(shm.list[i], shm.top[shm.list[i]]) : i \in DOMAIN shm.list}
    \cup ToSet(shm.fl)
    \cup UNION {{Block(o, b) : o \in ToSet(shm.bk[b])} : b \in DOMAIN shm.bk}
    \cup (IF shm.start = shm.end THEN {} ELSE {Block(shm.start, shm.end - shm.start)})
InUse == {Extent(b.off, b.size) : b \in held}
Units(b) == b.off..(b.off + b.size - 1)

(* What alloc2 hands out, what release2 takes back and what is left between   *)
(* them share no unit, and together with what the code is known to drop they  *)
(* are all of the file up to its used size: no block is given out twice, none *)
(* disappears.                                                                *)
Accounted ==
    LET all == Free \cup InUse \cup shm.lost IN
    /\ \A a, b \in all : a # b => Units(a) \cap Units(b) = {}
    /\ UNION {Units(b) : b \in all} = PageUnits..(shm.used - 1)
    /\ Free \cap InUse = {}
    /\ IsInjective(shm.list) /\ IsInjective(shm.fl)
    /\ \A b \in DOMAIN shm.bk : IsInjective(shm.bk[b])

(* The markers that isFreeBlockAbove and isFreeBlockBelow go by are those of  *)
(* the listed runs, whatever stale tags released and reused pages hold, and   *)
(* two free runs are never neighbours.                                        *)
RunsMerged ==
    /\ {p \in Pages : shm.top[p] # 0} = ToSet(shm.list)
    /\ \A p \in ToSet(shm.list) : /\ shm.bot[p + shm.top[p]] = p
                                  /\ p + shm.top[p] \notin ToSet(shm.list)

(* LsShmPool::alloc2 and release2 keep the file partitioned into what is held, *)
(* what is free and what is known to be dropped, and merge what is free.       *)
PoolSound == Accounted /\ RunsMerged
==============================================================================
