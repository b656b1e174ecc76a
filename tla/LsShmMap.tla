------------------------------ MODULE LsShmMap ------------------------------
(****************************************************************************)
(* One shared-memory file mapped by several worker processes, one of which    *)
(* makes it larger while the others still have the old size mapped.  Each     *)
(* hash of the file has a lock, the pool has one and LsShm has one; taking    *)
(* any of them looks whether the file has grown.  Sizes and offsets count     *)
(* pages.  A process may die anywhere; its lock is then taken over            *)
(* (LsShmFile) and the guard forks another, which maps what the guard does.   *)
(****************************************************************************)
EXTENDS Integers, FiniteSets, SequencesExt

(****************************************************************************)
(* Where a process has mapped the large pages of a shared-memory file: from   *)
(* offset to address by a list, from address to offset by a hash table that   *)
(* probes three slots behind the home slot and grows when they are taken.     *)
(* Addresses and offsets count large pages; 0 is NULL.                        *)
(****************************************************************************)

CONSTANTS
    Addrs,        \* page numbers mmap may return
    TableSize,    \* initial size of the address table
    RoundSize(_), \* LsShmHash::roundUp
    MaxPages      \* bound: pages mapped

ASSUME AddrAssumption == Addrs \subseteq Nat \ {0} /\ TableSize \in Nat \ (0..3)

VARIABLES off2ptr, ptr2off
addrVars == <<off2ptr, ptr2off>>

Empty == [ptr |-> 0, off |-> 0]
NewTable(n) == [i \in 0..(n - 1) |-> Empty]
SizeOf(t) == Cardinality(DOMAIN t)

(* The slots add_collide and lookup_collid visit after the home slot.         *)
Window(t, home) == [k \in 1..3 |-> (home + k) % SizeOf(t)]

(* The slot addEx takes, or -1.                                               *)
addEx(t, p) ==
    LET home == p.ptr % SizeOf(t)
        probes == <<home>> \o Window(t, home)
        free == {k \in 1..4 : t[probes[k]] = Empty}
    IN  IF free = {} THEN -1 ELSE probes[Min(free)]

(* All entries in a table of the given size, a larger one when they collide.  *)
RECURSIVE rehash(_, _)
rehash(t, size) ==
    LET n == RoundSize(size)
        Move[i \in 0..SizeOf(t)] ==
            IF i = 0 THEN NewTable(n)
            ELSE LET u == Move[i - 1]
                     p == t[i - 1]
                 IN  IF u = <<>> \/ p = Empty THEN u
                     ELSE IF addEx(u, p) = -1 THEN <<>> ELSE [u EXCEPT ![addEx(u, p)] = p]
    IN  IF Move[SizeOf(t)] = <<>> THEN rehash(t, n * 2) ELSE Move[SizeOf(t)]

RECURSIVE add(_, _)
add(t, p) ==
    IF addEx(t, p) = -1 THEN add(rehash(t, SizeOf(t) * 2), p) ELSE [t EXCEPT ![addEx(t, p)] = p]

lookup(t, a) ==
    LET home == a % SizeOf(t)
        W == SelectSeq(<<home>> \o Window(t, home), LAMBDA i : t[i].ptr = a)
    IN  IF W = <<>> THEN Empty ELSE t[Head(W)]

InitAddr == off2ptr = <<>> /\ ptr2off = NewTable(TableSize)

(* mapAddrSpace and addLargePage: n pages from address a on.                  *)
mapPages(a, n) ==
    /\ Len(off2ptr) + n <= MaxPages
    /\ a..(a + n - 1) \subseteq Addrs \ ToSet(off2ptr)
    /\ off2ptr' = off2ptr \o [i \in 1..n |-> a + i - 1]
    /\ LET Added[i \in 0..n] ==
               IF i = 0 THEN ptr2off
               ELSE add(Added[i - 1], [ptr |-> a + i - 1, off |-> Len(off2ptr) + i - 1])
       IN  ptr2off' = Added[n]
unmap ==
    /\ off2ptr # <<>> /\ off2ptr' = <<>>
    /\ ptr2off' = NewTable(SizeOf(ptr2off))

NextAddr == (\E a \in Addrs, n \in 1..2 : mapPages(a, n)) \/ unmap

(* ptr2offset is the inverse of offset2ptr on what is mapped and NULL          *)
(* elsewhere, however the addresses collide and whenever the table has grown. *)
Translates ==
    /\ \A i \in DOMAIN off2ptr : lookup(ptr2off, off2ptr[i]).off = i - 1
                                 /\ lookup(ptr2off, off2ptr[i]).ptr = off2ptr[i]
    /\ \A a \in Addrs \ ToSet(off2ptr) : lookup(ptr2off, a) = Empty
-----------------------------------------------------------------------------

CONSTANTS
    Workers,      \* processes
    Hashes,       \* hashes in the file
    Nobody,       \* the owner of a free lock
    FirstPages,   \* pages of a new file, which the guard has mapped
    ExpandPages,  \* 16 * LSSHM_SHM_UNITSIZE, by which the file grows
    MaxShmPages,  \* m_iMaxShmSize
    RebuildGap,   \* 100 MB, in pages
    MaxMapDeaths  \* bound: deaths of workers

ASSUME MapAssumption ==
    /\ {FirstPages, ExpandPages, MaxShmPages} \subseteq Nat \ {0} /\ Nobody \notin Workers

VARIABLE sm
mapVars == <<sm>>

InitMap ==
    sm = [ st |-> FirstPages,           \* st_size of the file
           fileSize |-> FirstPages,     \* x_stat.m_iFileSize
           used |-> 1,                  \* x_stat.m_iUsedSize: the header page
           elems |-> [h \in Hashes |-> {}],     \* offsets a hash refers to
           free |-> {},                         \* offsets in the pool's lists
           hashLock |-> [h \in Hashes |-> Nobody], poolLock |-> Nobody, shmLock |-> Nobody,
           max |-> [p \in Workers |-> FirstPages],     \* m_iMaxSizeO
           pc |-> [p \in Workers |-> "out"],
           hash |-> [p \in Workers |-> CHOOSE h \in Hashes : TRUE],
           deaths |-> 0,
           fault |-> FALSE,             \* somebody followed an offset that is not mapped
           lost |-> FALSE ]             \* somebody deleted the file or asked for a rebuild

(* AddrMap::remap maps what is between the old and the new size.              *)
mapAddrMap(s, p, size) == [s EXCEPT !.max[p] = size]
remap(s, p) ==
    mapAddrMap([s EXCEPT !.lost = @ \/ s.fileSize = 0 \/ s.fileSize - s.st > RebuildGap],
               p, s.fileSize)
chkRemap(s, p) == IF s.fileSize = s.max[p] THEN s ELSE remap(s, p)

(* Wrong variant: a lock does not look at the size.                           *)
lockRemapNot(s, p) == s

(* What every lock of a hash, of a pool and of LsShm itself does once it has  *)
(* the lock.                                                                  *)
lockRemap(s, p) == chkRemap(s, p)

(* An offset beyond what is mapped is looked up in the file, and when it is   *)
(* beyond the file the file is deleted.                                       *)
tryRecoverBadOffset(s, p, o) ==
    IF s.fileSize > o THEN remap(s, p) ELSE [s EXCEPT !.lost = TRUE]

(* The memory behind the offset is used at once: it must be mapped, and part  *)
(* of the file.                                                               *)
offset2ptr(s, p, o) ==
    LET t == IF o > s.max[p] THEN tryRecoverBadOffset(s, p, o) ELSE s
    IN  [t EXCEPT !.fault = @ \/ o >= t.max[p] \/ o >= t.st]

Where(p, l) == sm.pc[p] = l
MoveTo(s, p, l) == [s EXCEPT !.pc[p] = l]

(* LsShmHash::autoLock and LsShmPool::autoLock.                               *)
hashLock(p, h) ==
    /\ Where(p, "out") /\ sm.hashLock[h] = Nobody
    /\ sm' = lockRemap([MoveTo(sm, p, "hash") EXCEPT !.hashLock[h] = p, !.hash[p] = h], p)
poolLock(p) ==
    /\ Where(p, "hash") /\ sm.poolLock = Nobody
    /\ sm' = lockRemap([MoveTo(sm, p, "pool") EXCEPT !.poolLock = p], p)
poolUnlock(p) ==
    /\ Where(p, "pool") /\ sm' = [MoveTo(sm, p, "hash") EXCEPT !.poolLock = Nobody]
hashUnlock(p) ==
    /\ Where(p, "hash") /\ sm' = [MoveTo(sm, p, "out") EXCEPT !.hashLock[sm.hash[p]] = Nobody]

(* offset2iterator: an element found in the chains of the hash.               *)
offset2iterator(p) ==
    /\ Where(p, "hash")
    /\ \E o \in sm.elems[sm.hash[p]] : sm' = offset2ptr(sm, p, o)

(* release2 links the memory into a list, alloc2 takes what a list has.       *)
putFree(p) ==
    /\ Where(p, "pool")
    /\ \E o \in sm.elems[sm.hash[p]] :
          sm' = [offset2ptr(sm, p, o) EXCEPT !.elems[sm.hash[p]] = @ \ {o}, !.free = @ \cup {o}]
takeFree(p) ==
    /\ Where(p, "pool")
    /\ \E o \in sm.free :
          sm' = [offset2ptr(sm, p, o) EXCEPT !.elems[sm.hash[p]] = @ \cup {o}, !.free = @ \ {o}]

(* LsShm::allocPage when the lists are empty: from the unused end of the      *)
(* file, which is made longer when there is nothing left.                     *)
shmLock(p) ==
    /\ Where(p, "pool") /\ sm.free = {} /\ sm.shmLock = Nobody
    /\ sm' = lockRemap([MoveTo(sm, p, "shm") EXCEPT !.shmLock = p], p)
usePage(p) ==
    /\ Where(p, "shm") /\ sm.used < sm.fileSize
    /\ sm' = offset2ptr([MoveTo(sm, p, "pool") EXCEPT !.used = @ + 1, !.shmLock = Nobody,
                                                   !.elems[sm.hash[p]] = @ \cup {sm.used}],
                        p, sm.used)

(* The length first, then the pages one by one.                               *)
Failed(s, p) == [MoveTo(s, p, "pool") EXCEPT !.shmLock = Nobody]
ls_expandfile(p) ==
    /\ Where(p, "shm") /\ sm.used >= sm.fileSize
    /\ sm' = IF sm.fileSize + ExpandPages > MaxShmPages THEN Failed(sm, p)
             ELSE [MoveTo(sm, p, "grown") EXCEPT !.st = sm.fileSize + ExpandPages]
expandNoSpace(p) ==
    /\ Where(p, "grown") /\ sm' = Failed([sm EXCEPT !.st = sm.fileSize], p)

(* expand: the size is told before the memory is mapped.                      *)
expand(p) ==
    /\ Where(p, "grown") /\ sm' = [MoveTo(sm, p, "sized") EXCEPT !.fileSize = @ + ExpandPages]
expandMap(p) ==
    /\ Where(p, "sized") /\ sm' = mapAddrMap(MoveTo(sm, p, "shm"), p, sm.fileSize)

WorkerDies(p) ==
    /\ sm.deaths < MaxMapDeaths
    /\ sm' = [MoveTo(sm, p, "out") EXCEPT
                 !.deaths = @ + 1, !.max[p] = FirstPages,
                 !.hashLock = [h \in Hashes |-> IF sm.hashLock[h] = p THEN Nobody
                                                ELSE sm.hashLock[h]],
                 !.poolLock = IF @ = p THEN Nobody ELSE @,
                 !.shmLock = IF @ = p THEN Nobody ELSE @]

NextMap ==
    \E p \in Workers :
       \/ \E h \in Hashes : hashLock(p, h)
       \/ poolLock(p) \/ poolUnlock(p) \/ hashUnlock(p)
       \/ offset2iterator(p) \/ putFree(p) \/ takeFree(p)
       \/ shmLock(p) \/ usePage(p) \/ ls_expandfile(p) \/ expandNoSpace(p) \/ expand(p)
       \/ expandMap(p) \/ WorkerDies(p)

(* Whoever grows the file, fails to or dies on the way: every offset a        *)
(* process follows is mapped and in the file when it does, nobody has more    *)
(* mapped than the file has, and nobody takes a stale size for corruption.    *)
MappedWhenUsed ==
    /\ ~sm.fault /\ ~sm.lost
    /\ \A p \in Workers : sm.max[p] <= sm.st
=============================================================================
