---------------------------- MODULE LsShmTidMgr ----------------------------
(***************************************************************************)
(* The transaction-id (TID) manager of one slice of the shared-memory hash *)
(* (src/shm/lsshmtidmgr.{h,cpp}) with the operations of LsShmHash that     *)
(* call its hooks (src/shm/lsshmhash.cpp).                                 *)
(*                                                                         *)
(* A slice is a record, so that the same operators describe the master's   *)
(* copy, a slave's copy, and the states between two calls made under one   *)
(* hold of the slice lock:                                                 *)
(*   tid       x_tid, the last transaction id                              *)
(*   preClear  x_lastTidPreClear, the last tid before the last clear       *)
(*   blks      the chain of LsShmTidTblBlk, which is also the block index  *)
(*             array (x_iBlkIdxOff): both are only appended to and dropped *)
(*             together                                                    *)
(*   live      the offsets of the elements that are in the hash            *)
(*   key, val, link  what the memory at each offset holds; a released      *)
(*             element's bytes stay where they are until the next use      *)
(* The counters x_iIterCnt and x_iDelCnt are written and never read, and   *)
(* are left out.                                                           *)
(***************************************************************************)
EXTENDS Naturals, Sequences, FiniteSets

CONSTANTS
    BlkSz,      \* TIDTBLBLK_MAXSZ: entries of one table block (1024)
    MaxBlks,    \* blocks the pool can hold; growTidTbl fails beyond it
    Offs,       \* offsets the pool can give to hash elements
    Keys, Vals,
    LinkWords   \* what the link word of freshly allocated memory may hold

ASSUME BlkSzAssumption == BlkSz \in Nat \ {0}
ASSUME MaxBlksAssumption == MaxBlks \in Nat
ASSUME OffsAssumption == Offs \subseteq Nat \ {0}    \* offset 0 is "none"
ASSUME PoolAssumption == IsFiniteSet(Offs)
ASSUME LinkWordsAssumption == LinkWords \subseteq Nat

-----------------------------------------------------------------------------
(* Table values.  The source packs them in a uint64_t: 0 is an unused slot,
   the high bit marks an element offset, anything else is the tid that this
   transaction deleted, with one reserved value for a flush. *)

NoVal == [kind |-> "none", arg |-> 0]
iterOff2tidVal(off) == [kind |-> "iter", arg |-> off]
tidDelVal(t) == IF t = 0 THEN NoVal ELSE [kind |-> "del", arg |-> t]
TIDDEL_FLUSHALL == [kind |-> "flush", arg |-> 0]

TidVals ==
    {NoVal, TIDDEL_FLUSHALL} \cup [kind : {"iter"}, arg : Offs \cup {0}]
                             \cup [kind : {"del"}, arg : Nat \ {0}]

isTidValIterOff(v) == v.kind = "iter"

Slot(t) == t % BlkSz

Blocks == [base : Nat, vals : [0 .. BlkSz - 1 -> TidVals]]

Slices ==
    [tid : Nat, preClear : Nat, blks : Seq(Blocks), live : SUBSET Offs,
     key : [Offs -> Keys], val : [Offs -> Vals], link : [Offs -> Nat]]

(* LsShmTidMgr::init with blkinit: everything zero, no element. *)
InitSlice(k0, v0) ==
    [tid |-> 0, preClear |-> 0, blks |-> << >>, live |-> {},
     key |-> [o \in Offs |-> k0], val |-> [o \in Offs |-> v0],
     link |-> [o \in Offs |-> 0]]

-----------------------------------------------------------------------------
(* The table. *)

(* The index of tid's block, 0 for NULL.  The block number is computed from
   the tids alone, relative to the block of the last tid before the clear. *)
tid2tblBlk(s, t) ==
    LET from == IF t < s.preClear THEN s.preClear ELSE t
        indx == (from \div BlkSz) - (s.preClear \div BlkSz) + 1
    IN  IF indx > Len(s.blks) THEN 0 ELSE indx

growTidTbl(s, base) ==
    [s EXCEPT !.blks = Append(@, [base |-> base,
                                  vals |-> [i \in 0 .. BlkSz - 1 |-> NoVal]])]

(* Wrong variant: the block boundary is off by one. *)
NeedsBlkLate(s, t) ==
    \/ s.blks = << >>
    \/ t > s.blks[Len(s.blks)].base + BlkSz

NeedsBlk(s, t) ==
    \/ s.blks = << >>
    \/ t >= s.blks[Len(s.blks)].base + BlkSz

(* setTidTblEnt: tid 0 asks for the next one; any other tid must be ahead of
   the last.  x_tid has already advanced when the block cannot be had. *)
InSeq(s, t) == t = 0 \/ t > s.tid

NewTid(s, t) == IF t = 0 THEN s.tid + 1 ELSE t

HasRoom(s, t) == NeedsBlk(s, t) => Len(s.blks) < MaxBlks

setTidTblEntOk(s, t) == InSeq(s, t) /\ HasRoom(s, NewTid(s, t))

StoreVal(s, v, t) ==
    [s EXCEPT !.blks[Len(s.blks)].vals[Slot(t)] = v]

setTidTblEnt(s, v, t) ==
    LET n == NewTid(s, t)
        s1 == [s EXCEPT !.tid = n]
        s2 == IF NeedsBlk(s1, n) THEN growTidTbl(s1, n - Slot(n)) ELSE s1
    IN  CASE ~InSeq(s, t) -> s
          [] InSeq(s, t) /\ ~HasRoom(s, n) -> s1
          [] OTHER -> StoreVal(s2, v, n)

clrTidTblEnt(s, t) ==
    LET b == tid2tblBlk(s, t)
    IN  IF b = 0 THEN s ELSE [s EXCEPT !.blks[b].vals[Slot(t)] = NoVal]

(* checkTidTbl: make sure the next tid has a block before elements are
   walked, so that no remap happens under the walk. *)
checkTidTbl(s) ==
    LET n == s.tid + 1
    IN  IF NeedsBlk(s, n) /\ Len(s.blks) < MaxBlks
        THEN growTidTbl(s, n - Slot(n)) ELSE s

(* tid2iterOff: the offset recorded under a tid, 0 if there is none. *)
tid2iterOff(s, t) ==
    LET b == tid2tblBlk(s, t)
    IN  IF b = 0 THEN 0
        ELSE LET v == s.blks[b].vals[Slot(t)]
             IN  IF isTidValIterOff(v) THEN v.arg ELSE 0

-----------------------------------------------------------------------------
(* Linking elements and tids.  role is the role that the calling process has
   for the slice (LSSHM_FLAG_TID_SLAVE of its LsShmHash object). *)

isTidMaster(role) == role = "master"

linkTid(s, off, t) ==
    LET s1 == setTidTblEnt(s, iterOff2tidVal(off), t)
    IN  IF setTidTblEntOk(s, t) /\ off \in Offs
        THEN [s1 EXCEPT !.link[off] = NewTid(s, t)] ELSE s1

(* Wrong variant: a slave hands out tids for deletions, too. *)
unlinkTidAnyRole(s, t, role) == setTidTblEnt(clrTidTblEnt(s, t), tidDelVal(t), 0)

unlinkTid(s, t, role) ==
    LET s1 == clrTidTblEnt(s, t)
    IN  IF isTidMaster(role) THEN setTidTblEnt(s1, tidDelVal(t), 0) ELSE s1

tidReplaceTid(s, off, role) ==
    linkTid(unlinkTid(s, s.link[off], role), off, 0)

(* Wrong variant: the link is reset but the table is not told. *)
eraseIterCbForgets(s, off, role) == [s EXCEPT !.link[off] = 0]

eraseIterCb(s, off, role) ==
    IF s.link[off] = 0 THEN s
    ELSE unlinkTid([s EXCEPT !.link[off] = 0], s.link[off], role)

updateIterCb(s, off, role) == linkTid(eraseIterCb(s, off, role), off, 0)

clrTidTbl(s, role) ==
    LET s1 == [s EXCEPT !.blks = << >>, !.preClear = s.tid]
    IN  IF isTidMaster(role) THEN setTidTblEnt(s1, TIDDEL_FLUSHALL, 0) ELSE s1

-----------------------------------------------------------------------------
(* LsShmHash operations. *)

find2(s, k) == {o \in s.live : s.key[o] = k}

Free(s) == Offs \ s.live

(* Wrong variant: the result of allocIter is not looked at. *)
insertCopy2Unchecked(s, k, v, off, w) == [s EXCEPT !.live = @ \cup {off}]

(* insertCopy2 writes key and value but not the link word of the element: w is
   whatever the allocated memory holds there.  off = 0: allocIter failed. *)
insertCopy2(s, k, v, off, w) ==
    IF off = 0 THEN s
    ELSE [s EXCEPT !.live = @ \cup {off}, !.key[off] = k, !.val[off] = v,
                   !.link[off] = w]

(* Wrong variant: the hook is not called. *)
insert2NoHook(s, k, v, off, w) == insertCopy2(s, k, v, off, w)

(* insert2 calls the hook whether or not the element could be allocated. *)
insert2(s, k, v, off, w) == linkTid(insertCopy2(s, k, v, off, w), off, 0)

eraseIteratorHelper(s, off, role) ==
    LET s1 == eraseIterCb(s, off, role)
    IN  [s1 EXCEPT !.live = @ \ {off}]

(* doSet on an existing element that has room for the new value. *)
doSetInPlace(s, off, v, role) ==
    updateIterCb([s EXCEPT !.val[off] = v], off, role)

(* doSet on an existing element that is too small: a new one replaces it. *)
doSetRealloc(s, off, v, new, w, role) ==
    insert2(eraseIteratorHelper(s, off, role), s.key[off], v, new, w)

(* iterGrowValue: the new element is allocated before the old one goes; when
   that fails nothing changes. *)
iterGrowValue(s, off, v, new, w, role) ==
    IF new = 0 THEN s
    ELSE LET s1 == insertCopy2(s, s.key[off], v, new, w)
         IN  linkTid(eraseIteratorHelper(s1, off, role), new, 0)

(* clear releases every element without a hook; the links stay in memory. *)
clear(s, role) == clrTidTbl([s EXCEPT !.live = {}], role)

-----------------------------------------------------------------------------
(* What a slice must satisfy. *)

EntryAt(s, b, i) == s.blks[b].vals[i]

EntryTid(s, b, i) == s.blks[b].base + i

(* The block index finds the block of a tid: the i-th block is the i-th after
   the block of preClear.  growTidTbl ensures this only when the tid
   it grows for is the first one of a block. *)
Aligned(s) ==
    \A b \in 1 .. Len(s.blks) :
        s.blks[b].base = ((s.preClear \div BlkSz) + b - 1) * BlkSz

(* Every element offset in the table is that of an element that is in the
   hash and that is linked to this very entry. *)
EntriesLive(s) ==
    \A b \in 1 .. Len(s.blks) : \A i \in 0 .. BlkSz - 1 :
        LET v == EntryAt(s, b, i)
        IN  isTidValIterOff(v) /\ v.arg # 0
            => v.arg \in s.live /\ s.link[v.arg] = EntryTid(s, b, i)

(* Every element in the hash has its entry in the table. *)
ElemsTracked(s) ==
    \A o \in s.live : tid2iterOff(s, s.link[o]) = o

(* u has no entry of a tid up to the last of s that s has not. *)
Recorded(s, t, v) ==
    \E b \in 1 .. Len(s.blks) : \E i \in 0 .. BlkSz - 1 :
        EntryTid(s, b, i) = t /\ EntryAt(s, b, i) = v

HistoryKept(s, u) ==
    \A b \in 1 .. Len(u.blks) : \A i \in 0 .. BlkSz - 1 :
        EntryTid(u, b, i) <= s.tid /\ EntryAt(u, b, i) # NoVal
        => Recorded(s, EntryTid(u, b, i), EntryAt(u, b, i))

=============================================================================
