------------------------------ MODULE TidSlice ------------------------------
(***************************************************************************)
(* One slice on the node that is its master, as the cached worker          *)
(* processes change it: every action is a memcached command (or the part   *)
(* of one) that runs under one hold of the slice lock, so commands of      *)
(* different workers interleave whole.                                     *)
(***************************************************************************)
EXTENDS LsShmTidMgr

CONSTANT MaxTid     \* bound of the model: no command starts beyond this tid

VARIABLE slice

vars == << slice >>

ASSUME KeysAssumption == Keys # {} /\ Vals # {}

Init == \E k \in Keys, v \in Vals : slice = InitSlice(k, v)

InBound == slice.tid < MaxTid

(* The offset an allocation may return: any free one, or 0 when the pool has
   no chunk of the size asked for. *)
Allocs(s) == Free(s) \cup {0}

(* set, add and replace of a key that is not in the hash (replace stops before
   this point): setIteratorWithKey -> doSet -> insert2. *)
CmdInsert(k, v) ==
    /\ InBound
    /\ find2(slice, k) = {}
    /\ \E off \in Allocs(slice), w \in LinkWords :
            slice' = insert2(slice, k, v, off, w)

(* set, replace, cas, incr and decr of a key that is there. *)
CmdUpdateInPlace(k, v) ==
    /\ InBound
    /\ \E off \in find2(slice, k) : slice' = doSetInPlace(slice, off, v, "master")

CmdUpdateRealloc(k, v) ==
    /\ InBound
    /\ \E off \in find2(slice, k) :
         \E new \in Allocs(slice) \cup {off}, w \in LinkWords :
            slice' = doSetRealloc(slice, off, v, new, w, "master")

(* append and prepend. *)
CmdGrow(k, v) ==
    /\ InBound
    /\ \E off \in find2(slice, k), new \in Allocs(slice), w \in LinkWords :
            slice' = iterGrowValue(slice, off, v, new, w, "master")

(* delete; also every command that finds its key expired (get, touch, incr,
   append, replace) and the set whose value is too large. *)
CmdErase(k) ==
    /\ InBound
    /\ \E off \in find2(slice, k) :
            slice' = eraseIteratorHelper(slice, off, "master")

(* touch: the value stays, the element gets a new tid. *)
CmdTouch(k) ==
    /\ InBound
    /\ \E off \in find2(slice, k) : slice' = tidReplaceTid(slice, off, "master")

(* One round of trimsize, which chkMemSz runs before a store that would exceed
   the memory limit.  The lock is held for all rounds; letting other commands
   in between adds behaviours and removes none. *)
TrimRound(off) ==
    /\ InBound
    /\ off \in slice.live
    /\ slice' = eraseIteratorHelper(checkTidTbl(slice), off, "master")

(* flush_all *)
CmdFlush ==
    /\ InBound
    /\ slice' = clear(slice, "master")

Next ==
    \/ \E k \in Keys, v \in Vals :
          \/ CmdInsert(k, v)
          \/ CmdUpdateInPlace(k, v)
          \/ CmdUpdateRealloc(k, v)
          \/ CmdGrow(k, v)
    \/ \E k \in Keys : CmdErase(k) \/ CmdTouch(k)
    \/ \E off \in Offs : TrimRound(off)
    \/ CmdFlush

Spec == Init /\ [][Next]_vars

-----------------------------------------------------------------------------
(* Properties. *)

(* The slice record keeps the shape of LsShmTidInfo, its blocks and elements. *)
TypeOK == slice \in Slices

(* As long as the block index is aligned, no table entry refers to an element
   that has been released or that is linked to another tid: bcastNewTidData
   never follows an entry into freed memory.  Holds when block and element
   allocations fail, too. *)
EntriesLiveIfAligned == Aligned(slice) => EntriesLive(slice)

(* As long as the block index is aligned, every element in the hash is found
   through its tid, so that replication misses none.  Only when the pool never
   runs out of blocks: a failed growTidTbl leaves an element without an
   entry. *)
ElemsTrackedIfAligned == Aligned(slice) => ElemsTracked(slice)

(* The history is append-only: an entry of a tid that was already handed out is
   cleared or dropped but never written again.  A slave that has applied the
   table up to a tid need not look at the part before it any more. *)
HistoryIsAppendOnly == [][HistoryKept(slice, slice')]_vars

=============================================================================
