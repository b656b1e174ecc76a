--------------------------- MODULE TidSlice_proofs ---------------------------
(***************************************************************************)
(* Proofs about one slice and its tid table, for every block size, number  *)
(* of blocks, pool, key and value set.                                     *)
(***************************************************************************)
EXTENDS TidSlice, LsShmTidMgr_proofs

USE BlkSzAssumption, MaxBlksAssumption, OffsAssumption, LinkWordsAssumption

-----------------------------------------------------------------------------
(* The theorems. *)

Inv == Good(slice)

(* LsShmTidMgr::init establishes the invariant. *)
LEMMA InitInv == Init => Inv
BY InitGood DEF Init, Inv

(* Every command keeps the invariant and the history: one step per command. *)
LEMMA StepContinues ==
    ASSUME Inv, Next
    PROVE  Continues(slice, slice')
<1>1. Good(slice) /\ Struct(slice) /\ slice.live \subseteq Offs
      /\ slice.key \in [Offs -> Keys]
  BY DEF Inv, Good, Struct, Slices
<1>2. ASSUME NEW k \in Keys, NEW v \in Vals, CmdInsert(k, v)
      PROVE  Continues(slice, slice')
  <2>1. PICK off \in Free(slice) \cup {0}, w \in LinkWords :
          slice' = insert2(slice, k, v, off, w)
    BY <1>2 DEF CmdInsert, Allocs
  <2> QED
    BY <1>1, <2>1, Insert2Continues DEF Free
<1>3. ASSUME NEW k \in Keys, NEW v \in Vals, CmdUpdateInPlace(k, v)
      PROVE  Continues(slice, slice')
  <2>1. PICK off \in slice.live :
          slice' = doSetInPlace(slice, off, v, "master")
    BY <1>3 DEF CmdUpdateInPlace, find2
  <2> QED
    BY <1>1, <2>1, InPlace
<1>4. ASSUME NEW k \in Keys, NEW v \in Vals, CmdUpdateRealloc(k, v)
      PROVE  Continues(slice, slice')
  <2>1. PICK off \in slice.live :
          \E new \in Free(slice) \cup {0} \cup {off}, w \in LinkWords :
            slice' = doSetRealloc(slice, off, v, new, w, "master")
    BY <1>4 DEF CmdUpdateRealloc, find2, Allocs
  <2> QED
    BY <1>1, <2>1, Realloc
<1>5. ASSUME NEW k \in Keys, NEW v \in Vals, CmdGrow(k, v)
      PROVE  Continues(slice, slice')
  <2>1. PICK off \in slice.live, new \in Free(slice) \cup {0}, w \in LinkWords :
          slice' = iterGrowValue(slice, off, v, new, w, "master")
    BY <1>5 DEF CmdGrow, find2, Allocs
  <2> QED
    BY <1>1, <2>1, Grow
<1>6. ASSUME NEW k \in Keys, CmdErase(k)
      PROVE  Continues(slice, slice')
  <2>1. PICK off \in slice.live :
          slice' = eraseIteratorHelper(slice, off, "master")
    BY <1>6 DEF CmdErase, find2
  <2> QED
    BY <1>1, <2>1, EraseContinues
<1>7. ASSUME NEW k \in Keys, CmdTouch(k)
      PROVE  Continues(slice, slice')
  <2>1. PICK off \in slice.live : slice' = tidReplaceTid(slice, off, "master")
    BY <1>7 DEF CmdTouch, find2
  <2> QED
    BY <1>1, <2>1, ReplaceTid
<1>8. ASSUME NEW off \in Offs, TrimRound(off)
      PROVE  Continues(slice, slice')
  BY <1>1, <1>8, Trim DEF TrimRound
<1>9. ASSUME CmdFlush
      PROVE  Continues(slice, slice')
  BY <1>1, <1>9, ClearSlice DEF CmdFlush
<1> QED
  BY <1>2, <1>3, <1>4, <1>5, <1>6, <1>7, <1>8, <1>9 DEF Next

(* The inductive invariant of the slice. *)
LEMMA SpecInv == Spec => []Inv
<1>1. Inv /\ [Next]_vars => Inv'
  <2> SUFFICES ASSUME Inv, [Next]_vars PROVE Inv'
    OBVIOUS
  <2>1. CASE Next
    BY <2>1, StepContinues DEF Continues, Follows, Inv
  <2>2. CASE UNCHANGED vars
    BY <2>2 DEF vars, Inv
  <2> QED
    BY <2>1, <2>2
<1> QED
  BY <1>1, InitInv, PTL DEF Spec

(* The slice keeps its type: every tid, block and element operation of
   LsShmTidMgr and LsShmHash stays within the table and the pool. *)
THEOREM TypeCorrect == Spec => []TypeOK
<1>1. Inv => TypeOK
  BY DEF Inv, Good, Struct, TypeOK
<1> QED
  BY <1>1, SpecInv, PTL

(* No table entry refers to a released or re-linked element as long as the
   block index is aligned, whatever allocation fails. *)
THEOREM EntriesAreLive == Spec => []EntriesLiveIfAligned
<1>1. Inv => EntriesLiveIfAligned
  BY GoodIsLive DEF Inv, EntriesLiveIfAligned
<1> QED
  BY <1>1, SpecInv, PTL

(* An entry of a tid already handed out is never written again. *)
THEOREM HistoryAppendOnly == Spec => HistoryIsAppendOnly
<1>1. Inv /\ [Next]_vars => [HistoryKept(slice, slice')]_vars
  BY StepContinues DEF Continues, Follows
<1> QED
  BY <1>1, SpecInv, PTL DEF Spec, HistoryIsAppendOnly

-----------------------------------------------------------------------------
(* Every element has its entry. *)

Enough == MaxTid \in Nat /\ MaxTid + 1 < MaxBlks * BlkSz
TrackInv == Tracks(slice, {}, slice.tid)

(* Every command keeps all elements tracked: one step per command, each of
   which hands out two tids at most. *)
LEMMA StepTracks ==
    ASSUME Enough, TrackInv, Next
    PROVE  TrackInv'
<1> DEFINE n == slice.tid
<1>1. /\ Good(slice) /\ slice.live \subseteq Offs /\ slice.key \in [Offs -> Keys]
      /\ n \in Nat /\ n + 1 \in Nat /\ Tracks(slice, {}, n)
  BY DEF TrackInv, Tracks, Good, Struct, Slices
<1>2. ASSUME NEW k \in Nat, Tracks(slice', {}, k) PROVE TrackInv'
  <2>1. slice'.tid \in Nat
    BY <1>2 DEF Tracks, Good, Struct, Slices
  <2> QED
    BY <1>2, <2>1 DEF TrackInv, Tracks
<1>3. ASSUME InBound PROVE n + 1 < MaxBlks * BlkSz /\ n + 1 + 1 < MaxBlks * BlkSz
  <2>1. MaxBlks * BlkSz \in Int
    OBVIOUS
  <2> QED
    BY <1>1, <1>3, <2>1 DEF InBound, Enough
<1> HIDE DEF n
<1>4. ASSUME NEW k \in Keys, NEW v \in Vals, CmdInsert(k, v) PROVE TrackInv'
  <2>1. PICK off \in Free(slice) \cup {0}, w \in LinkWords :
          slice' = insert2(slice, k, v, off, w)
    BY <1>4 DEF CmdInsert, Allocs
  <2>2. n + 1 < MaxBlks * BlkSz
    BY <1>3, <1>4 DEF CmdInsert
  <2>3. Tracks(slice', {}, n + 1)
    BY <1>1, <2>1, <2>2, Insert2Tracks DEF Free
  <2> QED
    BY <1>1, <1>2, <2>3
<1>5. ASSUME NEW k \in Keys, NEW v \in Vals, CmdUpdateInPlace(k, v) PROVE TrackInv'
  <2>1. PICK off \in slice.live : slice' = doSetInPlace(slice, off, v, "master")
    BY <1>5 DEF CmdUpdateInPlace, find2
  <2> DEFINE m1 == [slice EXCEPT !.val[off] = v]
             m2 == eraseIterCb(m1, off, "master")
  <2>2. off \in Offs /\ slice' = linkTid(m2, off, 0)
    BY <1>1, <2>1 DEF doSetInPlace, updateIterCb
  <2>3. Good(m1) /\ m1.live = slice.live
    BY <1>1, <2>2, SetVal DEF Follows
  <2>4. m1.blks = slice.blks /\ m1.tid = slice.tid /\ m1.preClear = slice.preClear
    BY <1>1 DEF Good, Struct, Slices
  <2> HIDE DEF m1
  <2>5. Tracks(m1, {}, n)
    BY <1>1, <2>3, <2>4, SameTable
  <2>6. off \in m1.live \ {}
    BY <2>1, <2>3
  <2>7. Tracks(m2, {} \cup {off}, n + 1)
    BY <1>1, <2>5, <2>6, EraseCbTracks
  <2>8. Unref(m2, off) /\ m2.live = m1.live
    BY <2>2, <2>3, EraseCb
  <2> HIDE DEF m2
  <2>9. n + 1 + 1 < MaxBlks * BlkSz
    BY <1>3, <1>5 DEF CmdUpdateInPlace
  <2>10. Tracks(slice', {}, n + 1 + 1)
    <3>1. off \in m2.live /\ {} \cup {off} \subseteq {off}
      BY <2>6, <2>8
    <3> QED
      BY <1>1, <2>2, <2>7, <2>8, <2>9, <3>1, LinkTracks
  <2> QED
    BY <1>1, <1>2, <2>10
<1>6. ASSUME NEW k \in Keys, NEW v \in Vals, CmdUpdateRealloc(k, v) PROVE TrackInv'
  <2>1. PICK off \in slice.live :
          \E new \in Free(slice) \cup {0} \cup {off}, w \in LinkWords :
            slice' = doSetRealloc(slice, off, v, new, w, "master")
    BY <1>6 DEF CmdUpdateRealloc, find2, Allocs
  <2>2. PICK new \in Free(slice) \cup {0} \cup {off}, w \in LinkWords :
          slice' = doSetRealloc(slice, off, v, new, w, "master")
    BY <2>1
  <2> DEFINE m == eraseIteratorHelper(slice, off, "master")
  <2>3. /\ off \in Offs /\ slice.key[off] \in Keys /\ w \in Nat
        /\ slice' = insert2(m, slice.key[off], v, new, w)
    BY <1>1, <2>2 DEF doSetRealloc
  <2>4. m.live = slice.live \ {off}
    BY <1>1, <2>3, EraseElem
  <2>5. Tracks(m, {}, n + 1)
    BY <1>1, EraseTracks
  <2> HIDE DEF m
  <2>6. new \in (Offs \ m.live) \cup {0}
    BY <2>2, <2>3, <2>4 DEF Free
  <2>7. n + 1 + 1 < MaxBlks * BlkSz
    BY <1>3, <1>6 DEF CmdUpdateRealloc
  <2>8. Tracks(slice', {}, n + 1 + 1)
    BY <1>1, <2>3, <2>5, <2>6, <2>7, Insert2Tracks
  <2> QED
    BY <1>1, <1>2, <2>8
<1>7. ASSUME NEW k \in Keys, NEW v \in Vals, CmdGrow(k, v) PROVE TrackInv'
  <2>1. PICK off \in slice.live, new \in Free(slice) \cup {0}, w \in LinkWords :
          slice' = iterGrowValue(slice, off, v, new, w, "master")
    BY <1>7 DEF CmdGrow, find2, Allocs
  <2>2. CASE new = 0
    BY <2>1, <2>2 DEF iterGrowValue, TrackInv
  <2>3. CASE new # 0
    <3>1. /\ off \in Offs /\ new \in Offs /\ new \notin slice.live /\ new # off
          /\ slice.key[off] \in Keys /\ w \in Nat
      BY <1>1, <2>1, <2>3 DEF Free
    <3>2. PICK kk \in Keys : kk = slice.key[off]
      BY <3>1
    <3> DEFINE m1 == insertCopy2(slice, kk, v, new, w)
               m2 == eraseIteratorHelper(m1, off, "master")
    <3>3. slice' = linkTid(m2, new, 0)
      BY <2>1, <2>3, <3>2 DEF iterGrowValue
    <3>a. Inserts(slice, m1, kk, v, new, w)
      BY <1>1, <3>1 DEF Inserts
    <3>4. Good(m1) /\ Unref(m1, new) /\ m1.live = slice.live \cup {new}
      BY <3>a, InsertElem DEF Follows
    <3>5. Tracks(m1, {new}, n)
      BY <1>1, <3>a, InsertTracks
    <3> HIDE DEF m1
    <3>6. off \in m1.live \ {new}
      BY <3>1, <3>4
    <3>7. Tracks(m2, {new}, n + 1)
      BY <1>1, <3>5, <3>6, EraseTracks
    <3>8. Unref(m2, new) /\ m2.live = m1.live \ {off}
      BY <3>1, <3>4, EraseElem
    <3> HIDE DEF m2
    <3>9. new \in m2.live
      BY <3>1, <3>4, <3>8
    <3>10. n + 1 + 1 < MaxBlks * BlkSz
      BY <1>3, <1>7 DEF CmdGrow
    <3>11. Tracks(slice', {}, n + 1 + 1)
      BY <1>1, <3>1, <3>3, <3>7, <3>8, <3>9, <3>10, LinkTracks
    <3> QED
      BY <1>1, <1>2, <3>11
  <2> QED
    BY <2>2, <2>3
<1>8. ASSUME NEW k \in Keys, CmdErase(k) PROVE TrackInv'
  <2>1. PICK off \in slice.live : slice' = eraseIteratorHelper(slice, off, "master")
    BY <1>8 DEF CmdErase, find2
  <2>2. Tracks(slice', {}, n + 1)
    BY <1>1, <2>1, EraseTracks
  <2> QED
    BY <1>1, <1>2, <2>2
<1>9. ASSUME NEW k \in Keys, CmdTouch(k) PROVE TrackInv'
  <2>1. PICK off \in slice.live : slice' = tidReplaceTid(slice, off, "master")
    BY <1>9 DEF CmdTouch, find2
  <2> DEFINE m == unlinkTid(slice, slice.link[off], "master")
  <2>2. off \in Offs /\ slice' = linkTid(m, off, 0) /\ Struct(slice)
    BY <1>1, <2>1 DEF tidReplaceTid, Good
  <2>3. Unref(m, off) /\ SameElems(slice, m)
    BY <1>1, <2>2, UnlinkOff
  <2>4. Tracks(m, {} \cup {off}, n + 1)
    BY <1>1, <2>1, <2>2, UnlinkTracks
  <2> HIDE DEF m
  <2>5. n + 1 + 1 < MaxBlks * BlkSz
    BY <1>3, <1>9 DEF CmdTouch
  <2>6. off \in m.live /\ {} \cup {off} \subseteq {off}
    BY <2>1, <2>3 DEF SameElems
  <2>7. Tracks(slice', {}, n + 1 + 1)
    BY <1>1, <2>2, <2>3, <2>4, <2>5, <2>6, LinkTracks
  <2> QED
    BY <1>1, <1>2, <2>7
<1>10. ASSUME NEW off \in Offs, TrimRound(off) PROVE TrackInv'
  <2> DEFINE m == checkTidTbl(slice)
  <2>1. slice' = eraseIteratorHelper(m, off, "master") /\ off \in slice.live
    BY <1>10 DEF TrimRound
  <2>2. Tracks(m, {}, n)
    BY <1>1, CheckTracks
  <2>3. off \in m.live \ {}
    BY <1>1, <2>1, CheckTbl
  <2> HIDE DEF m
  <2>4. Tracks(slice', {}, n + 1)
    BY <1>1, <2>1, <2>2, <2>3, EraseTracks
  <2> QED
    BY <1>1, <1>2, <2>4
<1>11. ASSUME CmdFlush PROVE TrackInv'
  <2>1. Tracks(slice', {}, n + 1)
    BY <1>1, <1>11, ClearTracks DEF CmdFlush
  <2> QED
    BY <1>1, <1>2, <2>1
<1> QED
  BY <1>4, <1>5, <1>6, <1>7, <1>8, <1>9, <1>10, <1>11 DEF Next

(* While the block index is aligned and the pool has blocks for all the tids
   that are handed out, every element in the hash is found through its tid: the
   walk of bcastNewTidData and of a full sync misses none.  The bound on the
   tids is needed, since a failed growTidTbl leaves an element without entry. *)
THEOREM ElemsAreTracked ==
    ASSUME MaxTid \in Nat, MaxTid + 1 < MaxBlks * BlkSz
    PROVE  Spec => []ElemsTrackedIfAligned
<1>0. Enough
  BY DEF Enough
<1>1. Init => TrackInv
  <2> SUFFICES ASSUME Init PROVE TrackInv
    OBVIOUS
  <2>1. Good(slice)
    BY InitInv DEF Inv
  <2>2. slice.blks = << >> /\ slice.live = {} /\ slice.tid = 0
    BY DEF Init, InitSlice
  <2> QED
    BY <2>1, <2>2 DEF TrackInv, Tracks, NoneAhead, RefsBut
<1>2. TrackInv /\ [Next]_vars => TrackInv'
  <2>1. CASE Next
    BY <1>0, <2>1, StepTracks
  <2>2. CASE UNCHANGED vars
    BY <2>2 DEF vars, TrackInv
  <2> QED
    BY <2>1, <2>2
<1>3. TrackInv => ElemsTrackedIfAligned
  <2> SUFFICES ASSUME TrackInv, Aligned(slice), NEW o \in slice.live
               PROVE  tid2iterOff(slice, slice.link[o]) = o
    BY DEF ElemsTrackedIfAligned, ElemsTracked
  <2>1. Good(slice) /\ Struct(slice) /\ o \in Nat \ {0} /\ HasRef(slice, o)
    BY DEF TrackInv, Tracks, RefsBut, Good, Struct, Slices
  <2>2. PICK b \in 1 .. Len(slice.blks), i \in 0 .. BlkSz - 1 : RefersTo(slice, b, i, o)
    BY <2>1 DEF HasRef
  <2>3. slice.link[o] = EntryTid(slice, b, i)
    BY <2>1, <2>2 DEF Good, EntriesOk, EntryOk
  <2>4. tid2tblBlk(slice, slice.link[o]) = b /\ Slot(slice.link[o]) = i
    BY <2>1, <2>3, LookupFinds
  <2>5. b # 0
    OBVIOUS
  <2> QED
    BY <2>2, <2>4, <2>5 DEF tid2iterOff, RefersTo, EntryAt
<1> QED
  BY <1>1, <1>2, <1>3, PTL DEF Spec
=============================================================================
