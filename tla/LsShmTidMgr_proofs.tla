------------------------- MODULE LsShmTidMgr_proofs -------------------------
(***************************************************************************)
(* Lemmas about the operations of the tid table and of the hash on one     *)
(* slice, for every block size, number of blocks, pool, key and value set. *)
(***************************************************************************)
EXTENDS LsShmTidMgr, Integers, TLAPS

USE BlkSzAssumption, MaxBlksAssumption, OffsAssumption, LinkWordsAssumption

-----------------------------------------------------------------------------
(* Sequences. *)

(* Append keeps the elements and puts the new one last. *)
LEMMA AppendAt ==
    ASSUME NEW S, NEW q \in Seq(S), NEW e \in S, NEW u, u = Append(q, e)
    PROVE  /\ u \in Seq(S) /\ Len(u) = Len(q) + 1
           /\ \A j \in 1 .. Len(q) : u[j] = q[j]
           /\ u[Len(u)] = e
OBVIOUS

(* A chain that is not empty has a last block. *)
LEMMA LastBlk ==
    ASSUME NEW q \in Seq(Blocks), q # << >>
    PROVE  /\ Len(q) \in 1 .. Len(q) /\ q[Len(q)] \in Blocks
           /\ q[Len(q)].base \in Nat
<1>1. Len(q) \in 1 .. Len(q)
  OBVIOUS
<1>2. q[Len(q)] \in Blocks
  BY <1>1
<1> QED
  BY <1>1, <1>2 DEF Blocks

Upd(q, i, e) == [q EXCEPT ![i] = e]

-----------------------------------------------------------------------------
(* Blocks and slots. *)

(* A tid is a multiple of the block size plus its slot. *)
LEMMA DivSlot ==
    ASSUME NEW n \in Nat
    PROVE  /\ Slot(n) \in 0 .. BlkSz - 1
           /\ n \div BlkSz \in Nat
           /\ n - Slot(n) = (n \div BlkSz) * BlkSz
BY SMT DEF Slot

(* The first tid of the block of a tid. *)
LEMMA BlockStart ==
    ASSUME NEW n \in Nat
    PROVE  n - Slot(n) \in Nat /\ n - Slot(n) <= n
<1>1. /\ Slot(n) \in 0 .. BlkSz - 1
      /\ n \div BlkSz \in Nat
      /\ n - Slot(n) = (n \div BlkSz) * BlkSz
  BY DivSlot
<1>2. (n \div BlkSz) * BlkSz \in Nat
  BY <1>1
<1> QED
  BY <1>1, <1>2

(* The block number and the slot of a tid are determined by its block. *)
LEMMA SlotInBlock ==
    ASSUME NEW n \in Nat, NEW q \in Nat, q * BlkSz <= n, n < q * BlkSz + BlkSz
    PROVE  n \div BlkSz = q /\ n = q * BlkSz + Slot(n)
<1>1. n \div BlkSz = q
  BY SMT
<1>2. n - Slot(n) = (n \div BlkSz) * BlkSz /\ Slot(n) \in Nat
  BY DivSlot
<1>3. n - Slot(n) = q * BlkSz
  BY <1>1, <1>2
<1>4. q * BlkSz \in Nat
  OBVIOUS
<1> QED
  BY <1>1, <1>2, <1>3, <1>4

-----------------------------------------------------------------------------
(* The strengthening: block bases are multiples of the block size and the last
   block does not start beyond the next tid. *)

BasesWhole(s) ==
    \A b \in 1 .. Len(s.blks) : \E q \in Nat : s.blks[b].base = q * BlkSz

LastBase(s) ==
    s.blks # << >> => s.blks[Len(s.blks)].base <= s.tid + 1

Struct(s) == s \in Slices /\ BasesWhole(s) /\ LastBase(s)

(* The entry refers to an element.  Tid 0 is never handed out. *)
RefersTo(s, b, i, off) ==
    isTidValIterOff(EntryAt(s, b, i)) /\ EntryAt(s, b, i).arg = off

EntryOk(s, b, i, off) ==
    off \in s.live /\ s.link[off] = EntryTid(s, b, i) /\ EntryTid(s, b, i) # 0

EntriesOk(s) ==
    \A b \in 1 .. Len(s.blks) : \A i \in 0 .. BlkSz - 1 : \A off \in Nat \ {0} :
        RefersTo(s, b, i, off) => EntryOk(s, b, i, off)

Good(s) == Struct(s) /\ (Aligned(s) => EntriesOk(s))

(* No entry of the table refers to off. *)
NoRef(s, off) ==
    \A b \in 1 .. Len(s.blks) : \A i \in 0 .. BlkSz - 1 : ~RefersTo(s, b, i, off)

Unref(s, off) == Aligned(s) => NoRef(s, off)

(* What every operation on the slice preserves or establishes. *)
Follows(s, u) == Good(u) /\ u.tid >= s.tid /\ HistoryKept(s, u)

(* u is s with some entries cleared, blocks appended, and, for its last tid,
   the value v recorded. *)
SameElems(s, u) ==
    /\ u.preClear = s.preClear /\ u.live = s.live
    /\ u.key = s.key /\ u.val = s.val /\ u.link = s.link

SameBases(s, u) ==
    /\ Len(s.blks) <= Len(u.blks)
    /\ \A b \in 1 .. Len(s.blks) : u.blks[b].base = s.blks[b].base

Kept(s, u, b, i) == b <= Len(s.blks) /\ EntryAt(u, b, i) = EntryAt(s, b, i)

Added(s, u, v, b, i) ==
    /\ EntryAt(u, b, i) = v
    /\ EntryTid(u, b, i) = u.tid /\ u.tid > s.tid

Appends(s, u, v) ==
    /\ Struct(u) /\ u.tid >= s.tid /\ SameBases(s, u)
    /\ \A b \in 1 .. Len(u.blks) : \A i \in 0 .. BlkSz - 1 :
          EntryAt(u, b, i) = NoVal \/ Kept(s, u, b, i) \/ Added(s, u, v, b, i)

(* u is s with v stored, if there was room for it: no other entry changes. *)
StoresOnly(s, u, v) ==
    /\ \A b \in 1 .. Len(s.blks) : \A i \in 0 .. BlkSz - 1 :
          EntryAt(u, b, i) = EntryAt(s, b, i) \/ Added(s, u, v, b, i)
    /\ HasRoom(s, u.tid) =>
          \E b \in 1 .. Len(u.blks) : \E i \in 0 .. BlkSz - 1 :
             EntryAt(u, b, i) = v /\ EntryTid(u, b, i) = u.tid

-----------------------------------------------------------------------------
(* The table operations. *)

(* growTidTbl adds an empty block with the given base and touches nothing else. *)
LEMMA GrowFacts ==
    ASSUME NEW s, Struct(s), NEW n \in Nat, n <= s.tid + 1,
           NEW u, u = growTidTbl(s, n - Slot(n))
    PROVE  /\ Struct(u) /\ SameElems(s, u) /\ SameBases(s, u)
           /\ u.tid = s.tid /\ u.blks # << >>
           /\ Len(u.blks) = Len(s.blks) + 1
           /\ u.blks[Len(u.blks)].base = n - Slot(n)
           /\ \A b \in 1 .. Len(s.blks) : u.blks[b] = s.blks[b]
           /\ \A i \in 0 .. BlkSz - 1 : EntryAt(u, Len(u.blks), i) = NoVal
<1> DEFINE new == [base |-> n - Slot(n), vals |-> [i \in 0 .. BlkSz - 1 |-> NoVal]]
<1>1. n - Slot(n) \in Nat /\ n - Slot(n) <= n
  BY BlockStart
<1>2. new \in Blocks
  BY <1>1 DEF Blocks, TidVals, NoVal
<1>3. s \in Slices /\ s.blks \in Seq(Blocks)
  BY DEF Struct, Slices
<1>4. u = [s EXCEPT !.blks = Append(s.blks, new)]
  BY DEF growTidTbl
<1> HIDE DEF new
<1>a. u.blks = Append(s.blks, new)
  BY <1>3, <1>4 DEF Slices
<1>5. /\ u.blks \in Seq(Blocks)
      /\ Len(u.blks) = Len(s.blks) + 1
      /\ \A b \in 1 .. Len(s.blks) : u.blks[b] = s.blks[b]
      /\ u.blks[Len(u.blks)] = new
  BY <1>2, <1>3, <1>a, AppendAt
<1>6. SameElems(s, u) /\ u.tid = s.tid /\ u \in Slices
  BY <1>3, <1>4, <1>5 DEF Slices, SameElems
<1>7. SameBases(s, u)
  BY <1>3, <1>5 DEF SameBases
<1>8. u.blks[Len(u.blks)].base = n - Slot(n) /\ u.blks # << >>
  BY <1>3, <1>5 DEF new
<1>9. BasesWhole(u)
  <2>1. \E q \in Nat : n - Slot(n) = q * BlkSz
    BY DivSlot
  <2>2. ASSUME NEW b \in 1 .. Len(u.blks)
        PROVE  \E q \in Nat : u.blks[b].base = q * BlkSz
    <3>1. CASE b = Len(u.blks)
      BY <2>1, <3>1, <1>8
    <3>2. CASE b # Len(u.blks)
      <4>1. b \in 1 .. Len(s.blks)
        BY <3>2, <1>3, <1>5
      <4> QED
        BY <4>1, <1>5 DEF BasesWhole, Struct
    <3> QED
      BY <3>1, <3>2
  <2> QED
    BY <2>2 DEF BasesWhole
<1>10. LastBase(u)
  BY <1>1, <1>6, <1>8, <1>3 DEF LastBase, Slices
<1> QED
  BY <1>5, <1>6, <1>7, <1>8, <1>9, <1>10 DEF Struct, EntryAt, new

(* One entry is written. *)
Put(s, c, j, v) == [s EXCEPT !.blks[c].vals[j] = v]

(* Writing one entry changes that entry only. *)
LEMMA PutFacts ==
    ASSUME NEW s, Struct(s), NEW c \in 1 .. Len(s.blks),
           NEW j \in 0 .. BlkSz - 1, NEW v \in TidVals,
           NEW u, u = Put(s, c, j, v)
    PROVE  /\ Struct(u) /\ SameElems(s, u) /\ SameBases(s, u)
           /\ u.tid = s.tid /\ Len(u.blks) = Len(s.blks)
           /\ \A b \in 1 .. Len(s.blks) : \A i \in 0 .. BlkSz - 1 :
                EntryAt(u, b, i) = IF b = c /\ i = j THEN v ELSE EntryAt(s, b, i)
<1> DEFINE blk == [s.blks[c] EXCEPT !.vals[j] = v]
<1>1. s \in Slices /\ s.blks \in Seq(Blocks) /\ s.blks[c] \in Blocks
  BY DEF Struct, Slices
<1>2. /\ blk \in Blocks /\ blk.base = s.blks[c].base
      /\ \A i \in 0 .. BlkSz - 1 :
            blk.vals[i] = IF i = j THEN v ELSE s.blks[c].vals[i]
  BY <1>1 DEF Blocks
<1>3. u.blks = Upd(s.blks, c, blk)
  BY <1>1 DEF Slices, Upd, Put
<1>4. SameElems(s, u) /\ u.tid = s.tid
  BY <1>1 DEF Slices, SameElems, Put
<1> HIDE DEF blk
<1>5. /\ u.blks \in Seq(Blocks) /\ Len(u.blks) = Len(s.blks)
      /\ \A b \in 1 .. Len(s.blks) :
            u.blks[b] = IF b = c THEN blk ELSE s.blks[b]
  <2>1. /\ Upd(s.blks, c, blk) \in Seq(Blocks)
        /\ Len(Upd(s.blks, c, blk)) = Len(s.blks)
        /\ \A b \in 1 .. Len(s.blks) :
              Upd(s.blks, c, blk)[b] = IF b = c THEN blk ELSE s.blks[b]
    BY <1>1, <1>2 DEF Upd
  <2> QED
    BY <1>3, <2>1, Zenon
<1>6. u \in Slices
  BY <1>1, <1>5 DEF Slices, Put
<1>7. \A b \in 1 .. Len(s.blks) : u.blks[b].base = s.blks[b].base
  BY <1>2, <1>5
<1>8. SameBases(s, u)
  BY <1>1, <1>5, <1>7 DEF SameBases
<1>9. BasesWhole(u)
  BY <1>5, <1>7 DEF BasesWhole, Struct
<1>10. LastBase(u)
  <2> SUFFICES ASSUME u.blks # << >>
               PROVE  u.blks[Len(u.blks)].base <= u.tid + 1
    BY DEF LastBase
  <2>1. s.blks # << >> /\ Len(s.blks) \in 1 .. Len(s.blks)
    BY <1>1
  <2> QED
    BY <2>1, <1>4, <1>5, <1>7 DEF LastBase, Struct
<1>11. \A b \in 1 .. Len(s.blks) : \A i \in 0 .. BlkSz - 1 :
          EntryAt(u, b, i) = IF b = c /\ i = j THEN v ELSE EntryAt(s, b, i)
  <2> SUFFICES ASSUME NEW b \in 1 .. Len(s.blks), NEW i \in 0 .. BlkSz - 1
               PROVE  u.blks[b].vals[i] =
                        IF b = c /\ i = j THEN v ELSE s.blks[b].vals[i]
    BY DEF EntryAt
  <2>1. CASE b = c
    BY <2>1, <1>2, <1>5
  <2>2. CASE b # c
    BY <2>2, <1>5
  <2> QED
    BY <2>1, <2>2
<1> QED
  BY <1>4, <1>5, <1>6, <1>8, <1>9, <1>10, <1>11 DEF Struct

Cleared(s, u, t) ==
    \A b \in 1 .. Len(s.blks) : \A i \in 0 .. BlkSz - 1 :
        EntryAt(u, b, i) = IF b = tid2tblBlk(s, t) /\ i = Slot(t)
                           THEN NoVal ELSE EntryAt(s, b, i)

(* clrTidTblEnt clears at most one entry: the one tid2tblBlk finds. *)
LEMMA ClrFacts ==
    ASSUME NEW s, Struct(s), NEW t \in Nat, NEW u, u = clrTidTblEnt(s, t)
    PROVE  /\ Struct(u) /\ SameElems(s, u) /\ SameBases(s, u)
           /\ u.tid = s.tid /\ Len(u.blks) = Len(s.blks) /\ Cleared(s, u, t)
<1>1. s \in Slices /\ s.blks \in Seq(Blocks) /\ s.preClear \in Nat
  BY DEF Struct, Slices
<1>2. tid2tblBlk(s, t) \in 0 .. Len(s.blks)
  <2> DEFINE from == IF t < s.preClear THEN s.preClear ELSE t
  <2>1. from \in Nat /\ s.preClear <= from
    BY <1>1
  <2> HIDE DEF from
  <2>2. s.preClear \div BlkSz <= from \div BlkSz
    BY <1>1, <2>1, SMTT(30)
  <2>3. from \div BlkSz \in Nat /\ s.preClear \div BlkSz \in Nat
    BY <1>1, <2>1, SMT
  <2>4. tid2tblBlk(s, t) =
           LET indx == (from \div BlkSz) - (s.preClear \div BlkSz) + 1
           IN  IF indx > Len(s.blks) THEN 0 ELSE indx
    BY DEF tid2tblBlk, from
  <2> QED
    BY <1>1, <2>2, <2>3, <2>4
<1>3. CASE tid2tblBlk(s, t) = 0
  <2>1. u = s
    BY <1>3 DEF clrTidTblEnt
  <2>2. SameElems(s, u) /\ SameBases(s, u)
    BY <1>1, <2>1 DEF SameElems, SameBases
  <2>3. \A b \in 1 .. Len(s.blks) : b # tid2tblBlk(s, t)
    BY <1>3
  <2>4. Cleared(s, u, t)
    BY <2>1, <2>3 DEF Cleared
  <2>5. Struct(u) /\ u.tid = s.tid /\ Len(u.blks) = Len(s.blks)
    BY <2>1
  <2> QED
    BY <2>2, <2>4, <2>5, Zenon
<1>4. CASE tid2tblBlk(s, t) # 0
  <2>1. tid2tblBlk(s, t) \in 1 .. Len(s.blks)
    BY <1>1, <1>2, <1>4
  <2>2. u = Put(s, tid2tblBlk(s, t), Slot(t), NoVal)
    BY <1>4 DEF clrTidTblEnt, Put
  <2>3. Slot(t) \in 0 .. BlkSz - 1 /\ NoVal \in TidVals
    BY DivSlot DEF TidVals, NoVal
  <2> QED
    BY <2>1, <2>2, <2>3, PutFacts DEF Cleared
<1> QED
  BY <1>3, <1>4

(* setTidTblEnt of a tid that is in sequence appends at most one entry, for that
   tid, and records it where the block of the tid is. *)
LEMMA SetAt ==
    ASSUME NEW s, Struct(s), NEW v \in TidVals, NEW t \in Nat, InSeq(s, t),
           NEW u, u = setTidTblEnt(s, v, t)
    PROVE  /\ Appends(s, u, v) /\ SameElems(s, u) /\ u.tid = NewTid(s, t)
           /\ ~HasRoom(s, NewTid(s, t)) => u.blks = s.blks
           /\ StoresOnly(s, u, v)
<1> DEFINE n == NewTid(s, t)
           s1 == [s EXCEPT !.tid = n]
<1>1. s \in Slices /\ s.blks \in Seq(Blocks) /\ n \in Nat /\ s.tid \in Nat /\ n > s.tid
  BY DEF Struct, Slices, NewTid, InSeq
<1>2. /\ s1 \in Slices /\ s1.blks = s.blks /\ s1.tid = n
      /\ SameElems(s, s1)
  BY <1>1 DEF Slices, SameElems
<1>3. Struct(s1)
  <2>1. BasesWhole(s1)
    BY <1>2 DEF BasesWhole, Struct
  <2>2. LastBase(s1)
    <3>1. SUFFICES ASSUME s.blks # << >>
                   PROVE  s.blks[Len(s.blks)].base <= n + 1
      BY <1>2 DEF LastBase
    <3>2. s.blks[Len(s.blks)].base \in Nat
      BY <1>1, <3>1, LastBlk
    <3> QED
      BY <1>1, <3>1, <3>2 DEF LastBase, Struct
  <2> QED
    BY <1>2, <2>1, <2>2 DEF Struct
<1> DEFINE s2 == IF NeedsBlk(s1, n) THEN growTidTbl(s1, n - Slot(n)) ELSE s1
<1>4. u = IF HasRoom(s, n) THEN StoreVal(s2, v, n) ELSE s1
  BY DEF setTidTblEnt
<1>0. n = NewTid(s, t)
  OBVIOUS
<1> HIDE DEF s1, n
<1>5. SameBases(s, s1)
  BY <1>1, <1>2 DEF SameBases
<1>6. CASE ~HasRoom(s, n)
  <2>1. u = s1
    BY <1>4, <1>6
  <2>2. \A b \in 1 .. Len(u.blks) : \A i \in 0 .. BlkSz - 1 : Kept(s, u, b, i)
    BY <1>1, <1>2, <2>1 DEF Kept, EntryAt
  <2>3. u.tid >= s.tid
    BY <1>1, <1>2, <2>1
  <2>4. StoresOnly(s, u, v)
    BY <1>2, <1>6, <2>1 DEF StoresOnly, EntryAt
  <2> QED
    BY <1>0, <1>2, <1>3, <1>5, <2>1, <2>2, <2>3, <2>4 DEF Appends
<1>7. CASE HasRoom(s, n)
  <2>1. /\ Struct(s2) /\ SameElems(s1, s2) /\ SameBases(s1, s2)
        /\ s2.tid = n /\ s2.blks # << >>
        /\ \A b \in 1 .. Len(s2.blks) : \A i \in 0 .. BlkSz - 1 :
              EntryAt(s2, b, i) = NoVal \/ Kept(s1, s2, b, i)
        /\ \A b \in 1 .. Len(s1.blks) : s2.blks[b] = s1.blks[b]
        /\ \E q \in Nat : /\ s2.blks[Len(s2.blks)].base = q * BlkSz
                          /\ q * BlkSz <= n /\ n < q * BlkSz + BlkSz
    <3>1. CASE NeedsBlk(s1, n)
      <4>1. s2 = growTidTbl(s1, n - Slot(n)) /\ n <= s1.tid + 1
        BY <1>1, <1>2, <3>1
      <4> HIDE DEF s2
      <4>2. /\ Struct(s2) /\ SameElems(s1, s2) /\ SameBases(s1, s2)
            /\ s2.tid = s1.tid /\ s2.blks # << >>
            /\ Len(s2.blks) = Len(s1.blks) + 1
            /\ s2.blks[Len(s2.blks)].base = n - Slot(n)
            /\ \A b \in 1 .. Len(s1.blks) : s2.blks[b] = s1.blks[b]
            /\ \A i \in 0 .. BlkSz - 1 : EntryAt(s2, Len(s2.blks), i) = NoVal
        <5>1. n \in Nat /\ Struct(s1)
          BY <1>1, <1>3
        <5> QED
          BY <4>1, <5>1, GrowFacts, SMTT(60)
      <4>3. ASSUME NEW b \in 1 .. Len(s2.blks), NEW i \in 0 .. BlkSz - 1
            PROVE  EntryAt(s2, b, i) = NoVal \/ Kept(s1, s2, b, i)
        <5>1. b = Len(s2.blks) \/ b \in 1 .. Len(s1.blks)
          BY <1>1, <1>2, <4>2
        <5> QED
          BY <4>2, <5>1, SMTT(30) DEF Kept, EntryAt
      <4>4. \E q \in Nat : /\ n - Slot(n) = q * BlkSz
                          /\ q * BlkSz <= n /\ n < q * BlkSz + BlkSz
        <5>1. /\ Slot(n) \in 0 .. BlkSz - 1 /\ n \div BlkSz \in Nat
              /\ n - Slot(n) = (n \div BlkSz) * BlkSz
          BY <1>1, DivSlot
        <5>2. (n \div BlkSz) * BlkSz <= n /\ n < (n \div BlkSz) * BlkSz + BlkSz
          BY <1>1, <5>1
        <5> QED
          BY <5>1, <5>2
      <4> QED
        BY <1>2, <4>2, <4>3, <4>4
    <3>2. CASE ~NeedsBlk(s1, n)
      <4>1. s2 = s1
        BY <3>2
      <4> HIDE DEF s2
      <4>2. /\ s1.blks # << >>
            /\ s1.blks[Len(s1.blks)] \in Blocks
            /\ s1.blks[Len(s1.blks)].base \in Nat
            /\ Len(s1.blks) \in 1 .. Len(s1.blks)
        BY <1>1, <1>2, <3>2, LastBlk DEF NeedsBlk
      <4>3. /\ s1.blks[Len(s1.blks)].base <= n
            /\ n < s1.blks[Len(s1.blks)].base + BlkSz
        BY <1>1, <1>2, <3>2, <4>2, SMTT(30) DEF NeedsBlk, LastBase, Struct
      <4>4. PICK q \in Nat : s1.blks[Len(s1.blks)].base = q * BlkSz
        BY <1>3, <4>2 DEF Struct, BasesWhole
      <4>5. SameElems(s1, s1) /\ SameBases(s1, s1)
        BY <1>1, <1>2 DEF SameElems, SameBases
      <4>6. \A b \in 1 .. Len(s1.blks) : \A i \in 0 .. BlkSz - 1 :
              Kept(s1, s1, b, i)
        BY <1>1, <1>2 DEF Kept
      <4> QED
        BY <1>2, <1>3, <4>1, <4>2, <4>3, <4>4, <4>5, <4>6
    <3> QED
      BY <3>1, <3>2
  <2> DEFINE l == Len(s2.blks)
  <2> HIDE DEF s2
  <2>2. l \in 1 .. Len(s2.blks) /\ Slot(n) \in 0 .. BlkSz - 1
    BY <1>1, <2>1, DivSlot, LastBlk DEF Struct, Slices
  <2>3. u = Put(s2, l, Slot(n), v)
    BY <1>4, <1>7 DEF StoreVal, Put
  <2>4. /\ Struct(u) /\ SameElems(s2, u) /\ SameBases(s2, u)
        /\ u.tid = s2.tid /\ Len(u.blks) = Len(s2.blks)
        /\ \A b \in 1 .. Len(s2.blks) : \A i \in 0 .. BlkSz - 1 :
              EntryAt(u, b, i) =
                IF b = l /\ i = Slot(n) THEN v ELSE EntryAt(s2, b, i)
    <3>1. Struct(s2)
      BY <2>1
    <3> QED
      BY <3>1, <2>2, <2>3, PutFacts, SMTT(30)
  <2>5. s2.blks[l].base + Slot(n) = n
    <3>1. PICK q \in Nat : /\ s2.blks[l].base = q * BlkSz
                            /\ q * BlkSz <= n /\ n < q * BlkSz + BlkSz
      BY <2>1
    <3> QED
      BY <1>1, <3>1, SlotInBlock
  <2>6. SameElems(s, u)
    BY <1>2, <2>1, <2>4 DEF SameElems
  <2>7. SameBases(s, u)
    <3>1. Len(s.blks) \in Nat /\ Len(s2.blks) \in Nat
      BY <1>1, <2>1 DEF Struct, Slices
    <3> QED
      BY <1>2, <2>1, <2>4, <3>1, SMTT(30) DEF SameBases
  <2>8. ASSUME NEW b \in 1 .. Len(u.blks), NEW i \in 0 .. BlkSz - 1
        PROVE  EntryAt(u, b, i) = NoVal \/ Kept(s, u, b, i) \/ Added(s, u, v, b, i)
    <3>1. CASE b = l /\ i = Slot(n)
      <4>1. EntryAt(u, b, i) = v
        BY <2>4, <3>1
      <4>2. EntryTid(u, b, i) = n
        BY <2>2, <2>4, <2>5, <3>1 DEF EntryTid, SameBases
      <4> QED
        BY <1>1, <2>1, <2>4, <4>1, <4>2 DEF Added
    <3>2. CASE ~(b = l /\ i = Slot(n))
      <4>1. EntryAt(u, b, i) = EntryAt(s2, b, i)
        BY <2>4, <3>2
      <4>2. EntryAt(s2, b, i) = NoVal \/ Kept(s1, s2, b, i)
        BY <2>1, <2>4
      <4> QED
        BY <1>2, <4>1, <4>2 DEF Kept, EntryAt
    <3> QED
      BY <3>1, <3>2
  <2>9. u.tid = n /\ u.tid >= s.tid
    BY <1>1, <2>1, <2>4
  <2>10. StoresOnly(s, u, v)
    <3>1. ASSUME NEW b \in 1 .. Len(s.blks), NEW i \in 0 .. BlkSz - 1
          PROVE  EntryAt(u, b, i) = EntryAt(s, b, i) \/ Added(s, u, v, b, i)
      <4>1. b \in 1 .. Len(s2.blks) /\ EntryAt(s2, b, i) = EntryAt(s, b, i)
        <5>1. Len(s.blks) \in Nat /\ Len(s2.blks) \in Nat
          BY <1>1, <2>1 DEF Struct, Slices
        <5>2. SameBases(s1, s2) /\ s2.blks[b] = s.blks[b]
          BY <1>2, <2>1
        <5>3. b \in 1 .. Len(s2.blks)
          BY <1>2, <5>1, <5>2 DEF SameBases
        <5> QED
          BY <5>2, <5>3 DEF EntryAt
      <4>2. CASE b = l /\ i = Slot(n)
        <5>1. EntryAt(u, b, i) = v
          BY <2>4, <4>1, <4>2
        <5>2. EntryTid(u, b, i) = n
          BY <2>2, <2>4, <2>5, <4>2 DEF EntryTid, SameBases
        <5> QED
          BY <1>1, <2>9, <5>1, <5>2 DEF Added
      <4>3. CASE ~(b = l /\ i = Slot(n))
        BY <2>4, <4>1, <4>3
      <4> QED
        BY <4>2, <4>3
    <3>2. EntryAt(u, l, Slot(n)) = v /\ l \in 1 .. Len(u.blks)
      BY <2>2, <2>4
    <3>3. EntryTid(u, l, Slot(n)) = u.tid
      BY <2>2, <2>4, <2>5, <2>9 DEF EntryTid, SameBases
    <3> QED
      BY <2>2, <3>1, <3>2, <3>3 DEF StoresOnly
  <2> QED
    BY <1>0, <1>7, <2>4, <2>6, <2>7, <2>8, <2>9, <2>10 DEF Appends
<1> QED
  BY <1>6, <1>7, Zenon

(* The same for the next tid. *)
LEMMA SetFacts ==
    ASSUME NEW s, Struct(s), NEW v \in TidVals, NEW u, u = setTidTblEnt(s, v, 0)
    PROVE  /\ Appends(s, u, v) /\ SameElems(s, u) /\ u.tid = s.tid + 1
           /\ ~HasRoom(s, s.tid + 1) => u.blks = s.blks
           /\ StoresOnly(s, u, v)
<1>1. InSeq(s, 0) /\ NewTid(s, 0) = s.tid + 1
  BY DEF InSeq, NewTid
<1> QED
  BY <1>1, SetAt

-----------------------------------------------------------------------------
(* From the table to the elements. *)

(* Appending blocks cannot repair the alignment of the index. *)
LEMMA AlignedBack ==
    ASSUME NEW s, NEW u, Struct(s), Struct(u), SameBases(s, u),
           u.preClear = s.preClear, Aligned(u)
    PROVE  Aligned(s)
<1>1. Len(s.blks) \in Nat /\ Len(u.blks) \in Nat
  BY DEF Struct, Slices
<1> SUFFICES ASSUME NEW b \in 1 .. Len(s.blks)
             PROVE  s.blks[b].base = ((s.preClear \div BlkSz) + b - 1) * BlkSz
  BY DEF Aligned
<1>2. b \in 1 .. Len(u.blks) /\ u.blks[b].base = s.blks[b].base
  BY <1>1 DEF SameBases
<1> QED
  BY <1>2 DEF Aligned

(* In an aligned index the lookup of an entry's tid leads back to the entry. *)
LEMMA LookupFinds ==
    ASSUME NEW s, Struct(s), Aligned(s), NEW b \in 1 .. Len(s.blks),
           NEW i \in 0 .. BlkSz - 1
    PROVE  /\ EntryTid(s, b, i) \in Nat
           /\ tid2tblBlk(s, EntryTid(s, b, i)) = b
           /\ Slot(EntryTid(s, b, i)) = i
<1> DEFINE p == s.preClear \div BlkSz
           q == p + b - 1
           t == EntryTid(s, b, i)
<1>1. s.preClear \in Nat /\ Len(s.blks) \in Nat /\ b \in Nat /\ b >= 1
  BY DEF Struct, Slices
<1>2. p \in Nat
  BY <1>1, DivSlot
<1>3. q \in Nat /\ q >= p
  BY <1>1, <1>2
<1>4. t = q * BlkSz + i
  BY DEF Aligned, EntryTid
<1> HIDE DEF p, q, t
<1>5. q * BlkSz \in Nat
  BY <1>3
<1>6. t \in Nat /\ q * BlkSz <= t /\ t < q * BlkSz + BlkSz
  BY <1>4, <1>5
<1>7. t \div BlkSz = q /\ t = q * BlkSz + Slot(t)
  BY <1>3, <1>6, SlotInBlock
<1>a. Slot(t) \in Nat
  BY <1>6, DivSlot
<1>8. Slot(t) = i
  BY <1>4, <1>5, <1>7, <1>a
<1>9. t < s.preClear => q = p
  <2> SUFFICES ASSUME t < s.preClear PROVE q <= p
    BY <1>2, <1>3
  <2>1. t \div BlkSz <= s.preClear \div BlkSz
    BY <1>1, <1>6, SMTT(30)
  <2> QED
    BY <2>1, <1>7 DEF p
<1>10. q - p + 1 = b
  BY <1>1, <1>2 DEF q
<1>11. tid2tblBlk(s, t) = b
  <2>1. CASE t < s.preClear
    <3>1. p - p + 1 = b /\ ~(b > Len(s.blks))
      BY <1>1, <1>2, <1>9, <1>10, <2>1
    <3>2. tid2tblBlk(s, t) = IF p - p + 1 > Len(s.blks) THEN 0 ELSE p - p + 1
      BY <2>1 DEF tid2tblBlk, p
    <3> QED
      BY <3>1, <3>2
  <2>2. CASE ~(t < s.preClear)
    <3>1. ~(b > Len(s.blks))
      BY <1>1
    <3>2. tid2tblBlk(s, t) = IF q - p + 1 > Len(s.blks) THEN 0 ELSE q - p + 1
      BY <1>7, <2>2 DEF tid2tblBlk, p
    <3> QED
      BY <1>10, <3>1, <3>2
  <2> QED
    BY <2>1, <2>2
<1> QED
  BY <1>6, <1>8, <1>11 DEF t

(* The history is kept by any step that only appends. *)
LEMMA AppendsHistory ==
    ASSUME NEW s, NEW u, NEW v, Struct(s), Appends(s, u, v)
    PROVE  HistoryKept(s, u)
<1> SUFFICES ASSUME NEW b \in 1 .. Len(u.blks), NEW i \in 0 .. BlkSz - 1,
                    EntryTid(u, b, i) <= s.tid, EntryAt(u, b, i) # NoVal
             PROVE  Recorded(s, EntryTid(u, b, i), EntryAt(u, b, i))
  BY DEF HistoryKept
<1>1. s.tid \in Nat /\ u.tid \in Nat /\ Len(s.blks) \in Nat
  BY DEF Struct, Appends, Slices
<1>2. ~Added(s, u, v, b, i)
  BY <1>1 DEF Added
<1>3. Kept(s, u, b, i)
  BY <1>2 DEF Appends
<1>4. b \in 1 .. Len(s.blks) /\ u.blks[b].base = s.blks[b].base
  BY <1>1, <1>3 DEF Kept, Appends, SameBases
<1> QED
  BY <1>3, <1>4 DEF Kept, Recorded, EntryTid

(* Histories compose. *)
LEMMA HistoryTrans ==
    ASSUME NEW s, NEW m, NEW u, Struct(s), Struct(m), Struct(u), s.tid <= m.tid,
           HistoryKept(s, m), HistoryKept(m, u)
    PROVE  HistoryKept(s, u)
<1> SUFFICES ASSUME NEW b \in 1 .. Len(u.blks), NEW i \in 0 .. BlkSz - 1,
                    EntryTid(u, b, i) <= s.tid, EntryAt(u, b, i) # NoVal
             PROVE  Recorded(s, EntryTid(u, b, i), EntryAt(u, b, i))
  BY DEF HistoryKept
<1>1. s.tid \in Nat /\ m.tid \in Nat /\ u.blks \in Seq(Blocks)
  BY DEF Struct, Slices
<1>2. EntryTid(u, b, i) \in Nat
  <2>1. u.blks[b] \in Blocks
    BY <1>1
  <2> QED
    BY <2>1 DEF Blocks, EntryTid
<1>3. EntryTid(u, b, i) <= m.tid
  BY <1>1, <1>2
<1>4. Recorded(m, EntryTid(u, b, i), EntryAt(u, b, i))
  BY <1>3 DEF HistoryKept
<1>5. PICK c \in 1 .. Len(m.blks), j \in 0 .. BlkSz - 1 :
        EntryTid(m, c, j) = EntryTid(u, b, i) /\ EntryAt(m, c, j) = EntryAt(u, b, i)
  BY <1>4 DEF Recorded
<1>6. Recorded(s, EntryTid(m, c, j), EntryAt(m, c, j))
  BY <1>5 DEF HistoryKept
<1> QED
  BY <1>5, <1>6

(* Two calls made under one hold of the lock follow each other. *)
LEMMA FollowsTrans ==
    ASSUME NEW s, NEW m, NEW u, Struct(s), Follows(s, m), Follows(m, u)
    PROVE  Follows(s, u)
<1>1. Struct(m) /\ Struct(u) /\ s.tid \in Nat /\ m.tid \in Nat /\ u.tid \in Nat
  BY DEF Follows, Good, Struct, Slices
<1>2. u.tid >= s.tid /\ s.tid <= m.tid
  BY <1>1 DEF Follows
<1> QED
  BY <1>1, <1>2, HistoryTrans DEF Follows

(* Clearing an entry. *)
LEMMA ClrHistory ==
    ASSUME NEW s, Struct(s), NEW t \in Nat, NEW u, u = clrTidTblEnt(s, t)
    PROVE  HistoryKept(s, u)
<1>a. /\ SameBases(s, u) /\ Len(u.blks) = Len(s.blks)
      /\ Cleared(s, u, t)
  BY ClrFacts
<1> SUFFICES ASSUME NEW b \in 1 .. Len(u.blks), NEW i \in 0 .. BlkSz - 1,
                    EntryAt(u, b, i) # NoVal
             PROVE  Recorded(s, EntryTid(u, b, i), EntryAt(u, b, i))
  BY DEF HistoryKept
<1>1. /\ b \in 1 .. Len(s.blks) /\ u.blks[b].base = s.blks[b].base
      /\ EntryAt(u, b, i) = EntryAt(s, b, i)
  BY <1>a DEF SameBases, Cleared
<1> QED
  BY <1>1 DEF Recorded, EntryTid

(* A delete value is never taken for an element offset. *)
LEMMA DelValNotIter ==
    ASSUME NEW t \in Nat
    PROVE  tidDelVal(t) \in TidVals /\ ~isTidValIterOff(tidDelVal(t))
BY DEF tidDelVal, TidVals, isTidValIterOff, NoVal

(* unlinkTid: an element entry that is left was there before, and is not the
   one that the lookup of t finds. *)
LEMMA UnlinkMaster ==
    ASSUME NEW s, Struct(s), NEW t \in Nat, NEW u, u = unlinkTid(s, t, "master")
    PROVE  /\ Struct(u) /\ SameElems(s, u) /\ SameBases(s, u)
           /\ u.tid >= s.tid /\ HistoryKept(s, u)
           /\ \A b \in 1 .. Len(u.blks) : \A i \in 0 .. BlkSz - 1 :
                isTidValIterOff(EntryAt(u, b, i)) =>
                  /\ Kept(s, u, b, i)
                  /\ ~(b = tid2tblBlk(s, t) /\ i = Slot(t))
<1> DEFINE m == clrTidTblEnt(s, t)
<1>1. u = setTidTblEnt(m, tidDelVal(t), 0)
  BY DEF unlinkTid, isTidMaster
<1>2. /\ Struct(m) /\ SameElems(s, m) /\ SameBases(s, m)
      /\ m.tid = s.tid /\ Len(m.blks) = Len(s.blks) /\ Cleared(s, m, t)
  BY ClrFacts
<1>3. HistoryKept(s, m)
  BY ClrHistory
<1> HIDE DEF m
<1>4. /\ Appends(m, u, tidDelVal(t)) /\ SameElems(m, u) /\ u.tid = m.tid + 1
  BY <1>1, <1>2, DelValNotIter, SetFacts
<1>a. Struct(u)
  BY <1>4 DEF Appends
<1>b. s.tid \in Nat /\ Len(s.blks) \in Nat
  BY DEF Struct, Slices
<1>5. s.tid \in Nat /\ Struct(u) /\ Len(s.blks) \in Nat
  BY <1>a, <1>b
<1>6. s.tid <= m.tid /\ u.tid >= s.tid
  <2>1. m.tid = s.tid
    BY <1>2
  <2>2. u.tid = m.tid + 1
    BY <1>4
  <2> QED
    BY <1>b, <2>1, <2>2
<1>7. HistoryKept(s, u)
  BY <1>2, <1>3, <1>4, <1>5, <1>6, AppendsHistory, HistoryTrans
<1>8. SameElems(s, u)
  BY <1>2, <1>4 DEF SameElems
<1>9. SameBases(s, u)
  BY <1>2, <1>4 DEF SameBases, Appends
<1>10. ASSUME NEW b \in 1 .. Len(u.blks), NEW i \in 0 .. BlkSz - 1,
              isTidValIterOff(EntryAt(u, b, i))
       PROVE  Kept(s, u, b, i) /\ ~(b = tid2tblBlk(s, t) /\ i = Slot(t))
  <2>1. EntryAt(u, b, i) # NoVal /\ EntryAt(u, b, i) # tidDelVal(t)
    <3>1. ~isTidValIterOff(NoVal) /\ ~isTidValIterOff(tidDelVal(t))
      BY DelValNotIter DEF isTidValIterOff, NoVal
    <3> QED
      BY <1>10, <3>1
  <2>2. Kept(m, u, b, i)
    BY <1>4, <2>1 DEF Appends, Added
  <2>3. b \in 1 .. Len(s.blks)
    BY <1>2, <1>5, <2>2 DEF Kept
  <2>4. EntryAt(u, b, i) = EntryAt(m, b, i)
    BY <2>2 DEF Kept
  <2>5. EntryAt(m, b, i) = IF b = tid2tblBlk(s, t) /\ i = Slot(t)
                           THEN NoVal ELSE EntryAt(s, b, i)
    BY <1>2, <2>3 DEF Cleared
  <2>6. ~(b = tid2tblBlk(s, t) /\ i = Slot(t)) /\ EntryAt(u, b, i) = EntryAt(s, b, i)
    BY <2>1, <2>4, <2>5
  <2>7. Kept(s, u, b, i)
    <3>1. b <= Len(s.blks)
      BY <1>b, <2>3
    <3> QED
      BY <2>6, <3>1 DEF Kept
  <2> QED
    BY <2>6, <2>7
<1> QED
  BY <1>5, <1>6, <1>7, <1>8, <1>9, <1>10

(* The same of any role; a slave only clears the entry. *)
LEMMA UnlinkFacts ==
    ASSUME NEW s, Struct(s), NEW t \in Nat, NEW role,
           NEW u, u = unlinkTid(s, t, role)
    PROVE  /\ Struct(u) /\ SameElems(s, u) /\ SameBases(s, u)
           /\ u.tid >= s.tid /\ HistoryKept(s, u)
           /\ \A b \in 1 .. Len(u.blks) : \A i \in 0 .. BlkSz - 1 :
                isTidValIterOff(EntryAt(u, b, i)) =>
                  /\ Kept(s, u, b, i)
                  /\ ~(b = tid2tblBlk(s, t) /\ i = Slot(t))
<1>1. CASE isTidMaster(role)
  <2>1. u = unlinkTid(s, t, "master")
    BY <1>1 DEF isTidMaster
  <2> QED
    BY <2>1, UnlinkMaster
<1>2. CASE ~isTidMaster(role)
  <2>1. u = clrTidTblEnt(s, t)
    BY <1>2 DEF unlinkTid
  <2>2. /\ Struct(u) /\ SameElems(s, u) /\ SameBases(s, u)
        /\ u.tid = s.tid /\ Len(u.blks) = Len(s.blks) /\ Cleared(s, u, t)
    BY <2>1, ClrFacts
  <2>3. HistoryKept(s, u)
    BY <2>1, ClrHistory
  <2>4. s.tid \in Nat /\ Len(s.blks) \in Nat
    BY DEF Struct, Slices
  <2>5. ASSUME NEW b \in 1 .. Len(u.blks), NEW i \in 0 .. BlkSz - 1,
               isTidValIterOff(EntryAt(u, b, i))
        PROVE  Kept(s, u, b, i) /\ ~(b = tid2tblBlk(s, t) /\ i = Slot(t))
    <3>1. EntryAt(u, b, i) # NoVal
      BY <2>5 DEF isTidValIterOff, NoVal
    <3>2. EntryAt(u, b, i) = IF b = tid2tblBlk(s, t) /\ i = Slot(t)
                             THEN NoVal ELSE EntryAt(s, b, i)
      BY <2>2 DEF Cleared
    <3> QED
      BY <2>2, <2>4, <3>1, <3>2 DEF Kept
  <2>6. u.tid >= s.tid
    BY <2>2, <2>4
  <2> QED
    BY <2>2, <2>3, <2>5, <2>6
<1> QED
  BY <1>1, <1>2

-----------------------------------------------------------------------------
(* The hooks and the hash operations. *)

(* After unlinkTid of an element's tid no entry refers to the element, whether
   the caller has reset its link word (eraseIterCb) or not (tidReplaceTid). *)
LEMMA UnlinkOff ==
    ASSUME NEW s, Good(s), NEW off \in Offs, NEW role, NEW s0, Struct(s0),
           s0.blks = s.blks, s0.tid = s.tid, s0.preClear = s.preClear,
           s0.live = s.live, \A o \in Offs \ {off} : s0.link[o] = s.link[o],
           NEW u, u = unlinkTid(s0, s.link[off], role)
    PROVE  /\ Follows(s, u) /\ Unref(u, off)
           /\ SameElems(s0, u)
           /\ \A o \in Offs : Unref(s, o) => Unref(u, o)
<1> DEFINE t == s.link[off]
<1>1. t \in Nat /\ s \in Slices /\ s.live \subseteq Offs
  BY DEF Good, Struct, Slices
<1>2. /\ Struct(u) /\ SameElems(s0, u) /\ SameBases(s0, u)
      /\ u.tid >= s0.tid /\ HistoryKept(s0, u)
      /\ \A b \in 1 .. Len(u.blks) : \A i \in 0 .. BlkSz - 1 :
            isTidValIterOff(EntryAt(u, b, i)) =>
              /\ Kept(s0, u, b, i)
              /\ ~(b = tid2tblBlk(s0, t) /\ i = Slot(t))
  BY <1>1, UnlinkFacts
<1>3. SameBases(s, u) /\ u.preClear = s.preClear /\ u.live = s.live /\ Struct(s)
  BY <1>2 DEF SameBases, SameElems, Good
<1>4. HistoryKept(s, u)
  <2>1. HistoryKept(s0, u) = HistoryKept(s, u)
    BY DEF HistoryKept, Recorded, EntryTid, EntryAt
  <2> QED
    BY <1>2, <2>1
<1>5. ASSUME Aligned(u), NEW b \in 1 .. Len(u.blks), NEW i \in 0 .. BlkSz - 1,
             NEW o, RefersTo(u, b, i, o)
      PROVE  /\ b \in 1 .. Len(s.blks) /\ RefersTo(s, b, i, o) /\ Aligned(s)
             /\ EntryTid(u, b, i) = EntryTid(s, b, i)
             /\ ~(b = tid2tblBlk(s, t) /\ i = Slot(t))
  <2>1. isTidValIterOff(EntryAt(u, b, i)) /\ EntryAt(u, b, i).arg = o
    BY <1>5 DEF RefersTo
  <2>2. Kept(s0, u, b, i) /\ ~(b = tid2tblBlk(s0, t) /\ i = Slot(t))
    BY <1>2, <2>1
  <2>3. Len(s.blks) \in Nat
    BY <1>1 DEF Slices
  <2>4. b \in 1 .. Len(s.blks) /\ EntryAt(u, b, i) = EntryAt(s, b, i)
    BY <2>2, <2>3 DEF Kept, EntryAt
  <2>5. tid2tblBlk(s0, t) = tid2tblBlk(s, t)
    BY DEF tid2tblBlk
  <2>6. Aligned(s)
    BY <1>2, <1>3, <1>5, AlignedBack
  <2>7. EntryTid(u, b, i) = EntryTid(s, b, i)
    BY <1>3, <2>4 DEF EntryTid, SameBases
  <2>8. RefersTo(s, b, i, o)
    BY <2>1, <2>4 DEF RefersTo
  <2> QED
    BY <2>2, <2>4, <2>5, <2>6, <2>7, <2>8
<1> HIDE DEF t
<1>6. ASSUME Aligned(u), NEW b \in 1 .. Len(u.blks), NEW i \in 0 .. BlkSz - 1,
             NEW o \in Nat \ {0}, RefersTo(u, b, i, o)
      PROVE  o # off /\ EntryOk(u, b, i, o)
  <2>1. /\ b \in 1 .. Len(s.blks) /\ RefersTo(s, b, i, o) /\ Aligned(s)
        /\ EntryTid(u, b, i) = EntryTid(s, b, i)
        /\ ~(b = tid2tblBlk(s, t) /\ i = Slot(t))
    BY <1>5, <1>6
  <2>2. o \in s.live /\ s.link[o] = EntryTid(s, b, i) /\ EntryTid(s, b, i) # 0
    BY <2>1 DEF Good, EntriesOk, EntryOk
  <2>3. b = tid2tblBlk(s, EntryTid(s, b, i)) /\ i = Slot(EntryTid(s, b, i))
    BY <1>3, <2>1, LookupFinds
  <2>4. o # off
    BY <2>1, <2>2, <2>3 DEF t
  <2>5. u.link[o] = s.link[o] /\ o \in u.live
    BY <1>1, <1>2, <1>3, <2>2, <2>4 DEF SameElems
  <2> QED
    BY <2>1, <2>2, <2>4, <2>5 DEF EntryOk
<1>7. Good(u)
  BY <1>2, <1>6 DEF Good, EntriesOk
<1>8. Unref(u, off)
  <2>1. off \in Nat \ {0}
    OBVIOUS
  <2> QED
    BY <1>6, <2>1 DEF Unref, NoRef
<1>9. ASSUME NEW o \in Offs, Unref(s, o) PROVE Unref(u, o)
  BY <1>5, <1>9 DEF Unref, NoRef
<1>10. u.tid >= s.tid
  BY <1>2
<1> QED
  BY <1>2, <1>4, <1>7, <1>8, <1>9, <1>10 DEF Follows

(* linkTid of an element that nothing refers to; 0 stands for no element. *)
LEMMA LinkAt ==
    ASSUME NEW s, Good(s), NEW off \in Offs \cup {0},
           off # 0 => off \in s.live /\ Unref(s, off),
           NEW t \in Nat, InSeq(s, t), NEW u, u = linkTid(s, off, t)
    PROVE  Follows(s, u) /\ u.live = s.live
<1> DEFINE v == iterOff2tidVal(off)
           m == setTidTblEnt(s, v, t)
           n == NewTid(s, t)
           ok == HasRoom(s, n) /\ off \in Offs
<1>1. s \in Slices /\ s.tid \in Nat /\ n \in Nat /\ n > s.tid /\ Struct(s)
      /\ off \in Nat
  <2>1. Struct(s) /\ s \in Slices
    BY DEF Good, Struct
  <2>2. s.tid \in Nat
    BY <2>1 DEF Slices
  <2>3. off \in Nat
    <3>1. off \in Offs => off \in Nat
      BY OffsAssumption
    <3> QED
      BY <3>1
  <2>4. n \in Nat /\ n > s.tid
    BY <2>2 DEF NewTid, InSeq
  <2> QED
    BY <2>1, <2>2, <2>3, <2>4
<1>2. v \in TidVals
  BY DEF iterOff2tidVal, TidVals
<1>3. u = IF ok THEN [m EXCEPT !.link[off] = n] ELSE m
  <2>1. NewTid(s, t) = n /\ (setTidTblEntOk(s, t) <=> HasRoom(s, n))
    BY DEF setTidTblEntOk
  <2>2. u = IF setTidTblEntOk(s, t) /\ off \in Offs
            THEN [m EXCEPT !.link[off] = NewTid(s, t)] ELSE m
    BY DEF linkTid
  <2> HIDE DEF m, n
  <2> QED
    BY <2>1, <2>2, Zenon
<1> HIDE DEF v
<1>4. /\ Appends(s, m, v) /\ SameElems(s, m) /\ m.tid = n
      /\ ~HasRoom(s, n) => m.blks = s.blks
  BY <1>1, <1>2, SetAt
<1> HIDE DEF m, n
<1>5. HistoryKept(s, m) /\ Struct(m) /\ m \in Slices /\ SameBases(s, m)
  BY <1>1, <1>4, AppendsHistory DEF Appends, Struct
<1>6. /\ u.tid = m.tid /\ u.preClear = s.preClear /\ u.blks = m.blks
      /\ u.live = s.live /\ u \in Slices
      /\ \A o \in Offs : u.link[o] = IF ok /\ o = off THEN n ELSE s.link[o]
  <2>1. m.link = s.link /\ m.live = s.live /\ m.preClear = s.preClear
    BY <1>4 DEF SameElems
  <2>2. CASE ok
    <3>1. u = [m EXCEPT !.link[off] = n] /\ off \in Offs
      BY <1>3, <2>2
    <3>2. u \in Slices
      <4>1. n \in Nat /\ off \in Offs /\ m \in Slices
        BY <1>1, <1>5, <3>1
      <4>2. [m.link EXCEPT ![off] = n] \in [Offs -> Nat]
        BY <4>1 DEF Slices
      <4>3. u = [m EXCEPT !.link = [m.link EXCEPT ![off] = n]]
        BY <3>1, <4>1 DEF Slices
      <4> QED
        BY <4>1, <4>2, <4>3 DEF Slices
    <3>3. \A o \in Offs : u.link[o] = IF o = off THEN n ELSE s.link[o]
      <4>1. \A o \in Offs : u.link[o] = IF o = off THEN n ELSE m.link[o]
        BY <1>5, <3>1 DEF Slices
      <4> QED
        BY <2>1, <4>1
    <3>4. /\ u.tid = m.tid /\ u.preClear = m.preClear /\ u.blks = m.blks
          /\ u.live = m.live
      BY <1>5, <3>1 DEF Slices
    <3> QED
      BY <2>1, <2>2, <3>2, <3>3, <3>4
  <2>3. CASE ~ok
    <3>1. u = m
      BY <1>3, <2>3
    <3> QED
      BY <1>5, <2>1, <2>3, <3>1
  <2> QED
    BY <2>2, <2>3
<1> HIDE DEF ok
<1>7. Struct(u)
  BY <1>5, <1>6 DEF Struct, BasesWhole, LastBase
<1>8. HistoryKept(s, u)
  <2>1. HistoryKept(s, m) = HistoryKept(s, u)
    BY <1>6 DEF HistoryKept, EntryTid, EntryAt
  <2> QED
    BY <1>5, <2>1
<1>9. SameBases(s, u)
  BY <1>5, <1>6 DEF SameBases
<1>10. ASSUME Aligned(u), NEW b \in 1 .. Len(u.blks), NEW i \in 0 .. BlkSz - 1,
              NEW o \in Nat \ {0}, RefersTo(u, b, i, o)
       PROVE  EntryOk(u, b, i, o)
  <2>1. Aligned(s)
    BY <1>1, <1>6, <1>7, <1>9, <1>10, AlignedBack
  <2>2. EntryAt(u, b, i) = EntryAt(m, b, i) /\ EntryTid(u, b, i) = EntryTid(m, b, i)
    BY <1>6 DEF EntryAt, EntryTid
  <2>3. EntryAt(m, b, i) # NoVal
    BY <1>10, <2>2 DEF RefersTo, isTidValIterOff, NoVal
  <2>4. CASE Kept(s, m, b, i)
    <3>1. b \in 1 .. Len(s.blks) /\ RefersTo(s, b, i, o)
      <4>1. Len(s.blks) \in Nat
        BY <1>1 DEF Slices
      <4> QED
        BY <1>10, <2>2, <2>4, <4>1 DEF Kept, RefersTo
    <3>2. o \in s.live /\ s.link[o] = EntryTid(s, b, i) /\ EntryTid(s, b, i) # 0
      BY <2>1, <3>1 DEF Good, EntriesOk, EntryOk
    <3>3. EntryTid(u, b, i) = EntryTid(s, b, i)
      BY <1>9, <3>1 DEF EntryTid, SameBases
    <3>4. o # off
      BY <2>1, <3>1 DEF Unref, NoRef
    <3>5. o \in Offs
      BY <1>1, <3>2 DEF Slices
    <3> QED
      BY <1>6, <3>2, <3>3, <3>4, <3>5 DEF EntryOk
  <2>5. CASE Added(s, m, v, b, i) /\ ~Kept(s, m, b, i)
    <3>1. EntryAt(m, b, i) = v /\ EntryTid(m, b, i) = n
      BY <1>4, <2>5 DEF Added
    <3>2. o = off
      BY <1>10, <2>2, <3>1 DEF RefersTo, v, iterOff2tidVal
    <3>3. HasRoom(s, n)
      <4> SUFFICES ASSUME ~HasRoom(s, n) PROVE FALSE
        OBVIOUS
      <4>1. m.blks = s.blks /\ Len(s.blks) \in Nat
        BY <1>1, <1>4 DEF Slices
      <4>2. Kept(s, m, b, i)
        BY <1>6, <4>1 DEF Kept, EntryAt
      <4> QED
        BY <2>5, <4>2
    <3>4. ok /\ off \in Offs /\ off \in s.live
      BY <3>2, <3>3 DEF ok
    <3> QED
      BY <1>1, <1>6, <2>2, <3>1, <3>2, <3>4 DEF EntryOk
  <2> QED
    BY <1>4, <1>6, <2>3, <2>4, <2>5 DEF Appends
<1>11. Good(u)
  BY <1>7, <1>10 DEF Good, EntriesOk
<1>12. u.tid >= s.tid
  BY <1>1, <1>4, <1>6
<1> QED
  BY <1>6, <1>8, <1>11, <1>12 DEF Follows

(* The same for the next tid. *)
LEMMA LinkOff ==
    ASSUME NEW s, Good(s), NEW off \in Offs \cup {0},
           off # 0 => off \in s.live /\ Unref(s, off),
           NEW u, u = linkTid(s, off, 0)
    PROVE  Follows(s, u) /\ u.live = s.live
<1>1. InSeq(s, 0)
  BY DEF InSeq
<1> QED
  BY <1>1, LinkAt

(* eraseIterCb and eraseIteratorHelper leave nothing that refers to off. *)
LEMMA EraseCb ==
    ASSUME NEW s, Good(s), NEW off \in Offs, NEW role,
           NEW u, u = eraseIterCb(s, off, role)
    PROVE  /\ Follows(s, u) /\ Unref(u, off) /\ u.live = s.live /\ u.key = s.key
           /\ \A o \in Offs : Unref(s, o) => Unref(u, o)
<1>1. s \in Slices /\ Struct(s) /\ s.tid \in Nat
  BY DEF Good, Struct, Slices
<1>2. CASE s.link[off] = 0
  <2>1. u = s
    BY <1>2 DEF eraseIterCb
  <2>2. HistoryKept(s, s)
    BY DEF HistoryKept, Recorded
  <2>3. ASSUME Aligned(s) PROVE NoRef(s, off)
    <3>1. off \in Nat \ {0}
      OBVIOUS
    <3> QED
      BY <1>2, <2>3, <3>1 DEF Good, EntriesOk, EntryOk, NoRef
  <2>4. Unref(s, off)
    BY <2>3 DEF Unref
  <2>5. Follows(s, s)
    BY <1>1, <2>2 DEF Follows
  <2> QED
    BY <2>1, <2>4, <2>5
<1>3. CASE s.link[off] # 0
  <2> DEFINE s0 == [s EXCEPT !.link[off] = 0]
  <2>1. u = unlinkTid(s0, s.link[off], role)
    BY <1>3 DEF eraseIterCb
  <2>2. /\ s0.blks = s.blks /\ s0.tid = s.tid /\ s0.preClear = s.preClear
        /\ s0.live = s.live /\ s0.key = s.key /\ s0 \in Slices
        /\ \A o \in Offs \ {off} : s0.link[o] = s.link[o]
    BY <1>1 DEF Slices
  <2> HIDE DEF s0
  <2>3. Struct(s0)
    BY <1>1, <2>2 DEF Struct, BasesWhole, LastBase
  <2>4. /\ Follows(s, u) /\ Unref(u, off) /\ SameElems(s0, u)
        /\ \A o \in Offs : Unref(s, o) => Unref(u, o)
    BY <2>1, <2>2, <2>3, UnlinkOff
  <2> QED
    BY <2>2, <2>4 DEF SameElems
<1> QED
  BY <1>2, <1>3

(* eraseIteratorHelper keeps the invariant, and leaves no entry on the element. *)
LEMMA EraseElem ==
    ASSUME NEW s, Good(s), NEW off \in Offs, NEW role,
           NEW u, u = eraseIteratorHelper(s, off, role)
    PROVE  /\ Follows(s, u) /\ Unref(u, off)
           /\ u.live = s.live \ {off} /\ u.key = s.key
           /\ \A o \in Offs : Unref(s, o) => Unref(u, o)
<1> DEFINE m == eraseIterCb(s, off, role)
<1>1. u = [m EXCEPT !.live = m.live \ {off}]
  BY DEF eraseIteratorHelper
<1>2. /\ Follows(s, m) /\ Unref(m, off) /\ m.live = s.live /\ m.key = s.key
      /\ \A o \in Offs : Unref(s, o) => Unref(m, o)
  BY EraseCb
<1> HIDE DEF m
<1>3. Good(m) /\ Struct(m) /\ m \in Slices /\ HistoryKept(s, m) /\ m.tid >= s.tid
  BY <1>2 DEF Follows, Good, Struct
<1>4. /\ u.blks = m.blks /\ u.tid = m.tid /\ u.preClear = m.preClear
      /\ u.live = s.live \ {off} /\ u.key = s.key /\ u.link = m.link
      /\ u \in Slices
  BY <1>1, <1>2, <1>3 DEF Slices
<1>5. Struct(u)
  BY <1>3, <1>4 DEF Struct, BasesWhole, LastBase
<1>6. Aligned(u) = Aligned(m) /\ HistoryKept(s, u) = HistoryKept(s, m)
  BY <1>4 DEF Aligned, HistoryKept, EntryTid, EntryAt
<1>7. ASSUME NEW b, NEW i, NEW o
      PROVE  /\ RefersTo(u, b, i, o) = RefersTo(m, b, i, o)
             /\ EntryTid(u, b, i) = EntryTid(m, b, i)
  BY <1>4 DEF RefersTo, EntryAt, EntryTid
<1>8. ASSUME Aligned(u) PROVE EntriesOk(u)
  <2> SUFFICES ASSUME NEW b \in 1 .. Len(m.blks), NEW i \in 0 .. BlkSz - 1,
                      NEW o \in Nat \ {0}, RefersTo(m, b, i, o)
               PROVE  EntryOk(u, b, i, o)
    BY <1>4, <1>7 DEF EntriesOk
  <2>1. Aligned(m)
    BY <1>6, <1>8
  <2>2. EntryOk(m, b, i, o) /\ o # off
    BY <1>2, <1>3, <2>1 DEF Good, EntriesOk, Unref, NoRef
  <2> QED
    BY <1>2, <1>4, <1>7, <2>2 DEF EntryOk
<1>9. \A o \in Offs : Unref(m, o) => Unref(u, o)
  BY <1>4, <1>6, <1>7 DEF Unref, NoRef
<1> QED
  BY <1>2, <1>3, <1>4, <1>5, <1>6, <1>8, <1>9 DEF Follows, Good

(* u is s after insertCopy2 into memory of the pool that is not in use. *)
Inserts(s, u, k, v, off, w) ==
    /\ Good(s) /\ k \in Keys /\ v \in Vals /\ w \in Nat
    /\ off \in Offs /\ off \notin s.live
    /\ u = insertCopy2(s, k, v, off, w)

(* Nothing refers to the memory insertCopy2 puts an element in. *)
LEMMA InsertElem ==
    ASSUME NEW s, NEW u, NEW k, NEW v, NEW off, NEW w, Inserts(s, u, k, v, off, w)
    PROVE  Follows(s, u) /\ Unref(u, off) /\ u.live = s.live \cup {off}
<1>0. /\ Good(s) /\ k \in Keys /\ v \in Vals /\ w \in Nat
      /\ off \in Offs /\ off \notin s.live
      /\ u = insertCopy2(s, k, v, off, w)
  BY DEF Inserts
<1> USE <1>0
<1>1. s \in Slices /\ Struct(s) /\ s.tid \in Nat /\ off \in Nat \ {0}
  BY DEF Good, Struct, Slices
<1>2. u = [s EXCEPT !.live = s.live \cup {off}, !.key[off] = k, !.val[off] = v,
                    !.link[off] = w]
  BY <1>1 DEF insertCopy2
<1>3. /\ u.blks = s.blks /\ u.tid = s.tid /\ u.preClear = s.preClear
      /\ u.live = s.live \cup {off} /\ u \in Slices
      /\ \A o \in Offs \ {off} : u.link[o] = s.link[o]
  <2>1. /\ u.blks = s.blks /\ u.tid = s.tid /\ u.preClear = s.preClear
        /\ u.live = s.live \cup {off}
    BY <1>1, <1>2 DEF Slices
  <2>2. u \in Slices
    <3>1. /\ [s.key EXCEPT ![off] = k] \in [Offs -> Keys]
          /\ [s.val EXCEPT ![off] = v] \in [Offs -> Vals]
          /\ [s.link EXCEPT ![off] = w] \in [Offs -> Nat]
          /\ s.live \cup {off} \in SUBSET Offs
      BY <1>1 DEF Slices
    <3>2. u = [s EXCEPT !.live = s.live \cup {off},
                        !.key = [s.key EXCEPT ![off] = k],
                        !.val = [s.val EXCEPT ![off] = v],
                        !.link = [s.link EXCEPT ![off] = w]]
      BY <1>1, <1>2 DEF Slices
    <3> QED
      BY <1>1, <3>1, <3>2 DEF Slices
  <2>3. \A o \in Offs \ {off} : u.link[o] = s.link[o]
    BY <1>1, <1>2 DEF Slices
  <2> QED
    BY <2>1, <2>2, <2>3
<1>4. Struct(u)
  BY <1>1, <1>3 DEF Struct, BasesWhole, LastBase
<1>5. Aligned(u) = Aligned(s) /\ HistoryKept(s, u) = HistoryKept(s, s)
  BY <1>3 DEF Aligned, HistoryKept, EntryTid, EntryAt
<1>6. ASSUME NEW b, NEW i, NEW o
      PROVE  /\ RefersTo(u, b, i, o) = RefersTo(s, b, i, o)
             /\ EntryTid(u, b, i) = EntryTid(s, b, i)
  BY <1>3 DEF RefersTo, EntryAt, EntryTid
<1>7. HistoryKept(s, s)
  BY DEF HistoryKept, Recorded
<1>8. ASSUME Aligned(u), NEW b \in 1 .. Len(s.blks), NEW i \in 0 .. BlkSz - 1,
             NEW o \in Nat \ {0}, RefersTo(s, b, i, o)
      PROVE  EntryOk(u, b, i, o) /\ o # off
  <2>1. EntryOk(s, b, i, o)
    BY <1>5, <1>8 DEF Good, EntriesOk
  <2>2. o \in Offs \ {off}
    BY <1>1, <2>1 DEF EntryOk, Slices
  <2> QED
    BY <1>3, <1>6, <2>1, <2>2 DEF EntryOk
<1>9. Aligned(u) => EntriesOk(u)
  BY <1>3, <1>6, <1>8 DEF EntriesOk
<1>10. Unref(u, off)
  BY <1>1, <1>3, <1>6, <1>8 DEF Unref, NoRef
<1>11. u.tid >= s.tid
  BY <1>1, <1>3
<1> QED
  BY <1>3, <1>4, <1>5, <1>7, <1>9, <1>10, <1>11 DEF Follows, Good

(* insert2 keeps the invariant, with or without an element. *)
LEMMA Insert2 ==
    ASSUME NEW s, Good(s), NEW k \in Keys, NEW v \in Vals, NEW w \in Nat,
           NEW off \in (Offs \ s.live) \cup {0},
           NEW u, u = insert2(s, k, v, off, w)
    PROVE  Follows(s, u)
<1> DEFINE m == insertCopy2(s, k, v, off, w)
<1>1. u = linkTid(m, off, 0) /\ Struct(s)
  BY DEF insert2, Good
<1>2. CASE off = 0
  <2>1. m = s
    BY <1>2 DEF insertCopy2
  <2> QED
    BY <1>1, <1>2, <2>1, LinkOff
<1>3. CASE off # 0
  <2>1. off \in Offs /\ off \notin s.live
    BY <1>3
  <2>2. Follows(s, m) /\ Unref(m, off) /\ m.live = s.live \cup {off}
    <3>1. Inserts(s, m, k, v, off, w)
      BY <2>1 DEF Inserts
    <3> QED
      BY <3>1, InsertElem
  <2> HIDE DEF m
  <2>3. Good(m) /\ off \in m.live
    BY <2>2 DEF Follows
  <2>4. Follows(m, u)
    BY <1>1, <2>1, <2>2, <2>3, LinkOff
  <2> QED
    BY <1>1, <2>2, <2>4, FollowsTrans
<1> QED
  BY <1>2, <1>3

(* A new value in place leaves the table and the links alone. *)
LEMMA SetVal ==
    ASSUME NEW s, Good(s), NEW off \in Offs, NEW v \in Vals,
           NEW u, u = [s EXCEPT !.val[off] = v]
    PROVE  Follows(s, u) /\ u.live = s.live
<1>1. s \in Slices /\ Struct(s) /\ s.tid \in Nat
  BY DEF Good, Struct, Slices
<1>2. /\ u.blks = s.blks /\ u.tid = s.tid /\ u.preClear = s.preClear
      /\ u.live = s.live /\ u.link = s.link /\ u \in Slices
  BY <1>1 DEF Slices
<1>3. Struct(u)
  BY <1>1, <1>2 DEF Struct, BasesWhole, LastBase
<1>4. Aligned(u) = Aligned(s) /\ EntriesOk(u) = EntriesOk(s)
  BY <1>2 DEF Aligned, EntriesOk, EntryOk, RefersTo, EntryAt, EntryTid
<1>5. HistoryKept(s, u)
  BY <1>2 DEF HistoryKept, Recorded, EntryAt, EntryTid
<1>6. u.tid >= s.tid
  BY <1>1, <1>2
<1> QED
  BY <1>2, <1>3, <1>4, <1>5, <1>6 DEF Follows, Good

(* checkTidTbl may append an empty block for the next tid. *)
LEMMA CheckTbl ==
    ASSUME NEW s, Good(s), NEW u, u = checkTidTbl(s)
    PROVE  Follows(s, u) /\ u.live = s.live
<1> DEFINE n == s.tid + 1
<1>1. s \in Slices /\ Struct(s) /\ s.tid \in Nat /\ n \in Nat
  BY DEF Good, Struct, Slices
<1>2. CASE ~(NeedsBlk(s, n) /\ Len(s.blks) < MaxBlks)
  <2>1. u = s
    BY <1>2 DEF checkTidTbl
  <2>2. HistoryKept(s, s)
    BY DEF HistoryKept, Recorded
  <2> QED
    BY <1>1, <2>1, <2>2 DEF Follows
<1>3. CASE NeedsBlk(s, n) /\ Len(s.blks) < MaxBlks
  <2>1. u = growTidTbl(s, n - Slot(n)) /\ n <= s.tid + 1
    BY <1>1, <1>3 DEF checkTidTbl
  <2> HIDE DEF n
  <2>2. /\ Struct(u) /\ SameElems(s, u) /\ SameBases(s, u)
        /\ u.tid = s.tid
        /\ Len(u.blks) = Len(s.blks) + 1
        /\ \A b \in 1 .. Len(s.blks) : u.blks[b] = s.blks[b]
        /\ \A i \in 0 .. BlkSz - 1 : EntryAt(u, Len(u.blks), i) = NoVal
    BY <1>1, <2>1, GrowFacts
  <2>3. ASSUME NEW b \in 1 .. Len(u.blks), NEW i \in 0 .. BlkSz - 1,
               EntryAt(u, b, i) # NoVal
        PROVE  /\ b \in 1 .. Len(s.blks) /\ EntryAt(u, b, i) = EntryAt(s, b, i)
               /\ EntryTid(u, b, i) = EntryTid(s, b, i)
    <3>1. Len(s.blks) \in Nat
      BY <1>1 DEF Slices
    <3>2. b \in 1 .. Len(s.blks)
      BY <2>2, <2>3, <3>1
    <3> QED
      BY <2>2, <3>2 DEF EntryAt, EntryTid
  <2>4. HistoryKept(s, u)
    BY <2>3 DEF HistoryKept, Recorded
  <2>5. ASSUME Aligned(u), NEW b \in 1 .. Len(u.blks), NEW i \in 0 .. BlkSz - 1,
               NEW o \in Nat \ {0}, RefersTo(u, b, i, o)
        PROVE  EntryOk(u, b, i, o)
    <3>1. Aligned(s)
      BY <1>1, <2>2, <2>5, AlignedBack DEF SameElems
    <3>2. EntryAt(u, b, i) # NoVal
      BY <2>5 DEF RefersTo, isTidValIterOff, NoVal
    <3>3. b \in 1 .. Len(s.blks) /\ RefersTo(s, b, i, o)
      BY <2>3, <2>5, <3>2 DEF RefersTo
    <3> QED
      BY <2>2, <2>3, <3>1, <3>2, <3>3 DEF Good, EntriesOk, EntryOk, SameElems
  <2>6. u.live = s.live /\ u.tid >= s.tid
    BY <1>1, <2>2 DEF SameElems
  <2> QED
    BY <2>2, <2>4, <2>5, <2>6 DEF Follows, Good, EntriesOk
<1> QED
  BY <1>2, <1>3

(* What an entry of a slice is; an element entry with an offset has one of the
   pool. *)
LEMMA EntryType ==
    ASSUME NEW s \in Slices, NEW b \in 1 .. Len(s.blks), NEW i \in 0 .. BlkSz - 1
    PROVE  /\ EntryAt(s, b, i) \in TidVals /\ EntryTid(s, b, i) \in Nat
           /\ isTidValIterOff(EntryAt(s, b, i)) => EntryAt(s, b, i).arg \in Offs \cup {0}
<1>1. s.blks[b] \in Blocks
  BY DEF Slices
<1>2. EntryAt(s, b, i) \in TidVals /\ EntryTid(s, b, i) \in Nat
  BY <1>1 DEF Blocks, EntryAt, EntryTid
<1> QED
  BY <1>2 DEF TidVals, isTidValIterOff, NoVal, TIDDEL_FLUSHALL

(* The strengthening implies the property. *)
LEMMA GoodIsLive ==
    ASSUME NEW s, Good(s), Aligned(s)
    PROVE  EntriesLive(s)
<1> SUFFICES ASSUME NEW b \in 1 .. Len(s.blks), NEW i \in 0 .. BlkSz - 1,
                    isTidValIterOff(EntryAt(s, b, i)), EntryAt(s, b, i).arg # 0
             PROVE  /\ EntryAt(s, b, i).arg \in s.live
                    /\ s.link[EntryAt(s, b, i).arg] = EntryTid(s, b, i)
  BY DEF EntriesLive
<1>1. EntryAt(s, b, i).arg \in Offs
  BY EntryType DEF Good, Struct
<1>2. EntryAt(s, b, i).arg \in Nat \ {0}
  BY <1>1
<1> QED
  BY <1>2 DEF Good, EntriesOk, EntryOk, RefersTo

-----------------------------------------------------------------------------
(* What the entries say: the element that an entry refers to keeps its key and
   value as long as the entry is there. *)

(* The entries of tids that were not handed out are unused. *)
NoneAhead(s) ==
    \A b \in 1 .. Len(s.blks) : \A i \in 0 .. BlkSz - 1 :
        EntryAt(s, b, i) # NoVal => EntryTid(s, b, i) <= s.tid

SameData(s, u, o) == u.key[o] = s.key[o] /\ u.val[o] = s.val[o]

CarriesEntry(s, u, b, i) ==
    Aligned(s) /\ \A o \in Offs : RefersTo(u, b, i, o) => SameData(s, u, o)

Carries(s, u) ==
    Aligned(u) =>
        \A b \in 1 .. Len(u.blks) : \A i \in 0 .. BlkSz - 1 :
            EntryAt(u, b, i) # NoVal /\ EntryTid(u, b, i) <= s.tid
            => CarriesEntry(s, u, b, i)

KeepsBehind(s, u) == NoneAhead(s) => NoneAhead(u)

(* What every command and every packet ensures. *)
Continues(s, u) == Follows(s, u) /\ Carries(s, u) /\ KeepsBehind(s, u)

(* Two operations that continue a slice, one after the other, continue it. *)
LEMMA ContinuesTrans ==
    ASSUME NEW s, NEW m, NEW u, Struct(s), Continues(s, m), Continues(m, u)
    PROVE  Continues(s, u)
<1>1. Struct(m) /\ Struct(u) /\ s.tid \in Nat /\ m.tid \in Nat /\ s.tid <= m.tid
  BY DEF Continues, Follows, Good, Struct, Slices
<1>2. Follows(s, u)
  BY FollowsTrans DEF Continues
<1>3. ASSUME Aligned(u), NEW b \in 1 .. Len(u.blks), NEW i \in 0 .. BlkSz - 1,
             EntryAt(u, b, i) # NoVal, EntryTid(u, b, i) <= s.tid
      PROVE  CarriesEntry(s, u, b, i)
  <2>1. EntryTid(u, b, i) \in Nat
    BY <1>1, <1>3, EntryType DEF Struct
  <2>2. EntryTid(u, b, i) <= m.tid
    BY <1>1, <1>3, <2>1
  <2>3. CarriesEntry(m, u, b, i)
    BY <1>3, <2>2 DEF Continues, Carries
  <2>4. Recorded(m, EntryTid(u, b, i), EntryAt(u, b, i))
    BY <1>3, <2>2 DEF Continues, Follows, HistoryKept
  <2>5. PICK c \in 1 .. Len(m.blks), j \in 0 .. BlkSz - 1 :
          EntryTid(m, c, j) = EntryTid(u, b, i) /\ EntryAt(m, c, j) = EntryAt(u, b, i)
    BY <2>4 DEF Recorded
  <2>6. CarriesEntry(s, m, c, j)
    BY <1>3, <2>3, <2>5 DEF Continues, Carries, CarriesEntry
  <2>7. \A o \in Offs : RefersTo(u, b, i, o) => RefersTo(m, c, j, o)
    BY <2>5 DEF RefersTo
  <2> QED
    BY <2>3, <2>6, <2>7 DEF CarriesEntry, SameData
<1> QED
  BY <1>2, <1>3 DEF Continues, Carries, KeepsBehind

(* Only the data of off changes, and no entry is left on it. *)
LEMMA ContinuesBut ==
    ASSUME NEW s, NEW u, NEW off \in Offs, Struct(s), Follows(s, u),
           SameBases(s, u), u.preClear = s.preClear, KeepsBehind(s, u),
           \A o \in Offs \ {off} : SameData(s, u, o), Unref(u, off)
    PROVE  Continues(s, u)
<1>1. Struct(u)
  BY DEF Follows, Good
<1>2. ASSUME Aligned(u), NEW b \in 1 .. Len(u.blks), NEW i \in 0 .. BlkSz - 1
      PROVE  CarriesEntry(s, u, b, i)
  <2>1. Aligned(s)
    BY <1>1, <1>2, AlignedBack
  <2>2. ~RefersTo(u, b, i, off)
    BY <1>2 DEF Unref, NoRef
  <2> QED
    BY <2>1, <2>2 DEF CarriesEntry
<1> QED
  BY <1>2 DEF Continues, Carries

(* Key and value of no element change. *)
Still(s, u) ==
    /\ SameBases(s, u) /\ u.preClear = s.preClear
    /\ u.key = s.key /\ u.val = s.val /\ KeepsBehind(s, u)

(* An operation that leaves key and value of every element continues the slice. *)
LEMMA StillContinues ==
    ASSUME NEW s, NEW u, Struct(s), Follows(s, u), Still(s, u)
    PROVE  Continues(s, u)
<1>1. Struct(u)
  BY DEF Follows, Good
<1>2. ASSUME Aligned(u), NEW b \in 1 .. Len(u.blks), NEW i \in 0 .. BlkSz - 1
      PROVE  CarriesEntry(s, u, b, i)
  <2>1. Aligned(s)
    BY <1>1, <1>2, AlignedBack DEF Still
  <2> QED
    BY <2>1 DEF CarriesEntry, SameData, Still
<1> QED
  BY <1>2 DEF Continues, Carries, Still

(* Two such operations, one after the other, are one. *)
LEMMA StillTrans ==
    ASSUME NEW s, NEW m, NEW u, Struct(s), Struct(m), Struct(u),
           Still(s, m), Still(m, u)
    PROVE  Still(s, u)
<1>1. Len(s.blks) \in Nat /\ Len(m.blks) \in Nat /\ Len(u.blks) \in Nat
  BY DEF Struct, Slices
<1>2. SameBases(s, u)
  BY <1>1 DEF SameBases, Still
<1> QED
  BY <1>2 DEF Still, KeepsBehind

(* Same table, same data. *)
LEMMA SameStill ==
    ASSUME NEW s, NEW u, u.blks = s.blks, u.preClear = s.preClear, u.tid = s.tid,
           u.key = s.key, u.val = s.val, Struct(s)
    PROVE  Still(s, u)
<1>1. Len(s.blks) \in Nat
  BY DEF Struct, Slices
<1>2. SameBases(s, u)
  BY <1>1 DEF SameBases
<1>3. NoneAhead(s) = NoneAhead(u)
  BY DEF NoneAhead, EntryAt, EntryTid
<1> QED
  BY <1>2, <1>3 DEF Still, KeepsBehind

(* Recording a value does not touch the elements. *)
LEMMA SetStill ==
    ASSUME NEW s, Struct(s), NEW v \in TidVals, NEW t \in Nat, InSeq(s, t),
           NEW u, u = setTidTblEnt(s, v, t)
    PROVE  Still(s, u) /\ Struct(u)
<1>1. Appends(s, u, v) /\ SameElems(s, u)
  BY SetAt
<1>2. s.tid \in Nat /\ u.tid \in Nat /\ u.tid >= s.tid /\ Len(s.blks) \in Nat
  BY <1>1 DEF Appends, Struct, Slices
<1>3. ASSUME NoneAhead(s), NEW b \in 1 .. Len(u.blks), NEW i \in 0 .. BlkSz - 1,
             EntryAt(u, b, i) # NoVal
      PROVE  EntryTid(u, b, i) <= u.tid
  <2>1. CASE Kept(s, u, b, i)
    <3>1. b \in 1 .. Len(s.blks) /\ EntryTid(u, b, i) = EntryTid(s, b, i)
      BY <1>1, <1>2, <2>1 DEF Kept, Appends, SameBases, EntryTid
    <3>2. EntryTid(s, b, i) \in Nat
      BY <3>1, EntryType DEF Struct
    <3>3. EntryTid(s, b, i) <= s.tid
      BY <1>3, <2>1, <3>1 DEF NoneAhead, Kept
    <3> QED
      BY <1>2, <3>1, <3>2, <3>3
  <2>2. CASE Added(s, u, v, b, i)
    BY <1>2, <2>2 DEF Added
  <2> QED
    BY <1>1, <1>3, <2>1, <2>2 DEF Appends
<1> QED
  BY <1>1, <1>3 DEF Still, SameElems, Appends, KeepsBehind, NoneAhead

(* Nor does clearing an entry. *)
LEMMA ClrStill ==
    ASSUME NEW s, Struct(s), NEW t \in Nat, NEW u, u = clrTidTblEnt(s, t)
    PROVE  Still(s, u) /\ Struct(u) /\ u.tid = s.tid
<1>1. /\ Struct(u) /\ SameElems(s, u) /\ SameBases(s, u)
      /\ u.tid = s.tid /\ Len(u.blks) = Len(s.blks) /\ Cleared(s, u, t)
  BY ClrFacts
<1>2. ASSUME NoneAhead(s), NEW b \in 1 .. Len(u.blks), NEW i \in 0 .. BlkSz - 1,
             EntryAt(u, b, i) # NoVal
      PROVE  EntryTid(u, b, i) <= u.tid
  <2>1. EntryAt(u, b, i) = EntryAt(s, b, i) /\ b \in 1 .. Len(s.blks)
    BY <1>1, <1>2 DEF Cleared
  <2> QED
    BY <1>1, <1>2, <2>1 DEF NoneAhead, EntryTid, SameBases
<1> QED
  BY <1>1, <1>2 DEF Still, SameElems, KeepsBehind, NoneAhead

(* Nor does unlinking a tid, which on a slave hands out none. *)
LEMMA UnlinkStill ==
    ASSUME NEW s, Struct(s), NEW t \in Nat, NEW role, NEW u, u = unlinkTid(s, t, role)
    PROVE  Still(s, u) /\ Struct(u) /\ (role # "master" => u.tid = s.tid)
<1> DEFINE m == clrTidTblEnt(s, t)
<1>1. Still(s, m) /\ Struct(m) /\ m.tid = s.tid
  BY ClrStill
<1>2. u = IF role = "master" THEN setTidTblEnt(m, tidDelVal(t), 0) ELSE m
  BY DEF unlinkTid, isTidMaster
<1> HIDE DEF m
<1>3. CASE role = "master"
  <2>1. u = setTidTblEnt(m, tidDelVal(t), 0) /\ InSeq(m, 0)
    BY <1>2, <1>3 DEF InSeq
  <2>2. Still(m, u) /\ Struct(u)
    BY <1>1, <2>1, DelValNotIter, SetStill
  <2> QED
    BY <1>1, <1>3, <2>2, StillTrans
<1>4. CASE role # "master"
  BY <1>1, <1>2, <1>4
<1> QED
  BY <1>3, <1>4

(* Nor does linking one. *)
LEMMA LinkStill ==
    ASSUME NEW s, Struct(s), NEW off \in Offs \cup {0}, NEW t \in Nat, InSeq(s, t),
           NEW u, u = linkTid(s, off, t)
    PROVE  Still(s, u) /\ Struct(u)
<1> DEFINE v == iterOff2tidVal(off)
           m == setTidTblEnt(s, v, t)
<1>1. v \in TidVals
  BY DEF iterOff2tidVal, TidVals
<1>2. Still(s, m) /\ Struct(m)
  <2> HIDE DEF v
  <2> QED
    BY <1>1, SetStill
<1>3. u = IF setTidTblEntOk(s, t) /\ off \in Offs
          THEN [m EXCEPT !.link[off] = NewTid(s, t)] ELSE m
  BY DEF linkTid
<1>4. NewTid(s, t) \in Nat /\ m \in Slices
  BY <1>2, SMTT(30) DEF NewTid, Struct, Slices
<1> HIDE DEF m
<1>5. CASE ~(setTidTblEntOk(s, t) /\ off \in Offs)
  BY <1>2, <1>3, <1>5
<1>6. CASE setTidTblEntOk(s, t) /\ off \in Offs
  <2>1. PICK n \in Nat : n = NewTid(s, t)
    BY <1>4
  <2>2. u = [m EXCEPT !.link = [m.link EXCEPT ![off] = n]]
    BY <1>3, <1>4, <1>6, <2>1 DEF Slices
  <2>3. [m.link EXCEPT ![off] = n] \in [Offs -> Nat]
    BY <1>4, <1>6 DEF Slices
  <2>4. /\ u.blks = m.blks /\ u.preClear = m.preClear /\ u.tid = m.tid
        /\ u.key = m.key /\ u.val = m.val /\ u \in Slices
    BY <1>4, <2>2, <2>3 DEF Slices
  <2>5. Still(m, u)
    BY <1>2, <2>4, SameStill
  <2>6. Struct(u)
    BY <1>2, <2>4 DEF Struct, BasesWhole, LastBase
  <2> QED
    BY <1>2, <2>5, <2>6, StillTrans
<1> QED
  BY <1>5, <1>6

(* Nor does the callback of an erasure. *)
LEMMA EraseCbStill ==
    ASSUME NEW s, Struct(s), NEW off \in Offs, NEW role,
           NEW u, u = eraseIterCb(s, off, role)
    PROVE  Still(s, u) /\ Struct(u) /\ (role # "master" => u.tid = s.tid)
<1>1. s \in Slices /\ s.link[off] \in Nat
  BY DEF Struct, Slices
<1>2. CASE s.link[off] = 0
  <2>1. u = s
    BY <1>2 DEF eraseIterCb
  <2> QED
    BY <2>1, SameStill
<1>3. CASE s.link[off] # 0
  <2> DEFINE s0 == [s EXCEPT !.link[off] = 0]
  <2>1. u = unlinkTid(s0, s.link[off], role)
    BY <1>3 DEF eraseIterCb
  <2>2. /\ s0.blks = s.blks /\ s0.tid = s.tid /\ s0.preClear = s.preClear
        /\ s0.key = s.key /\ s0.val = s.val /\ s0 \in Slices
    BY <1>1 DEF Slices
  <2> HIDE DEF s0
  <2>3. Struct(s0)
    BY <2>2 DEF Struct, BasesWhole, LastBase
  <2>4. Still(s, s0)
    BY <2>2, SameStill
  <2>5. Still(s0, u) /\ Struct(u) /\ (role # "master" => u.tid = s0.tid)
    BY <1>1, <2>1, <2>3, UnlinkStill
  <2> QED
    BY <2>2, <2>3, <2>4, <2>5, StillTrans
<1> QED
  BY <1>2, <1>3

(* Erasing an element changes no data that an entry refers to. *)
LEMMA EraseContinues ==
    ASSUME NEW s, Good(s), NEW off \in Offs, NEW role,
           NEW u, u = eraseIteratorHelper(s, off, role)
    PROVE  /\ Continues(s, u) /\ u.key = s.key
           /\ u.live = s.live \ {off} /\ (role # "master" => u.tid = s.tid)
<1> DEFINE m == eraseIterCb(s, off, role)
<1>1. u = [m EXCEPT !.live = m.live \ {off}] /\ Struct(s)
  BY DEF eraseIteratorHelper, Good
<1>2. Still(s, m) /\ Struct(m) /\ (role # "master" => m.tid = s.tid)
  BY <1>1, EraseCbStill
<1> HIDE DEF m
<1>3. /\ u.blks = m.blks /\ u.preClear = m.preClear /\ u.tid = m.tid
      /\ u.key = m.key /\ u.val = m.val
  BY <1>1, <1>2 DEF Struct, Slices
<1>4. Follows(s, u) /\ u.live = s.live \ {off} /\ u.key = s.key
  BY EraseElem
<1>5. Still(m, u) /\ Struct(u)
  BY <1>2, <1>3, <1>4, SameStill DEF Follows, Good
<1>6. Still(s, u)
  BY <1>1, <1>2, <1>5, StillTrans
<1> QED
  BY <1>1, <1>2, <1>3, <1>4, <1>6, StillContinues

(* Linking an element that nothing refers to. *)
LEMMA LinkContinues ==
    ASSUME NEW s, Good(s), NEW off \in Offs \cup {0},
           off # 0 => off \in s.live /\ Unref(s, off),
           NEW t \in Nat, InSeq(s, t), NEW u, u = linkTid(s, off, t)
    PROVE  Continues(s, u)
<1>1. Follows(s, u) /\ Struct(s)
  BY LinkAt DEF Good
<1>2. Still(s, u)
  BY <1>1, LinkStill
<1> QED
  BY <1>1, <1>2, StillContinues

(* A new element is in memory that no entry refers to. *)
LEMMA InsertContinues ==
    ASSUME NEW s, NEW u, NEW k, NEW v, NEW off, NEW w, Inserts(s, u, k, v, off, w)
    PROVE  /\ Continues(s, u) /\ Unref(u, off) /\ u.live = s.live \cup {off}
           /\ u.tid = s.tid /\ u.key[off] = k /\ u.val[off] = v
<1>0. /\ Good(s) /\ k \in Keys /\ v \in Vals /\ w \in Nat
      /\ off \in Offs /\ off \notin s.live
      /\ u = insertCopy2(s, k, v, off, w)
  BY DEF Inserts
<1>a. Follows(s, u) /\ Unref(u, off) /\ u.live = s.live \cup {off}
  BY InsertElem
<1> USE <1>0
<1>1. s \in Slices /\ Struct(s)
  BY DEF Good, Struct
<1>2. u = [s EXCEPT !.live = s.live \cup {off}, !.key[off] = k, !.val[off] = v,
                    !.link[off] = w]
  BY DEF insertCopy2
<1>3. /\ u.blks = s.blks /\ u.tid = s.tid /\ u.preClear = s.preClear
      /\ u.key = [s.key EXCEPT ![off] = k] /\ u.val = [s.val EXCEPT ![off] = v]
  BY <1>1, <1>2 DEF Slices
<1>4. /\ u.key[off] = k /\ u.val[off] = v
      /\ \A o \in Offs \ {off} : SameData(s, u, o)
  BY <1>1, <1>3 DEF Slices, SameData
<1>6. SameBases(s, u)
  <2>1. Len(s.blks) \in Nat
    BY <1>1 DEF Slices
  <2> QED
    BY <1>3, <2>1 DEF SameBases
<1>7. NoneAhead(s) = NoneAhead(u)
  BY <1>3 DEF NoneAhead, EntryAt, EntryTid
<1>8. Continues(s, u)
  BY <1>1, <1>3, <1>4, <1>a, <1>6, <1>7, ContinuesBut DEF KeepsBehind
<1> QED
  BY <1>3, <1>4, <1>a, <1>8

(* The value is overwritten, then the entry of the element is cleared. *)
LEMMA SetUnlink ==
    ASSUME NEW s, Good(s), NEW off \in s.live, NEW v \in Vals, NEW role,
           NEW m, m = [s EXCEPT !.val[off] = v],
           NEW u, Follows(m, u), Still(m, u), Unref(u, off)
    PROVE  Continues(s, u) /\ u.val[off] = v /\ u.key = s.key
<1>1. s \in Slices /\ Struct(s) /\ off \in Offs
  BY DEF Good, Struct, Slices
<1>2. /\ m.blks = s.blks /\ m.tid = s.tid /\ m.preClear = s.preClear
      /\ m.key = s.key /\ m.val = [s.val EXCEPT ![off] = v]
  BY <1>1 DEF Slices
<1>3. /\ m.val[off] = v
      /\ \A o \in Offs \ {off} : SameData(s, u, o)
  BY <1>1, <1>2 DEF Slices, SameData, Still
<1>4. Follows(s, m)
  BY <1>1, SetVal
<1>5. Follows(s, u)
  BY <1>1, <1>4, FollowsTrans
<1>6. SameBases(s, u) /\ u.preClear = s.preClear
  BY <1>2 DEF SameBases, Still
<1>7. NoneAhead(s) = NoneAhead(m)
  BY <1>2 DEF NoneAhead, EntryAt, EntryTid
<1>8. KeepsBehind(s, u)
  BY <1>7 DEF Still, KeepsBehind
<1>9. Continues(s, u)
  BY <1>1, <1>3, <1>5, <1>6, <1>8, ContinuesBut
<1> QED
  BY <1>2, <1>3, <1>9 DEF Still

-----------------------------------------------------------------------------
(* The hash operations that commands are made of. *)

(* insert2, with or without an element. *)
LEMMA Insert2Continues ==
    ASSUME NEW s, Good(s), NEW k \in Keys, NEW v \in Vals, NEW w \in Nat,
           NEW off \in (Offs \ s.live) \cup {0},
           NEW u, u = insert2(s, k, v, off, w)
    PROVE  Continues(s, u)
<1> DEFINE m == insertCopy2(s, k, v, off, w)
<1>1. u = linkTid(m, off, 0) /\ Struct(s) /\ InSeq(m, 0)
  BY DEF insert2, Good, InSeq
<1>2. CASE off = 0
  <2>1. m = s
    BY <1>2 DEF insertCopy2
  <2> QED
    BY <1>1, <1>2, <2>1, LinkContinues
<1>3. CASE off # 0
  <2>1. off \in Offs /\ off \notin s.live
    BY <1>3
  <2>2. Continues(s, m) /\ Unref(m, off) /\ m.live = s.live \cup {off}
    <3>1. Inserts(s, m, k, v, off, w)
      BY <2>1 DEF Inserts
    <3> QED
      BY <3>1, InsertContinues
  <2> HIDE DEF m
  <2>3. Continues(m, u)
    BY <1>1, <2>1, <2>2, LinkContinues DEF Continues, Follows
  <2> QED
    BY <1>1, <2>2, <2>3, ContinuesTrans
<1> QED
  BY <1>2, <1>3

(* doSet in place: the entry of the old tid goes before the new one comes. *)
LEMMA InPlace ==
    ASSUME NEW s, Good(s), NEW off \in s.live, NEW v \in Vals,
           NEW u, u = doSetInPlace(s, off, v, "master")
    PROVE  Continues(s, u)
<1> DEFINE m1 == [s EXCEPT !.val[off] = v]
           m2 == eraseIterCb(m1, off, "master")
<1>1. off \in Offs /\ u = linkTid(m2, off, 0) /\ Struct(s)
  BY DEF doSetInPlace, updateIterCb, Good, Struct, Slices
<1>2. Follows(s, m1) /\ m1.live = s.live
  BY <1>1, SetVal
<1>3. m1 = [s EXCEPT !.val[off] = v]
  OBVIOUS
<1> HIDE DEF m1
<1>4. Good(m1) /\ Struct(m1)
  BY <1>2 DEF Follows, Good
<1>5. Follows(m1, m2) /\ Unref(m2, off) /\ m2.live = m1.live
  BY <1>1, <1>4, EraseCb
<1>6. Still(m1, m2)
  BY <1>1, <1>4, EraseCbStill
<1> HIDE DEF m2
<1>7. Continues(s, m2)
  BY <1>3, <1>5, <1>6, SetUnlink
<1>8. off \in m2.live /\ InSeq(m2, 0) /\ Good(m2)
  BY <1>2, <1>5 DEF InSeq, Follows
<1>9. Continues(m2, u)
  BY <1>1, <1>5, <1>8, LinkContinues
<1> QED
  BY <1>1, <1>7, <1>9, ContinuesTrans

(* doSet in a new element, which may be the chunk of the old one. *)
LEMMA Realloc ==
    ASSUME NEW s, Good(s), NEW off \in s.live, NEW v \in Vals,
           NEW new \in Free(s) \cup {0} \cup {off}, NEW w \in Nat,
           NEW u, u = doSetRealloc(s, off, v, new, w, "master")
    PROVE  Continues(s, u)
<1> DEFINE m == eraseIteratorHelper(s, off, "master")
<1>1. /\ off \in Offs /\ s.key[off] \in Keys /\ Struct(s)
      /\ u = insert2(m, s.key[off], v, new, w)
  BY DEF doSetRealloc, Good, Struct, Slices
<1>2. Continues(s, m) /\ m.live = s.live \ {off}
  BY <1>1, EraseContinues
<1> HIDE DEF m
<1>3. new \in (Offs \ m.live) \cup {0}
  BY <1>1, <1>2 DEF Free
<1>4. Continues(m, u)
  BY <1>1, <1>2, <1>3, Insert2Continues DEF Continues, Follows
<1> QED
  BY <1>1, <1>2, <1>4, ContinuesTrans

(* iterGrowValue: the old element is still there when the new one comes. *)
LEMMA Grow ==
    ASSUME NEW s, Good(s), NEW off \in s.live, NEW v \in Vals,
           NEW new \in Free(s) \cup {0}, NEW w \in Nat,
           NEW u, u = iterGrowValue(s, off, v, new, w, "master")
    PROVE  Continues(s, u)
<1>1. /\ off \in Offs /\ s.key[off] \in Keys /\ Struct(s) /\ s.tid \in Nat
  BY DEF Good, Struct, Slices
<1>2. CASE new = 0
  <2>1. u = s
    BY <1>2 DEF iterGrowValue
  <2>2. Follows(s, s)
    BY <1>1 DEF Follows, HistoryKept, Recorded
  <2> QED
    BY <1>1, <2>1, <2>2, SameStill, StillContinues
<1>3. CASE new # 0
  <2> DEFINE m1 == insertCopy2(s, s.key[off], v, new, w)
             m2 == eraseIteratorHelper(m1, off, "master")
  <2>1. new \in Offs /\ new \notin s.live /\ new # off
    BY <1>1, <1>3 DEF Free
  <2>2. u = linkTid(m2, new, 0)
    BY <1>3 DEF iterGrowValue
  <2>3. m1 = insertCopy2(s, s.key[off], v, new, w)
    OBVIOUS
  <2> HIDE DEF m1
  <2>4. Continues(s, m1) /\ Unref(m1, new) /\ m1.live = s.live \cup {new}
    <3>1. PICK kk \in Keys : kk = s.key[off]
      BY <1>1
    <3>2. m1 = insertCopy2(s, kk, v, new, w)
      BY <2>3, <3>1
    <3>3. Inserts(s, m1, kk, v, new, w)
      BY <2>1, <3>2 DEF Inserts
    <3> QED
      BY <3>3, InsertContinues
  <2>5. Good(m1)
    BY <2>4 DEF Continues, Follows
  <2>6. Continues(m1, m2) /\ m2.live = m1.live \ {off}
    BY <1>1, <2>5, EraseContinues
  <2>7. Unref(m2, new)
    BY <1>1, <2>1, <2>4, <2>5, EraseElem
  <2> HIDE DEF m2
  <2>8. new \in m2.live /\ InSeq(m2, 0) /\ Good(m2)
    BY <2>1, <2>4, <2>6 DEF InSeq, Continues, Follows
  <2>9. Continues(m2, u)
    BY <2>1, <2>2, <2>7, <2>8, LinkContinues
  <2>10. Continues(s, m2)
    BY <1>1, <2>4, <2>6, ContinuesTrans
  <2> QED
    BY <1>1, <2>9, <2>10, ContinuesTrans
<1> QED
  BY <1>2, <1>3

(* tidReplaceTid: the element moves from its entry to a new one. *)
LEMMA ReplaceTid ==
    ASSUME NEW s, Good(s), NEW off \in s.live,
           NEW u, u = tidReplaceTid(s, off, "master")
    PROVE  Continues(s, u)
<1> DEFINE m == unlinkTid(s, s.link[off], "master")
<1>1. /\ off \in Offs /\ u = linkTid(m, off, 0) /\ Struct(s) /\ InSeq(m, 0)
      /\ s.link[off] \in Nat
  BY DEF tidReplaceTid, Good, Struct, Slices, InSeq
<1>2. Follows(s, m) /\ Unref(m, off) /\ SameElems(s, m)
  BY <1>1, UnlinkOff
<1>3. Still(s, m)
  BY <1>1, UnlinkStill
<1> HIDE DEF m
<1>4. Continues(s, m)
  BY <1>1, <1>2, <1>3, StillContinues
<1>5. Continues(m, u)
  BY <1>1, <1>2, LinkContinues DEF Follows, SameElems
<1> QED
  BY <1>1, <1>4, <1>5, ContinuesTrans

(* checkTidTbl adds a block of unused entries. *)
LEMMA CheckContinues ==
    ASSUME NEW s, Good(s), NEW u, u = checkTidTbl(s)
    PROVE  Continues(s, u)
<1> DEFINE n == s.tid + 1
<1>1. Struct(s) /\ s.tid \in Nat /\ n \in Nat /\ Len(s.blks) \in Nat /\ Follows(s, u)
  BY CheckTbl DEF Good, Struct, Slices
<1>2. CASE ~(NeedsBlk(s, n) /\ Len(s.blks) < MaxBlks)
  <2>1. u = s
    BY <1>2 DEF checkTidTbl
  <2> QED
    BY <1>1, <2>1, SameStill, StillContinues
<1>3. CASE NeedsBlk(s, n) /\ Len(s.blks) < MaxBlks
  <2>1. u = growTidTbl(s, n - Slot(n)) /\ n <= s.tid + 1
    BY <1>1, <1>3 DEF checkTidTbl
  <2> HIDE DEF n
  <2>2. /\ SameElems(s, u) /\ SameBases(s, u) /\ u.tid = s.tid
        /\ Len(u.blks) = Len(s.blks) + 1
        /\ \A b \in 1 .. Len(s.blks) : u.blks[b] = s.blks[b]
        /\ \A i \in 0 .. BlkSz - 1 : EntryAt(u, Len(u.blks), i) = NoVal
    BY <1>1, <2>1, GrowFacts
  <2>3. ASSUME NoneAhead(s), NEW b \in 1 .. Len(u.blks), NEW i \in 0 .. BlkSz - 1,
               EntryAt(u, b, i) # NoVal
        PROVE  EntryTid(u, b, i) <= u.tid
    <3>1. b \in 1 .. Len(s.blks)
      BY <1>1, <2>2, <2>3
    <3> QED
      BY <2>2, <2>3, <3>1 DEF NoneAhead, EntryAt, EntryTid
  <2>4. Still(s, u)
    BY <2>2, <2>3 DEF Still, SameElems, KeepsBehind, NoneAhead
  <2> QED
    BY <1>1, <2>4, StillContinues
<1> QED
  BY <1>2, <1>3

(* A round of trimsize: the table grows first if the next tid needs a block. *)
LEMMA Trim ==
    ASSUME NEW s, Good(s), NEW off \in Offs,
           NEW u, u = eraseIteratorHelper(checkTidTbl(s), off, "master")
    PROVE  Continues(s, u)
<1> DEFINE m == checkTidTbl(s)
<1>1. Continues(s, m) /\ Struct(s)
  BY CheckContinues DEF Good
<1>2. u = eraseIteratorHelper(m, off, "master") /\ Good(m)
  BY <1>1 DEF Continues, Follows
<1> HIDE DEF m
<1>3. Continues(m, u)
  BY <1>2, EraseContinues
<1> QED
  BY <1>1, <1>3, ContinuesTrans

(* clear: an empty table, and the flush as its first entry. *)
LEMMA ClearSlice ==
    ASSUME NEW s, Good(s), NEW u, u = clear(s, "master")
    PROVE  Continues(s, u)
<1> DEFINE m == [[s EXCEPT !.live = {}] EXCEPT !.blks = << >>, !.preClear = s.tid]
<1>1. s \in Slices /\ s.tid \in Nat
  BY DEF Good, Struct, Slices
<1>2. u = setTidTblEnt(m, TIDDEL_FLUSHALL, 0)
  BY <1>1 DEF clear, clrTidTbl, isTidMaster, Slices
<1>3. m \in Slices /\ m.blks = << >> /\ m.tid = s.tid
  <2>1. << >> \in Seq(Blocks)
    OBVIOUS
  <2>2. m.blks = << >> /\ m.tid = s.tid
    BY <1>1 DEF Slices
  <2>3. m \in Slices
    BY <1>1, <2>1 DEF Slices
  <2> QED
    BY <2>2, <2>3
<1> HIDE DEF m
<1>4. Struct(m) /\ Len(m.blks) = 0
  BY <1>3 DEF Struct, BasesWhole, LastBase
<1>5. TIDDEL_FLUSHALL \in TidVals /\ ~isTidValIterOff(TIDDEL_FLUSHALL)
  BY DEF TIDDEL_FLUSHALL, TidVals, isTidValIterOff
<1>6. Appends(m, u, TIDDEL_FLUSHALL) /\ u.tid = m.tid + 1
  BY <1>2, <1>4, <1>5, SetFacts
<1>7. Struct(u) /\ u.tid \in Nat
  BY <1>6 DEF Appends, Struct, Slices
<1>8. ASSUME NEW b \in 1 .. Len(u.blks), NEW i \in 0 .. BlkSz - 1
      PROVE  \/ EntryAt(u, b, i) = NoVal
             \/ EntryAt(u, b, i) = TIDDEL_FLUSHALL /\ EntryTid(u, b, i) = s.tid + 1
  <2>1. ~Kept(m, u, b, i)
    BY <1>4, <1>7 DEF Kept, Struct, Slices
  <2> QED
    BY <1>3, <1>6, <2>1 DEF Appends, Added
<1>9. HistoryKept(s, u)
  BY <1>1, <1>8 DEF HistoryKept
<1>10. EntriesOk(u)
  <2>1. ~isTidValIterOff(NoVal)
    BY DEF isTidValIterOff, NoVal
  <2> QED
    BY <1>5, <1>8, <2>1 DEF EntriesOk, RefersTo
<1>11. u.tid >= s.tid
  BY <1>1, <1>3, <1>6
<1>12. NoneAhead(u)
  <2>1. u.tid = s.tid + 1
    BY <1>3, <1>6
  <2> QED
    BY <1>1, <1>8, <2>1 DEF NoneAhead
<1>13. Carries(s, u)
  <2>1. ~(s.tid + 1 <= s.tid)
    BY <1>1
  <2> QED
    BY <1>8, <2>1 DEF Carries
<1> QED
  BY <1>7, <1>9, <1>10, <1>11, <1>12, <1>13 DEF Continues, KeepsBehind, Follows, Good

(* clear in the process of a slave: the table is empty afterwards. *)
LEMMA ClearSlave ==
    ASSUME NEW s, Good(s), NEW role, role # "master", NEW u, u = clear(s, role)
    PROVE  Continues(s, u) /\ u.tid = s.tid
<1>1. s \in Slices /\ s.tid \in Nat
  BY DEF Good, Struct, Slices
<1>2. u = [[s EXCEPT !.live = {}] EXCEPT !.blks = << >>, !.preClear = s.tid]
  BY <1>1 DEF clear, clrTidTbl, isTidMaster, Slices
<1>3. << >> \in Seq(Blocks)
  OBVIOUS
<1>4. u \in Slices /\ u.blks = << >> /\ u.tid = s.tid
  BY <1>1, <1>2, <1>3 DEF Slices
<1>5. Good(u) /\ HistoryKept(s, u)
  BY <1>4 DEF Good, Struct, BasesWhole, LastBase, EntriesOk, HistoryKept
<1>6. Carries(s, u) /\ NoneAhead(u)
  BY <1>4 DEF Carries, NoneAhead
<1> QED
  BY <1>1, <1>4, <1>5, <1>6 DEF Continues, KeepsBehind, Follows

(* A deletion or flush recorded under a tid that is in sequence. *)
LEMMA SetDel ==
    ASSUME NEW s, Good(s), NEW v \in TidVals, ~isTidValIterOff(v),
           NEW t \in Nat, InSeq(s, t), NEW u, u = setTidTblEnt(s, v, t)
    PROVE  Follows(s, u) /\ SameElems(s, u)
<1>1. Struct(s) /\ s \in Slices /\ s.tid \in Nat /\ Len(s.blks) \in Nat
  BY DEF Good, Struct, Slices
<1>2. Appends(s, u, v) /\ SameElems(s, u) /\ u.tid = NewTid(s, t)
  BY <1>1, SetAt
<1>3. u.tid >= s.tid
  BY <1>1, <1>2 DEF NewTid, InSeq
<1>4. HistoryKept(s, u) /\ Struct(u) /\ SameBases(s, u)
  BY <1>1, <1>2, AppendsHistory DEF Appends
<1>5. ASSUME Aligned(u), NEW b \in 1 .. Len(u.blks), NEW i \in 0 .. BlkSz - 1,
             NEW o \in Nat \ {0}, RefersTo(u, b, i, o)
      PROVE  EntryOk(u, b, i, o)
  <2>1. Aligned(s)
    BY <1>1, <1>2, <1>4, <1>5, AlignedBack DEF SameElems
  <2>2. Kept(s, u, b, i)
    BY <1>2, <1>5 DEF Appends, Added, RefersTo, isTidValIterOff, NoVal
  <2>3. b \in 1 .. Len(s.blks) /\ RefersTo(s, b, i, o)
    BY <1>1, <1>5, <2>2 DEF Kept, RefersTo
  <2>4. EntryOk(s, b, i, o)
    BY <2>1, <2>3 DEF Good, EntriesOk
  <2> QED
    BY <1>2, <1>4, <2>3, <2>4 DEF EntryOk, EntryTid, SameElems, SameBases
<1> QED
  BY <1>2, <1>3, <1>4, <1>5 DEF Follows, Good, EntriesOk

(* Recording a deletion or a flush continues the slice. *)
LEMMA SetDelContinues ==
    ASSUME NEW s, Good(s), NEW v \in TidVals, ~isTidValIterOff(v),
           NEW t \in Nat, InSeq(s, t), NEW u, u = setTidTblEnt(s, v, t)
    PROVE  Continues(s, u)
<1>1. Follows(s, u) /\ Struct(s)
  BY SetDel DEF Good
<1>2. Still(s, u)
  BY <1>1, SetStill
<1> QED
  BY <1>1, <1>2, StillContinues

(* A new slice. *)
LEMMA InitGood ==
    ASSUME NEW k \in Keys, NEW v \in Vals, NEW s, s = InitSlice(k, v)
    PROVE  Good(s)
<1>1. << >> \in Seq(Blocks)
  OBVIOUS
<1>2. s \in Slices /\ s.blks = << >>
  BY <1>1 DEF InitSlice, Slices
<1> QED
  BY <1>2 DEF Good, Struct, BasesWhole, LastBase, EntriesOk

-----------------------------------------------------------------------------
(* From the elements to the table: as long as the block index is aligned and the
   pool has blocks, every element has an entry. *)

(* Some entry refers to the element. *)
HasRef(s, o) ==
    \E b \in 1 .. Len(s.blks) : \E i \in 0 .. BlkSz - 1 : RefersTo(s, b, i, o)

RefsBut(s, X) == Aligned(s) => \A o \in s.live \ X : HasRef(s, o)

(* All elements but those in X have an entry; n bounds the last tid. *)
Tracks(s, X, n) == Good(s) /\ NoneAhead(s) /\ RefsBut(s, X) /\ s.tid <= n

-----------------------------------------------------------------------------
(* setTidTblEnt writes a slot that was unused. *)
LEMMA SetKeepsRefs ==
    ASSUME NEW s, Struct(s), NoneAhead(s), NEW v \in TidVals,
           NEW u, u = setTidTblEnt(s, v, 0)
    PROVE  /\ NoneAhead(u)
           /\ \A o : HasRef(s, o) => HasRef(u, o)
<1>1. /\ Appends(s, u, v) /\ u.tid = s.tid + 1 /\ StoresOnly(s, u, v)
  BY SetFacts
<1>2. /\ Len(s.blks) \in Nat /\ Len(u.blks) \in Nat /\ s.tid \in Nat
      /\ SameBases(s, u) /\ s \in Slices
  BY <1>1 DEF Appends, Struct, Slices
<1>3. NoneAhead(u)
  <2> SUFFICES ASSUME NEW b \in 1 .. Len(u.blks), NEW i \in 0 .. BlkSz - 1,
                      EntryAt(u, b, i) # NoVal
               PROVE  EntryTid(u, b, i) <= u.tid
    BY DEF NoneAhead
  <2>1. CASE Kept(s, u, b, i)
    <3>1. b \in 1 .. Len(s.blks) /\ EntryAt(s, b, i) # NoVal
      BY <1>2, <2>1 DEF Kept
    <3>2. EntryTid(s, b, i) <= s.tid /\ EntryTid(u, b, i) = EntryTid(s, b, i)
      BY <1>2, <3>1 DEF NoneAhead, EntryTid, SameBases
    <3>3. EntryTid(s, b, i) \in Int
      <4>1. s.blks[b] \in Blocks
        BY <1>2, <3>1 DEF Slices
      <4> QED
        BY <4>1 DEF EntryTid, Blocks
    <3> QED
      BY <1>1, <1>2, <3>2, <3>3
  <2>2. CASE Added(s, u, v, b, i)
    BY <1>1, <1>2, <2>2 DEF Added
  <2> QED
    BY <1>1, <2>1, <2>2 DEF Appends
<1>4. ASSUME NEW o, HasRef(s, o) PROVE HasRef(u, o)
  <2>1. PICK b \in 1 .. Len(s.blks), i \in 0 .. BlkSz - 1 : RefersTo(s, b, i, o)
    BY <1>4 DEF HasRef
  <2>2. EntryAt(s, b, i) # NoVal
    BY <2>1 DEF RefersTo, isTidValIterOff, NoVal
  <2>3. ~Added(s, u, v, b, i)
    <3>1. EntryTid(s, b, i) <= s.tid /\ EntryTid(u, b, i) = EntryTid(s, b, i)
      BY <1>2, <2>2 DEF NoneAhead, EntryTid, SameBases
    <3>2. EntryTid(s, b, i) # s.tid + 1
      BY <1>2, <3>1
    <3> QED
      BY <1>1, <3>1, <3>2 DEF Added
  <2>4. EntryAt(u, b, i) = EntryAt(s, b, i) /\ b \in 1 .. Len(u.blks)
    BY <1>1, <1>2, <2>3 DEF StoresOnly, SameBases
  <2> QED
    BY <2>1, <2>4 DEF HasRef, RefersTo
<1> QED
  BY <1>3, <1>4

(* unlinkTid of a tracked element clears its own entry and no other's. *)
LEMMA UnlinkTracks ==
    ASSUME NEW s, NEW X, NEW n \in Nat, Tracks(s, X, n), NEW off \in s.live \ X,
           NEW s0, Struct(s0),
           s0.blks = s.blks, s0.tid = s.tid, s0.preClear = s.preClear,
           s0.live = s.live, \A o \in Offs \ {off} : s0.link[o] = s.link[o],
           NEW u, u = unlinkTid(s0, s.link[off], "master")
    PROVE  Tracks(u, X \cup {off}, n + 1)
<1> DEFINE t == s.link[off]
           m == clrTidTblEnt(s0, t)
<1>1. /\ Good(s) /\ Struct(s) /\ off \in Offs /\ t \in Nat /\ s.tid \in Nat /\ s.tid <= n
      /\ s.live \subseteq Offs
  BY DEF Tracks, Good, Struct, Slices
<1>2. u = setTidTblEnt(m, tidDelVal(t), 0)
  BY DEF unlinkTid, isTidMaster
<1>3. /\ Struct(m) /\ SameElems(s0, m) /\ SameBases(s0, m)
      /\ m.tid = s0.tid /\ Len(m.blks) = Len(s0.blks) /\ Cleared(s0, m, t)
  BY <1>1, ClrFacts
<1>4. Follows(s, u) /\ SameElems(s0, u)
  <2>1. PICK oo \in Offs : oo = off
    BY <1>1
  <2>2. /\ \A o \in Offs \ {oo} : s0.link[o] = s.link[o]
        /\ u = unlinkTid(s0, s.link[oo], "master")
    BY <2>1
  <2> QED
    BY <1>1, <2>2, UnlinkOff
<1> HIDE DEF m, t
<1>5. NoneAhead(m)
  <2> SUFFICES ASSUME NEW b \in 1 .. Len(m.blks), NEW i \in 0 .. BlkSz - 1,
                      EntryAt(m, b, i) # NoVal
               PROVE  EntryTid(m, b, i) <= m.tid
    BY DEF NoneAhead
  <2>1. EntryAt(s0, b, i) # NoVal /\ b \in 1 .. Len(s.blks)
    BY <1>3 DEF Cleared
  <2>2. EntryAt(s, b, i) # NoVal /\ EntryTid(m, b, i) = EntryTid(s, b, i)
    BY <1>3, <2>1 DEF EntryAt, EntryTid, SameBases
  <2> QED
    BY <1>3, <2>1, <2>2 DEF Tracks, NoneAhead
<1>6. /\ NoneAhead(u) /\ u.tid = m.tid + 1 /\ Appends(m, u, tidDelVal(t))
      /\ \A o : HasRef(m, o) => HasRef(u, o)
  BY <1>1, <1>2, <1>3, <1>5, DelValNotIter, SetFacts, SetKeepsRefs
<1>7. ASSUME Aligned(u) PROVE Aligned(s)
  <2>1. SameBases(s, u) /\ u.preClear = s.preClear /\ Struct(u)
    <3>1. Len(s.blks) \in Nat /\ Len(m.blks) \in Nat /\ Len(u.blks) \in Nat
      BY <1>1, <1>3, <1>6 DEF Appends, Struct, Slices
    <3> QED
      BY <1>3, <1>4, <1>6, <3>1 DEF SameBases, Appends, SameElems
  <2> QED
    BY <1>1, <1>7, <2>1, AlignedBack
<1>8. ASSUME Aligned(s), NEW o \in s.live \ (X \cup {off})
      PROVE  HasRef(m, o)
  <2>1. HasRef(s, o) /\ HasRef(s, off)
    BY <1>8 DEF Tracks, RefsBut
  <2>2. PICK b \in 1 .. Len(s.blks), i \in 0 .. BlkSz - 1 : RefersTo(s, b, i, o)
    BY <2>1 DEF HasRef
  <2>3. PICK c \in 1 .. Len(s.blks), j \in 0 .. BlkSz - 1 : RefersTo(s, c, j, off)
    BY <2>1 DEF HasRef
  <2>4. off \in Nat \ {0} /\ EntriesOk(s)
    BY <1>1, <1>8 DEF Good
  <2>5. t = EntryTid(s, c, j)
    BY <2>3, <2>4 DEF EntriesOk, EntryOk, t
  <2>6. tid2tblBlk(s, t) = c /\ Slot(t) = j
    BY <1>1, <1>8, <2>5, LookupFinds
  <2>7. tid2tblBlk(s0, t) = tid2tblBlk(s, t)
    BY DEF tid2tblBlk
  <2>8. ~(b = c /\ i = j)
    BY <2>2, <2>3 DEF RefersTo
  <2>9. EntryAt(m, b, i) = EntryAt(s0, b, i) /\ b \in 1 .. Len(m.blks)
    BY <1>3, <2>6, <2>7, <2>8 DEF Cleared
  <2>10. RefersTo(m, b, i, o)
    BY <2>2, <2>9 DEF RefersTo, EntryAt
  <2> QED
    BY <2>9, <2>10 DEF HasRef
<1>9. RefsBut(u, X \cup {off})
  <2>1. u.live = s.live
    BY <1>4 DEF SameElems
  <2> QED
    BY <1>6, <1>7, <1>8, <2>1 DEF RefsBut
<1>10. u.tid <= n + 1
  BY <1>1, <1>3, <1>6
<1> QED
  BY <1>4, <1>6, <1>9, <1>10 DEF Tracks, Follows

(* An aligned table has room for every tid that the blocks can hold. *)
LEMMA RoomIfAligned ==
    ASSUME NEW s, Struct(s), Aligned(s), s.tid + 1 < MaxBlks * BlkSz
    PROVE  HasRoom(s, s.tid + 1)
<1>1. /\ s \in Slices /\ s.blks \in Seq(Blocks) /\ Len(s.blks) \in Nat
      /\ s.tid \in Nat /\ s.preClear \in Nat
  BY DEF Struct, Slices
<1>2. CASE s.blks = << >>
  <2>1. MaxBlks > 0
    <3>1. CASE MaxBlks = 0
      BY <1>1, <3>1
    <3> QED
      BY <3>1
  <2> QED
    BY <1>2, <2>1 DEF HasRoom
<1>3. CASE s.blks # << >>
  <2> SUFFICES ASSUME NeedsBlk(s, s.tid + 1), ~(Len(s.blks) < MaxBlks) PROVE FALSE
    BY DEF HasRoom
  <2>1. Len(s.blks) \in 1 .. Len(s.blks)
    BY <1>1, <1>3, LastBlk
  <2>2. PICK q \in Nat : q = s.preClear \div BlkSz
    BY <1>1, DivSlot
  <2>3. s.blks[Len(s.blks)].base = (q + Len(s.blks) - 1) * BlkSz
    BY <2>1, <2>2 DEF Aligned
  <2>4. s.tid + 1 >= (q + Len(s.blks) - 1) * BlkSz + BlkSz
    BY <1>3, <2>3 DEF NeedsBlk
  <2>5. (q + Len(s.blks) - 1) * BlkSz + BlkSz = (q + Len(s.blks)) * BlkSz
    BY <1>1, <2>1
  <2>6. (q + Len(s.blks)) * BlkSz >= MaxBlks * BlkSz
    BY <1>1
  <2>7. /\ (q + Len(s.blks)) * BlkSz \in Int /\ MaxBlks * BlkSz \in Int
        /\ s.tid + 1 \in Int
    BY <1>1
  <2> QED
    BY <2>4, <2>5, <2>6, <2>7
<1> QED
  BY <1>2, <1>3

(* linkTid gives the one element that has none its entry. *)
LEMMA LinkTracks ==
    ASSUME NEW s, NEW off \in Offs \cup {0}, NEW X, X \subseteq {off},
           NEW n \in Nat, Tracks(s, X, n), n + 1 < MaxBlks * BlkSz,
           off # 0 => off \in s.live /\ Unref(s, off),
           NEW u, u = linkTid(s, off, 0)
    PROVE  Tracks(u, {}, n + 1)
<1> DEFINE v == iterOff2tidVal(off)
           m == setTidTblEnt(s, v, 0)
<1>1. /\ Good(s) /\ Struct(s) /\ s.tid \in Nat /\ s.tid <= n /\ off \in Nat
      /\ s.live \subseteq Offs /\ NoneAhead(s) /\ 0 \notin s.live
  BY DEF Tracks, Good, Struct, Slices
<1>2. v \in TidVals
  BY DEF iterOff2tidVal, TidVals
<1>3. Follows(s, u) /\ u.live = s.live
  BY <1>1, LinkOff
<1>4. /\ Appends(s, m, v) /\ SameElems(s, m) /\ m.tid = s.tid + 1 /\ StoresOnly(s, m, v)
  BY <1>1, <1>2, SetFacts
<1>5. NoneAhead(m) /\ (\A o : HasRef(s, o) => HasRef(m, o))
  BY <1>1, <1>2, SetKeepsRefs
<1>6. u.blks = m.blks /\ u.tid = m.tid /\ u.preClear = m.preClear
  <2>1. m \in Slices
    BY <1>4 DEF Appends, Struct
  <2>2. u = m \/ u = [m EXCEPT !.link[off] = NewTid(s, 0)]
    BY DEF linkTid
  <2> HIDE DEF m
  <2> QED
    BY <2>1, <2>2 DEF Slices
<1> HIDE DEF m
<1>7. NoneAhead(u) /\ (\A o : HasRef(m, o) => HasRef(u, o))
  <2>1. NoneAhead(u)
    BY <1>5, <1>6 DEF NoneAhead, EntryAt, EntryTid
  <2>2. ASSUME NEW o, HasRef(m, o) PROVE HasRef(u, o)
    BY <1>6, <2>2 DEF HasRef, RefersTo, EntryAt
  <2> QED
    BY <2>1, <2>2
<1>8. ASSUME Aligned(u), NEW o \in u.live PROVE HasRef(u, o)
  <2>1. Aligned(s)
    <3>1. SameBases(s, u) /\ u.preClear = s.preClear /\ Struct(u)
      BY <1>3, <1>4, <1>6 DEF SameBases, Appends, SameElems, Follows, Good
    <3> QED
      BY <1>1, <1>8, <3>1, AlignedBack
  <2>2. CASE o = off
    <3>1. s.tid + 1 < MaxBlks * BlkSz
      <4>1. MaxBlks * BlkSz \in Int
        OBVIOUS
      <4> QED
        BY <1>1, <4>1
    <3>2. HasRoom(s, s.tid + 1)
      BY <1>1, <2>1, <3>1, RoomIfAligned
    <3>3. PICK b \in 1 .. Len(m.blks), i \in 0 .. BlkSz - 1 : EntryAt(m, b, i) = v
      BY <1>4, <3>2 DEF StoresOnly
    <3>4. RefersTo(m, b, i, off)
      BY <3>3 DEF RefersTo, iterOff2tidVal, isTidValIterOff
    <3> QED
      BY <1>7, <2>2, <3>4 DEF HasRef
  <2>3. CASE o # off
    BY <1>3, <1>5, <1>7, <1>8, <2>1, <2>3 DEF Tracks, RefsBut
  <2> QED
    BY <2>2, <2>3
<1>9. u.tid <= n + 1
  BY <1>1, <1>4, <1>6
<1> QED
  BY <1>3, <1>7, <1>8, <1>9 DEF Tracks, RefsBut, Follows

-----------------------------------------------------------------------------
(* The operations of the hash. *)

(* A step that leaves the table alone keeps the entries. *)
LEMMA SameTable ==
    ASSUME NEW s, NEW u, NEW X, NEW Y, NEW n, Tracks(s, X, n), Good(u),
           u.blks = s.blks, u.tid = s.tid, u.preClear = s.preClear,
           u.live \ Y \subseteq s.live \ X
    PROVE  Tracks(u, Y, n)
<1>1. NoneAhead(u)
  BY DEF Tracks, NoneAhead, EntryAt, EntryTid
<1>2. Aligned(u) = Aligned(s)
  BY DEF Aligned
<1>3. ASSUME NEW o, HasRef(s, o) PROVE HasRef(u, o)
  BY <1>3 DEF HasRef, RefersTo, EntryAt
<1> QED
  BY <1>1, <1>2, <1>3 DEF Tracks, RefsBut

(* eraseIterCb takes the entry of the element away. *)
LEMMA EraseCbTracks ==
    ASSUME NEW s, NEW X, NEW n \in Nat, Tracks(s, X, n), NEW off \in s.live \ X,
           NEW u, u = eraseIterCb(s, off, "master")
    PROVE  Tracks(u, X \cup {off}, n + 1)
<1>1. s \in Slices /\ Struct(s) /\ s.tid \in Nat /\ off \in Offs /\ Good(s) /\ s.tid <= n
  BY DEF Tracks, Good, Struct, Slices
<1>2. CASE s.link[off] = 0
  <2>1. u = s
    BY <1>2 DEF eraseIterCb
  <2>2. s.tid <= n + 1
    BY <1>1
  <2> QED
    BY <2>1, <2>2 DEF Tracks, RefsBut
<1>3. CASE s.link[off] # 0
  <2> DEFINE s0 == [s EXCEPT !.link[off] = 0]
  <2>1. u = unlinkTid(s0, s.link[off], "master")
    BY <1>3 DEF eraseIterCb
  <2>2. /\ s0.blks = s.blks /\ s0.tid = s.tid /\ s0.preClear = s.preClear
        /\ s0.live = s.live /\ s0 \in Slices
        /\ \A o \in Offs \ {off} : s0.link[o] = s.link[o]
    BY <1>1 DEF Slices
  <2> HIDE DEF s0
  <2>3. Struct(s0)
    BY <1>1, <2>2 DEF Struct, BasesWhole, LastBase
  <2> QED
    BY <2>1, <2>2, <2>3, UnlinkTracks
<1> QED
  BY <1>2, <1>3

(* eraseIteratorHelper takes the element away as well. *)
LEMMA EraseTracks ==
    ASSUME NEW s, NEW X, NEW n \in Nat, Tracks(s, X, n), NEW off \in s.live \ X,
           NEW u, u = eraseIteratorHelper(s, off, "master")
    PROVE  Tracks(u, X, n + 1)
<1> DEFINE m == eraseIterCb(s, off, "master")
<1>1. off \in Offs /\ Good(s)
  BY DEF Tracks, Good, Struct, Slices
<1>2. u = [m EXCEPT !.live = m.live \ {off}]
  BY DEF eraseIteratorHelper
<1>3. Tracks(m, X \cup {off}, n + 1)
  BY EraseCbTracks
<1>4. Good(u)
  BY <1>1, EraseElem DEF Follows
<1> HIDE DEF m
<1>5. /\ u.blks = m.blks /\ u.tid = m.tid /\ u.preClear = m.preClear
      /\ u.live = m.live \ {off}
  BY <1>2, <1>3 DEF Tracks, Good, Struct, Slices
<1>6. u.live \ X \subseteq m.live \ (X \cup {off})
  BY <1>5
<1> QED
  BY <1>3, <1>4, <1>5, <1>6, SameTable

(* insertCopy2 adds an element that has no entry yet. *)
LEMMA InsertTracks ==
    ASSUME NEW s, NEW n \in Nat, Tracks(s, {}, n),
           NEW u, NEW k, NEW v, NEW off, NEW w, Inserts(s, u, k, v, off, w)
    PROVE  Tracks(u, {off}, n)
<1>0. /\ off \in Offs /\ k \in Keys /\ v \in Vals /\ w \in Nat
      /\ u = insertCopy2(s, k, v, off, w)
  BY DEF Inserts
<1>1. Good(s) /\ s \in Slices
  BY DEF Tracks, Good, Struct
<1>2. Good(u) /\ u.live = s.live \cup {off}
  BY InsertElem DEF Follows
<1>3. u.blks = s.blks /\ u.tid = s.tid /\ u.preClear = s.preClear
  <2>1. u = [s EXCEPT !.live = s.live \cup {off}, !.key[off] = k, !.val[off] = v,
                      !.link[off] = w]
    BY <1>0 DEF insertCopy2
  <2> QED
    BY <1>1, <2>1 DEF Slices
<1>4. u.live \ {off} \subseteq s.live \ {}
  BY <1>2
<1> QED
  BY <1>2, <1>3, <1>4, SameTable

(* insert2, with or without an element. *)
LEMMA Insert2Tracks ==
    ASSUME NEW s, NEW n \in Nat, Tracks(s, {}, n), n + 1 < MaxBlks * BlkSz,
           NEW k \in Keys, NEW v \in Vals, NEW w \in Nat,
           NEW off \in (Offs \ s.live) \cup {0},
           NEW u, u = insert2(s, k, v, off, w)
    PROVE  Tracks(u, {}, n + 1)
<1> DEFINE m == insertCopy2(s, k, v, off, w)
<1>1. u = linkTid(m, off, 0) /\ Good(s)
  BY DEF insert2, Tracks
<1>2. CASE off = 0
  <2>1. m = s
    BY <1>2 DEF insertCopy2
  <2> QED
    BY <1>1, <1>2, <2>1, LinkTracks
<1>3. CASE off # 0
  <2>1. off \in Offs /\ off \notin s.live
    BY <1>3
  <2>a. Inserts(s, m, k, v, off, w)
    BY <1>1, <2>1 DEF Inserts
  <2>2. Unref(m, off) /\ m.live = s.live \cup {off}
    BY <2>a, InsertElem
  <2>3. Tracks(m, {off}, n)
    BY <2>a, InsertTracks
  <2> HIDE DEF m
  <2>4. off \in m.live
    BY <2>2
  <2> QED
    BY <1>1, <2>1, <2>2, <2>3, <2>4, LinkTracks
<1> QED
  BY <1>2, <1>3

(* checkTidTbl appends at most an unused block. *)
LEMMA CheckTracks ==
    ASSUME NEW s, NEW n \in Nat, Tracks(s, {}, n), NEW u, u = checkTidTbl(s)
    PROVE  Tracks(u, {}, n)
<1> DEFINE t == s.tid + 1
<1>1. Good(s) /\ Struct(s) /\ s \in Slices /\ s.tid \in Nat /\ t \in Nat
  BY SMTT(30) DEF Tracks, Good, Struct, Slices
<1>2. CASE ~(NeedsBlk(s, t) /\ Len(s.blks) < MaxBlks)
  BY <1>2 DEF checkTidTbl
<1>3. CASE NeedsBlk(s, t) /\ Len(s.blks) < MaxBlks
  <2>1. u = growTidTbl(s, t - Slot(t)) /\ t <= s.tid + 1
    BY <1>1, <1>3 DEF checkTidTbl
  <2>2. Good(u)
    BY <1>1, CheckTbl DEF Follows
  <2> HIDE DEF t
  <2>3. /\ Struct(u) /\ SameElems(s, u) /\ SameBases(s, u)
        /\ u.tid = s.tid
        /\ Len(u.blks) = Len(s.blks) + 1
        /\ \A b \in 1 .. Len(s.blks) : u.blks[b] = s.blks[b]
        /\ \A i \in 0 .. BlkSz - 1 : EntryAt(u, Len(u.blks), i) = NoVal
    BY <1>1, <2>1, GrowFacts
  <2>4. Len(s.blks) \in Nat
    BY <1>1 DEF Slices
  <2>5. NoneAhead(u)
    <3> SUFFICES ASSUME NEW b \in 1 .. Len(u.blks), NEW i \in 0 .. BlkSz - 1,
                        EntryAt(u, b, i) # NoVal
                 PROVE  EntryTid(u, b, i) <= u.tid
      BY DEF NoneAhead
    <3>1. b \in 1 .. Len(s.blks)
      BY <2>3, <2>4
    <3>2. EntryAt(s, b, i) # NoVal /\ EntryTid(u, b, i) = EntryTid(s, b, i)
      BY <2>3, <3>1 DEF EntryAt, EntryTid
    <3> QED
      BY <2>3, <3>1, <3>2 DEF Tracks, NoneAhead
  <2>6. ASSUME NEW o, HasRef(s, o) PROVE HasRef(u, o)
    <3>1. PICK b \in 1 .. Len(s.blks), i \in 0 .. BlkSz - 1 : RefersTo(s, b, i, o)
      BY <2>6 DEF HasRef
    <3>2. b \in 1 .. Len(u.blks) /\ RefersTo(u, b, i, o)
      BY <2>3, <2>4, <3>1 DEF RefersTo, EntryAt
    <3> QED
      BY <3>2 DEF HasRef
  <2>7. Aligned(u) => Aligned(s)
    BY <1>1, <2>3, AlignedBack DEF SameElems
  <2> QED
    BY <2>2, <2>3, <2>5, <2>6, <2>7 DEF Tracks, RefsBut, SameElems
<1> QED
  BY <1>2, <1>3

(* clear leaves no element to be tracked. *)
LEMMA ClearTracks ==
    ASSUME NEW s, NEW n \in Nat, Tracks(s, {}, n), NEW u, u = clear(s, "master")
    PROVE  Tracks(u, {}, n + 1)
<1> DEFINE m == [[s EXCEPT !.live = {}] EXCEPT !.blks = << >>, !.preClear = s.tid]
<1>1. s \in Slices /\ s.tid \in Nat /\ Good(s) /\ s.tid <= n
  BY DEF Tracks, Good, Struct, Slices
<1>2. u = setTidTblEnt(m, TIDDEL_FLUSHALL, 0)
  BY <1>1 DEF clear, clrTidTbl, isTidMaster, Slices
<1>3. /\ m.blks = << >> /\ m.tid = s.tid /\ m.live = {}
  BY <1>1 DEF Slices
<1>4. m \in Slices
  <2>1. << >> \in Seq(Blocks)
    OBVIOUS
  <2> QED
    BY <1>1, <2>1 DEF Slices
<1> HIDE DEF m
<1>5. Struct(m) /\ NoneAhead(m)
  BY <1>3, <1>4 DEF Struct, BasesWhole, LastBase, NoneAhead
<1>6. TIDDEL_FLUSHALL \in TidVals
  BY DEF TIDDEL_FLUSHALL, TidVals
<1>7. NoneAhead(u) /\ u.tid = m.tid + 1 /\ SameElems(m, u)
  BY <1>2, <1>5, <1>6, SetFacts, SetKeepsRefs
<1>8. u.live = {} /\ u.tid <= n + 1
  BY <1>1, <1>3, <1>7 DEF SameElems
<1>9. Good(u)
  BY <1>1, ClearSlice DEF Continues, Follows
<1> QED
  BY <1>7, <1>8, <1>9 DEF Tracks, RefsBut
=============================================================================
