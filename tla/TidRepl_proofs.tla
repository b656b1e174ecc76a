--------------------------- MODULE TidRepl_proofs ---------------------------
(***************************************************************************)
(* Proofs about the replication of a slice, for every block size, pool,    *)
(* batch size and number of workers, and whatever is lost or repeated on   *)
(* the connections.                                                        *)
(***************************************************************************)
EXTENDS TidRepl, LsShmTidMgr_proofs, FiniteSetTheorems, WellFoundedInduction

USE BlkSzAssumption, MaxBlksAssumption, OffsAssumption, LinkWordsAssumption

-----------------------------------------------------------------------------
(* Induction.  The loops of tidGetNxtItems and tidSetItems are recursive
   functions on the number of turns. *)

(* A set of numbers that is not empty has a least element. *)
LEMMA Least ==
    ASSUME NEW T, T \subseteq Nat, T # {}
    PROVE  \E x \in T : \A y \in T : ~(y < x)
<1> DEFINE Lt == {ss \in Nat \X Nat : ss[1] < ss[2]}
<1>1. IsWellFoundedOn(Lt, Nat)
  BY NatLessThanWellFounded DEF OpToRel
<1>2. \E x \in T : \A y \in T : ~(<< y, x >> \in Lt)
  <2> HIDE DEF Lt
  <2> QED
    BY <1>1, WFMin
<1>3. \A x, y \in Nat : << y, x >> \in Lt <=> y < x
  OBVIOUS
<1> QED
  BY <1>2, <1>3

(* A set with 0 and with the successor of each of its members has all numbers
   up to any bound. *)
LEMMA UpTo ==
    ASSUME NEW N \in Nat, NEW S, 0 \in S, \A n \in 0 .. N - 1 : n \in S => n + 1 \in S
    PROVE  0 .. N \subseteq S
<1> SUFFICES ASSUME (0 .. N) \ S # {} PROVE FALSE
  OBVIOUS
<1> DEFINE T == (0 .. N) \ S
<1>1. PICK x \in T : \A y \in T : ~(y < x)
  <2>1. T \subseteq Nat /\ T # {}
    OBVIOUS
  <2> HIDE DEF T
  <2> QED
    BY <2>1, Least
<1>2. x # 0 /\ x - 1 \in 0 .. N - 1
  BY <1>1
<1>3. x - 1 \in S
  BY <1>1, <1>2
<1> QED
  BY <1>1, <1>2, <1>3

-----------------------------------------------------------------------------
(* The receiving side. *)

SetTurn(turn, n, s, pkts, how, role) ==
    IF n = 0 THEN [ok |-> TRUE, s |-> s]
    ELSE SetPacket(turn[n - 1], pkts, n, how, role)

(* The loop of tidSetItems is defined: there is a sequence of turns. *)
LEMMA SetTurns ==
    ASSUME NEW s, NEW pkts \in Seq(Packets), NEW how, NEW role,
           NEW u, u = tidSetItems(s, pkts, how, role)
    PROVE  \E turn : /\ turn[0] = [ok |-> TRUE, s |-> s]
                     /\ \A n \in 1 .. Len(pkts) :
                          turn[n] = SetPacket(turn[n - 1], pkts, n, how, role)
                     /\ u = turn[Len(pkts)].s
<1> DEFINE Runs(N, g) == g = [n \in 0 .. N |-> SetTurn(g, n, s, pkts, how, role)]
           S == {N \in Nat : \E g : Runs(N, g)}
<1>1. Len(pkts) \in Nat
  OBVIOUS
<1>2. 0 \in S
  <2> DEFINE g == [n \in 0 .. 0 |-> [ok |-> TRUE, s |-> s]]
  <2>1. Runs(0, g)
    BY DEF SetTurn
  <2> QED
    BY <2>1
<1>3. ASSUME NEW N \in 0 .. Len(pkts) - 1, N \in S PROVE N + 1 \in S
  <2>1. PICK g : Runs(N, g)
    BY <1>3
  <2> DEFINE x == SetPacket(g[N], pkts, N + 1, how, role)
             h == [n \in 0 .. N + 1 |-> IF n = N + 1 THEN x ELSE g[n]]
  <2>2. N \in Nat /\ N + 1 \in Nat
    OBVIOUS
  <2>3. \A n \in 0 .. N + 1 : h[n] = SetTurn(h, n, s, pkts, how, role)
    <3>1. \A n \in 0 .. N : h[n] = g[n]
      BY <2>2
    <3>2. \A n \in 0 .. N : g[n] = SetTurn(g, n, s, pkts, how, role)
      BY <2>1
    <3>3. h[N + 1] = x
      BY <2>2
    <3> HIDE DEF h, x, Runs
    <3>4. ASSUME NEW n \in 0 .. N PROVE h[n] = SetTurn(h, n, s, pkts, how, role)
      <4>1. n # 0 => n - 1 \in 0 .. N
        BY <2>2
      <4> QED
        BY <3>1, <3>2, <4>1 DEF SetTurn
    <3>5. h[N + 1] = SetTurn(h, N + 1, s, pkts, how, role)
      <4>1. h[N] = g[N] /\ N + 1 # 0 /\ (N + 1) - 1 = N
        BY <2>2, <3>1
      <4> QED
        BY <3>3, <4>1 DEF SetTurn, x
    <3>6. \A n \in 0 .. N + 1 : n \in 0 .. N \/ n = N + 1
      BY <2>2
    <3> QED
      BY <3>4, <3>5, <3>6
  <2>4. h = [n \in 0 .. N + 1 |-> SetTurn(h, n, s, pkts, how, role)]
    <3>1. h = [n \in 0 .. N + 1 |-> h[n]]
      OBVIOUS
    <3> HIDE DEF h
    <3> QED
      BY <2>3, <3>1
  <2> HIDE DEF h
  <2> QED
    BY <2>2, <2>4
<1>4. \E g : Runs(Len(pkts), g)
  <2> HIDE DEF S
  <2>1. 0 .. Len(pkts) \subseteq S
    BY <1>1, <1>2, <1>3, UpTo
  <2> QED
    BY <1>1, <2>1 DEF S
<1>5. PICK turn : /\ turn = [n \in 0 .. Len(pkts) |-> SetTurn(turn, n, s, pkts, how, role)]
                  /\ u = turn[Len(pkts)].s
  <2> DEFINE t == CHOOSE g : Runs(Len(pkts), g)
  <2>1. Runs(Len(pkts), t)
    BY <1>4
  <2>2. u = t[Len(pkts)].s
    BY DEF tidSetItems, SetTurn
  <2> QED
    BY <2>1, <2>2
<1>6. \A n \in 0 .. Len(pkts) : turn[n] = SetTurn(turn, n, s, pkts, how, role)
  BY <1>5
<1>7. turn[0] = [ok |-> TRUE, s |-> s]
  <2>1. turn[0] = SetTurn(turn, 0, s, pkts, how, role)
    BY <1>1, <1>6
  <2> QED
    BY <2>1 DEF SetTurn
<1>8. ASSUME NEW n \in 1 .. Len(pkts)
      PROVE  turn[n] = SetPacket(turn[n - 1], pkts, n, how, role)
  BY <1>1, <1>6 DEF SetTurn
<1> QED
  BY <1>5, <1>7, <1>8

(* A call that is refused, or that has nothing to do, changes nothing. *)
LEMMA SelfContinues ==
    ASSUME NEW s, Good(s)
    PROVE  Continues(s, s)
<1>1. Struct(s) /\ s.tid \in Nat
  BY DEF Good, Struct, Slices
<1>2. Follows(s, s)
  BY <1>1 DEF Follows, HistoryKept, Recorded
<1> QED
  BY <1>1, <1>2, SameStill, StillContinues

(* linkTid for a packet, whose tid the slice may have passed. *)
LEMMA LinkAny ==
    ASSUME NEW s, Good(s), NEW off \in s.live, Unref(s, off), NEW t \in Nat,
           NEW u, u = linkTid(s, off, t)
    PROVE  Continues(s, u)
<1>1. off \in Offs
  BY DEF Good, Struct, Slices
<1>2. CASE InSeq(s, t)
  BY <1>1, <1>2, LinkContinues
<1>3. CASE ~InSeq(s, t)
  <2>1. setTidTblEnt(s, iterOff2tidVal(off), t) = s /\ ~setTidTblEntOk(s, t)
    BY <1>3 DEF setTidTblEnt, setTidTblEntOk
  <2>2. u = s
    BY <2>1 DEF linkTid
  <2> QED
    BY <2>2, SelfContinues
<1> QED
  BY <1>2, <1>3

(* What linkTid adds to a table with nothing beyond the last tid. *)
AddsOnly(s, u, t, v) ==
    \A b \in 1 .. Len(u.blks) : \A i \in 0 .. BlkSz - 1 :
        EntryAt(u, b, i) # NoVal /\ EntryTid(u, b, i) > s.tid
        => EntryTid(u, b, i) = t /\ EntryAt(u, b, i) = v

(* Recording a value for a tid that is ahead adds that entry and no other. *)
LEMMA SetAdds ==
    ASSUME NEW s, Struct(s), NoneAhead(s), NEW v \in TidVals,
           NEW t \in Nat, t > s.tid, NEW u, u = setTidTblEnt(s, v, t)
    PROVE  AddsOnly(s, u, t, v) /\ u.tid = t
<1>1. s.tid \in Nat /\ InSeq(s, t) /\ NewTid(s, t) = t /\ Len(s.blks) \in Nat
  BY DEF Struct, Slices, InSeq, NewTid
<1>2. Appends(s, u, v) /\ u.tid = t
  BY <1>1, SetAt
<1>3. ASSUME NEW b \in 1 .. Len(u.blks), NEW i \in 0 .. BlkSz - 1,
             EntryAt(u, b, i) # NoVal, EntryTid(u, b, i) > s.tid
      PROVE  EntryTid(u, b, i) = t /\ EntryAt(u, b, i) = v
  <2>1. ~Kept(s, u, b, i)
    <3> SUFFICES ASSUME Kept(s, u, b, i) PROVE FALSE
      OBVIOUS
    <3>1. b \in 1 .. Len(s.blks) /\ EntryAt(s, b, i) # NoVal
      BY <1>1, <1>3 DEF Kept
    <3>2. EntryTid(u, b, i) = EntryTid(s, b, i) /\ EntryTid(s, b, i) \in Nat
      BY <1>2, <3>1, EntryType DEF Appends, SameBases, EntryTid, Struct
    <3>3. EntryTid(s, b, i) <= s.tid
      BY <3>1 DEF NoneAhead
    <3> QED
      BY <1>1, <1>3, <3>2, <3>3
  <2> QED
    BY <1>2, <1>3, <2>1 DEF Appends, Added
<1> QED
  BY <1>2, <1>3 DEF AddsOnly

(* So does linking an element. *)
LEMMA LinkAdds ==
    ASSUME NEW s, Struct(s), NoneAhead(s), NEW off \in Offs,
           NEW t \in Nat, t > s.tid, NEW u, u = linkTid(s, off, t)
    PROVE  AddsOnly(s, u, t, iterOff2tidVal(off)) /\ u.tid = t
<1> DEFINE v == iterOff2tidVal(off)
           m == setTidTblEnt(s, v, t)
<1>1. v \in TidVals
  BY DEF iterOff2tidVal, TidVals
<1>2. InSeq(s, t)
  BY DEF InSeq
<1>3. u = IF setTidTblEntOk(s, t) /\ off \in Offs
          THEN [m EXCEPT !.link[off] = NewTid(s, t)] ELSE m
  BY DEF linkTid
<1> HIDE DEF v
<1>4. AddsOnly(s, m, t, v) /\ m.tid = t /\ Struct(m)
  BY <1>1, <1>2, SetAdds, SetStill
<1> HIDE DEF m
<1>5. u.blks = m.blks /\ u.tid = m.tid
  BY <1>3, <1>4 DEF Struct, Slices
<1> QED
  BY <1>4, <1>5 DEF AddsOnly, EntryAt, EntryTid, v

(* What a packet says, and that a slice has taken that, or nothing, from it. *)
Meaning(p) ==
    IF p.kind = "add" THEN << "iter", p.key, p.val >>
    ELSE IF p.kind = "flush" THEN << "flush", 0 >> ELSE << "del", p.old >>

SaysAt(u, b, i, p) ==
    EntryTid(u, b, i) = p.tid /\ Transaction(u, b, i) = Meaning(p)

Takes(s, u, p) ==
    /\ u.tid \in {s.tid, p.tid}
    /\ \A b \in 1 .. Len(u.blks) : \A i \in 0 .. BlkSz - 1 :
          EntryAt(u, b, i) # NoVal /\ EntryTid(u, b, i) > s.tid => SaysAt(u, b, i, p)

(* A packet that leaves the last tid alone adds nothing. *)
LEMMA TakesNone ==
    ASSUME NEW s, NEW u, NEW p, Struct(s), Struct(u), u.tid = s.tid, NoneAhead(u)
    PROVE  Takes(s, u, p)
<1>1. s.tid \in Nat
  BY DEF Struct, Slices
<1>2. ASSUME NEW b \in 1 .. Len(u.blks), NEW i \in 0 .. BlkSz - 1,
             EntryAt(u, b, i) # NoVal
      PROVE  ~(EntryTid(u, b, i) > s.tid)
  <2>1. EntryTid(u, b, i) <= s.tid
    BY <1>2 DEF NoneAhead
  <2>2. EntryTid(u, b, i) \in Nat
    BY EntryType DEF Struct
  <2> QED
    BY <1>1, <2>1, <2>2
<1> QED
  BY <1>2 DEF Takes

(* setIter in a slice of a slave hands out no tid of its own. *)
SlaveTakes(s, u, p, role) == role # "master" /\ NoneAhead(s) => Takes(s, u, p)

(* Linking the element of an add packet records what the packet says. *)
LEMMA LinkTakes ==
    ASSUME NEW s, NEW m, NEW u, NEW off \in Offs, NEW p \in AddPkts, NEW role,
           Struct(m), p.tid > s.tid, role # "master" => m.tid = s.tid,
           NoneAhead(s) => NoneAhead(m), u = linkTid(m, off, p.tid),
           m.key[off] = p.key, m.val[off] = p.val
    PROVE  SlaveTakes(s, u, p, role)
<1> SUFFICES ASSUME role # "master", NoneAhead(s)
             PROVE  Takes(s, u, p)
  BY DEF SlaveTakes
<1> DEFINE v == iterOff2tidVal(off)
<1>1. p.tid \in Nat /\ p.tid > m.tid /\ p.kind = "add" /\ InSeq(m, p.tid)
  BY DEF AddPkts, InSeq
<1>2. AddsOnly(m, u, p.tid, v) /\ u.tid = p.tid
  BY <1>1, LinkAdds
<1>3. u.key = m.key /\ u.val = m.val
  BY <1>1, LinkStill DEF Still
<1>4. isTidValIterOff(v) /\ v.arg = off /\ off # 0
  BY DEF iterOff2tidVal, isTidValIterOff
<1> HIDE DEF v
<1>5. ASSUME NEW b \in 1 .. Len(u.blks), NEW i \in 0 .. BlkSz - 1,
             EntryAt(u, b, i) # NoVal, EntryTid(u, b, i) > s.tid
      PROVE  SaysAt(u, b, i, p)
  <2>1. EntryTid(u, b, i) = p.tid /\ EntryAt(u, b, i) = v
    BY <1>2, <1>5 DEF AddsOnly
  <2>2. Transaction(u, b, i) = << "iter", u.key[off], u.val[off] >>
    BY <1>4, <2>1 DEF Transaction
  <2> QED
    BY <1>1, <1>3, <2>1, <2>2 DEF SaysAt, Meaning
<1> QED
  BY <1>2, <1>5 DEF Takes

(* A packet that stores an item: in place, in a new element, or not at all. *)
LEMMA SetIterContinues ==
    ASSUME NEW s, Good(s), NEW p \in AddPkts, p.tid > s.tid, NEW how, NEW role,
           NEW r, r = setIter(s, p, how, role)
    PROVE  /\ r \in [ok : BOOLEAN, s : {r.s}]
           /\ Continues(s, r.s) /\ SlaveTakes(s, r.s, p, role)
<1> DEFINE old == find2(s, p.key)
           o == CHOOSE x \in old : TRUE
           s1 == IF old = {} THEN s ELSE eraseIteratorHelper(s, o, role)
           new == CHOOSE x \in Free(s1) : TRUE
           m1 == [s EXCEPT !.val[o] = p.val]
           m2 == unlinkTid(m1, s.link[o], role)
           m3 == insertCopy2(s1, p.key, p.val, new, s1.link[new])
<1>1. /\ p.tid \in Nat /\ p.key \in Keys /\ p.val \in Vals
      /\ s \in Slices /\ Struct(s) /\ s.tid \in Nat
  BY DEF AddPkts, Good, Struct, Slices
<1>2. old # {} => o \in s.live /\ o \in Offs /\ s.key[o] = p.key /\ s.link[o] \in Nat
  BY <1>1 DEF find2, Slices
<1>3. CASE old # {} /\ how = "inplace"
  <2>1. r = [ok |-> TRUE, s |-> linkTid(m2, o, p.tid)]
    BY <1>3 DEF setIter
  <2> HIDE DEF o, old
  <2>2. o \in s.live /\ o \in Offs /\ s.key[o] = p.key /\ s.link[o] \in Nat
    BY <1>2, <1>3
  <2>3. Good(m1) /\ Struct(m1) /\ m1.live = s.live /\ m1.tid = s.tid
    <3>1. Follows(s, m1) /\ m1.live = s.live
      BY <1>1, <2>2, SetVal
    <3>2. m1.tid = s.tid
      BY <1>1 DEF Slices
    <3> HIDE DEF m1
    <3> QED
      BY <3>1, <3>2 DEF Follows, Good
  <2>4. m1.link = s.link /\ m1 = [s EXCEPT !.val[o] = p.val]
    BY <1>1 DEF Slices
  <2> HIDE DEF m1
  <2>5. Follows(m1, m2) /\ Unref(m2, o) /\ SameElems(m1, m2)
    <3>1. m2 = unlinkTid(m1, m1.link[o], role)
      BY <2>4
    <3> HIDE DEF m2
    <3> QED
      BY <2>2, <2>3, <3>1, UnlinkOff
  <2>6. Still(m1, m2) /\ Struct(m2) /\ (role # "master" => m2.tid = m1.tid)
    BY <2>2, <2>3, UnlinkStill
  <2> HIDE DEF m2
  <2>7. Continues(s, m2) /\ m2.val[o] = p.val /\ m2.key = s.key
    BY <1>1, <2>2, <2>4, <2>5, <2>6, SetUnlink
  <2> DEFINE u == linkTid(m2, o, p.tid)
  <2>8. Good(m2) /\ o \in m2.live
    BY <2>2, <2>3, <2>5 DEF Follows, SameElems
  <2>9. Continues(m2, u)
    BY <1>1, <2>5, <2>8, LinkAny
  <2>10. SlaveTakes(s, u, p, role)
    <3>1. NoneAhead(s) => NoneAhead(m2)
      BY <2>7 DEF Continues, KeepsBehind
    <3>2. role # "master" => m2.tid = s.tid
      BY <2>3, <2>6
    <3>3. m2.key[o] = p.key
      BY <2>2, <2>7
    <3> QED
      BY <2>2, <2>6, <2>7, <3>1, <3>2, <3>3, LinkTakes
  <2> HIDE DEF u
  <2>11. Continues(s, u)
    BY <1>1, <2>7, <2>9, ContinuesTrans
  <2>12. r = [ok |-> TRUE, s |-> u]
    BY <2>1 DEF u
  <2> QED
    BY <2>10, <2>11, <2>12
<1>4. /\ Continues(s, s1) /\ Good(s1) /\ Struct(s1) /\ s1 \in Slices
      /\ role # "master" => s1.tid = s.tid
  <2>1. CASE old = {}
    BY <1>1, <2>1, SelfContinues
  <2>2. CASE old # {}
    <3>1. s1 = eraseIteratorHelper(s, o, role) /\ o \in Offs
      BY <1>2, <2>2
    <3> HIDE DEF s1, o
    <3>2. Continues(s, s1) /\ (role # "master" => s1.tid = s.tid)
      BY <3>1, EraseContinues
    <3> QED
      BY <3>2 DEF Continues, Follows, Good, Struct
  <2> QED
    BY <2>1, <2>2
<1>5. CASE ~(old # {} /\ how = "inplace") /\ (how = "full" \/ Free(s1) = {})
  <2>1. r = [ok |-> FALSE, s |-> s1]
    BY <1>5 DEF setIter
  <2> HIDE DEF s1
  <2>2. SlaveTakes(s, s1, p, role)
    BY <1>1, <1>4, TakesNone DEF SlaveTakes, Continues, KeepsBehind
  <2> QED
    BY <1>4, <2>1, <2>2
<1>6. CASE ~(old # {} /\ how = "inplace") /\ ~(how = "full" \/ Free(s1) = {})
  <2> DEFINE u == linkTid(m3, new, p.tid)
  <2>1. r = [ok |-> TRUE, s |-> u]
    BY <1>6 DEF setIter
  <2> HIDE DEF s1
  <2>2. new \in Offs /\ new \notin s1.live
    BY <1>6 DEF Free
  <2> HIDE DEF new
  <2>3. s1.link[new] \in Nat
    BY <1>4, <2>2 DEF Slices
  <2>4. /\ Continues(s1, m3) /\ Unref(m3, new) /\ m3.live = s1.live \cup {new}
        /\ m3.tid = s1.tid /\ m3.key[new] = p.key /\ m3.val[new] = p.val
    <3>1. PICK w \in Nat : w = s1.link[new]
      BY <2>3
    <3>2. PICK k \in Keys, v \in Vals : k = p.key /\ v = p.val
      BY <1>1
    <3>3. m3 = insertCopy2(s1, k, v, new, w)
      BY <3>1, <3>2
    <3> HIDE DEF m3
    <3>4. /\ Continues(s1, m3) /\ Unref(m3, new) /\ m3.live = s1.live \cup {new}
          /\ m3.tid = s1.tid /\ m3.key[new] = k /\ m3.val[new] = v
      <4>1. Inserts(s1, m3, k, v, new, w)
        BY <1>4, <2>2, <3>3 DEF Inserts
      <4> QED
        BY <4>1, InsertContinues
    <3> QED
      BY <3>2, <3>4
  <2> HIDE DEF m3
  <2>5. Good(m3) /\ Struct(m3) /\ new \in m3.live
    BY <2>4 DEF Continues, Follows, Good
  <2>6. Continues(m3, u)
    BY <1>1, <2>4, <2>5, LinkAny
  <2>7. Continues(s, m3)
    BY <1>1, <1>4, <2>4, ContinuesTrans
  <2>8. SlaveTakes(s, u, p, role)
    <3>1. NoneAhead(s) => NoneAhead(m3)
      BY <2>7 DEF Continues, KeepsBehind
    <3>2. role # "master" => m3.tid = s.tid
      BY <1>4, <2>4
    <3> QED
      BY <2>2, <2>4, <2>5, <3>1, <3>2, LinkTakes
  <2> HIDE DEF u
  <2>9. Continues(s, u)
    BY <1>1, <2>6, <2>7, ContinuesTrans
  <2> QED
    BY <2>1, <2>8, <2>9
<1> QED
  BY <1>3, <1>5, <1>6

(* tid2iterOff gives an offset of the pool or none. *)
LEMMA IterOffType ==
    ASSUME NEW s, Struct(s), NEW t \in Nat
    PROVE  tid2iterOff(s, t) \in Offs \cup {0}
<1> DEFINE b == tid2tblBlk(s, t)
<1>1. CASE b = 0
  BY <1>1 DEF tid2iterOff
<1>2. CASE b # 0
  <2>1. b \in 1 .. Len(s.blks)
    <3> DEFINE from == IF t < s.preClear THEN s.preClear ELSE t
    <3>1. s.preClear \in Nat /\ Len(s.blks) \in Nat
      BY DEF Struct, Slices
    <3>2. from \in Nat /\ s.preClear <= from
      BY <3>1
    <3>3. b = IF (from \div BlkSz) - (s.preClear \div BlkSz) + 1 > Len(s.blks) THEN 0
              ELSE (from \div BlkSz) - (s.preClear \div BlkSz) + 1
      BY DEF tid2tblBlk
    <3> HIDE DEF from
    <3>4. /\ from \div BlkSz \in Nat /\ s.preClear \div BlkSz \in Nat
          /\ s.preClear \div BlkSz <= from \div BlkSz
      BY <3>1, <3>2, SMTT(30)
    <3> HIDE DEF b
    <3> QED
      BY <1>2, <3>1, <3>3, <3>4
  <2>2. Slot(t) \in 0 .. BlkSz - 1
    BY DivSlot
  <2>3. isTidValIterOff(EntryAt(s, b, Slot(t))) =>
          EntryAt(s, b, Slot(t)).arg \in Offs \cup {0}
    BY <2>1, <2>2, EntryType DEF Struct
  <2> QED
    BY <1>2, <2>3 DEF tid2iterOff, EntryAt
<1> QED
  BY <1>1, <1>2

(* A packet that deletes an item or flushes the slice. *)
LEMMA DelContinues ==
    ASSUME NEW s, Good(s), NEW p \in DelPkts, p.tid > s.tid, NEW next, NEW role,
           NEW r, r = delTidItem(s, p, next, role)
    PROVE  /\ r \in [ok : BOOLEAN, s : {r.s}]
           /\ Continues(s, r.s) /\ SlaveTakes(s, r.s, p, role)
<1> DEFINE off == tid2iterOff(s, p.old)
           m == CASE p.kind = "flush" -> clear(s, role)
                  [] p.kind = "del" /\ off # 0 /\ ~ReplacedByNext(s, off, next) ->
                       eraseIteratorHelper(s, off, role)
                  [] OTHER -> s
           v == IF p.kind = "flush" THEN TIDDEL_FLUSHALL ELSE tidDelVal(p.old)
           u == setTidTblEnt(m, v, p.tid)
<1>1. /\ p.tid \in Nat /\ p.old \in Nat /\ p.kind \in {"del", "flush"}
      /\ Struct(s) /\ s.tid \in Nat
  BY DEF DelPkts, Good, Struct, Slices
<1>2. r = [ok |-> setTidTblEntOk(m, p.tid), s |-> u]
  BY DEF delTidItem
<1>3. Continues(s, m) /\ (role # "master" => m.tid = s.tid)
  <2>1. CASE p.kind = "flush"
    <3>1. m = clear(s, role)
      BY <2>1
    <3> HIDE DEF m
    <3>2. CASE role = "master"
      BY <3>1, <3>2, ClearSlice
    <3>3. CASE role # "master"
      BY <3>1, <3>3, ClearSlave
    <3> QED
      BY <3>2, <3>3
  <2>2. CASE p.kind = "del" /\ off # 0 /\ ~ReplacedByNext(s, off, next)
    <3>1. m = eraseIteratorHelper(s, off, role)
      BY <2>2
    <3>2. off \in Offs
      BY <1>1, <2>2, IterOffType
    <3> HIDE DEF m, off
    <3> QED
      BY <3>1, <3>2, EraseContinues
  <2>3. CASE p.kind # "flush" /\ ~(p.kind = "del" /\ off # 0 /\ ~ReplacedByNext(s, off, next))
    <3>1. m = s
      BY <2>3
    <3> QED
      BY <3>1, SelfContinues
  <2> QED
    BY <2>1, <2>2, <2>3
<1> HIDE DEF m
<1>4. Good(m) /\ Struct(m)
  BY <1>3 DEF Continues, Follows, Good
<1>5. v \in TidVals /\ ~isTidValIterOff(v)
  <2>1. CASE p.kind = "flush"
    BY <2>1 DEF TIDDEL_FLUSHALL, TidVals, isTidValIterOff
  <2>2. CASE p.kind # "flush"
    BY <1>1, <2>2, DelValNotIter
  <2> QED
    BY <2>1, <2>2
<1>6. v # NoVal => << v.kind, v.arg >> = Meaning(p)
  BY <1>1 DEF Meaning, TIDDEL_FLUSHALL, tidDelVal
<1> HIDE DEF v
<1>7. Continues(m, u)
  <2>1. CASE InSeq(m, p.tid)
    BY <1>1, <1>4, <1>5, <2>1, SetDelContinues
  <2>2. CASE ~InSeq(m, p.tid)
    <3>1. u = m
      BY <2>2 DEF setTidTblEnt
    <3> QED
      BY <1>4, <3>1, SelfContinues
  <2> QED
    BY <2>1, <2>2
<1>8. SlaveTakes(s, u, p, role)
  <2> SUFFICES ASSUME role # "master", NoneAhead(s)
               PROVE  Takes(s, u, p)
    BY DEF SlaveTakes
  <2>1. m.tid = s.tid /\ NoneAhead(m) /\ p.tid > m.tid
    BY <1>3 DEF Continues, KeepsBehind
  <2>2. AddsOnly(m, u, p.tid, v) /\ u.tid = p.tid
    BY <1>1, <1>4, <1>5, <2>1, SetAdds
  <2> HIDE DEF u
  <2>3. ASSUME NEW b \in 1 .. Len(u.blks), NEW i \in 0 .. BlkSz - 1,
               EntryAt(u, b, i) # NoVal, EntryTid(u, b, i) > s.tid
        PROVE  SaysAt(u, b, i, p)
    <3>1. EntryTid(u, b, i) = p.tid /\ EntryAt(u, b, i) = v
      BY <2>1, <2>2, <2>3 DEF AddsOnly
    <3>2. Transaction(u, b, i) = << v.kind, v.arg >>
      BY <1>5, <3>1 DEF Transaction
    <3> QED
      BY <1>6, <2>3, <3>1, <3>2 DEF SaysAt
  <2> QED
    BY <2>2, <2>3 DEF Takes
<1> HIDE DEF u
<1>9. Continues(s, u)
  BY <1>1, <1>3, <1>7, ContinuesTrans
<1>10. setTidTblEntOk(m, p.tid) \in BOOLEAN
  BY DEF setTidTblEntOk
<1> QED
  BY <1>2, <1>8, <1>9, <1>10

SetStates == [ok : BOOLEAN, s : Slices]

(* One turn of the loop of tidSetItems. *)
LEMMA PacketContinues ==
    ASSUME NEW st \in SetStates, Good(st.s), NEW pkts \in Seq(Packets),
           NEW i \in 1 .. Len(pkts), NEW how, NEW role,
           NEW r, r = SetPacket(st, pkts, i, how, role)
    PROVE  /\ r \in SetStates
           /\ Continues(st.s, r.s) /\ SlaveTakes(st.s, r.s, pkts[i], role)
<1> DEFINE p == pkts[i]
           next == SubSeq(pkts, i + 1, Len(pkts))
<1>1. p \in AddPkts \cup DelPkts /\ Struct(st.s)
  BY DEF Packets, Good
<1>2. CASE ~(st.ok /\ p.tid > st.s.tid)
  <2>1. r = [st EXCEPT !.ok = FALSE]
    BY <1>2 DEF SetPacket
  <2>2. r \in SetStates /\ r.s = st.s
    BY <2>1 DEF SetStates
  <2>3. Continues(st.s, st.s)
    BY SelfContinues
  <2>4. SlaveTakes(st.s, st.s, p, role)
    BY <1>1, TakesNone DEF SlaveTakes
  <2> QED
    BY <2>2, <2>3, <2>4
<1>3. CASE st.ok /\ p.tid > st.s.tid /\ p.kind = "add"
  <2>1. r = setIter(st.s, p, how[i], role)
    BY <1>3 DEF SetPacket
  <2>2. p \in AddPkts
    BY <1>1, <1>3 DEF DelPkts
  <2>3. /\ r \in [ok : BOOLEAN, s : {r.s}]
        /\ Continues(st.s, r.s) /\ SlaveTakes(st.s, r.s, p, role)
    <3> HIDE DEF p
    <3> QED
      BY <1>3, <2>1, <2>2, SetIterContinues
  <2> QED
    BY <2>3 DEF SetStates, Continues, Follows, Good, Struct
<1>4. CASE st.ok /\ p.tid > st.s.tid /\ p.kind # "add"
  <2>1. r = delTidItem(st.s, p, next, role)
    BY <1>4 DEF SetPacket
  <2>2. p \in DelPkts
    BY <1>1, <1>4 DEF AddPkts
  <2>3. /\ r \in [ok : BOOLEAN, s : {r.s}]
        /\ Continues(st.s, r.s) /\ SlaveTakes(st.s, r.s, p, role)
    <3> HIDE DEF p, next
    <3> QED
      BY <1>4, <2>1, <2>2, DelContinues
  <2> QED
    BY <2>3 DEF SetStates, Continues, Follows, Good, Struct
<1> QED
  BY <1>2, <1>3, <1>4

(* A whole batch, whatever of it is stale, out of sequence or not stored. *)
LEMMA BatchContinues ==
    ASSUME NEW s, Good(s), NEW pkts \in Seq(Packets), NEW how, NEW role,
           NEW u, u = tidSetItems(s, pkts, how, role)
    PROVE  Continues(s, u)
<1>1. PICK turn : /\ turn[0] = [ok |-> TRUE, s |-> s]
                  /\ \A n \in 1 .. Len(pkts) :
                       turn[n] = SetPacket(turn[n - 1], pkts, n, how, role)
                  /\ u = turn[Len(pkts)].s
  BY SetTurns
<1> DEFINE S == {n \in Nat : turn[n] \in SetStates /\ Continues(s, turn[n].s)}
<1>2. Len(pkts) \in Nat /\ Struct(s) /\ s \in Slices
  BY DEF Good, Struct
<1>3. 0 \in S
  <2>1. turn[0].s = s /\ turn[0] \in SetStates
    BY <1>1, <1>2 DEF SetStates
  <2> QED
    BY <2>1, SelfContinues
<1>4. ASSUME NEW n \in 0 .. Len(pkts) - 1, n \in S PROVE n + 1 \in S
  <2>1. n + 1 \in 1 .. Len(pkts) /\ (n + 1) - 1 = n /\ n + 1 \in Nat
    BY <1>2
  <2>2. turn[n + 1] = SetPacket(turn[n], pkts, n + 1, how, role)
    BY <1>1, <2>1
  <2>3. turn[n] \in SetStates /\ Continues(s, turn[n].s) /\ Good(turn[n].s)
    BY <1>4 DEF Continues, Follows
  <2>4. turn[n + 1] \in SetStates /\ Continues(turn[n].s, turn[n + 1].s)
    BY <2>1, <2>2, <2>3, PacketContinues
  <2>5. Continues(s, turn[n + 1].s)
    BY <1>2, <2>3, <2>4, ContinuesTrans
  <2> QED
    BY <2>1, <2>4, <2>5
<1> HIDE DEF S
<1>5. 0 .. Len(pkts) \subseteq S
  BY <1>2, <1>3, <1>4, UpTo
<1> QED
  BY <1>1, <1>2, <1>5 DEF S

-----------------------------------------------------------------------------
(* Agreement of two slices, and of a slice and a packet. *)

Used(s, b, i) == EntryAt(s, b, i) # NoVal

Agrees(s, p) ==
    Aligned(s) =>
        \A b \in 1 .. Len(s.blks) : \A i \in 0 .. BlkSz - 1 :
            Used(s, b, i) /\ EntryTid(s, b, i) = p.tid
            => Transaction(s, b, i) = Meaning(p)

AlikeAt(m, b, i, s) ==
    \A c \in 1 .. Len(s.blks) : \A j \in 0 .. BlkSz - 1 :
        Used(s, c, j) /\ EntryTid(m, b, i) = EntryTid(s, c, j)
        => Transaction(m, b, i) = Transaction(s, c, j)

Alike(m, s) ==
    Aligned(m) /\ Aligned(s) =>
        \A b \in 1 .. Len(m.blks) : \A i \in 0 .. BlkSz - 1 :
            Used(m, b, i) => AlikeAt(m, b, i, s)

SaysSame(s, c, j, u, b, i) ==
    /\ Used(s, c, j) /\ EntryTid(s, c, j) = EntryTid(u, b, i)
    /\ Transaction(s, c, j) = Transaction(u, b, i)

(* An entry that is left says what it said before. *)
LEMMA Carried ==
    ASSUME NEW s, NEW u, Good(s), Continues(s, u), Aligned(u),
           NEW b \in 1 .. Len(u.blks), NEW i \in 0 .. BlkSz - 1,
           Used(u, b, i), EntryTid(u, b, i) <= s.tid
    PROVE  Aligned(s) /\ \E c \in 1 .. Len(s.blks), j \in 0 .. BlkSz - 1 :
                            SaysSame(s, c, j, u, b, i)
<1>1. Struct(u) /\ u \in Slices
  BY DEF Continues, Follows, Good, Struct
<1>2. CarriesEntry(s, u, b, i)
  BY DEF Continues, Carries, Used
<1>3. Recorded(s, EntryTid(u, b, i), EntryAt(u, b, i))
  BY DEF Continues, Follows, HistoryKept, Used
<1>4. PICK c \in 1 .. Len(s.blks), j \in 0 .. BlkSz - 1 :
        EntryTid(s, c, j) = EntryTid(u, b, i) /\ EntryAt(s, c, j) = EntryAt(u, b, i)
  BY <1>3 DEF Recorded
<1> DEFINE v == EntryAt(u, b, i)
<1>5. Transaction(s, c, j) = Transaction(u, b, i)
  <2>1. CASE isTidValIterOff(v) /\ v.arg # 0
    <3>1. v.arg \in Offs
      BY <1>1, <2>1, EntryType
    <3>2. SameData(s, u, v.arg)
      BY <1>2, <2>1, <3>1 DEF CarriesEntry, RefersTo
    <3> QED
      BY <1>4, <2>1, <3>2 DEF Transaction, SameData
  <2>2. CASE ~(isTidValIterOff(v) /\ v.arg # 0)
    BY <1>4, <2>2 DEF Transaction
  <2> QED
    BY <2>1, <2>2
<1> QED
  BY <1>2, <1>4, <1>5 DEF CarriesEntry, SaysSame, Used

(* The master moves on: what it adds has a tid that no packet and no slave has. *)
LEMMA AgreesOn ==
    ASSUME NEW s, NEW u, Good(s), Continues(s, u), NEW p, p.tid \in Nat,
           p.tid <= s.tid, Agrees(s, p)
    PROVE  Agrees(u, p)
<1> SUFFICES ASSUME Aligned(u), NEW b \in 1 .. Len(u.blks), NEW i \in 0 .. BlkSz - 1,
                    Used(u, b, i), EntryTid(u, b, i) = p.tid
             PROVE  Transaction(u, b, i) = Meaning(p)
  BY DEF Agrees
<1>1. Aligned(s) /\ \E c \in 1 .. Len(s.blks), j \in 0 .. BlkSz - 1 :
                       SaysSame(s, c, j, u, b, i)
  BY Carried
<1> QED
  BY <1>1 DEF Agrees, SaysSame

(* The slices stay alike when the master moves on. *)
LEMMA AlikeMaster ==
    ASSUME NEW s, NEW u, NEW q, Good(s), Continues(s, u), Struct(q), NoneAhead(q),
           q.tid <= s.tid, Alike(s, q)
    PROVE  Alike(u, q)
<1> SUFFICES ASSUME Aligned(u), Aligned(q),
                    NEW b \in 1 .. Len(u.blks), NEW i \in 0 .. BlkSz - 1,
                    NEW c \in 1 .. Len(q.blks), NEW j \in 0 .. BlkSz - 1,
                    Used(u, b, i), Used(q, c, j),
                    EntryTid(u, b, i) = EntryTid(q, c, j)
             PROVE  Transaction(u, b, i) = Transaction(q, c, j)
  BY DEF Alike, AlikeAt
<1>1. EntryTid(q, c, j) <= q.tid /\ EntryTid(q, c, j) \in Nat
  BY EntryType DEF NoneAhead, Used, Struct
<1>2. q.tid \in Nat /\ s.tid \in Nat
  BY DEF Good, Struct, Slices
<1>3. EntryTid(u, b, i) <= s.tid
  BY <1>1, <1>2
<1>4. PICK d \in 1 .. Len(s.blks), k \in 0 .. BlkSz - 1 :
        SaysSame(s, d, k, u, b, i) /\ Aligned(s)
  BY <1>3, Carried
<1>5. AlikeAt(s, d, k, q)
  BY <1>4 DEF Alike, SaysSame
<1> QED
  BY <1>4, <1>5 DEF AlikeAt, SaysSame

(* The slave takes a packet that agrees with the master. *)
LEMMA AlikeSlave ==
    ASSUME NEW m, NEW s, NEW u, NEW p, Good(s), Continues(s, u), Takes(s, u, p),
           Agrees(m, p), Alike(m, s)
    PROVE  Alike(m, u)
<1> SUFFICES ASSUME Aligned(m), Aligned(u),
                    NEW b \in 1 .. Len(m.blks), NEW i \in 0 .. BlkSz - 1,
                    NEW c \in 1 .. Len(u.blks), NEW j \in 0 .. BlkSz - 1,
                    Used(m, b, i), Used(u, c, j),
                    EntryTid(m, b, i) = EntryTid(u, c, j)
             PROVE  Transaction(m, b, i) = Transaction(u, c, j)
  BY DEF Alike, AlikeAt
<1>1. EntryTid(u, c, j) \in Nat /\ s.tid \in Nat
  BY EntryType DEF Continues, Follows, Good, Struct, Slices
<1>2. CASE EntryTid(u, c, j) <= s.tid
  <2>1. PICK d \in 1 .. Len(s.blks), k \in 0 .. BlkSz - 1 :
          SaysSame(s, d, k, u, c, j) /\ Aligned(s)
    BY <1>2, Carried
  <2>2. AlikeAt(m, b, i, s)
    BY <2>1 DEF Alike
  <2> QED
    BY <2>1, <2>2 DEF AlikeAt, SaysSame
<1>3. CASE EntryTid(u, c, j) > s.tid
  <2>1. SaysAt(u, c, j, p)
    BY <1>3 DEF Takes, Used
  <2> QED
    BY <2>1 DEF SaysAt, Agrees
<1> QED
  BY <1>1, <1>2, <1>3

(* A slave that is not ahead of the master m stays so and stays like it. *)
Behind(m, s) == Good(s) /\ NoneAhead(s) /\ s.tid <= m.tid /\ Alike(m, s)

Sent(m, p) == p \in Packets /\ p.tid <= m.tid /\ Agrees(m, p)

(* A packet that the master has sent leaves the slave behind the master. *)
LEMMA BehindStep ==
    ASSUME NEW m, NEW s, NEW u, NEW p, NEW role, role # "master", Behind(m, s),
           Sent(m, p), Continues(s, u), SlaveTakes(s, u, p, role)
    PROVE  Behind(m, u)
<1>1. Takes(s, u, p) /\ Good(s) /\ Good(u) /\ NoneAhead(u)
  BY DEF Behind, SlaveTakes, Continues, KeepsBehind, Follows
<1>2. u.tid <= m.tid
  BY <1>1 DEF Takes, Behind, Sent
<1>3. Alike(m, u)
  BY <1>1, AlikeSlave DEF Behind, Sent
<1> QED
  BY <1>1, <1>2, <1>3 DEF Behind

(* So does a whole batch. *)
LEMMA BatchBehind ==
    ASSUME NEW m, NEW s, Behind(m, s), NEW pkts \in Seq(Packets),
           \A i \in 1 .. Len(pkts) : Sent(m, pkts[i]), NEW how, NEW role,
           role # "master", NEW u, u = tidSetItems(s, pkts, how, role)
    PROVE  Behind(m, u)
<1>1. PICK turn : /\ turn[0] = [ok |-> TRUE, s |-> s]
                  /\ \A n \in 1 .. Len(pkts) :
                       turn[n] = SetPacket(turn[n - 1], pkts, n, how, role)
                  /\ u = turn[Len(pkts)].s
  BY SetTurns
<1> DEFINE S == {n \in Nat : turn[n] \in SetStates /\ Behind(m, turn[n].s)}
<1>2. Len(pkts) \in Nat /\ s \in Slices
  BY DEF Behind, Good, Struct
<1>3. 0 \in S
  <2>1. turn[0].s = s /\ turn[0] \in SetStates
    BY <1>1, <1>2 DEF SetStates
  <2> QED
    BY <2>1
<1>4. ASSUME NEW n \in 0 .. Len(pkts) - 1, n \in S PROVE n + 1 \in S
  <2>1. n + 1 \in 1 .. Len(pkts) /\ (n + 1) - 1 = n /\ n + 1 \in Nat
    BY <1>2
  <2>2. turn[n + 1] = SetPacket(turn[n], pkts, n + 1, how, role)
    BY <1>1, <2>1
  <2>3. turn[n] \in SetStates /\ Behind(m, turn[n].s) /\ Good(turn[n].s)
    BY <1>4 DEF Behind
  <2>4. /\ turn[n + 1] \in SetStates /\ Continues(turn[n].s, turn[n + 1].s)
        /\ SlaveTakes(turn[n].s, turn[n + 1].s, pkts[n + 1], role)
    BY <2>1, <2>2, <2>3, PacketContinues
  <2>5. Behind(m, turn[n + 1].s)
    BY <2>1, <2>3, <2>4, BehindStep
  <2> QED
    BY <2>1, <2>4, <2>5
<1> HIDE DEF S
<1>5. 0 .. Len(pkts) \subseteq S
  BY <1>2, <1>3, <1>4, UpTo
<1> QED
  BY <1>1, <1>2, <1>5 DEF S

-----------------------------------------------------------------------------
(* The sending side. *)

GetFirst(s, t) ==
    [s |-> s, cur |-> t, last |-> t, blk |-> 0, pkts |-> << >>, stop |-> "no"]

GetTurn(turn, n, s, t, expired) ==
    IF n = 0 THEN GetFirst(s, t) ELSE getNxtTidItem(turn[n - 1], expired)

GetResult(st) ==
    [s |-> st.s, pkts |-> st.pkts, stop |-> st.stop,
     last |-> IF st.stop = "end" THEN st.s.tid ELSE st.last]

(* M turns of the loop of tidGetNxtItems. *)
GetTurning(M, turn, s, t, expired, r) ==
    /\ turn[0] = GetFirst(s, t)
    /\ \A n \in 1 .. M : turn[n] = getNxtTidItem(turn[n - 1], expired)
    /\ r = GetResult(turn[M])

(* The loop of tidGetNxtItems is defined. *)
LEMMA GetTurns ==
    ASSUME NEW s, s.tid \in Nat, NEW t, NEW expired,
           NEW r, r = tidGetNxtItems(s, t, expired)
    PROVE  \E M \in Nat : \E turn : GetTurning(M, turn, s, t, expired, r)
<1> DEFINE Runs(N, g) == g = [n \in 0 .. N |-> GetTurn(g, n, s, t, expired)]
           S == {N \in Nat : \E g : Runs(N, g)}
           M == s.tid + Cardinality(Offs) + 1
<1>1. M \in Nat
  <2>1. Cardinality(Offs) \in Nat
    BY FS_CardinalityType, PoolAssumption
  <2> QED
    BY <2>1
<1>2. 0 \in S
  <2> DEFINE g == [n \in 0 .. 0 |-> GetFirst(s, t)]
  <2>1. Runs(0, g)
    BY DEF GetTurn
  <2> QED
    BY <2>1
<1>3. ASSUME NEW N \in 0 .. M - 1, N \in S PROVE N + 1 \in S
  <2>1. PICK g : Runs(N, g)
    BY <1>3
  <2> DEFINE x == getNxtTidItem(g[N], expired)
             h == [n \in 0 .. N + 1 |-> IF n = N + 1 THEN x ELSE g[n]]
  <2>2. N \in Nat /\ N + 1 \in Nat
    BY <1>1
  <2>3. \A n \in 0 .. N + 1 : h[n] = GetTurn(h, n, s, t, expired)
    <3>1. \A n \in 0 .. N : h[n] = g[n]
      BY <2>2
    <3>2. \A n \in 0 .. N : g[n] = GetTurn(g, n, s, t, expired)
      BY <2>1
    <3>3. h[N + 1] = x
      BY <2>2
    <3> HIDE DEF h, x, Runs
    <3>4. ASSUME NEW n \in 0 .. N PROVE h[n] = GetTurn(h, n, s, t, expired)
      <4>1. n # 0 => n - 1 \in 0 .. N
        BY <2>2
      <4> QED
        BY <3>1, <3>2, <4>1 DEF GetTurn
    <3>5. h[N + 1] = GetTurn(h, N + 1, s, t, expired)
      <4>1. h[N] = g[N] /\ N + 1 # 0 /\ (N + 1) - 1 = N
        BY <2>2, <3>1
      <4> QED
        BY <3>3, <4>1 DEF GetTurn, x
    <3>6. \A n \in 0 .. N + 1 : n \in 0 .. N \/ n = N + 1
      BY <2>2
    <3> QED
      BY <3>4, <3>5, <3>6
  <2>4. h = [n \in 0 .. N + 1 |-> GetTurn(h, n, s, t, expired)]
    <3>1. h = [n \in 0 .. N + 1 |-> h[n]]
      OBVIOUS
    <3> HIDE DEF h
    <3> QED
      BY <2>3, <3>1
  <2> HIDE DEF h
  <2> QED
    BY <2>2, <2>4
<1>4. \E g : Runs(M, g)
  <2> HIDE DEF S, M
  <2>1. 0 .. M \subseteq S
    BY <1>1, <1>2, <1>3, UpTo
  <2> QED
    BY <1>1, <2>1 DEF S
<1>5. PICK turn : /\ turn = [n \in 0 .. M |-> GetTurn(turn, n, s, t, expired)]
                  /\ r = GetResult(turn[M])
  <2> DEFINE c == CHOOSE g : Runs(M, g)
  <2>1. Runs(M, c)
    BY <1>4
  <2>2. r = GetResult(c[M])
    BY DEF tidGetNxtItems, GetTurn, GetFirst, GetResult
  <2> QED
    BY <2>1, <2>2
<1> HIDE DEF M
<1>6. \A n \in 0 .. M : turn[n] = GetTurn(turn, n, s, t, expired)
  BY <1>5
<1>7. turn[0] = GetFirst(s, t)
  <2>1. turn[0] = GetTurn(turn, 0, s, t, expired)
    BY <1>1, <1>6
  <2> QED
    BY <2>1 DEF GetTurn
<1>8. ASSUME NEW n \in 1 .. M
      PROVE  turn[n] = getNxtTidItem(turn[n - 1], expired)
  BY <1>1, <1>6 DEF GetTurn
<1>9. GetTurning(M, turn, s, t, expired, r)
  BY <1>5, <1>7, <1>8 DEF GetTurning
<1> QED
  BY <1>1, <1>9

(* The walk finds the entry with the least tid. *)
LEMMA NxtFound ==
    ASSUME NEW s, Struct(s), NEW t, NEW blk, Ahead(s, t, blk) # {}
    PROVE  /\ nxtTidTblVal(s, t, blk) \in Ahead(s, t, blk)
           /\ \A q \in Ahead(s, t, blk) :
                EntryTid(s, nxtTidTblVal(s, t, blk)[1], nxtTidTblVal(s, t, blk)[2])
                   <= EntryTid(s, q[1], q[2])
<1> DEFINE A == Ahead(s, t, blk)
           T == {EntryTid(s, p[1], p[2]) : p \in A}
<1>1. A \subseteq (1 .. Len(s.blks)) \X (0 .. BlkSz - 1)
  BY DEF Ahead
<1>2. \A p \in A : EntryTid(s, p[1], p[2]) \in Nat
  BY <1>1, EntryType DEF Struct
<1> HIDE DEF A
<1>3. T \subseteq Nat /\ T # {}
  BY <1>2 DEF A
<1>4. \E x \in T : \A y \in T : ~(y < x)
  <2> HIDE DEF T
  <2> QED
    BY <1>3, Least
<1>5. PICK p \in A : \A q \in A :
        ~(EntryTid(s, q[1], q[2]) < EntryTid(s, p[1], p[2]))
  BY <1>4
<1>6. \A q \in A : EntryTid(s, p[1], p[2]) <= EntryTid(s, q[1], q[2])
  BY <1>2, <1>5
<1> QED
  BY <1>6 DEF nxtTidTblVal, A

(* While the index is aligned a tid has one entry. *)
LEMMA OneEntry ==
    ASSUME NEW s, Struct(s), Aligned(s),
           NEW b \in 1 .. Len(s.blks), NEW i \in 0 .. BlkSz - 1,
           NEW c \in 1 .. Len(s.blks), NEW j \in 0 .. BlkSz - 1,
           EntryTid(s, b, i) = EntryTid(s, c, j)
    PROVE  b = c /\ i = j
<1>1. tid2tblBlk(s, EntryTid(s, b, i)) = b /\ Slot(EntryTid(s, b, i)) = i
  BY LookupFinds
<1>2. tid2tblBlk(s, EntryTid(s, c, j)) = c /\ Slot(EntryTid(s, c, j)) = j
  BY LookupFinds
<1> QED
  BY <1>1, <1>2

(* The packet of an entry. *)
PacketOf(s, b, i) ==
    IF isTidValIterOff(EntryAt(s, b, i))
    THEN iter2tidPack(s, EntryAt(s, b, i).arg, EntryTid(s, b, i))
    ELSE del2tidPack(EntryAt(s, b, i), EntryTid(s, b, i))

(* The packet of an entry says what the entry says. *)
LEMMA PacketSent ==
    ASSUME NEW s, Good(s), NoneAhead(s), NEW b \in 1 .. Len(s.blks),
           NEW i \in 0 .. BlkSz - 1, Used(s, b, i),
           ~(isTidValIterOff(EntryAt(s, b, i)) /\ EntryAt(s, b, i).arg = 0)
    PROVE  Sent(s, PacketOf(s, b, i))
<1> DEFINE v == EntryAt(s, b, i)
           t == EntryTid(s, b, i)
           p == PacketOf(s, b, i)
<1>1. /\ Struct(s) /\ s \in Slices /\ v \in TidVals /\ t \in Nat /\ t <= s.tid
      /\ isTidValIterOff(v) => v.arg \in Offs
  BY EntryType DEF Good, Struct, NoneAhead, Used
<1>2. p \in Packets /\ p.tid = t /\ Meaning(p) = Transaction(s, b, i)
  <2>1. CASE isTidValIterOff(v)
    <3>1. p = [kind |-> "add", tid |-> t, key |-> s.key[v.arg], val |-> s.val[v.arg]]
      BY <2>1 DEF PacketOf, iter2tidPack
    <3>2. s.key[v.arg] \in Keys /\ s.val[v.arg] \in Vals /\ v.arg # 0
      BY <1>1, <2>1 DEF Slices
    <3>3. Transaction(s, b, i) = << "iter", s.key[v.arg], s.val[v.arg] >>
      BY <2>1, <3>2 DEF Transaction
    <3> HIDE DEF p, v, t
    <3> QED
      BY <1>1, <3>1, <3>2, <3>3 DEF Packets, AddPkts, Meaning
  <2>2. CASE ~isTidValIterOff(v)
    <3>1. p = [kind |-> v.kind, tid |-> t, old |-> v.arg]
      BY <2>2 DEF PacketOf, del2tidPack
    <3>2. Transaction(s, b, i) = << v.kind, v.arg >>
      BY <2>2 DEF Transaction
    <3>3. v # NoVal
      BY DEF Used
    <3> HIDE DEF p, v, t
    <3>4. v.kind \in {"del", "flush"} /\ v.arg \in Nat /\ (v.kind = "flush" => v.arg = 0)
      BY <1>1, <2>2, <3>3 DEF TidVals, isTidValIterOff, TIDDEL_FLUSHALL
    <3> QED
      BY <1>1, <3>1, <3>2, <3>4 DEF Packets, DelPkts, Meaning
  <2> QED
    BY <2>1, <2>2
<1> HIDE DEF p
<1>3. Agrees(s, p)
  <2> SUFFICES ASSUME Aligned(s), NEW c \in 1 .. Len(s.blks), NEW j \in 0 .. BlkSz - 1,
                      EntryTid(s, c, j) = p.tid
               PROVE  Transaction(s, c, j) = Meaning(p)
    BY DEF Agrees
  <2>1. b = c /\ i = j
    BY <1>1, <1>2, OneEntry
  <2> QED
    BY <1>2, <2>1
<1> QED
  BY <1>1, <1>2, <1>3 DEF Sent, p

GetStates ==
    [s : Slices, cur : Nat, last : Nat, blk : Nat, pkts : Seq(Packets),
     stop : {"no", "end", "full", "null"}]

(* The packets of a batch that is being filled. *)
Batch(st) ==
    /\ Good(st.s) /\ NoneAhead(st.s) /\ Len(st.pkts) <= BatchMax
    /\ \A i \in 1 .. Len(st.pkts) : Sent(st.s, st.pkts[i])

(* The master moves on, and what it has sent stays right. *)
LEMMA SentOn ==
    ASSUME NEW s, NEW u, Good(s), Continues(s, u), NEW p, Sent(s, p)
    PROVE  Sent(u, p)
<1>1. p.tid \in Nat
  BY DEF Sent, Packets, AddPkts, DelPkts
<1>2. s.tid \in Nat /\ u.tid \in Nat /\ s.tid <= u.tid
  BY DEF Continues, Follows, Good, Struct, Slices
<1>3. Agrees(u, p) /\ p.tid <= s.tid
  BY <1>1, AgreesOn DEF Sent
<1> QED
  BY <1>1, <1>2, <1>3 DEF Sent

(* One turn of the loop of tidGetNxtItems. *)
LEMMA ItemContinues ==
    ASSUME NEW st \in GetStates, Batch(st), NEW expired,
           NEW u, u = getNxtTidItem(st, expired)
    PROVE  u \in GetStates /\ Continues(st.s, u.s) /\ Batch(u)
<1> DEFINE pos == nxtTidTblVal(st.s, st.cur, st.blk)
           tid == EntryTid(st.s, pos[1], pos[2])
           v   == EntryAt(st.s, pos[1], pos[2])
           pkt == PacketOf(st.s, pos[1], pos[2])
           some == st.stop = "no" /\ Ahead(st.s, st.cur, st.blk) # {}
<1>1. /\ Good(st.s) /\ Struct(st.s) /\ NoneAhead(st.s) /\ st.s \in Slices
      /\ st.pkts \in Seq(Packets) /\ Continues(st.s, st.s) /\ Len(st.pkts) \in Nat
  BY SelfContinues DEF Batch, Good, GetStates
<1>2. ASSUME NEW x \in {"end", "full", "null"}, u = [st EXCEPT !.stop = x]
      PROVE  u \in GetStates /\ Continues(st.s, u.s) /\ Batch(u)
  <2>1. u \in GetStates /\ u.s = st.s /\ u.pkts = st.pkts
    BY <1>2 DEF GetStates
  <2> QED
    BY <1>1, <2>1 DEF Batch
<1>3. CASE st.stop # "no"
  <2>1. u = st
    BY <1>3 DEF getNxtTidItem
  <2> QED
    BY <1>1, <2>1
<1>4. CASE st.stop = "no" /\ Ahead(st.s, st.cur, st.blk) = {}
  <2>1. u = [st EXCEPT !.stop = "end"]
    BY <1>4 DEF getNxtTidItem
  <2> QED
    BY <1>2, <2>1
<1>5. CASE some /\ isTidValIterOff(v) /\ v.arg = 0
  <2>1. u = [st EXCEPT !.stop = "null"]
    BY <1>5 DEF getNxtTidItem
  <2> QED
    BY <1>2, <2>1
<1>6. some => /\ pos[1] \in 1 .. Len(st.s.blks) /\ pos[2] \in 0 .. BlkSz - 1
              /\ Used(st.s, pos[1], pos[2])
  <2>1. some => pos \in Ahead(st.s, st.cur, st.blk)
    BY <1>1, NxtFound
  <2> HIDE DEF pos
  <2> QED
    BY <2>1 DEF Ahead, Used
<1>7. some => /\ tid \in Nat /\ pos[1] \in Nat
              /\ isTidValIterOff(v) => v.arg \in Offs \cup {0}
  <2> HIDE DEF pos, some
  <2> QED
    BY <1>1, <1>6, EntryType
<1>8. CASE some /\ isTidValIterOff(v) /\ v.arg # 0 /\ v.arg \in expired
  <2>1. u = [st EXCEPT !.s = eraseIteratorHelper(st.s, v.arg, "master"),
                       !.cur = tid, !.blk = 0]
    BY <1>8 DEF getNxtTidItem
  <2>2. v.arg \in Offs /\ tid \in Nat
    BY <1>7, <1>8
  <2> HIDE DEF v, tid
  <2> DEFINE e == eraseIteratorHelper(st.s, v.arg, "master")
  <2>3. Continues(st.s, e)
    BY <1>1, <2>2, EraseContinues
  <2>4. Good(e) /\ NoneAhead(e) /\ e \in Slices
    BY <1>1, <2>3 DEF Continues, KeepsBehind, Follows, Good, Struct
  <2> HIDE DEF e
  <2>5. u = [st EXCEPT !.s = e, !.cur = tid, !.blk = 0]
    BY <2>1 DEF e
  <2>6. u \in GetStates /\ u.s = e /\ u.pkts = st.pkts
    <3>1. u = [s |-> e, cur |-> tid, last |-> st.last, blk |-> 0,
               pkts |-> st.pkts, stop |-> st.stop]
      BY <2>5 DEF GetStates
    <3>2. st.last \in Nat /\ st.stop \in {"no", "end", "full", "null"}
      BY DEF GetStates
    <3> QED
      BY <1>1, <2>2, <2>4, <3>1, <3>2 DEF GetStates
  <2>7. \A i \in 1 .. Len(u.pkts) : Sent(e, u.pkts[i])
    BY <1>1, <2>3, <2>6, SentOn DEF Batch
  <2> QED
    BY <2>3, <2>4, <2>6, <2>7 DEF Batch
<1>9. CASE some /\ ~(isTidValIterOff(v) /\ (v.arg = 0 \/ v.arg \in expired)) /\ Fills(st.pkts)
  <2>1. u = [st EXCEPT !.stop = "full"]
    BY <1>9 DEF getNxtTidItem
  <2> QED
    BY <1>2, <2>1
<1>10. CASE some /\ ~(isTidValIterOff(v) /\ (v.arg = 0 \/ v.arg \in expired)) /\ ~Fills(st.pkts)
  <2>1. u = [st EXCEPT !.pkts = Append(st.pkts, pkt), !.blk = pos[1],
                       !.cur = tid, !.last = tid]
    BY <1>10 DEF getNxtTidItem, PacketOf
  <2>2. Sent(st.s, pkt)
    <3> HIDE DEF pos
    <3> QED
      BY <1>1, <1>6, <1>10, PacketSent
  <2>3. tid \in Nat /\ pos[1] \in Nat /\ pkt \in Packets
    BY <1>7, <1>10, <2>2 DEF Sent
  <2> HIDE DEF pos, tid, pkt
  <2>4. PICK q \in Seq(Packets) : q = Append(st.pkts, pkt)
    <3>1. ASSUME NEW a \in Seq(Packets), NEW x \in Packets
          PROVE  Append(a, x) \in Seq(Packets)
      OBVIOUS
    <3> QED
      BY <1>1, <2>3, <3>1
  <2>5. u = [st EXCEPT !.pkts = q, !.blk = pos[1], !.cur = tid, !.last = tid]
    BY <2>1, <2>4
  <2>6. u \in GetStates /\ u.s = st.s /\ u.pkts = q
    BY <2>3, <2>5 DEF GetStates
  <2>7. /\ Len(q) = Len(st.pkts) + 1 /\ q[Len(q)] = pkt
        /\ \A i \in 1 .. Len(st.pkts) : q[i] = st.pkts[i]
    BY <1>1, <2>3, <2>4, AppendAt
  <2>8. Len(q) <= BatchMax
    BY <1>1, <1>10, <2>7, BatchMaxAssumption DEF Fills
  <2>9. \A i \in 1 .. Len(q) : Sent(st.s, q[i])
    <3>1. \A i \in 1 .. Len(q) : i \in 1 .. Len(st.pkts) \/ i = Len(q)
      BY <1>1, <2>7
    <3> QED
      BY <2>2, <2>7, <3>1 DEF Batch
  <2> QED
    BY <1>1, <2>6, <2>8, <2>9 DEF Batch
<1> QED
  BY <1>3, <1>4, <1>5, <1>8, <1>9, <1>10

(* A whole batch of tidGetNxtItems. *)
LEMMA BatchSent ==
    ASSUME NEW s, Good(s), NoneAhead(s), NEW t \in Nat, NEW expired,
           NEW r, r = tidGetNxtItems(s, t, expired)
    PROVE  /\ Continues(s, r.s) /\ r.pkts \in Seq(Packets) /\ r.last \in Nat
           /\ Len(r.pkts) <= BatchMax /\ NoneAhead(r.s)
           /\ \A i \in 1 .. Len(r.pkts) : Sent(r.s, r.pkts[i])
<1>1. Struct(s) /\ s \in Slices /\ s.tid \in Nat
  BY DEF Good, Struct, Slices
<1>a. PICK M \in Nat : \E turn : GetTurning(M, turn, s, t, expired, r)
  BY <1>1, GetTurns
<1>2. PICK turn : /\ turn[0] = GetFirst(s, t)
                  /\ \A n \in 1 .. M : turn[n] = getNxtTidItem(turn[n - 1], expired)
                  /\ r = GetResult(turn[M])
  BY <1>a DEF GetTurning
<1> DEFINE In(x) == x \in GetStates /\ Continues(s, x.s) /\ Batch(x)
           S == {n \in Nat : In(turn[n])}
<1>3. 0 \in S
  <2> DEFINE x == GetFirst(s, t)
  <2>1. x.s = s /\ x.pkts = << >> /\ << >> \in Seq(Packets) /\ Len(x.pkts) = 0
    BY DEF GetFirst
  <2>2. x \in GetStates
    BY <1>1, <2>1 DEF GetStates, GetFirst
  <2> HIDE DEF x
  <2>3. Batch(x)
    BY <2>1, BatchMaxAssumption DEF Batch
  <2>4. Continues(s, x.s)
    BY <2>1, SelfContinues
  <2> QED
    BY <1>2, <2>2, <2>3, <2>4 DEF x
<1>4. ASSUME NEW n \in 0 .. M - 1, n \in S PROVE n + 1 \in S
  <2>1. n + 1 \in 1 .. M /\ (n + 1) - 1 = n /\ n + 1 \in Nat
    OBVIOUS
  <2>2. turn[n + 1] = getNxtTidItem(turn[n], expired)
    BY <1>2, <2>1
  <2>3. In(turn[n])
    BY <1>4
  <2>4. /\ turn[n + 1] \in GetStates /\ Continues(turn[n].s, turn[n + 1].s)
        /\ Batch(turn[n + 1])
    BY <2>2, <2>3, ItemContinues
  <2>5. Continues(s, turn[n + 1].s)
    BY <1>1, <2>3, <2>4, ContinuesTrans
  <2> QED
    BY <2>1, <2>4, <2>5
<1> HIDE DEF S
<1>5. 0 .. M \subseteq S
  BY <1>3, <1>4, UpTo
<1>6. In(turn[M])
  BY <1>5 DEF S
<1> DEFINE st == turn[M]
<1>7. /\ st \in GetStates /\ Continues(s, st.s) /\ Batch(st) /\ r = GetResult(st)
      /\ st.s.tid \in Nat
  BY <1>2, <1>6 DEF GetStates, Slices
<1> HIDE DEF st, In
<1>8. r.s = st.s /\ r.pkts = st.pkts /\ r.last \in Nat
  BY <1>7 DEF GetResult, GetStates
<1> QED
  BY <1>7, <1>8 DEF Batch, GetStates

-----------------------------------------------------------------------------
(* The two nodes.  Slices are kept apart from the types of everything else. *)

TypeRest ==
    /\ notifyRepld \in [Workers -> BOOLEAN] /\ notes \in [Workers -> Nat]
    /\ linkUp \in BOOLEAN /\ didFsync \in BOOLEAN /\ faults \in 0 .. MaxFaults
    /\ tracker \in Nat \cup {NoTracker}
    /\ bcast \in [caller : {"none", "notify", "ping"}, tid : Nat, loop : 0 .. MaxLoop]
    /\ updates \in Seq(Batches) /\ fsync \in Seq(Batches \cup {BothDone})
    /\ pings \in Seq([tid : Nat, didFsync : BOOLEAN])
    /\ connMsgs \in [Workers -> Seq(BOOLEAN)]

SlicesOk == Good(master) /\ NoneAhead(master) /\ Good(slave)

(* The commands of TidSlice use the operators of LsShmTidMgr through the
   instance; they are the same operators. *)
LEMMA SameOps ==
    /\ \A s, k : Worker!find2(s, k) = find2(s, k)
    /\ \A s : Worker!Free(s) = Free(s)
    /\ \A s, k, v, off, w : Worker!insert2(s, k, v, off, w) = insert2(s, k, v, off, w)
    /\ \A s, off, v, role :
          Worker!doSetInPlace(s, off, v, role) = doSetInPlace(s, off, v, role)
    /\ \A s, off, v, new, w, role :
          Worker!doSetRealloc(s, off, v, new, w, role) = doSetRealloc(s, off, v, new, w, role)
    /\ \A s, off, v, new, w, role :
          Worker!iterGrowValue(s, off, v, new, w, role) = iterGrowValue(s, off, v, new, w, role)
    /\ \A s, off, role :
          Worker!eraseIteratorHelper(s, off, role) = eraseIteratorHelper(s, off, role)
    /\ \A s, off, role :
          Worker!tidReplaceTid(s, off, role) = tidReplaceTid(s, off, role)
    /\ \A s : Worker!checkTidTbl(s) = checkTidTbl(s)
    /\ \A s, role : Worker!clear(s, role) = clear(s, role)
<1>1. Worker!NoVal = NoVal
  BY DEF Worker!NoVal, NoVal
<1>2. \A t : Worker!Slot(t) = Slot(t)
  BY DEF Worker!Slot, Slot
<1>3. \A off : Worker!iterOff2tidVal(off) = iterOff2tidVal(off)
  BY DEF Worker!iterOff2tidVal, iterOff2tidVal
<1>4. \A t : Worker!tidDelVal(t) = tidDelVal(t)
  BY <1>1 DEF Worker!tidDelVal, tidDelVal
<1>5. Worker!TIDDEL_FLUSHALL = TIDDEL_FLUSHALL
  BY DEF Worker!TIDDEL_FLUSHALL, TIDDEL_FLUSHALL
<1>6. \A role : Worker!isTidMaster(role) = isTidMaster(role)
  BY DEF Worker!isTidMaster, isTidMaster
<1>7. \A s, t : Worker!tid2tblBlk(s, t) = tid2tblBlk(s, t)
  BY DEF Worker!tid2tblBlk, tid2tblBlk
<1>8. \A s, b : Worker!growTidTbl(s, b) = growTidTbl(s, b)
  BY <1>1 DEF Worker!growTidTbl, growTidTbl
<1>9. \A s, t : Worker!NeedsBlk(s, t) = NeedsBlk(s, t)
  BY DEF Worker!NeedsBlk, NeedsBlk
<1>10. \A s, t : Worker!InSeq(s, t) = InSeq(s, t)
  BY DEF Worker!InSeq, InSeq
<1>11. \A s, t : Worker!NewTid(s, t) = NewTid(s, t)
  BY DEF Worker!NewTid, NewTid
<1>12. \A s, t : Worker!HasRoom(s, t) = HasRoom(s, t)
  BY <1>9 DEF Worker!HasRoom, HasRoom
<1>13. \A s, t : Worker!setTidTblEntOk(s, t) = setTidTblEntOk(s, t)
  BY <1>10, <1>12, <1>11 DEF Worker!setTidTblEntOk, setTidTblEntOk
<1>14. \A s, v, t : Worker!StoreVal(s, v, t) = StoreVal(s, v, t)
  BY <1>2 DEF Worker!StoreVal, StoreVal
<1>15. \A s, v, t : Worker!setTidTblEnt(s, v, t) = setTidTblEnt(s, v, t)
  BY <1>11, <1>9, <1>8, <1>2, <1>10, <1>12, <1>14 DEF Worker!setTidTblEnt, setTidTblEnt
<1>16. \A s, t : Worker!clrTidTblEnt(s, t) = clrTidTblEnt(s, t)
  BY <1>7, <1>2, <1>1 DEF Worker!clrTidTblEnt, clrTidTblEnt
<1>17. \A s : Worker!checkTidTbl(s) = checkTidTbl(s)
  BY <1>9, <1>8, <1>2 DEF Worker!checkTidTbl, checkTidTbl
<1>18. \A s, off, t : Worker!linkTid(s, off, t) = linkTid(s, off, t)
  BY <1>15, <1>3, <1>13, <1>11 DEF Worker!linkTid, linkTid
<1>19. \A s, t, role : Worker!unlinkTid(s, t, role) = unlinkTid(s, t, role)
  BY <1>16, <1>6, <1>15, <1>4 DEF Worker!unlinkTid, unlinkTid
<1>20. \A s, off, role : Worker!eraseIterCb(s, off, role) = eraseIterCb(s, off, role)
  BY <1>19 DEF Worker!eraseIterCb, eraseIterCb
<1>21. \A s, off, role : Worker!updateIterCb(s, off, role) = updateIterCb(s, off, role)
  BY <1>18, <1>20 DEF Worker!updateIterCb, updateIterCb
<1>22. \A s, k, v, off, w :
      Worker!insertCopy2(s, k, v, off, w) = insertCopy2(s, k, v, off, w)
  BY DEF Worker!insertCopy2, insertCopy2
<1>23. \A s, k, v, off, w : Worker!insert2(s, k, v, off, w) = insert2(s, k, v, off, w)
  BY <1>18, <1>22 DEF Worker!insert2, insert2
<1>24. \A s, off, role :
      Worker!eraseIteratorHelper(s, off, role) = eraseIteratorHelper(s, off, role)
  BY <1>20 DEF Worker!eraseIteratorHelper, eraseIteratorHelper
<1>25. \A s, off, v, role :
      Worker!doSetInPlace(s, off, v, role) = doSetInPlace(s, off, v, role)
  BY <1>21 DEF Worker!doSetInPlace, doSetInPlace
<1>26. \A s, off, v, new, w, role :
      Worker!doSetRealloc(s, off, v, new, w, role) = doSetRealloc(s, off, v, new, w, role)
  BY <1>23, <1>24 DEF Worker!doSetRealloc, doSetRealloc
<1>27. \A s, off, v, new, w, role :
      Worker!iterGrowValue(s, off, v, new, w, role) = iterGrowValue(s, off, v, new, w, role)
  BY <1>22, <1>18, <1>24 DEF Worker!iterGrowValue, iterGrowValue
<1>28. \A s, off, role :
      Worker!tidReplaceTid(s, off, role) = tidReplaceTid(s, off, role)
  BY <1>18, <1>19 DEF Worker!tidReplaceTid, tidReplaceTid
<1>29. \A s, role : Worker!clrTidTbl(s, role) = clrTidTbl(s, role)
  BY <1>6, <1>15, <1>5 DEF Worker!clrTidTbl, clrTidTbl
<1>30. \A s, role : Worker!clear(s, role) = clear(s, role)
  BY <1>29 DEF Worker!clear, clear
<1>31. \A s, k : Worker!find2(s, k) = find2(s, k)
  BY DEF Worker!find2, find2
<1>32. \A s : Worker!Free(s) = Free(s)
  BY DEF Worker!Free, Free
<1> QED
  BY <1>31, <1>32, <1>23, <1>25, <1>26, <1>27, <1>24, <1>28, <1>17, <1>30

(* Commands of the workers and batches of bcastNewTidData. *)
LEMMA CmdContinues ==
    ASSUME Good(master),
           \/ \E k \in Keys, v \in Vals :
                 \/ Worker!CmdInsert(k, v) \/ Worker!CmdUpdateInPlace(k, v)
                 \/ Worker!CmdUpdateRealloc(k, v) \/ Worker!CmdGrow(k, v)
           \/ \E k \in Keys : Worker!CmdErase(k) \/ Worker!CmdTouch(k)
           \/ \E off \in Offs : Worker!TrimRound(off)
           \/ Worker!CmdFlush
    PROVE  Continues(master, master')
<1>1. master.live \subseteq Offs
  BY DEF Good, Struct, Slices
<1>2. ASSUME NEW k \in Keys, NEW v \in Vals, Worker!CmdInsert(k, v)
      PROVE  Continues(master, master')
  <2>1. PICK off \in Free(master) \cup {0}, w \in LinkWords :
          master' = insert2(master, k, v, off, w)
    BY <1>2, SameOps DEF Worker!CmdInsert, Worker!Allocs
  <2> QED
    BY <2>1, Insert2Continues DEF Free
<1>3. ASSUME NEW k \in Keys, NEW v \in Vals, Worker!CmdUpdateInPlace(k, v)
      PROVE  Continues(master, master')
  <2>1. PICK off \in master.live :
          master' = doSetInPlace(master, off, v, "master")
    BY <1>3, SameOps DEF Worker!CmdUpdateInPlace, find2
  <2> QED
    BY <2>1, InPlace
<1>4. ASSUME NEW k \in Keys, NEW v \in Vals, Worker!CmdUpdateRealloc(k, v)
      PROVE  Continues(master, master')
  <2>1. PICK off \in master.live :
          \E new \in Free(master) \cup {0} \cup {off}, w \in LinkWords :
            master' = doSetRealloc(master, off, v, new, w, "master")
    BY <1>4, SameOps DEF Worker!CmdUpdateRealloc, find2, Worker!Allocs
  <2> QED
    BY <2>1, Realloc
<1>5. ASSUME NEW k \in Keys, NEW v \in Vals, Worker!CmdGrow(k, v)
      PROVE  Continues(master, master')
  <2>1. PICK off \in master.live, new \in Free(master) \cup {0}, w \in LinkWords :
          master' = iterGrowValue(master, off, v, new, w, "master")
    BY <1>5, SameOps DEF Worker!CmdGrow, find2, Worker!Allocs
  <2> QED
    BY <2>1, Grow
<1>6. ASSUME NEW k \in Keys, Worker!CmdErase(k)
      PROVE  Continues(master, master')
  <2>1. PICK off \in master.live :
          master' = eraseIteratorHelper(master, off, "master")
    BY <1>6, SameOps DEF Worker!CmdErase, find2
  <2> QED
    BY <1>1, <2>1, EraseContinues
<1>7. ASSUME NEW k \in Keys, Worker!CmdTouch(k)
      PROVE  Continues(master, master')
  <2>1. PICK off \in master.live : master' = tidReplaceTid(master, off, "master")
    BY <1>7, SameOps DEF Worker!CmdTouch, find2
  <2> QED
    BY <2>1, ReplaceTid
<1>8. ASSUME NEW off \in Offs, Worker!TrimRound(off)
      PROVE  Continues(master, master')
  BY <1>8, SameOps, Trim DEF Worker!TrimRound
<1>9. ASSUME Worker!CmdFlush
      PROVE  Continues(master, master')
  BY <1>9, SameOps, ClearSlice DEF Worker!CmdFlush
<1> QED
  BY <1>2, <1>3, <1>4, <1>5, <1>6, <1>7, <1>8, <1>9

(* A batch or the end of one that is received. *)
LEMMA ApplyContinues ==
    ASSUME Good(slave), NEW batch \in Seq(Packets), Apply(batch)
    PROVE  Continues(slave, slave')
<1>1. PICK how : slave' = tidSetItems(slave, batch, how, ReplRole)
  BY DEF Apply
<1> QED
  BY <1>1, BatchContinues

(* Taking the first message of a queue. *)
LEMMA HeadOf ==
    ASSUME NEW S, NEW q \in Seq(S), q # << >>
    PROVE  Head(q) \in S /\ Tail(q) \in Seq(S)
OBVIOUS

(* No step of any process breaks a slice or goes back in one. *)
LEMMA StepContinues ==
    ASSUME SlicesOk, TypeRest, Next
    PROVE  Continues(master, master') /\ Continues(slave, slave')
<1>1. Good(master) /\ NoneAhead(master) /\ Good(slave) /\ bcast.tid \in Nat
  BY DEF SlicesOk, TypeRest
<1>2. ASSUME UNCHANGED master PROVE Continues(master, master')
  BY <1>1, <1>2, SelfContinues
<1>3. ASSUME UNCHANGED slave PROVE Continues(slave, slave')
  BY <1>1, <1>3, SelfContinues
<1>4. ASSUME NEW w \in Workers, StoreCmd(w)
      PROVE  Continues(master, master') /\ UNCHANGED slave
  BY <1>1, <1>4, CmdContinues DEF StoreCmd, WorkerUnchanged
<1>5. ASSUME NEW w \in Workers, OtherCmd(w)
      PROVE  Continues(master, master') /\ UNCHANGED slave
  BY <1>1, <1>5, CmdContinues DEF OtherCmd, WorkerUnchanged
<1>6. ASSUME SilentErase
      PROVE  Continues(master, master') /\ UNCHANGED slave
  BY <1>1, <1>6, CmdContinues DEF SilentErase, WorkerUnchanged
<1>7. ASSUME NEW expired \in SUBSET master.live, bcastBatch(expired)
      PROVE  Continues(master, master') /\ UNCHANGED slave
  <2>1. /\ master' = tidGetNxtItems(master, bcast.tid, expired).s
        /\ UNCHANGED slave
    BY <1>7 DEF bcastBatch
  <2> QED
    BY <1>1, <2>1, BatchSent
<1>8. ASSUME handleUpdate
      PROVE  Continues(slave, slave') /\ UNCHANGED master
  <2>1. Head(updates) \in Seq(Packets)
    BY <1>8, HeadOf DEF handleUpdate, TypeRest, Batches
  <2> QED
    BY <1>1, <1>8, <2>1, ApplyContinues DEF handleUpdate
<1>9. ASSUME handleFsync
      PROVE  Continues(slave, slave') /\ UNCHANGED master
  <2>1. Head(fsync) \in Batches \cup {BothDone} /\ UNCHANGED master
    BY <1>9, HeadOf DEF handleFsync, TypeRest
  <2>2. CASE Head(fsync) = BothDone
    BY <1>3, <1>9, <2>1, <2>2 DEF handleFsync
  <2>3. CASE Head(fsync) # BothDone
    <3>1. Head(fsync) \in Seq(Packets) /\ Apply(Head(fsync))
      BY <1>9, <2>1, <2>3 DEF handleFsync, Batches
    <3> QED
      BY <1>1, <2>1, <3>1, ApplyContinues
  <2> QED
    BY <2>2, <2>3
<1>10. ASSUME \/ \E w \in Workers : \/ recvConnChange(w) \/ recvCachedNotify(w)
                                     \/ UsockSvrRecycle(w)
              \/ svrHandleClientPingStatus \/ bcastReturn \/ sockClientPingSvrStatus
              \/ Disconnect \/ Reconnect \/ UsockAccept
       PROVE  UNCHANGED << master, slave >>
  BY <1>10 DEF recvConnChange, recvCachedNotify, UsockSvrRecycle,
               svrHandleClientPingStatus, bcastReturn, sockClientPingSvrStatus,
               Disconnect, Reconnect, UsockAccept
<1> QED
  BY <1>2, <1>3, <1>4, <1>5, <1>6, <1>7, <1>8, <1>9, <1>10 DEF Next

-----------------------------------------------------------------------------
(* Types. *)

(* Concatenation with at most one message. *)
LEMMA ConcatOne ==
    ASSUME NEW S, NEW q \in Seq(S), NEW e \in S
    PROVE  /\ q \o << >> = q
           /\ q \o << e >> \in Seq(S) /\ q \o << e >> = Append(q, e)
OBVIOUS

(* A message of bcastNewTidData is a batch. *)
LEMMA MessageIsBatch ==
    ASSUME NEW r, r.pkts \in Seq(Packets), Len(r.pkts) <= BatchMax, r.pkts # << >>
    PROVE  r.pkts \in Batches
<1>1. Len(r.pkts) \in Nat /\ Len(r.pkts) # 0
  OBVIOUS
<1> QED
  BY <1>1, BatchMaxAssumption DEF Batches

(* What one batch of bcastNewTidData does to the two connections. *)
Extends(q, u, r) == u = q \/ (r.pkts # << >> /\ u = Append(q, r.pkts))

(* A batch of bcastNewTidData goes to one of the connections, or is not sent. *)
LEMMA BatchMessages ==
    ASSUME SlicesOk, TypeRest, NEW expired \in SUBSET master.live, bcastBatch(expired)
    PROVE  \E r : /\ r = tidGetNxtItems(master, bcast.tid, expired) /\ master' = r.s
                  /\ Continues(master, r.s) /\ r.pkts \in Seq(Packets) /\ r.last \in Nat
                  /\ Len(r.pkts) <= BatchMax
                  /\ \A i \in 1 .. Len(r.pkts) : Sent(r.s, r.pkts[i])
                  /\ Extends(updates, updates', r) /\ Extends(fsync, fsync', r)
<1> DEFINE r == tidGetNxtItems(master, bcast.tid, expired)
<1>1. /\ master' = r.s
      /\ updates' = IF bcast.caller = "notify"
                    THEN updates \o (IF linkUp /\ r.pkts # << >> THEN << r.pkts >>
                                     ELSE << >>)
                    ELSE updates
      /\ fsync' = IF bcast.caller = "ping"
                  THEN fsync \o (IF linkUp /\ r.pkts # << >> THEN << r.pkts >>
                                 ELSE << >>)
                  ELSE fsync
  BY DEF bcastBatch
<1>2. /\ Continues(master, r.s) /\ r.pkts \in Seq(Packets) /\ r.last \in Nat
      /\ Len(r.pkts) <= BatchMax
      /\ \A i \in 1 .. Len(r.pkts) : Sent(r.s, r.pkts[i])
  BY BatchSent DEF SlicesOk, TypeRest
<1> HIDE DEF r
<1>3. updates \in Seq(Batches) /\ fsync \in Seq(Batches \cup {BothDone})
  BY DEF TypeRest
<1>4. CASE linkUp /\ r.pkts # << >>
  <2>1. r.pkts \in Batches
    BY <1>2, <1>4, MessageIsBatch
  <2>2. /\ updates \o << r.pkts >> = Append(updates, r.pkts)
        /\ fsync \o << r.pkts >> = Append(fsync, r.pkts)
    BY <1>3, <2>1, ConcatOne
  <2>3. Extends(updates, updates', r) /\ Extends(fsync, fsync', r)
    BY <1>1, <1>4, <2>2 DEF Extends
  <2> QED
    BY <1>1, <1>2, <2>3 DEF r
<1>5. CASE ~(linkUp /\ r.pkts # << >>)
  <2>1. updates \o << >> = updates /\ fsync \o << >> = fsync
    BY <1>3
  <2>2. Extends(updates, updates', r) /\ Extends(fsync, fsync', r)
    BY <1>1, <1>5, <2>1 DEF Extends
  <2> QED
    BY <1>1, <1>2, <2>2 DEF r
<1> QED
  BY <1>4, <1>5

(* A node's messages and counters keep their types. *)
LEMMA TypeStep ==
    ASSUME SlicesOk, TypeRest, Next
    PROVE  TypeRest'
<1>1. master.tid \in Nat /\ slave.tid \in Nat
  BY DEF SlicesOk, Good, Struct, Slices
<1>2. 0 \in 0 .. MaxLoop /\ Idle \in [caller : {"none", "notify", "ping"}, tid : Nat,
                                      loop : 0 .. MaxLoop]
  BY MaxLoopAssumption DEF Idle
<1>3. ASSUME NEW w \in Workers, cachedNotifyData(w) PROVE notes' \in [Workers -> Nat]
  BY <1>3 DEF cachedNotifyData, TypeRest
<1>4. ASSUME WorkerUnchanged, notes' \in [Workers -> Nat] PROVE TypeRest'
  BY <1>4 DEF WorkerUnchanged, TypeRest
<1>5. ASSUME NEW w \in Workers, StoreCmd(w) PROVE TypeRest'
  <2>1. WorkerUnchanged /\ notes' \in [Workers -> Nat]
    BY <1>3, <1>5 DEF StoreCmd, TypeRest
  <2> QED
    BY <1>4, <2>1
<1>6. ASSUME NEW w \in Workers, OtherCmd(w) PROVE TypeRest'
  BY <1>3, <1>4, <1>6 DEF OtherCmd
<1>7. ASSUME SilentErase PROVE TypeRest'
  <2>1. WorkerUnchanged /\ notes' \in [Workers -> Nat]
    BY <1>7 DEF SilentErase, TypeRest
  <2> QED
    BY <1>4, <2>1
<1>8. ASSUME NEW w \in Workers, recvConnChange(w) PROVE TypeRest'
  <2>1. connMsgs[w] \in Seq(BOOLEAN) /\ connMsgs[w] # << >>
    BY <1>8 DEF recvConnChange, TypeRest
  <2>2. Head(connMsgs[w]) \in BOOLEAN /\ Tail(connMsgs[w]) \in Seq(BOOLEAN)
    BY <2>1, HeadOf
  <2>3. notifyRepld' \in [Workers -> BOOLEAN] /\ connMsgs' \in [Workers -> Seq(BOOLEAN)]
    BY <1>8, <2>2 DEF recvConnChange, TypeRest
  <2> QED
    BY <1>8, <2>3 DEF recvConnChange, TypeRest
<1>9. ASSUME NEW w \in Workers, recvCachedNotify(w) PROVE TypeRest'
  <2>1. notes' \in [Workers -> Nat]
    BY <1>9 DEF recvCachedNotify, TypeRest
  <2>2. tracker # NoTracker => tracker \in Nat
    BY DEF TypeRest
  <2>3. bcast' \in [caller : {"none", "notify", "ping"}, tid : Nat, loop : 0 .. MaxLoop]
    BY <1>2, <1>9, <2>2 DEF recvCachedNotify
  <2> QED
    BY <1>9, <2>1, <2>3 DEF recvCachedNotify, TypeRest
<1>10. ASSUME NEW w \in Workers, UsockSvrRecycle(w) PROVE TypeRest'
  <2>1. /\ notifyRepld' \in [Workers -> BOOLEAN] /\ notes' \in [Workers -> Nat]
        /\ connMsgs' \in [Workers -> Seq(BOOLEAN)]
    BY <1>10 DEF UsockSvrRecycle, TypeRest
  <2>2. faults' \in 0 .. MaxFaults /\ tracker' \in Nat \cup {NoTracker}
    BY <1>10, MaxFaultsAssumption DEF UsockSvrRecycle, TypeRest
  <2> QED
    BY <1>10, <2>1, <2>2 DEF UsockSvrRecycle, TypeRest
<1>11. ASSUME svrHandleClientPingStatus PROVE TypeRest'
  <2>1. /\ Head(pings) \in [tid : Nat, didFsync : BOOLEAN]
        /\ pings' \in Seq([tid : Nat, didFsync : BOOLEAN])
    BY <1>11, HeadOf DEF svrHandleClientPingStatus, TypeRest
  <2>2. bcast' \in [caller : {"none", "notify", "ping"}, tid : Nat, loop : 0 .. MaxLoop]
    BY <1>2, <1>11, <2>1 DEF svrHandleClientPingStatus
  <2> QED
    BY <1>11, <2>1, <2>2 DEF svrHandleClientPingStatus, TypeRest
<1>12. ASSUME NEW expired \in SUBSET master.live, bcastBatch(expired) PROVE TypeRest'
  <2>1. PICK r : /\ r = tidGetNxtItems(master, bcast.tid, expired)
                 /\ r.pkts \in Seq(Packets) /\ r.last \in Nat
                 /\ Len(r.pkts) <= BatchMax
                 /\ Extends(updates, updates', r) /\ Extends(fsync, fsync', r)
    BY <1>12, BatchMessages
  <2>2. updates \in Seq(Batches) /\ fsync \in Seq(Batches \cup {BothDone})
    BY DEF TypeRest
  <2>3. r.pkts # << >> => r.pkts \in Batches
    BY <2>1, MessageIsBatch
  <2>4. updates' \in Seq(Batches) /\ fsync' \in Seq(Batches \cup {BothDone})
    <3>1. CASE r.pkts = << >>
      BY <2>1, <2>2, <3>1 DEF Extends
    <3>2. CASE r.pkts # << >>
      <4>1. PICK e \in Batches : e = r.pkts
        BY <2>3, <3>2
      <4>2. Append(updates, e) \in Seq(Batches)
        BY <2>2
      <4>3. Append(fsync, e) \in Seq(Batches \cup {BothDone})
        BY <2>2
      <4> QED
        BY <2>1, <2>2, <4>1, <4>2, <4>3 DEF Extends
    <3> QED
      BY <3>1, <3>2
  <2>5. PICK n : /\ bcast' = [bcast EXCEPT !.tid = r.last, !.loop = n]
                 /\ n \in {MaxLoop, bcast.loop + 1} /\ bcast.loop < MaxLoop
    BY <1>12, <2>1 DEF bcastBatch
  <2>6. bcast \in [caller : {"none", "notify", "ping"}, tid : Nat, loop : 0 .. MaxLoop]
    BY DEF TypeRest
  <2>7. n \in 0 .. MaxLoop
    BY <2>5, <2>6, MaxLoopAssumption
  <2>8. bcast' \in [caller : {"none", "notify", "ping"}, tid : Nat, loop : 0 .. MaxLoop]
    BY <2>1, <2>5, <2>6, <2>7
  <2> QED
    BY <1>12, <2>4, <2>8 DEF bcastBatch, TypeRest
<1>13. ASSUME bcastReturn PROVE TypeRest'
  <2>1. tracker' \in Nat \cup {NoTracker}
    BY <1>13 DEF bcastReturn, TypeRest
  <2>2. fsync' \in Seq(Batches \cup {BothDone})
    BY <1>13 DEF bcastReturn, TypeRest
  <2> QED
    BY <1>2, <1>13, <2>1, <2>2 DEF bcastReturn, TypeRest
<1>14. ASSUME sockClientPingSvrStatus PROVE TypeRest'
  <2>1. pings' \in Seq([tid : Nat, didFsync : BOOLEAN])
    BY <1>1, <1>14 DEF sockClientPingSvrStatus, TypeRest
  <2> QED
    BY <1>14, <2>1 DEF sockClientPingSvrStatus, TypeRest
<1>15. ASSUME handleUpdate PROVE TypeRest'
  <2>1. updates' \in Seq(Batches)
    BY <1>15, HeadOf DEF handleUpdate, TypeRest
  <2> QED
    BY <1>15, <2>1 DEF handleUpdate, TypeRest
<1>16. ASSUME handleFsync PROVE TypeRest'
  <2>1. fsync' \in Seq(Batches \cup {BothDone}) /\ didFsync' \in BOOLEAN
    BY <1>16, HeadOf DEF handleFsync, TypeRest
  <2> QED
    BY <1>16, <2>1 DEF handleFsync, TypeRest
<1>17. ASSUME NEW up \in BOOLEAN PROVE repldNotifyConn(up) \in [Workers -> Seq(BOOLEAN)]
  BY DEF repldNotifyConn, TypeRest
<1>18. ASSUME Disconnect PROVE TypeRest'
  <2>1. connMsgs' \in [Workers -> Seq(BOOLEAN)]
    BY <1>17, <1>18 DEF Disconnect
  <2>2. faults' \in 0 .. MaxFaults
    BY <1>18, MaxFaultsAssumption DEF Disconnect, TypeRest
  <2> QED
    <3>1. updates' \in Seq(Batches) /\ fsync' \in Seq(Batches \cup {BothDone})
      BY <1>18 DEF Disconnect
    <3>2. pings' \in Seq([tid : Nat, didFsync : BOOLEAN])
      BY <1>18 DEF Disconnect
    <3> QED
      BY <1>18, <2>1, <2>2, <3>1, <3>2 DEF Disconnect, TypeRest
<1>19. ASSUME Reconnect PROVE TypeRest'
  <2>1. connMsgs' \in [Workers -> Seq(BOOLEAN)]
    BY <1>17, <1>19 DEF Reconnect
  <2> QED
    BY <1>19, <2>1 DEF Reconnect, TypeRest
<1>20. ASSUME UsockAccept PROVE TypeRest'
  BY <1>1, <1>20 DEF UsockAccept, TypeRest
<1> QED
  BY <1>5, <1>6, <1>7, <1>8, <1>9, <1>10, <1>11, <1>12, <1>13, <1>14, <1>15, <1>16,
     <1>18, <1>19, <1>20 DEF Next

-----------------------------------------------------------------------------
(* The invariant of the two slices. *)

Base == SlicesOk /\ TypeRest

(* Both slices start empty, with nothing in flight. *)
LEMMA InitBase ==
    ASSUME Init
    PROVE  Base /\ master = slave /\ master.blks = << >> /\ updates = << >> /\ fsync = << >>
<1>1. PICK k \in Keys, v \in Vals : master = InitSlice(k, v) /\ slave = InitSlice(k, v)
  BY DEF Init
<1>2. Good(master) /\ master.blks = << >> /\ slave = master
  BY <1>1, InitGood DEF InitSlice
<1>3. NoneAhead(master)
  BY <1>2 DEF NoneAhead
<1>4. bcast \in [caller : {"none", "notify", "ping"}, tid : Nat, loop : 0 .. MaxLoop]
  BY MaxLoopAssumption DEF Init, Idle
<1>5. faults \in 0 .. MaxFaults
  BY MaxFaultsAssumption DEF Init
<1>6. /\ updates \in Seq(Batches) /\ fsync \in Seq(Batches \cup {BothDone})
      /\ pings \in Seq([tid : Nat, didFsync : BOOLEAN])
      /\ connMsgs \in [Workers -> Seq(BOOLEAN)] /\ notes \in [Workers -> Nat]
  BY DEF Init
<1>7. notifyRepld \in [Workers -> BOOLEAN] /\ linkUp \in BOOLEAN
  BY DEF Init
<1>8. didFsync \in BOOLEAN
  BY Zenon DEF Init
<1>9. tracker \in Nat \cup {NoTracker}
  BY DEF Init
<1>10. TypeRest
  BY <1>4, <1>5, <1>6, <1>7, <1>8, <1>9 DEF TypeRest
<1> QED
  BY <1>2, <1>3, <1>10 DEF Base, SlicesOk, Init

(* Every step preserves the types and the structure of both slices. *)
LEMMA BaseStep ==
    ASSUME Base, [Next]_vars
    PROVE  Base'
<1>1. CASE Next
  <2>1. Continues(master, master') /\ Continues(slave, slave') /\ TypeRest'
    BY <1>1, StepContinues, TypeStep DEF Base
  <2> QED
    BY <2>1 DEF Base, SlicesOk, Continues, Follows, KeepsBehind
<1>2. CASE UNCHANGED vars
  BY <1>2 DEF vars, Base, SlicesOk, TypeRest
<1> QED
  BY <1>1, <1>2

(* Types and the structure of the tid tables hold on both nodes throughout. *)
THEOREM BaseHolds == Spec => []Base
<1>1. Init => Base
  BY InitBase
<1>2. Base /\ [Next]_vars => Base'
  BY BaseStep
<1> QED
  BY <1>1, <1>2, PTL DEF Spec

(* Both copies of the slice, and everything on its way between the two nodes,
   has its type, and no batch exceeds the send buffer: whatever is lost, for
   every number of workers and every bound. *)
THEOREM ReplTypeCorrect == Spec => []TypeOK
<1>1. Base => TypeOK
  BY DEF Base, SlicesOk, TypeRest, TypeOK, Good, Struct
<1> QED
  BY <1>1, BaseHolds, PTL

(* No batch that the slave's repld replays (tidSetItems) leaves an entry on a
   released element, even when it runs out of memory half-way. *)
THEOREM SlaveEntriesAreLive == Spec => []SlaveEntriesLive
<1>1. Base => SlaveEntriesLive
  BY GoodIsLive DEF Base, SlicesOk, SlaveEntriesLive
<1> QED
  BY <1>1, BaseHolds, PTL

(* On neither node does a step of any process take a tid back, or record a tid
   that was handed out under another value than before. *)
NodesAppendOnly ==
    [][/\ master.tid <= master'.tid /\ HistoryKept(master, master')
       /\ slave.tid <= slave'.tid /\ HistoryKept(slave, slave')]_vars

(* The tid tables of both nodes (setTidTblEnt) only ever grow at the end. *)
THEOREM HistoryOfBothNodes == Spec => NodesAppendOnly
<1>1. Base /\ [Next]_vars
      => [/\ master.tid <= master'.tid /\ HistoryKept(master, master')
          /\ slave.tid <= slave'.tid /\ HistoryKept(slave, slave')]_vars
  <2> SUFFICES ASSUME Base, Next
               PROVE  /\ master.tid <= master'.tid /\ HistoryKept(master, master')
                      /\ slave.tid <= slave'.tid /\ HistoryKept(slave, slave')
    OBVIOUS
  <2>1. Continues(master, master') /\ Continues(slave, slave')
    BY StepContinues DEF Base
  <2>2. /\ master.tid \in Nat /\ slave.tid \in Nat
        /\ master'.tid \in Nat /\ slave'.tid \in Nat
    BY <2>1 DEF Base, SlicesOk, Continues, Follows, Good, Struct, Slices
  <2> QED
    BY <2>1, <2>2 DEF Continues, Follows
<1> QED
  BY <1>1, BaseHolds, PTL DEF Spec, NodesAppendOnly

-----------------------------------------------------------------------------
(* Agreement: everything in flight was sent by the master, in its present state
   or an earlier one, and the slave is behind the master and like it. *)

AllSent(m, q) ==
    \A i \in 1 .. Len(q) : \A j \in 1 .. Len(q[i]) : Sent(m, q[i][j])

(* What is in flight stays right when the master moves on. *)
LEMMA AllSentOn ==
    ASSUME NEW s, NEW u, Good(s), Continues(s, u), NEW q, AllSent(s, q)
    PROVE  AllSent(u, q)
BY SentOn DEF AllSent

(* The first message is taken from a connection. *)
LEMMA AllSentTail ==
    ASSUME NEW S, NEW q \in Seq(S), q # << >>, NEW m, AllSent(m, q)
    PROVE  /\ AllSent(m, Tail(q))
           /\ \A j \in 1 .. Len(Head(q)) : Sent(m, Head(q)[j])
<1>1. Len(q) \in Nat /\ 1 \in 1 .. Len(q) /\ Head(q) = q[1]
  OBVIOUS
<1>2. Len(Tail(q)) = Len(q) - 1 /\ \A i \in 1 .. Len(q) - 1 : Tail(q)[i] = q[i + 1]
  OBVIOUS
<1>3. ASSUME NEW i \in 1 .. Len(Tail(q)), NEW j \in 1 .. Len(Tail(q)[i])
      PROVE  Sent(m, Tail(q)[i][j])
  <2>1. i + 1 \in 1 .. Len(q) /\ Tail(q)[i] = q[i + 1]
    BY <1>1, <1>2
  <2> QED
    BY <2>1 DEF AllSent
<1> QED
  BY <1>1, <1>3 DEF AllSent

(* A message is put on a connection. *)
LEMMA AllSentAppend ==
    ASSUME NEW S, NEW q \in Seq(S), NEW e \in S, NEW m, AllSent(m, q),
           \A j \in 1 .. Len(e) : Sent(m, e[j]), NEW u, u = Append(q, e)
    PROVE  AllSent(m, u)
<1>1. /\ Len(u) = Len(q) + 1 /\ Len(q) \in Nat /\ u[Len(u)] = e
      /\ \A j \in 1 .. Len(q) : u[j] = q[j]
  BY AppendAt
<1>2. ASSUME NEW i \in 1 .. Len(u), NEW j \in 1 .. Len(u[i])
      PROVE  Sent(m, u[i][j])
  <2>1. CASE i \in 1 .. Len(q)
    BY <1>1, <2>1 DEF AllSent
  <2>2. CASE i = Len(u)
    BY <1>1, <2>2
  <2> QED
    BY <1>1, <2>1, <2>2
<1> QED
  BY <1>2 DEF AllSent

(* The master moves on; the slave stays behind it. *)
LEMMA BehindOn ==
    ASSUME NEW m, NEW u, NEW s, Good(m), Continues(m, u), Behind(m, s)
    PROVE  Behind(u, s)
<1>1. s.tid \in Nat /\ m.tid \in Nat /\ u.tid \in Nat /\ m.tid <= u.tid
  BY DEF Behind, Continues, Follows, Good, Struct, Slices
<1>2. Struct(s) /\ NoneAhead(s) /\ s.tid <= m.tid /\ Alike(m, s)
  BY DEF Behind, Good
<1>3. Alike(u, s)
  BY <1>2, AlikeMaster
<1>4. s.tid <= u.tid
  BY <1>1, <1>2
<1> QED
  BY <1>3, <1>4 DEF Behind

Agreement ==
    AllSent(master, updates) /\ AllSent(master, fsync) /\ Behind(master, slave)

(* Steps of the workers and the other steps that leave the connections alone. *)
LEMMA MasterStep ==
    ASSUME Good(master), Agreement, Continues(master, master'),
           UNCHANGED << slave, updates, fsync >>
    PROVE  Agreement'
<1>1. AllSent(master', updates) /\ AllSent(master', fsync)
  BY AllSentOn DEF Agreement
<1>2. Behind(master', slave)
  BY BehindOn DEF Agreement
<1> QED
  BY <1>1, <1>2 DEF Agreement

(* A batch that bcastNewTidData sends. *)
LEMMA SendStep ==
    ASSUME Base, Agreement, NEW expired \in SUBSET master.live, bcastBatch(expired)
    PROVE  Agreement'
<1>1. PICK r : /\ master' = r.s /\ Continues(master, r.s) /\ r.pkts \in Seq(Packets)
               /\ Len(r.pkts) <= BatchMax
               /\ \A i \in 1 .. Len(r.pkts) : Sent(r.s, r.pkts[i])
               /\ Extends(updates, updates', r) /\ Extends(fsync, fsync', r)
  BY BatchMessages DEF Base
<1>2. Good(master) /\ Continues(master, master') /\ UNCHANGED slave
  BY <1>1 DEF Base, SlicesOk, bcastBatch
<1>3. AllSent(master', updates) /\ AllSent(master', fsync) /\ Behind(master', slave)
  BY <1>2, AllSentOn, BehindOn DEF Agreement
<1>4. ASSUME NEW q, NEW u, q \in Seq(Batches \cup {BothDone}), AllSent(master', q),
             Extends(q, u, r)
      PROVE  AllSent(master', u)
  <2>1. CASE u = q
    BY <1>4, <2>1
  <2>2. CASE r.pkts # << >> /\ u = Append(q, r.pkts)
    <3>1. PICK e \in Batches \cup {BothDone} : e = r.pkts
      BY <1>1, <2>2, MessageIsBatch
    <3>2. \A j \in 1 .. Len(e) : Sent(master', e[j])
      BY <1>1, <3>1
    <3> QED
      BY <1>4, <2>2, <3>1, <3>2, AllSentAppend
  <2> QED
    BY <1>4, <2>1, <2>2 DEF Extends
<1>5. /\ updates \in Seq(Batches \cup {BothDone})
      /\ fsync \in Seq(Batches \cup {BothDone})
  BY DEF Base, TypeRest
<1>6. AllSent(master', updates') /\ AllSent(master', fsync')
  BY <1>1, <1>3, <1>4, <1>5
<1> QED
  BY <1>2, <1>3, <1>6 DEF Agreement

(* A batch that the slave applies. *)
LEMMA ApplyBehind ==
    ASSUME Behind(master, slave), ReplRole = "slave", NEW batch \in Seq(Packets),
           \A j \in 1 .. Len(batch) : Sent(master, batch[j]), Apply(batch)
    PROVE  Behind(master, slave')
<1>1. PICK how : slave' = tidSetItems(slave, batch, how, ReplRole)
  BY DEF Apply
<1> QED
  BY <1>1, BatchBehind

(* Every step of either node preserves the agreement. *)
LEMMA AgreementStep ==
    ASSUME ReplRole = "slave", Base, Agreement, [Next]_vars
    PROVE  Agreement'
<1>1. /\ Good(master) /\ NoneAhead(master) /\ SlicesOk /\ TypeRest
      /\ updates \in Seq(Batches) /\ fsync \in Seq(Batches \cup {BothDone})
  BY DEF Base, SlicesOk, TypeRest
<1>2. ASSUME UNCHANGED << master, slave, updates, fsync >> PROVE Agreement'
  BY <1>2 DEF Agreement
<1>3. ASSUME NEW w \in Workers, StoreCmd(w) PROVE Agreement'
  <2>1. Next /\ UNCHANGED << slave, updates, fsync >>
    BY <1>3 DEF Next, StoreCmd, WorkerUnchanged
  <2> QED
    BY <1>1, <2>1, StepContinues, MasterStep
<1>4. ASSUME NEW w \in Workers, OtherCmd(w) PROVE Agreement'
  <2>1. Next /\ UNCHANGED << slave, updates, fsync >>
    BY <1>4 DEF Next, OtherCmd, WorkerUnchanged
  <2> QED
    BY <1>1, <2>1, StepContinues, MasterStep
<1>5. ASSUME SilentErase PROVE Agreement'
  <2>1. Next /\ UNCHANGED << slave, updates, fsync >>
    BY <1>5 DEF Next, SilentErase, WorkerUnchanged
  <2> QED
    BY <1>1, <2>1, StepContinues, MasterStep
<1>6. ASSUME NEW expired \in SUBSET master.live, bcastBatch(expired) PROVE Agreement'
  BY <1>6, SendStep
<1>7. ASSUME handleUpdate PROVE Agreement'
  <2>1. updates # << >> /\ Apply(Head(updates)) /\ updates' = Tail(updates)
        /\ UNCHANGED << master, fsync >>
    BY <1>7 DEF handleUpdate
  <2>2. /\ AllSent(master, Tail(updates))
        /\ \A j \in 1 .. Len(Head(updates)) : Sent(master, Head(updates)[j])
    BY <1>1, <2>1, AllSentTail DEF Agreement
  <2>3. Head(updates) \in Seq(Packets)
    BY <1>1, <2>1, HeadOf DEF Batches
  <2>4. Behind(master, slave')
    BY <2>1, <2>2, <2>3, ApplyBehind DEF Agreement
  <2> QED
    BY <2>1, <2>2, <2>4 DEF Agreement
<1>8. ASSUME handleFsync PROVE Agreement'
  <2>1. fsync # << >> /\ fsync' = Tail(fsync) /\ UNCHANGED << master, updates >>
    BY <1>8 DEF handleFsync
  <2>2. /\ AllSent(master, Tail(fsync))
        /\ \A j \in 1 .. Len(Head(fsync)) : Sent(master, Head(fsync)[j])
    BY <1>1, <2>1, AllSentTail DEF Agreement
  <2>3. Behind(master, slave')
    <3>1. CASE Head(fsync) = BothDone
      BY <1>8, <3>1 DEF handleFsync, Agreement
    <3>2. CASE Head(fsync) # BothDone
      <4>1. Head(fsync) \in Batches \cup {BothDone} /\ Apply(Head(fsync))
        BY <1>1, <1>8, <2>1, <3>2, HeadOf DEF handleFsync
      <4>2. Head(fsync) \in Seq(Packets)
        BY <3>2, <4>1 DEF Batches
      <4> QED
        BY <2>2, <4>1, <4>2, ApplyBehind DEF Agreement
    <3> QED
      BY <3>1, <3>2
  <2> QED
    BY <2>1, <2>2, <2>3 DEF Agreement
<1>9. ASSUME bcastReturn PROVE Agreement'
  <2>1. UNCHANGED << master, slave, updates >> /\ fsync' \in {fsync, Append(fsync, BothDone)}
    BY <1>9 DEF bcastReturn
  <2>2. PICK e \in Batches \cup {BothDone} : e = BothDone
    OBVIOUS
  <2>3. \A j \in 1 .. Len(e) : Sent(master, e[j])
    BY <2>2 DEF BothDone
  <2>4. AllSent(master, Append(fsync, BothDone))
    BY <1>1, <2>2, <2>3, AllSentAppend DEF Agreement
  <2> QED
    BY <2>1, <2>4 DEF Agreement
<1>10. ASSUME Disconnect PROVE Agreement'
  <2>1. UNCHANGED << master, slave >> /\ updates' = << >> /\ fsync' = << >>
    BY <1>10 DEF Disconnect
  <2>2. AllSent(master, << >>)
    BY DEF AllSent
  <2> QED
    BY <2>1, <2>2 DEF Agreement
<1>11. ASSUME \/ \E w \in Workers : \/ recvConnChange(w) \/ recvCachedNotify(w)
                                     \/ UsockSvrRecycle(w)
              \/ svrHandleClientPingStatus \/ sockClientPingSvrStatus
              \/ Reconnect \/ UsockAccept
       PROVE  Agreement'
  <2>1. UNCHANGED << master, slave, updates, fsync >>
    BY <1>11 DEF recvConnChange, recvCachedNotify, UsockSvrRecycle,
                 svrHandleClientPingStatus, sockClientPingSvrStatus, Reconnect,
                 UsockAccept
  <2> QED
    BY <1>2, <2>1
<1>12. ASSUME UNCHANGED vars PROVE Agreement'
  BY <1>2, <1>12 DEF vars
<1> QED
  BY <1>3, <1>4, <1>5, <1>6, <1>7, <1>8, <1>9, <1>10, <1>11, <1>12 DEF Next

(* The same slot of blocks with the same base is the same tid. *)
LEMMA AlikeIsSame ==
    ASSUME Alike(master, slave)
    PROVE  SameTransaction
<1> SUFFICES ASSUME Aligned(master), Aligned(slave),
                    NEW b \in 1 .. Len(master.blks), NEW c \in 1 .. Len(slave.blks),
                    NEW i \in 0 .. BlkSz - 1, master.blks[b].base = slave.blks[c].base,
                    EntryAt(master, b, i) # NoVal, EntryAt(slave, c, i) # NoVal
             PROVE  Transaction(master, b, i) = Transaction(slave, c, i)
  BY DEF SameTransaction
<1>1. EntryTid(master, b, i) = EntryTid(slave, c, i)
  BY DEF EntryTid
<1>2. AlikeAt(master, b, i, slave)
  BY DEF Alike, Used
<1> QED
  BY <1>1, <1>2 DEF AlikeAt, Used

(* A tid names the same transaction on both nodes: for any number of workers,
   keys and batches in flight, whatever was lost with a connection, repeated by
   a full sync or overtaken by it.  The process that applies the packets must
   hold the slice as a slave, as LcReplGroup sees to. *)
THEOREM SameTransactions ==
    ASSUME ReplRole = "slave"
    PROVE  Spec => []SameTransaction
<1>1. Init => Agreement
  <2> SUFFICES ASSUME Init PROVE Agreement
    OBVIOUS
  <2>1. /\ Good(master) /\ NoneAhead(master) /\ slave = master /\ master.blks = << >>
        /\ updates = << >> /\ fsync = << >> /\ master.tid \in Nat
    BY InitBase DEF Base, SlicesOk, Good, Struct, Slices
  <2>2. Behind(master, slave)
    BY <2>1 DEF Behind, Alike
  <2> QED
    BY <2>1, <2>2 DEF Agreement, AllSent
<1>2. Base /\ Agreement /\ [Next]_vars => Agreement'
  BY AgreementStep
<1>3. Agreement => SameTransaction
  BY AlikeIsSame DEF Agreement, Behind
<1> QED
  BY <1>1, <1>2, <1>3, BaseHolds, PTL DEF Spec

-----------------------------------------------------------------------------
(* The tid table as the set of what is recorded under which tid. *)

Rec(s, t, x) == x # NoVal /\ Recorded(s, t, x)

(* What is recorded has its type, and is not ahead of the last tid. *)
LEMMA RecType ==
    ASSUME NEW s, Struct(s), NEW t, NEW x, Rec(s, t, x)
    PROVE  t \in Nat /\ x \in TidVals /\ (NoneAhead(s) => t <= s.tid)
<1>1. PICK b \in 1 .. Len(s.blks), i \in 0 .. BlkSz - 1 :
        EntryTid(s, b, i) = t /\ EntryAt(s, b, i) = x
  BY DEF Rec, Recorded
<1>2. EntryAt(s, b, i) \in TidVals /\ EntryTid(s, b, i) \in Nat
  BY EntryType DEF Struct
<1> QED
  BY <1>1, <1>2 DEF NoneAhead, Rec

(* The table decides what is recorded. *)
LEMMA SameRec ==
    ASSUME NEW s, NEW u, u.blks = s.blks
    PROVE  \A t, x : Rec(u, t, x) <=> Rec(s, t, x)
BY DEF Rec, Recorded, EntryTid, EntryAt

(* While the index is aligned a tid has one record. *)
LEMMA OneRec ==
    ASSUME NEW s, Struct(s), Aligned(s), NEW t, NEW x, NEW y, Rec(s, t, x), Rec(s, t, y)
    PROVE  x = y
<1>1. PICK b \in 1 .. Len(s.blks), i \in 0 .. BlkSz - 1 :
        EntryTid(s, b, i) = t /\ EntryAt(s, b, i) = x
  BY DEF Rec, Recorded
<1>2. PICK c \in 1 .. Len(s.blks), j \in 0 .. BlkSz - 1 :
        EntryTid(s, c, j) = t /\ EntryAt(s, c, j) = y
  BY DEF Rec, Recorded
<1>3. b = c /\ i = j
  BY <1>1, <1>2, OneEntry
<1> QED
  BY <1>1, <1>2, <1>3

(* u is s without the record of l and with v recorded under n; nothing goes when
   l is n, which is ahead of all of s. *)
TblStep(s, u, l, n, v) ==
    \A t, x : Rec(u, t, x) <=> (Rec(s, t, x) /\ t # l) \/ (t = n /\ x = v)

(* setTidTblEnt records a value under a new tid. *)
LEMMA SetRec ==
    ASSUME NEW s, Struct(s), NoneAhead(s), NEW v \in TidVals, v # NoVal, NEW t \in Nat,
           InSeq(s, t), HasRoom(s, NewTid(s, t)), NEW u, u = setTidTblEnt(s, v, t)
    PROVE  TblStep(s, u, NewTid(s, t), NewTid(s, t), v)
<1> DEFINE n == NewTid(s, t)
<1>1. /\ Appends(s, u, v) /\ u.tid = n /\ StoresOnly(s, u, v) /\ HasRoom(s, u.tid)
      /\ s.tid \in Nat /\ n \in Nat /\ n > s.tid /\ SameBases(s, u) /\ Len(s.blks) \in Nat
      /\ Len(u.blks) \in Nat
  BY SetAt DEF Appends, NewTid, InSeq, Struct, Slices
<1> HIDE DEF n
<1>2. ASSUME NEW y, NEW x, Rec(u, y, x)
      PROVE  (Rec(s, y, x) /\ y # n) \/ (y = n /\ x = v)
  <2>1. PICK b \in 1 .. Len(u.blks), i \in 0 .. BlkSz - 1 :
          EntryTid(u, b, i) = y /\ EntryAt(u, b, i) = x
    BY <1>2 DEF Rec, Recorded
  <2>2. x # NoVal
    BY <1>2 DEF Rec
  <2>3. CASE Kept(s, u, b, i)
    <3>1. b \in 1 .. Len(s.blks) /\ EntryAt(s, b, i) = x
      BY <1>1, <2>1, <2>3 DEF Kept
    <3>2. EntryTid(s, b, i) = y
      BY <1>1, <2>1, <3>1 DEF SameBases, EntryTid
    <3>3. Rec(s, y, x)
      BY <2>2, <3>1, <3>2 DEF Rec, Recorded
    <3>4. y \in Nat /\ y <= s.tid
      BY <3>3, RecType
    <3> QED
      BY <1>1, <3>3, <3>4
  <2>4. CASE Added(s, u, v, b, i)
    BY <1>1, <2>1, <2>4 DEF Added
  <2> QED
    BY <1>1, <2>1, <2>2, <2>3, <2>4 DEF Appends
<1>3. ASSUME NEW y, NEW x, Rec(s, y, x)
      PROVE  Rec(u, y, x)
  <2>1. PICK b \in 1 .. Len(s.blks), i \in 0 .. BlkSz - 1 :
          EntryTid(s, b, i) = y /\ EntryAt(s, b, i) = x
    BY <1>3 DEF Rec, Recorded
  <2>2. y \in Nat /\ y <= s.tid
    BY <1>3, RecType
  <2>3. b \in 1 .. Len(u.blks) /\ EntryTid(u, b, i) = y
    BY <1>1, <2>1 DEF SameBases, EntryTid
  <2>4. ~Added(s, u, v, b, i)
    BY <1>1, <2>2, <2>3 DEF Added
  <2>5. EntryAt(u, b, i) = x
    BY <1>1, <2>1, <2>4 DEF StoresOnly
  <2> QED
    BY <1>3, <2>3, <2>5 DEF Rec, Recorded
<1>4. Rec(u, n, v)
  <2>1. PICK b \in 1 .. Len(u.blks), i \in 0 .. BlkSz - 1 :
          EntryAt(u, b, i) = v /\ EntryTid(u, b, i) = u.tid
    BY <1>1 DEF StoresOnly
  <2> QED
    BY <1>1, <2>1 DEF Rec, Recorded
<1> QED
  BY <1>2, <1>3, <1>4 DEF TblStep, n

(* clrTidTblEnt takes the record of a tid away that is there. *)
LEMMA ClrRec ==
    ASSUME NEW s, Struct(s), Aligned(s), NEW l, NEW z, Rec(s, l, z),
           NEW u, u = clrTidTblEnt(s, l)
    PROVE  \A t, x : Rec(u, t, x) <=> Rec(s, t, x) /\ t # l
<1>1. PICK c \in 1 .. Len(s.blks), j \in 0 .. BlkSz - 1 : EntryTid(s, c, j) = l
  BY DEF Rec, Recorded
<1>2. l \in Nat /\ tid2tblBlk(s, l) = c /\ Slot(l) = j
  BY <1>1, LookupFinds
<1>3. SameBases(s, u) /\ Len(u.blks) = Len(s.blks) /\ Cleared(s, u, l)
  BY <1>2, ClrFacts
<1>4. \A b \in 1 .. Len(s.blks), i \in 0 .. BlkSz - 1 :
        /\ EntryTid(u, b, i) = EntryTid(s, b, i)
        /\ EntryAt(u, b, i) = IF b = c /\ i = j THEN NoVal ELSE EntryAt(s, b, i)
  BY <1>2, <1>3 DEF SameBases, Cleared, EntryTid
<1>5. ASSUME NEW t, NEW x, Rec(u, t, x) PROVE Rec(s, t, x) /\ t # l
  <2>1. PICK b \in 1 .. Len(s.blks), i \in 0 .. BlkSz - 1 :
          EntryTid(u, b, i) = t /\ EntryAt(u, b, i) = x
    BY <1>3, <1>5 DEF Rec, Recorded
  <2>2. x # NoVal /\ ~(b = c /\ i = j)
    BY <1>4, <1>5, <2>1 DEF Rec
  <2>3. EntryTid(s, b, i) = t /\ EntryAt(s, b, i) = x
    BY <1>4, <2>1, <2>2
  <2>4. t # l
    BY <1>1, <2>2, <2>3, OneEntry
  <2> QED
    BY <2>2, <2>3, <2>4 DEF Rec, Recorded
<1>6. ASSUME NEW t, NEW x, Rec(s, t, x), t # l PROVE Rec(u, t, x)
  <2>1. PICK b \in 1 .. Len(s.blks), i \in 0 .. BlkSz - 1 :
          EntryTid(s, b, i) = t /\ EntryAt(s, b, i) = x
    BY <1>6 DEF Rec, Recorded
  <2>2. EntryTid(u, b, i) = t /\ EntryAt(u, b, i) = x
    BY <1>1, <1>4, <1>6, <2>1
  <2> QED
    BY <1>3, <1>6, <2>2 DEF Rec, Recorded
<1> QED
  BY <1>5, <1>6

(* Clearing one record and then writing another. *)
LEMMA ClrSet ==
    ASSUME NEW s, Struct(s), NoneAhead(s), Aligned(s), NEW l, NEW z, Rec(s, l, z),
           NEW v \in TidVals, v # NoVal, NEW t \in Nat, InSeq(s, t),
           NEW m, m = clrTidTblEnt(s, l), HasRoom(m, NewTid(s, t)),
           NEW u, u = setTidTblEnt(m, v, t)
    PROVE  TblStep(s, u, l, NewTid(s, t), v) /\ u.tid = NewTid(s, t)
<1>1. l \in Nat /\ s.tid \in Nat /\ NewTid(s, t) > s.tid /\ NewTid(s, t) \in Nat
  BY RecType DEF Struct, Slices, NewTid, InSeq
<1>2. Struct(m) /\ NoneAhead(m) /\ m.tid = s.tid
  BY <1>1, ClrStill DEF Still, KeepsBehind
<1>3. InSeq(m, t) /\ NewTid(m, t) = NewTid(s, t)
  BY <1>2 DEF InSeq, NewTid
<1>4. TblStep(m, u, NewTid(s, t), NewTid(s, t), v)
  BY <1>2, <1>3, SetRec
<1>5. \A y, x : Rec(m, y, x) <=> Rec(s, y, x) /\ y # l
  BY ClrRec
<1>6. \A y, x : Rec(s, y, x) => y # NewTid(s, t)
  <2> SUFFICES ASSUME NEW y, NEW x, Rec(s, y, x) PROVE y # NewTid(s, t)
    OBVIOUS
  <2>1. y \in Nat /\ y <= s.tid
    BY RecType
  <2> QED
    BY <1>1, <2>1
<1>7. u.tid = NewTid(s, t)
  BY <1>2, <1>3, SetAt
<1> QED
  BY <1>4, <1>5, <1>6, <1>7 DEF TblStep

-----------------------------------------------------------------------------
(* The packets that a slice stands for: what iter2tidPack and del2tidPack would
   make of the records of its table.  The packets that add are its elements. *)

PktOf(s, t, x) ==
    IF isTidValIterOff(x) THEN iter2tidPack(s, x.arg, t) ELSE del2tidPack(x, t)

Telling(x) == x # NoVal /\ x # iterOff2tidVal(0)

Log(s) ==
    {p \in Packets : \E x \in TidVals :
        Rec(s, p.tid, x) /\ Telling(x) /\ p = PktOf(s, p.tid, x)}

IsAdd(p) == p.kind = "add"

(* The packet of a record. *)
LEMMA PktType ==
    ASSUME NEW s \in Slices, NEW t \in Nat, NEW x \in TidVals, Telling(x),
           NEW p, p = PktOf(s, t, x)
    PROVE  /\ p \in Packets /\ p.tid = t
           /\ isTidValIterOff(x) =>
                 x.arg \in Offs /\ IsAdd(p) /\ p.key = s.key[x.arg] /\ p.val = s.val[x.arg]
           /\ ~isTidValIterOff(x) =>
                 p.kind = x.kind /\ p.old = x.arg /\ x.kind \in {"del", "flush"}
<1>1. CASE isTidValIterOff(x)
  <2>1. x.arg \in Offs
    BY <1>1 DEF TidVals, isTidValIterOff, Telling, iterOff2tidVal, NoVal, TIDDEL_FLUSHALL
  <2>2. p = [kind |-> "add", tid |-> t, key |-> s.key[x.arg], val |-> s.val[x.arg]]
    BY <1>1 DEF PktOf, iter2tidPack
  <2>3. s.key[x.arg] \in Keys /\ s.val[x.arg] \in Vals
    BY <2>1 DEF Slices
  <2> QED
    BY <1>1, <2>1, <2>2, <2>3 DEF Packets, AddPkts, IsAdd
<1>2. CASE ~isTidValIterOff(x)
  <2>1. p = [kind |-> x.kind, tid |-> t, old |-> x.arg]
    BY <1>2 DEF PktOf, del2tidPack
  <2>2. x.kind \in {"del", "flush"} /\ x.arg \in Nat
    BY <1>2 DEF TidVals, isTidValIterOff, Telling, NoVal, TIDDEL_FLUSHALL
  <2> QED
    BY <1>2, <2>1, <2>2 DEF Packets, DelPkts
<1> QED
  BY <1>1, <1>2

(* Every packet has a tid. *)
LEMMA PktTid ==
    ASSUME NEW p \in Packets
    PROVE  p.tid \in Nat
BY DEF Packets, AddPkts, DelPkts

(* A record is in the log. *)
LEMMA LogHas ==
    ASSUME NEW s, Struct(s), NEW t, NEW x, Rec(s, t, x), Telling(x)
    PROVE  PktOf(s, t, x) \in Log(s)
<1>1. t \in Nat /\ x \in TidVals /\ s \in Slices
  BY RecType DEF Struct
<1>2. PktOf(s, t, x) \in Packets /\ PktOf(s, t, x).tid = t
  BY <1>1, PktType
<1> QED
  BY <1>1, <1>2 DEF Log

(* The log after one record has gone and another has come. *)
LEMMA LogStep ==
    ASSUME NEW s, NEW u, Struct(s), Struct(u), NEW l, NEW n, NEW v,
           Telling(v), TblStep(s, u, l, n, v),
           \A o \in Offs : \A t : Rec(s, t, iterOff2tidVal(o)) /\ t # l => SameData(s, u, o)
    PROVE  Log(u) = {p \in Log(s) : p.tid # l} \cup {PktOf(u, n, v)}
<1>1. s \in Slices /\ u \in Slices
  BY DEF Struct
<1>2. ASSUME NEW t, NEW x, Rec(s, t, x), t # l, Telling(x)
      PROVE  PktOf(u, t, x) = PktOf(s, t, x)
  <2>1. t \in Nat /\ x \in TidVals
    BY <1>2, RecType
  <2>2. CASE isTidValIterOff(x)
    <3>1. x.arg \in Offs
      BY <1>1, <1>2, <2>1, <2>2, PktType
    <3>2. x = iterOff2tidVal(x.arg)
      BY <2>1, <2>2 DEF TidVals, isTidValIterOff, iterOff2tidVal, NoVal, TIDDEL_FLUSHALL
    <3>3. SameData(s, u, x.arg)
      BY <1>2, <3>1, <3>2
    <3> QED
      BY <2>2, <3>3 DEF PktOf, SameData, iter2tidPack
  <2>3. CASE ~isTidValIterOff(x)
    BY <2>3 DEF PktOf
  <2> QED
    BY <2>2, <2>3
<1>3. Rec(u, n, v) /\ PktOf(u, n, v) \in Log(u)
  <2>1. Rec(u, n, v)
    BY DEF TblStep
  <2> QED
    BY <2>1, LogHas
<1>4. ASSUME NEW p \in Log(s), p.tid # l PROVE p \in Log(u)
  <2>1. PICK x \in TidVals : Rec(s, p.tid, x) /\ Telling(x) /\ p = PktOf(s, p.tid, x)
    BY DEF Log
  <2>2. Rec(u, p.tid, x) /\ p = PktOf(u, p.tid, x) /\ p \in Packets
    BY <1>2, <1>4, <2>1 DEF TblStep, Log
  <2> QED
    BY <2>1, <2>2 DEF Log
<1>5. ASSUME NEW p \in Log(u) PROVE (p \in Log(s) /\ p.tid # l) \/ p = PktOf(u, n, v)
  <2>1. PICK x \in TidVals : Rec(u, p.tid, x) /\ Telling(x) /\ p = PktOf(u, p.tid, x)
    BY DEF Log
  <2>2. CASE p.tid = n /\ x = v
    BY <2>1, <2>2
  <2>3. CASE Rec(s, p.tid, x) /\ p.tid # l
    <3>1. p = PktOf(s, p.tid, x) /\ p \in Packets
      BY <1>2, <2>1, <2>3 DEF Log
    <3> QED
      BY <2>1, <2>3, <3>1 DEF Log
  <2> QED
    BY <2>1, <2>2, <2>3 DEF TblStep
<1> QED
  BY <1>3, <1>4, <1>5

(* Tables and elements that say the same make the same log. *)
LEMMA SameLog ==
    ASSUME NEW s, NEW u, Struct(s), Struct(u), \A t, x : Rec(u, t, x) <=> Rec(s, t, x),
           \A o \in Offs : \A t : Rec(s, t, iterOff2tidVal(o)) => SameData(s, u, o)
    PROVE  Log(u) = Log(s)
<1>1. ASSUME NEW t, NEW x, Rec(s, t, x), Telling(x)
      PROVE  PktOf(u, t, x) = PktOf(s, t, x)
  <2>1. t \in Nat /\ x \in TidVals /\ s \in Slices
    BY <1>1, RecType DEF Struct
  <2>2. CASE isTidValIterOff(x)
    <3>1. x.arg \in Offs
      BY <1>1, <2>1, <2>2, PktType
    <3>2. x = iterOff2tidVal(x.arg)
      BY <2>1, <2>2 DEF TidVals, isTidValIterOff, iterOff2tidVal, NoVal, TIDDEL_FLUSHALL
    <3>3. SameData(s, u, x.arg)
      BY <1>1, <3>1, <3>2
    <3> QED
      BY <2>2, <3>3 DEF PktOf, SameData, iter2tidPack
  <2>3. CASE ~isTidValIterOff(x)
    BY <2>3 DEF PktOf
  <2> QED
    BY <2>2, <2>3
<1> QED
  BY <1>1 DEF Log

(* What is in the log has a tid that the slice has handed out. *)
LEMMA LogTids ==
    ASSUME NEW s, Struct(s), NoneAhead(s), NEW p \in Log(s)
    PROVE  p \in Packets /\ p.tid \in Nat /\ p.tid <= s.tid
<1>1. PICK x \in TidVals : Rec(s, p.tid, x)
  BY DEF Log
<1> QED
  BY <1>1, RecType DEF Log

(* While the index is aligned, a tid has one packet. *)
LEMMA LogUnique ==
    ASSUME NEW s, Struct(s), Aligned(s), NEW p \in Log(s), NEW q \in Log(s), p.tid = q.tid
    PROVE  p = q
<1>1. PICK x \in TidVals : Rec(s, p.tid, x) /\ p = PktOf(s, p.tid, x)
  BY DEF Log
<1>2. PICK y \in TidVals : Rec(s, q.tid, y) /\ q = PktOf(s, q.tid, y)
  BY DEF Log
<1>3. x = y
  BY <1>1, <1>2, OneRec
<1> QED
  BY <1>1, <1>2, <1>3

(* A packet that adds is an element of the slice, which knows its tid. *)
LEMMA LogElem ==
    ASSUME NEW s, Good(s), Aligned(s), NEW p \in Log(s), IsAdd(p)
    PROVE  \E o \in s.live : /\ Rec(s, p.tid, iterOff2tidVal(o))
                             /\ s.key[o] = p.key /\ s.val[o] = p.val
                             /\ s.link[o] = p.tid /\ p.tid # 0
<1>1. Struct(s) /\ s \in Slices /\ EntriesOk(s)
  BY DEF Good, Struct
<1>2. PICK x \in TidVals : Rec(s, p.tid, x) /\ Telling(x) /\ p = PktOf(s, p.tid, x)
  BY DEF Log
<1>3. isTidValIterOff(x) /\ x.arg \in Offs /\ p.key = s.key[x.arg] /\ p.val = s.val[x.arg]
  <2>1. p.tid \in Nat
    BY <1>1, <1>2, RecType
  <2>2. isTidValIterOff(x)
    <3>1. ~isTidValIterOff(x) => p.kind \in {"del", "flush"}
      BY <1>1, <1>2, <2>1, PktType
    <3> QED
      BY <3>1 DEF IsAdd
  <2> QED
    BY <1>1, <1>2, <2>1, <2>2, PktType
<1>4. x = iterOff2tidVal(x.arg)
  BY <1>3 DEF TidVals, isTidValIterOff, iterOff2tidVal, NoVal, TIDDEL_FLUSHALL
<1>5. PICK b \in 1 .. Len(s.blks), i \in 0 .. BlkSz - 1 :
        EntryTid(s, b, i) = p.tid /\ EntryAt(s, b, i) = x
  BY <1>2 DEF Rec, Recorded
<1>6. RefersTo(s, b, i, x.arg) /\ x.arg \in Nat \ {0}
  BY <1>3, <1>5 DEF RefersTo
<1>7. EntryOk(s, b, i, x.arg)
  BY <1>1, <1>6 DEF EntriesOk
<1> QED
  BY <1>2, <1>3, <1>4, <1>5, <1>7 DEF EntryOk

(* And an element that has a record is in the log. *)
LEMMA ElemLog ==
    ASSUME NEW s, Struct(s), NEW o \in Offs, NEW t, Rec(s, t, iterOff2tidVal(o))
    PROVE  \E p \in Log(s) : /\ IsAdd(p) /\ p.tid = t
                             /\ p.key = s.key[o] /\ p.val = s.val[o]
<1> DEFINE x == iterOff2tidVal(o)
<1>1. t \in Nat /\ x \in TidVals /\ s \in Slices
  BY RecType DEF Struct
<1>2. Telling(x) /\ isTidValIterOff(x) /\ x.arg = o
  BY DEF Telling, iterOff2tidVal, isTidValIterOff, NoVal
<1>3. PktOf(s, t, x) \in Log(s)
  BY <1>2, LogHas
<1> HIDE DEF x
<1> QED
  BY <1>1, <1>2, <1>3, PktType

-----------------------------------------------------------------------------
(* What the operations of the master's slice do to its log. *)

DelPkt(t, l) == [kind |-> "del", tid |-> t, old |-> l]
AddPkt(t, k, v) == [kind |-> "add", tid |-> t, key |-> k, val |-> v]
FlushPkt(t) == [kind |-> "flush", tid |-> t, old |-> 0]

(* An aligned slice with a block for the next tid. *)
Ready(s) ==
    Good(s) /\ NoneAhead(s) /\ Aligned(s) /\ s.tid + 1 < MaxBlks * BlkSz

(* The log without what is recorded under l, and with its deletion. *)
ErasedAt(s, u, l) ==
    /\ u.tid = s.tid + 1
    /\ Log(u) = {p \in Log(s) : p.tid # l} \cup {DelPkt(u.tid, l)}

AddedTo(s, u, k, v) ==
    /\ u.tid = s.tid + 1
    /\ Log(u) = Log(s) \cup {AddPkt(u.tid, k, v)}

(* The record of an element that has one is that of its link. *)
LEMMA RefRec ==
    ASSUME NEW s, Good(s), Aligned(s), NEW o \in Offs, HasRef(s, o)
    PROVE  /\ Rec(s, s.link[o], iterOff2tidVal(o)) /\ s.link[o] \in Nat \ {0}
           /\ o \in s.live
<1>1. Struct(s) /\ EntriesOk(s) /\ s \in Slices /\ o \in Nat \ {0}
  BY DEF Good, Struct
<1>2. PICK b \in 1 .. Len(s.blks), i \in 0 .. BlkSz - 1 : RefersTo(s, b, i, o)
  BY DEF HasRef
<1>3. EntryOk(s, b, i, o)
  BY <1>1, <1>2 DEF EntriesOk
<1>4. EntryAt(s, b, i) \in TidVals /\ EntryTid(s, b, i) \in Nat
  BY <1>1, EntryType
<1>5. EntryAt(s, b, i) = iterOff2tidVal(o)
  BY <1>2, <1>4 DEF RefersTo, TidVals, isTidValIterOff, iterOff2tidVal, NoVal,
                    TIDDEL_FLUSHALL
<1>6. iterOff2tidVal(o) # NoVal
  BY DEF iterOff2tidVal, NoVal
<1> QED
  BY <1>3, <1>4, <1>5, <1>6 DEF EntryOk, Rec, Recorded

(* A record of an element is found through its link. *)
LEMMA RecLink ==
    ASSUME NEW s, Good(s), Aligned(s), NEW o \in Offs, NEW t, Rec(s, t, iterOff2tidVal(o))
    PROVE  s.link[o] = t /\ o \in s.live /\ HasRef(s, o)
<1>1. EntriesOk(s) /\ o \in Nat \ {0}
  BY DEF Good
<1>2. PICK b \in 1 .. Len(s.blks), i \in 0 .. BlkSz - 1 :
        EntryTid(s, b, i) = t /\ EntryAt(s, b, i) = iterOff2tidVal(o)
  BY DEF Rec, Recorded
<1>3. RefersTo(s, b, i, o)
  BY <1>2 DEF RefersTo, iterOff2tidVal, isTidValIterOff
<1>4. EntryOk(s, b, i, o)
  BY <1>1, <1>3 DEF EntriesOk
<1> QED
  BY <1>2, <1>3, <1>4 DEF EntryOk, HasRef

(* An aligned slice stays aligned backwards. *)
LEMMA StillAligned ==
    ASSUME NEW s, NEW u, Struct(s), Struct(u), Still(s, u), Aligned(u)
    PROVE  Aligned(s)
BY AlignedBack DEF Still

(* unlinkTid on the master replaces the record of an element by its deletion;
   the caller may have changed the element before. *)
LEMMA UnlinkLog ==
    ASSUME NEW s, Ready(s), NEW off \in Offs, HasRef(s, off),
           NEW s0, Struct(s0), s0.blks = s.blks, s0.tid = s.tid,
           s0.preClear = s.preClear, \A o \in Offs \ {off} : SameData(s, s0, o),
           NEW u, u = unlinkTid(s0, s.link[off], "master")
    PROVE  ErasedAt(s, u, s.link[off]) /\ u.preClear = s.preClear /\ SameElems(s0, u)
<1> DEFINE l == s.link[off]
           m == clrTidTblEnt(s0, l)
           v == tidDelVal(l)
<1>1. Good(s) /\ Struct(s) /\ NoneAhead(s) /\ Aligned(s) /\ s.tid \in Nat
  BY DEF Ready, Good, Struct, Slices
<1>2. Rec(s, l, iterOff2tidVal(off)) /\ l \in Nat \ {0}
  BY <1>1, RefRec
<1>3. \A t, x : Rec(s0, t, x) <=> Rec(s, t, x)
  BY SameRec
<1>4. NoneAhead(s0) /\ Aligned(s0)
  BY <1>1 DEF NoneAhead, Aligned, EntryAt, EntryTid
<1>5. u = setTidTblEnt(m, v, 0)
  BY DEF unlinkTid, isTidMaster
<1>6. v = [kind |-> "del", arg |-> l] /\ v \in TidVals /\ v # NoVal
  BY <1>2 DEF tidDelVal, TidVals, NoVal
<1>7. Still(s0, m) /\ Struct(m) /\ m.tid = s0.tid /\ SameElems(s0, m) /\ SameBases(s0, m)
      /\ Len(m.blks) = Len(s0.blks)
  BY <1>2, ClrStill, ClrFacts
<1> HIDE DEF m, v
<1>8. HasRoom(m, s.tid + 1)
  <2>1. Aligned(m)
    BY <1>4, <1>7 DEF Aligned, SameBases, SameElems
  <2> QED
    BY <1>7, <2>1, RoomIfAligned DEF Ready
<1>9. InSeq(s0, 0) /\ NewTid(s0, 0) = s.tid + 1
  BY DEF InSeq, NewTid
<1>10. TblStep(s0, u, l, s.tid + 1, v) /\ u.tid = s.tid + 1
  BY <1>2, <1>3, <1>4, <1>5, <1>6, <1>8, <1>9, ClrSet DEF m
<1>11. TblStep(s, u, l, s.tid + 1, v)
  BY <1>3, <1>10 DEF TblStep
<1>12. SameElems(m, u) /\ Struct(u)
  BY <1>5, <1>6, <1>7, SetFacts DEF Appends
<1>13. SameElems(s0, u)
  BY <1>7, <1>12 DEF SameElems
<1>14. ASSUME NEW o \in Offs, NEW t, Rec(s, t, iterOff2tidVal(o)), t # l
       PROVE  SameData(s, u, o)
  <2>1. s.link[o] = t
    BY <1>1, <1>14, RecLink
  <2>2. o # off
    BY <1>14, <2>1
  <2> QED
    BY <1>13, <2>2 DEF SameData, SameElems
<1>15. Telling(v)
  BY <1>6 DEF Telling, iterOff2tidVal
<1>16. Log(u) = {p \in Log(s) : p.tid # l} \cup {PktOf(u, s.tid + 1, v)}
  BY <1>1, <1>11, <1>12, <1>14, <1>15, LogStep
<1>17. PktOf(u, s.tid + 1, v) = DelPkt(u.tid, l)
  BY <1>6, <1>10 DEF PktOf, del2tidPack, DelPkt, isTidValIterOff
<1> QED
  BY <1>10, <1>13, <1>16, <1>17 DEF ErasedAt, SameElems

(* linkTid records an element under a new tid. *)
LEMMA LinkLog ==
    ASSUME NEW s, Struct(s), NoneAhead(s), NEW off \in Offs, NEW t \in Nat, InSeq(s, t),
           HasRoom(s, NewTid(s, t)), NEW u, u = linkTid(s, off, t)
    PROVE  /\ u.tid = NewTid(s, t) /\ u.preClear = s.preClear
           /\ Log(u) = Log(s) \cup {AddPkt(u.tid, s.key[off], s.val[off])}
<1> DEFINE n == NewTid(s, t)
           v == iterOff2tidVal(off)
           m == setTidTblEnt(s, v, t)
<1>1. v \in TidVals /\ Telling(v) /\ v # NoVal /\ isTidValIterOff(v) /\ v.arg = off
  BY DEF iterOff2tidVal, TidVals, Telling, NoVal, isTidValIterOff
<1>2. u = m \/ u = [m EXCEPT !.link[off] = NewTid(s, t)]
  BY DEF linkTid
<1>3. TblStep(s, m, n, n, v) /\ m.tid = n /\ Struct(m) /\ SameElems(s, m)
  <2>0. v \in TidVals /\ v # NoVal
    BY <1>1
  <2> HIDE DEF v
  <2> QED
    BY <2>0, SetRec, SetAt DEF Appends
<1>4. Struct(u) /\ Still(s, u)
  BY LinkStill
<1> HIDE DEF m, v
<1>5. u.blks = m.blks /\ u.tid = m.tid /\ u.key = s.key /\ u.val = s.val
  BY <1>2, <1>3 DEF Struct, Slices, SameElems
<1>6. TblStep(s, u, n, n, v)
  <2>1. \A y, x : Rec(u, y, x) <=> Rec(m, y, x)
    BY <1>5, SameRec
  <2> QED
    BY <1>3, <2>1 DEF TblStep
<1>7. \A o \in Offs : SameData(s, u, o)
  BY <1>5 DEF SameData
<1>8. Log(u) = {p \in Log(s) : p.tid # n} \cup {PktOf(u, n, v)}
  BY <1>1, <1>4, <1>6, <1>7, LogStep
<1>9. s.tid \in Nat /\ n \in Nat /\ n > s.tid
  BY DEF Struct, Slices, NewTid, InSeq
<1> HIDE DEF n
<1>10. \A p \in Log(s) : p.tid # n
  <2> SUFFICES ASSUME NEW p \in Log(s) PROVE p.tid # n
    OBVIOUS
  <2>1. p.tid \in Nat /\ p.tid <= s.tid
    BY LogTids
  <2> QED
    BY <1>9, <2>1
<1>11. PktOf(u, n, v) = AddPkt(u.tid, s.key[off], s.val[off])
  BY <1>1, <1>3, <1>5 DEF PktOf, iter2tidPack, AddPkt
<1> QED
  BY <1>3, <1>4, <1>5, <1>8, <1>10, <1>11 DEF n, Still

-----------------------------------------------------------------------------
(* Replication as a matter of sets of packets: L is the log of the master and R
   that of the slave, P what is in flight, n the tid of the slave, c the tid up
   to which packets were sent, t the tid of the master and pc its tid before the
   last clear.  A packet kills an element of the slave by deleting it; an element
   is doomed when the slave has yet to get a packet that makes it go. *)

Kills(d, p) ==
    p.tid < d.tid /\ (d.kind = "flush" \/ (d.kind = "del" /\ d.old = p.tid))

Doomed(L, P, n, p) ==
    \/ \E d \in P \cup L : d.tid > n /\ Kills(d, p)
    \/ \E a \in P : IsAdd(a) /\ a.key = p.key /\ a.tid > p.tid

Tids(S) == \A p \in S : p.tid \in Nat

(* Where the packets are, and that a tid has one. *)
Ranges(L, pc, t, P, n, c) ==
    /\ pc \in Nat /\ t \in Nat /\ n \in Nat /\ c \in Nat /\ pc <= t /\ n <= c /\ c <= t
    /\ \A p \in L : pc < p.tid /\ p.tid <= t /\ (p.kind = "flush" => p.tid <= pc + 1)
    /\ \A p \in P : n < p.tid /\ p.tid <= c /\ (p.kind = "flush" => p.tid <= pc + 1)
    /\ \A p, q \in P \cup L : p.tid = q.tid => p = q

(* What was sent is in flight or has arrived, an element that is in flight is
   still there or doomed, no packet harms an element of the master, and a
   deletion since the last clear is that of an element since the last clear. *)
SentAll(L, P, n, c) == \A p \in L : n < p.tid /\ p.tid <= c => p \in P

Useful(L, P, n) == \A a \in P : IsAdd(a) => a \in L \/ Doomed(L, P, n, a)

Spares(d, p) == ~Kills(d, p) /\ (IsAdd(d) /\ d.key = p.key => d.tid <= p.tid)

Harmless(L, P) == \A p \in L : IsAdd(p) => \A d \in P \cup L : Spares(d, p)

Recent(L, pc, P) ==
    \A d \in P \cup L : d.kind = "del" /\ d.tid > pc => d.old > pc

MasterSide(L, pc, t, P, n, c) ==
    /\ Tids(L) /\ Tids(P) /\ Ranges(L, pc, t, P, n, c)
    /\ SentAll(L, P, n, c) /\ Useful(L, P, n) /\ Harmless(L, P) /\ Recent(L, pc, P)

(* The slave has the elements that the master has up to its tid, and no other
   that is not doomed. *)
SlaveSide(L, P, n, R) ==
    /\ \A p \in L : IsAdd(p) /\ p.tid <= n => p \in R
    /\ \A p \in R : IsAdd(p) => p \in L \/ Doomed(L, P, n, p)

(* An element of the master is deleted. *)
LEMMA SideErase ==
    ASSUME NEW L, NEW pc, NEW t, NEW P, NEW n, NEW c, MasterSide(L, pc, t, P, n, c),
           NEW e \in L, IsAdd(e), NEW d, d.kind = "del", d.tid = t + 1, d.old = e.tid,
           NEW K, K = {p \in L : p.tid # e.tid} \cup {d}
    PROVE  /\ MasterSide(K, pc, t + 1, P, n, c)
           /\ \A R : Tids(R) /\ SlaveSide(L, P, n, R) => SlaveSide(K, P, n, R)
<1>1. /\ Tids(L) /\ Tids(P) /\ Ranges(L, pc, t, P, n, c) /\ e.tid \in Nat
      /\ SentAll(L, P, n, c) /\ Useful(L, P, n) /\ Harmless(L, P) /\ Recent(L, pc, P)
  BY DEF MasterSide, Tids
<1>2. pc \in Nat /\ t \in Nat /\ n \in Nat /\ c \in Nat /\ pc <= t /\ n <= c /\ c <= t
  BY <1>1 DEF Ranges
<1>3. Tids(K)
  BY <1>1, <1>2 DEF Tids
<1>4. pc < e.tid /\ e.tid <= t
  BY <1>1 DEF Ranges
<1>5. Ranges(K, pc, t + 1, P, n, c)
  <2>1. \A p \in K : pc < p.tid /\ p.tid <= t + 1 /\ (p.kind = "flush" => p.tid <= pc + 1)
    BY <1>1, <1>2 DEF Ranges, Tids
  <2>2. \A p \in P : n < p.tid /\ p.tid <= c /\ (p.kind = "flush" => p.tid <= pc + 1)
    BY <1>1 DEF Ranges
  <2>3. \A p, q \in P \cup L : p.tid = q.tid => p = q
    BY <1>1 DEF Ranges
  <2>4. \A p \in P \cup L : p.tid \in Nat /\ p.tid <= t
    BY <1>1, <1>2 DEF Ranges, Tids
  <2>5. \A p, q \in P \cup K : p.tid = q.tid => p = q
    BY <1>2, <2>3, <2>4
  <2> QED
    BY <1>2, <2>1, <2>2, <2>5 DEF Ranges
<1>6. SentAll(K, P, n, c)
  BY <1>1, <1>2 DEF SentAll
<1>7. ASSUME NEW a, a.tid \in Nat, IsAdd(a), a \in L \/ Doomed(L, P, n, a), a.tid <= t
      PROVE  a \in K \/ Doomed(K, P, n, a)
  <2>1. CASE a \in L /\ a.tid # e.tid
    BY <2>1
  <2>2. CASE a.tid = e.tid
    BY <1>2, <1>7, <2>2 DEF Doomed, Kills
  <2>3. CASE \E x \in P \cup L : x.tid > n /\ Kills(x, a)
    <3>1. PICK x \in P \cup L : x.tid > n /\ Kills(x, a)
      BY <2>3
    <3>2. x # e
      BY <3>1 DEF Kills, IsAdd
    <3>3. x \in P \cup K
      BY <1>1, <3>2 DEF Ranges
    <3> QED
      BY <3>1, <3>3 DEF Doomed
  <2>4. CASE \E x \in P : IsAdd(x) /\ x.key = a.key /\ x.tid > a.tid
    BY <2>4 DEF Doomed
  <2> QED
    BY <1>7, <2>1, <2>2, <2>3, <2>4 DEF Doomed
<1>8. Useful(K, P, n)
  <2> SUFFICES ASSUME NEW a \in P, IsAdd(a) PROVE a \in K \/ Doomed(K, P, n, a)
    BY DEF Useful
  <2>1. a.tid \in Nat /\ a.tid <= t /\ (a \in L \/ Doomed(L, P, n, a))
    BY <1>1, <1>2 DEF Tids, Ranges, Useful
  <2> QED
    BY <1>7, <2>1
<1>9. Harmless(K, P)
  <2> SUFFICES ASSUME NEW p \in K, IsAdd(p), NEW x \in P \cup K
               PROVE  Spares(x, p)
    BY DEF Harmless
  <2>1. p \in L /\ p.tid # e.tid
    BY DEF IsAdd
  <2>2. CASE x \in P \cup L
    BY <1>1, <2>1, <2>2 DEF Harmless
  <2>3. CASE x = d
    BY <2>1, <2>3 DEF Kills, IsAdd, Spares
  <2> QED
    BY <2>2, <2>3
<1>10. Recent(K, pc, P)
  BY <1>1, <1>4 DEF Recent
<1>11. ASSUME NEW R, Tids(R), SlaveSide(L, P, n, R) PROVE SlaveSide(K, P, n, R)
  <2>1. ASSUME NEW p \in K, IsAdd(p), p.tid <= n PROVE p \in R
    BY <2>1, <1>11 DEF SlaveSide, IsAdd
  <2>2. ASSUME NEW p \in R, IsAdd(p) PROVE p \in K \/ Doomed(K, P, n, p)
    <3>1. p.tid \in Nat /\ (p \in L \/ Doomed(L, P, n, p))
      BY <1>11, <2>2 DEF SlaveSide, Tids
    <3>2. CASE p.tid <= t
      BY <1>7, <2>2, <3>1, <3>2
    <3>3. CASE ~(p.tid <= t)
      <4>1. \A x \in P \cup L : x.tid \in Nat /\ x.tid <= t
        BY <1>1, <1>2 DEF Ranges, Tids
      <4> QED
        BY <1>2, <3>1, <3>3, <4>1 DEF Doomed, Kills
    <3> QED
      BY <3>2, <3>3
  <2> QED
    BY <2>1, <2>2 DEF SlaveSide
<1> QED
  BY <1>2, <1>3, <1>5, <1>6, <1>8, <1>9, <1>10, <1>11 DEF MasterSide

(* An element is stored whose key the master does not have. *)
LEMMA SideAdd ==
    ASSUME NEW L, NEW pc, NEW t, NEW P, NEW n, NEW c, MasterSide(L, pc, t, P, n, c),
           NEW a, IsAdd(a), a.tid = t + 1, \A p \in L : IsAdd(p) => p.key # a.key,
           NEW K, K = L \cup {a}
    PROVE  /\ MasterSide(K, pc, t + 1, P, n, c)
           /\ \A R : SlaveSide(L, P, n, R) => SlaveSide(K, P, n, R)
<1>1. /\ Tids(L) /\ Tids(P) /\ Ranges(L, pc, t, P, n, c) /\ a.kind = "add"
      /\ SentAll(L, P, n, c) /\ Useful(L, P, n) /\ Harmless(L, P) /\ Recent(L, pc, P)
  BY DEF MasterSide, IsAdd
<1>2. pc \in Nat /\ t \in Nat /\ n \in Nat /\ c \in Nat /\ pc <= t /\ n <= c /\ c <= t
  BY <1>1 DEF Ranges
<1>3. Tids(K)
  BY <1>1, <1>2 DEF Tids
<1>4. \A p \in P \cup L : p.tid \in Nat /\ p.tid <= t
  BY <1>1, <1>2 DEF Ranges, Tids
<1>5. Ranges(K, pc, t + 1, P, n, c)
  <2>1. \A p \in K : pc < p.tid /\ p.tid <= t + 1 /\ (p.kind = "flush" => p.tid <= pc + 1)
    BY <1>1, <1>2 DEF Ranges, Tids
  <2>2. \A p \in P : n < p.tid /\ p.tid <= c /\ (p.kind = "flush" => p.tid <= pc + 1)
    BY <1>1 DEF Ranges
  <2>3. \A p, q \in P \cup L : p.tid = q.tid => p = q
    BY <1>1 DEF Ranges
  <2>5. \A p, q \in P \cup K : p.tid = q.tid => p = q
    BY <1>2, <2>3, <1>4
  <2> QED
    BY <1>2, <2>1, <2>2, <2>5 DEF Ranges
<1>6. SentAll(K, P, n, c)
  BY <1>1, <1>2 DEF SentAll
<1>7. \A p : Doomed(L, P, n, p) => Doomed(K, P, n, p)
  BY DEF Doomed
<1>8. Useful(K, P, n)
  BY <1>1, <1>7 DEF Useful
<1>9. Harmless(K, P)
  <2> SUFFICES ASSUME NEW p \in K, IsAdd(p), NEW x \in P \cup K
               PROVE  Spares(x, p)
    BY DEF Harmless
  <2>1. CASE x \in P \cup L /\ p \in L
    BY <1>1, <2>1 DEF Harmless
  <2>2. CASE x = a /\ p \in L
    BY <1>1, <2>2 DEF Kills, IsAdd, Spares
  <2>3. CASE x \in P \cup L /\ p = a
    BY <1>2, <1>4, <2>3 DEF Kills, Spares
  <2>4. CASE x = a /\ p = a
    BY <1>2, <2>4 DEF Kills, Spares
  <2> QED
    BY <2>1, <2>2, <2>3, <2>4
<1>10. Recent(K, pc, P)
  BY <1>1 DEF Recent
<1>11. ASSUME NEW R, SlaveSide(L, P, n, R) PROVE SlaveSide(K, P, n, R)
  <2>1. ASSUME NEW p \in K, IsAdd(p), p.tid <= n PROVE p \in R
    <3>1. p # a
      BY <1>2, <2>1
    <3> QED
      BY <1>11, <2>1, <3>1 DEF SlaveSide
  <2>2. ASSUME NEW p \in R, IsAdd(p) PROVE p \in K \/ Doomed(K, P, n, p)
    BY <1>7, <1>11, <2>2 DEF SlaveSide
  <2> QED
    BY <2>1, <2>2 DEF SlaveSide
<1> QED
  BY <1>2, <1>3, <1>5, <1>6, <1>8, <1>9, <1>10, <1>11 DEF MasterSide

(* The master is cleared: whatever its log was, a flush is all that is left. *)
LEMMA SideFlush ==
    ASSUME NEW t \in Nat, NEW P, NEW n \in Nat, NEW c \in Nat, n <= c, c <= t, Tids(P),
           \A p \in P : n < p.tid /\ p.tid <= c, \A p, q \in P : p.tid = q.tid => p = q,
           NEW f, f.kind = "flush", f.tid = t + 1
    PROVE  /\ MasterSide({f}, t, t + 1, P, n, c)
           /\ \A R : Tids(R) /\ (\A p \in R : p.tid <= n) => SlaveSide({f}, P, n, R)
<1>1. Tids({f})
  BY DEF Tids
<1>2. \A p \in P : p.tid \in Nat /\ p.tid <= t
  BY DEF Tids
<1>3. Ranges({f}, t, t + 1, P, n, c)
  <2>1. \A p \in {f} : t < p.tid /\ p.tid <= t + 1 /\ (p.kind = "flush" => p.tid <= t + 1)
    OBVIOUS
  <2>2. \A p \in P : n < p.tid /\ p.tid <= c /\ (p.kind = "flush" => p.tid <= t + 1)
    BY <1>2
  <2>3. \A p, q \in P \cup {f} : p.tid = q.tid => p = q
    BY <1>2
  <2> QED
    BY <2>1, <2>2, <2>3 DEF Ranges
<1>4. SentAll({f}, P, n, c)
  BY DEF SentAll
<1>5. \A p : p.tid \in Nat /\ p.tid <= t => Doomed({f}, P, n, p)
  BY DEF Doomed, Kills
<1>6. Useful({f}, P, n)
  BY <1>2, <1>5 DEF Useful
<1>7. Harmless({f}, P)
  BY DEF Harmless, IsAdd
<1>8. Recent({f}, t, P)
  BY <1>2 DEF Recent
<1>9. ASSUME NEW R, Tids(R), \A p \in R : p.tid <= n PROVE SlaveSide({f}, P, n, R)
  <2>1. \A p \in R : p.tid \in Nat /\ p.tid <= t
    BY <1>9 DEF Tids
  <2> QED
    BY <1>5, <2>1 DEF SlaveSide, IsAdd
<1> QED
  BY <1>1, <1>3, <1>4, <1>6, <1>7, <1>8, <1>9 DEF MasterSide

(* The next packet of the master's log is sent. *)
LEMMA SideSend ==
    ASSUME NEW L, NEW pc, NEW t, NEW P, NEW n, NEW c, MasterSide(L, pc, t, P, n, c),
           NEW p \in L, c < p.tid, \A q \in L : c < q.tid => p.tid <= q.tid,
           NEW Q, Q = P \cup {p}
    PROVE  /\ MasterSide(L, pc, t, Q, n, p.tid)
           /\ \A R : SlaveSide(L, P, n, R) => SlaveSide(L, Q, n, R)
<1>1. /\ Tids(L) /\ Tids(P) /\ Ranges(L, pc, t, P, n, c) /\ p.tid \in Nat
      /\ SentAll(L, P, n, c) /\ Useful(L, P, n) /\ Harmless(L, P) /\ Recent(L, pc, P)
  BY DEF MasterSide, Tids
<1>2. pc \in Nat /\ t \in Nat /\ n \in Nat /\ c \in Nat /\ pc <= t /\ n <= c /\ c <= t
  BY <1>1 DEF Ranges
<1>3. Tids(Q) /\ Q \cup L = P \cup L
  BY <1>1 DEF Tids
<1>4. Ranges(L, pc, t, Q, n, p.tid)
  <2>1. p.tid <= t /\ (p.kind = "flush" => p.tid <= pc + 1)
    BY <1>1 DEF Ranges
  <2>2. \A q \in P : /\ q.tid \in Nat /\ n < q.tid /\ q.tid <= c
                     /\ (q.kind = "flush" => q.tid <= pc + 1)
    BY <1>1 DEF Ranges, Tids
  <2>3. \A q \in Q : n < q.tid /\ q.tid <= p.tid /\ (q.kind = "flush" => q.tid <= pc + 1)
    BY <1>1, <1>2, <2>1, <2>2
  <2> QED
    BY <1>1, <1>2, <1>3, <2>1, <2>3 DEF Ranges
<1>5. SentAll(L, Q, n, p.tid)
  <2> SUFFICES ASSUME NEW q \in L, n < q.tid, q.tid <= p.tid PROVE q \in Q
    BY DEF SentAll
  <2>1. q.tid \in Nat
    BY <1>1 DEF Tids
  <2>2. CASE q.tid <= c
    BY <1>1, <2>2 DEF SentAll
  <2>3. CASE c < q.tid
    <3>1. q.tid = p.tid
      BY <1>1, <2>1, <2>3
    <3> QED
      BY <1>1, <3>1 DEF Ranges
  <2> QED
    BY <1>2, <2>1, <2>2, <2>3
<1>6. \A q : Doomed(L, P, n, q) => Doomed(L, Q, n, q)
  BY DEF Doomed
<1>7. Useful(L, Q, n)
  BY <1>1, <1>6 DEF Useful
<1>8. Harmless(L, Q) /\ Recent(L, pc, Q)
  BY <1>1, <1>3 DEF Harmless, Recent
<1>9. ASSUME NEW R, SlaveSide(L, P, n, R) PROVE SlaveSide(L, Q, n, R)
  BY <1>6, <1>9 DEF SlaveSide
<1> QED
  BY <1>1, <1>3, <1>4, <1>5, <1>7, <1>8, <1>9 DEF MasterSide

(* The tid up to which packets were sent moves where there is nothing to send. *)
LEMMA SideCursor ==
    ASSUME NEW L, NEW pc, NEW t, NEW P, NEW n, NEW c, MasterSide(L, pc, t, P, n, c),
           NEW x \in Nat, n <= x, x <= t, \A p \in P : p.tid <= x,
           \A q \in L : c < q.tid => ~(q.tid <= x)
    PROVE  MasterSide(L, pc, t, P, n, x)
<1>1. Tids(L) /\ Ranges(L, pc, t, P, n, c) /\ SentAll(L, P, n, c) /\ c \in Nat
  BY DEF MasterSide, Ranges
<1>2. Ranges(L, pc, t, P, n, x)
  BY <1>1 DEF Ranges
<1>3. SentAll(L, P, n, x)
  BY <1>1 DEF SentAll, Tids
<1> QED
  BY <1>2, <1>3 DEF MasterSide

(* The slave takes the first of the packets in flight: the master's side. *)
LEMMA SideTake ==
    ASSUME NEW L, NEW pc, NEW t, NEW P, NEW n, NEW c, MasterSide(L, pc, t, P, n, c),
           NEW p \in P, NEW Q, Q \subseteq P \ {p}, P \ {p} \subseteq Q,
           \A q \in Q : p.tid < q.tid
    PROVE  MasterSide(L, pc, t, Q, p.tid, c)
<1>1. /\ Tids(L) /\ Tids(P) /\ Ranges(L, pc, t, P, n, c) /\ p.tid \in Nat
      /\ SentAll(L, P, n, c) /\ Useful(L, P, n) /\ Harmless(L, P) /\ Recent(L, pc, P)
  BY DEF MasterSide, Tids
<1>2. pc \in Nat /\ t \in Nat /\ n \in Nat /\ c \in Nat /\ pc <= t /\ n <= c /\ c <= t
  BY <1>1 DEF Ranges
<1>3. Tids(Q)
  BY <1>1 DEF Tids
<1>4. n < p.tid /\ p.tid <= c
  BY <1>1 DEF Ranges
<1>5. Ranges(L, pc, t, Q, p.tid, c)
  BY <1>1, <1>2, <1>4 DEF Ranges
<1>6. SentAll(L, Q, p.tid, c)
  <2> SUFFICES ASSUME NEW q \in L, p.tid < q.tid, q.tid <= c PROVE q \in Q
    BY DEF SentAll
  <2>1. q.tid \in Nat
    BY <1>1 DEF Tids
  <2>2. q \in P /\ q # p
    BY <1>1, <1>2, <1>4, <2>1 DEF SentAll
  <2> QED
    BY <2>2
<1>7. Useful(L, Q, p.tid)
  <2> SUFFICES ASSUME NEW a \in Q, IsAdd(a), ~(a \in L) PROVE Doomed(L, Q, p.tid, a)
    BY DEF Useful
  <2>1. a.tid \in Nat /\ p.tid < a.tid /\ Doomed(L, P, n, a)
    BY <1>1, <1>3 DEF Useful, Tids
  <2>2. CASE \E d \in P \cup L : d.tid > n /\ Kills(d, a)
    <3>1. PICK d \in P \cup L : d.tid > n /\ Kills(d, a)
      BY <2>2
    <3>2. d.tid \in Nat /\ d.tid > p.tid
      BY <1>1, <2>1, <3>1 DEF Tids, Kills
    <3>3. d \in Q \cup L
      BY <1>1, <3>2
    <3> QED
      BY <3>1, <3>2, <3>3 DEF Doomed
  <2>3. CASE \E x \in P : IsAdd(x) /\ x.key = a.key /\ x.tid > a.tid
    <3>1. PICK x \in P : IsAdd(x) /\ x.key = a.key /\ x.tid > a.tid
      BY <2>3
    <3>2. x \in Q
      BY <1>1, <2>1, <3>1
    <3> QED
      BY <3>1, <3>2 DEF Doomed
  <2> QED
    BY <2>1, <2>2, <2>3 DEF Doomed
<1>8. Harmless(L, Q) /\ Recent(L, pc, Q)
  BY <1>1 DEF Harmless, Recent
<1> QED
  BY <1>1, <1>3, <1>5, <1>6, <1>7, <1>8 DEF MasterSide

(* The first packet in flight is the only one up to its tid. *)
LEMMA FirstOnly ==
    ASSUME NEW L, NEW pc, NEW t, NEW P, NEW n, NEW c, MasterSide(L, pc, t, P, n, c),
           NEW p \in P, NEW Q, P \ {p} \subseteq Q, \A q \in Q : p.tid < q.tid,
           NEW x \in P \cup L, n < x.tid, x.tid <= p.tid
    PROVE  x = p
<1>1. /\ Tids(L) /\ Tids(P) /\ Ranges(L, pc, t, P, n, c) /\ p.tid \in Nat
      /\ SentAll(L, P, n, c)
  BY DEF MasterSide, Tids
<1>2. x.tid \in Nat /\ p.tid <= c /\ c \in Nat
  BY <1>1 DEF Ranges, Tids
<1>3. x \in P
  BY <1>1, <1>2 DEF SentAll
<1> QED
  BY <1>1, <1>2, <1>3

(* What is doomed and not by the packet that is taken stays so. *)
LEMMA StillDoomed ==
    ASSUME NEW L, NEW pc, NEW t, NEW P, NEW n, NEW c, MasterSide(L, pc, t, P, n, c),
           NEW p \in P, NEW Q, P \ {p} \subseteq Q, \A q \in Q : p.tid < q.tid,
           NEW a, Doomed(L, P, n, a), ~Kills(p, a),
           ~(IsAdd(p) /\ p.key = a.key /\ p.tid > a.tid)
    PROVE  Doomed(L, Q, p.tid, a)
<1>1. Tids(L) /\ Tids(P) /\ Ranges(L, pc, t, P, n, c) /\ p.tid \in Nat /\ n \in Nat
  BY DEF MasterSide, Tids, Ranges
<1>2. CASE \E d \in P \cup L : d.tid > n /\ Kills(d, a)
  <2>1. PICK d \in P \cup L : d.tid > n /\ Kills(d, a)
    BY <1>2
  <2>2. d # p /\ d.tid \in Nat
    BY <1>1, <2>1 DEF Tids
  <2>3. ~(d.tid <= p.tid)
    BY <2>1, <2>2, <1>1, FirstOnly
  <2> QED
    BY <1>1, <2>1, <2>2, <2>3 DEF Doomed
<1>3. CASE \E x \in P : IsAdd(x) /\ x.key = a.key /\ x.tid > a.tid
  BY <1>3 DEF Doomed
<1> QED
  BY <1>2, <1>3 DEF Doomed

(* The slave takes the first of the packets in flight: its own side. *)
LEMMA TakeAdd ==
    ASSUME NEW L, NEW pc, NEW t, NEW P, NEW n, NEW c, MasterSide(L, pc, t, P, n, c),
           NEW p \in P, IsAdd(p), NEW Q, P \ {p} \subseteq Q, \A q \in Q : p.tid < q.tid,
           NEW R, Tids(R), \A q \in R : q.tid <= n, SlaveSide(L, P, n, R),
           NEW S, \A q : IsAdd(q) => (q \in S <=> (q \in R /\ q.key # p.key) \/ q = p)
    PROVE  SlaveSide(L, Q, p.tid, S)
<1>1. /\ Tids(L) /\ Tids(P) /\ Ranges(L, pc, t, P, n, c) /\ p.tid \in Nat /\ n \in Nat
      /\ Harmless(L, P) /\ Useful(L, P, n) /\ n < p.tid
  BY DEF MasterSide, Tids, Ranges
<1>2. ASSUME NEW q \in L, IsAdd(q), q.tid <= p.tid PROVE q \in S
  <2>1. q.tid \in Nat
    BY <1>1 DEF Tids
  <2>2. CASE q.tid <= n
    <3>1. q \in R
      BY <1>2, <2>2 DEF SlaveSide
    <3>2. q.key # p.key
      BY <1>1, <1>2, <2>1, <2>2 DEF Harmless, Spares
    <3> QED
      BY <1>2, <3>1, <3>2
  <2>3. CASE n < q.tid
    BY <1>2, <2>3, FirstOnly
  <2> QED
    BY <1>1, <2>1, <2>2, <2>3
<1>3. ASSUME NEW q \in S, IsAdd(q), q \notin L PROVE Doomed(L, Q, p.tid, q)
  <2>1. ~Kills(p, q)
    BY DEF Kills, IsAdd
  <2>2. CASE q = p
    <3>1. Doomed(L, P, n, q)
      BY <1>1, <1>3, <2>2 DEF Useful
    <3>2. ~(p.tid > q.tid)
      BY <1>1, <2>2
    <3> QED
      BY <2>1, <3>1, <3>2, StillDoomed
  <2>3. CASE q \in R /\ q.key # p.key
    <3>1. Doomed(L, P, n, q)
      BY <1>3, <2>3 DEF SlaveSide
    <3> QED
      BY <2>1, <2>3, <3>1, StillDoomed
  <2> QED
    BY <1>3, <2>2, <2>3
<1> QED
  BY <1>2, <1>3 DEF SlaveSide

(* A deletion takes what it says, what the master does not have, or nothing. *)
LEMMA TakeDel ==
    ASSUME NEW L, NEW pc, NEW t, NEW P, NEW n, NEW c, MasterSide(L, pc, t, P, n, c),
           NEW p \in P, p.kind = "del", NEW Q, P \ {p} \subseteq Q, Q \subseteq P,
           \A q \in Q : p.tid < q.tid,
           NEW R, Tids(R), \A q \in R : q.tid <= n, SlaveSide(L, P, n, R),
           NEW S, \A q : IsAdd(q) /\ q \in S => q \in R,
           \A q \in R : IsAdd(q) /\ q \notin S => q.tid = p.old \/ q.tid <= pc,
           \A q \in S : IsAdd(q) /\ q.tid = p.old
                        => \E a \in Q : IsAdd(a) /\ a.key = q.key
    PROVE  SlaveSide(L, Q, p.tid, S)
<1>1. /\ Tids(L) /\ Tids(P) /\ Ranges(L, pc, t, P, n, c) /\ p.tid \in Nat /\ n \in Nat
      /\ Harmless(L, P) /\ n < p.tid /\ pc \in Nat
  BY DEF MasterSide, Tids, Ranges
<1>2. ASSUME NEW q \in L, IsAdd(q), q.tid <= p.tid PROVE q \in S
  <2>1. q.tid \in Nat /\ pc < q.tid
    BY <1>1 DEF Tids, Ranges
  <2>2. CASE q.tid <= n
    <3>1. q \in R
      BY <1>2, <2>2 DEF SlaveSide
    <3>2. q.tid # p.old
      BY <1>1, <1>2, <2>1, <2>2 DEF Harmless, Spares, Kills
    <3> QED
      BY <1>1, <1>2, <2>1, <3>1, <3>2
  <2>3. CASE n < q.tid
    <3>1. q = p
      BY <1>2, <2>3, FirstOnly
    <3> QED
      BY <1>2, <3>1 DEF IsAdd
  <2> QED
    BY <1>1, <2>1, <2>2, <2>3
<1>3. ASSUME NEW q \in S, IsAdd(q), q \notin L PROVE Doomed(L, Q, p.tid, q)
  <2>1. q \in R /\ ~IsAdd(p) /\ q.tid \in Nat /\ q.tid <= n
    BY <1>3 DEF IsAdd, Tids
  <2>2. Doomed(L, P, n, q)
    BY <1>3, <2>1 DEF SlaveSide
  <2>3. CASE Kills(p, q)
    <3>1. PICK a \in Q : IsAdd(a) /\ a.key = q.key
      BY <1>3, <2>3 DEF Kills
    <3>2. a.tid > q.tid
      <4>1. a.tid \in Nat /\ p.tid < a.tid
        BY <1>1 DEF Tids
      <4> QED
        BY <1>1, <2>1, <4>1
    <3> QED
      BY <3>1, <3>2 DEF Doomed
  <2>4. CASE ~Kills(p, q)
    BY <2>1, <2>2, <2>4, StillDoomed
  <2> QED
    BY <2>3, <2>4
<1> QED
  BY <1>2, <1>3 DEF SlaveSide

(* The slave takes a flush: it has no element, and the master has none that is
   not newer. *)
LEMMA TakeFlush ==
    ASSUME NEW L, NEW pc, NEW t, NEW P, NEW n, NEW c, MasterSide(L, pc, t, P, n, c),
           NEW p \in P, p.kind = "flush", NEW Q, NEW S, \A q \in S : ~IsAdd(q)
    PROVE  SlaveSide(L, Q, p.tid, S)
<1>1. Tids(L) /\ Tids(P) /\ Ranges(L, pc, t, P, n, c) /\ Harmless(L, P)
  BY DEF MasterSide
<1>2. ASSUME NEW q \in L, IsAdd(q), q.tid <= p.tid PROVE FALSE
  <2>1. q.tid \in Nat /\ p.tid \in Nat
    BY <1>1 DEF Tids
  <2>2. ~Kills(p, q)
    BY <1>1, <1>2 DEF Harmless, Spares
  <2>3. q.tid = p.tid
    BY <1>2, <2>1, <2>2 DEF Kills
  <2>4. q = p
    BY <1>1, <2>3 DEF Ranges
  <2> QED
    BY <1>2, <2>4 DEF IsAdd
<1> QED
  BY <1>2 DEF SlaveSide

-----------------------------------------------------------------------------
(* The commands of the workers. *)

Sides(s, P, n, c) == MasterSide(Log(s), s.preClear, s.tid, P, n, c)

(* A step of the master from s to u is right for what is in flight, and for
   whatever the slave has. *)
Holds(s, u, P, n, c) ==
    /\ Sides(u, P, n, c)
    /\ \A R : Tids(R) /\ SlaveSide(Log(s), P, n, R) => SlaveSide(Log(u), P, n, R)

NoKey(s, k) == \A p \in Log(s) : IsAdd(p) => p.key # k

(* As far as the slice s is ready, it has all its elements in its table. *)
Fits(s, P, n, c) ==
    /\ Good(s) /\ NoneAhead(s)
    /\ Ready(s) => RefsBut(s, {}) /\ Sides(s, P, n, c)

Passes(s, u, P, n, c) ==
    Ready(u) => Ready(s) /\ RefsBut(u, {}) /\ Holds(s, u, P, n, c)

(* What two steps in a row keep, both keep. *)
LEMMA HoldsTrans ==
    ASSUME NEW s, NEW m, NEW u, NEW P, NEW n, NEW c,
           Holds(s, m, P, n, c), Holds(m, u, P, n, c)
    PROVE  Holds(s, u, P, n, c)
BY DEF Holds

(* A step that leaves the log and the tids leaves both sides. *)
LEMMA SameHolds ==
    ASSUME NEW s, NEW u, NEW P, NEW n, NEW c, Sides(s, P, n, c), Log(u) = Log(s),
           u.tid = s.tid, u.preClear = s.preClear
    PROVE  Holds(s, u, P, n, c)
BY DEF Holds, Sides

(* A slice is ready when the one it becomes is. *)
LEMMA ReadyBack ==
    ASSUME NEW s, NEW u, Good(s), NoneAhead(s), Still(s, u), s.tid <= u.tid, Ready(u)
    PROVE  Ready(s)
<1>1. Struct(s) /\ Struct(u) /\ s.tid \in Nat /\ u.tid \in Nat /\ Aligned(u)
  BY DEF Ready, Good, Struct, Slices
<1>2. Aligned(s)
  BY <1>1, StillAligned
<1>3. MaxBlks * BlkSz \in Int
  OBVIOUS
<1> QED
  BY <1>1, <1>2, <1>3 DEF Ready

(* The deletion of an element. *)
LEMMA ErasedHolds ==
    ASSUME NEW s, Ready(s), NEW off \in Offs, HasRef(s, off), NEW P, NEW n, NEW c,
           Sides(s, P, n, c), NEW u, ErasedAt(s, u, s.link[off]), u.preClear = s.preClear
    PROVE  Holds(s, u, P, n, c) /\ NoKey(u, s.key[off])
<1> DEFINE l == s.link[off]
           k == s.key[off]
<1>1. Good(s) /\ Struct(s) /\ Aligned(s) /\ s.tid \in Nat
  BY DEF Ready, Good, Struct, Slices
<1>2. Rec(s, l, iterOff2tidVal(off))
  BY <1>1, RefRec
<1>3. PICK e \in Log(s) : IsAdd(e) /\ e.tid = l /\ e.key = k
  BY <1>1, <1>2, ElemLog
<1> HIDE DEF l, k
<1> DEFINE d == DelPkt(u.tid, l)
<1>4. /\ d.kind = "del" /\ d.tid = s.tid + 1 /\ d.old = e.tid /\ u.tid = s.tid + 1
      /\ Log(u) = {p \in Log(s) : p.tid # e.tid} \cup {d} /\ ~IsAdd(d)
  BY <1>3 DEF DelPkt, ErasedAt, IsAdd, l
<1> HIDE DEF d
<1>5. /\ MasterSide(Log(u), s.preClear, s.tid + 1, P, n, c)
      /\ \A R : Tids(R) /\ SlaveSide(Log(s), P, n, R) => SlaveSide(Log(u), P, n, R)
  BY <1>3, <1>4, SideErase DEF Sides
<1>6. ASSUME NEW p \in Log(u), IsAdd(p), p.key = k PROVE FALSE
  <2>1. p \in Log(s) /\ p.tid # e.tid
    BY <1>4, <1>6
  <2>2. p.tid \in Nat /\ e.tid \in Nat
    BY <2>1 DEF Sides, MasterSide, Tids
  <2>3. Spares(p, e) /\ Spares(e, p)
    BY <1>3, <1>6, <2>1 DEF Sides, MasterSide, Harmless
  <2> QED
    BY <1>3, <1>6, <2>1, <2>2, <2>3 DEF Spares
<1> QED
  BY <1>4, <1>5, <1>6 DEF Holds, Sides, NoKey, k

(* linkTid of an element whose key is in no packet of the log. *)
LEMMA LinkPasses ==
    ASSUME NEW s, Good(s), NoneAhead(s), NEW off \in s.live, Unref(s, off),
           NEW u, u = linkTid(s, off, 0), Ready(u)
    PROVE  /\ Ready(s) /\ u.tid = s.tid + 1
           /\ \A P, n, c : Sides(s, P, n, c) /\ NoKey(s, s.key[off]) => Holds(s, u, P, n, c)
           /\ RefsBut(s, {off}) \/ RefsBut(s, {}) => RefsBut(u, {})
<1>1. off \in Offs /\ Struct(s) /\ s.tid \in Nat
  BY DEF Good, Struct, Slices
<1>2. InSeq(s, 0) /\ NewTid(s, 0) = s.tid + 1
  BY DEF InSeq, NewTid
<1>3. Still(s, u) /\ Struct(u)
  BY <1>1, <1>2, LinkStill
<1>4. u.tid = s.tid + 1
  <2> DEFINE v == iterOff2tidVal(off)
             m == setTidTblEnt(s, v, 0)
  <2>1. v \in TidVals
    BY <1>1 DEF iterOff2tidVal, TidVals
  <2>2. u = m \/ u = [m EXCEPT !.link[off] = NewTid(s, 0)]
    BY DEF linkTid
  <2> HIDE DEF v
  <2>3. m.tid = s.tid + 1 /\ m \in Slices
    BY <1>1, <1>2, <2>1, SetAt DEF Appends, Struct
  <2> HIDE DEF m
  <2> QED
    BY <2>2, <2>3 DEF Slices
<1>5. Ready(s)
  BY <1>1, <1>3, <1>4, ReadyBack
<1>6. HasRoom(s, s.tid + 1)
  BY <1>1, <1>5, RoomIfAligned DEF Ready
<1>7. /\ u.preClear = s.preClear
      /\ Log(u) = Log(s) \cup {AddPkt(u.tid, s.key[off], s.val[off])}
  BY <1>1, <1>2, <1>6, LinkLog
<1>8. ASSUME NEW P, NEW n, NEW c, Sides(s, P, n, c), NoKey(s, s.key[off])
      PROVE  Holds(s, u, P, n, c)
  <2> DEFINE a == AddPkt(u.tid, s.key[off], s.val[off])
  <2>1. IsAdd(a) /\ a.tid = s.tid + 1 /\ a.key = s.key[off]
    BY <1>4 DEF AddPkt, IsAdd
  <2> HIDE DEF a
  <2>2. /\ MasterSide(Log(u), s.preClear, s.tid + 1, P, n, c)
        /\ \A R : SlaveSide(Log(s), P, n, R) => SlaveSide(Log(u), P, n, R)
    BY <1>7, <1>8, <2>1, SideAdd DEF Sides, NoKey, a
  <2> QED
    BY <1>4, <1>7, <2>2 DEF Holds, Sides
<1>9. ASSUME NEW X, X \subseteq {off}, RefsBut(s, X) PROVE RefsBut(u, {})
  <2>1. Tracks(s, X, s.tid)
    BY <1>1, <1>9 DEF Tracks
  <2>2. s.tid + 1 < MaxBlks * BlkSz
    BY <1>5 DEF Ready
  <2>3. Tracks(u, {}, s.tid + 1)
    BY <1>1, <1>9, <2>1, <2>2, LinkTracks
  <2> QED
    BY <2>3 DEF Tracks
<1> QED
  BY <1>4, <1>5, <1>8, <1>9

(* Before an element was erased the slice was ready, too. *)
LEMMA EraseReady ==
    ASSUME NEW s, Good(s), NoneAhead(s), NEW off \in Offs, NEW role,
           NEW u, u = eraseIteratorHelper(s, off, role), Ready(u)
    PROVE  Ready(s)
<1>1. Struct(s) /\ s \in Slices /\ s.tid \in Nat
  BY DEF Good, Struct, Slices
<1> DEFINE m == eraseIterCb(s, off, role)
<1>2. u = [m EXCEPT !.live = @ \ {off}]
  BY DEF eraseIteratorHelper
<1>3. Still(s, m) /\ Struct(m) /\ m \in Slices /\ s.tid <= m.tid
  BY <1>1, EraseCbStill, EraseCb DEF Struct, Follows, Slices
<1> HIDE DEF m
<1>4. /\ u.blks = m.blks /\ u.tid = m.tid /\ u.preClear = m.preClear /\ u.key = m.key
      /\ u.val = m.val /\ Struct(u)
  BY <1>2, <1>3 DEF Struct, Slices, Ready, Good
<1>5. Still(m, u)
  BY <1>3, <1>4, SameStill
<1>6. Still(s, u)
  BY <1>1, <1>3, <1>4, <1>5, StillTrans
<1> QED
  BY <1>3, <1>4, <1>6, ReadyBack

(* eraseIteratorHelper of an element that has its entry. *)
LEMMA ErasePasses ==
    ASSUME NEW s, Good(s), NoneAhead(s), NEW off \in s.live, Ready(s) => HasRef(s, off),
           NEW u, u = eraseIteratorHelper(s, off, "master"), Ready(u)
    PROVE  /\ Ready(s) /\ u.tid = s.tid + 1 /\ u.key = s.key /\ u.val = s.val
           /\ ErasedAt(s, u, s.link[off])
           /\ \A P, n, c : Sides(s, P, n, c)
                => Holds(s, u, P, n, c) /\ NoKey(u, s.key[off])
<1>1. off \in Offs /\ Struct(s) /\ s \in Slices /\ s.tid \in Nat
  BY DEF Good, Struct, Slices
<1> DEFINE m == eraseIterCb(s, off, "master")
           s0 == [s EXCEPT !.link[off] = 0]
<1>2. u = [m EXCEPT !.live = @ \ {off}]
  BY DEF eraseIteratorHelper
<1>3. Still(s, m) /\ Struct(m) /\ m \in Slices /\ s.tid <= m.tid
  BY <1>1, EraseCbStill, EraseCb DEF Struct, Follows, Slices
<1> HIDE DEF m
<1>4. /\ u.blks = m.blks /\ u.tid = m.tid /\ u.preClear = m.preClear /\ u.key = m.key
      /\ u.val = m.val /\ Struct(u)
  BY <1>2, <1>3 DEF Struct, Slices, Ready, Good
<1>5. Ready(s)
  BY <1>1, EraseReady
<1>6. Rec(s, s.link[off], iterOff2tidVal(off)) /\ s.link[off] \in Nat \ {0} /\ HasRef(s, off)
  BY <1>1, <1>5, RefRec DEF Ready
<1>7. m = unlinkTid(s0, s.link[off], "master")
  BY <1>6 DEF eraseIterCb, m
<1>8. /\ Struct(s0) /\ s0.blks = s.blks /\ s0.tid = s.tid /\ s0.preClear = s.preClear
      /\ \A o \in Offs \ {off} : SameData(s, s0, o)
  BY <1>1 DEF Struct, Slices, BasesWhole, LastBase, SameData
<1> HIDE DEF s0
<1>9. ErasedAt(s, m, s.link[off]) /\ m.preClear = s.preClear
  BY <1>1, <1>5, <1>6, <1>7, <1>8, UnlinkLog
<1>10. Log(u) = Log(m)
  <2>1. \A t, x : Rec(u, t, x) <=> Rec(m, t, x)
    BY <1>4, SameRec
  <2>2. \A o \in Offs : SameData(m, u, o)
    BY <1>4 DEF SameData
  <2> QED
    BY <1>3, <1>4, <2>1, <2>2, SameLog
<1>11. ErasedAt(s, u, s.link[off]) /\ u.preClear = s.preClear
  BY <1>4, <1>9, <1>10 DEF ErasedAt
<1>12. \A P, n, c : Sides(s, P, n, c) => Holds(s, u, P, n, c) /\ NoKey(u, s.key[off])
  BY <1>1, <1>5, <1>6, <1>11, ErasedHolds
<1> QED
  BY <1>3, <1>4, <1>5, <1>11, <1>12 DEF Still, ErasedAt

(* unlinkTid of an element that stays in the hash, after its value has changed. *)
LEMMA UnlinkPasses ==
    ASSUME NEW s, Good(s), NoneAhead(s), NEW off \in s.live, Ready(s) => HasRef(s, off),
           NEW s0, Struct(s0), s0.blks = s.blks, s0.tid = s.tid,
           s0.preClear = s.preClear, s0.live = s.live, s0.key = s.key,
           \A o \in Offs \ {off} : SameData(s, s0, o) /\ s0.link[o] = s.link[o],
           NEW u, u = unlinkTid(s0, s.link[off], "master"), Ready(u)
    PROVE  /\ Ready(s) /\ u.key = s.key /\ u.live = s.live /\ Unref(u, off)
           /\ RefsBut(s, {}) => RefsBut(u, {off})
           /\ \A P, n, c : Sides(s, P, n, c)
                => Holds(s, u, P, n, c) /\ NoKey(u, s.key[off])
<1>1. off \in Offs /\ Struct(s) /\ s \in Slices /\ s.tid \in Nat /\ s.link[off] \in Nat
  BY DEF Good, Struct, Slices
<1>2. Still(s0, u) /\ Struct(u)
  BY <1>1, UnlinkStill
<1>3. Follows(s, u) /\ Unref(u, off) /\ SameElems(s0, u)
  <2>1. \A o \in Offs \ {off} : s0.link[o] = s.link[o]
    OBVIOUS
  <2> QED
    BY <1>1, <2>1, UnlinkOff DEF SameElems
<1>4. Ready(s)
  <2>1. Aligned(s0)
    BY <1>2, StillAligned DEF Ready
  <2>2. Aligned(s)
    BY <2>1 DEF Aligned
  <2>3. s.tid <= u.tid /\ u.tid \in Nat /\ MaxBlks * BlkSz \in Int
    BY <1>1, <1>2, <1>3 DEF Follows, Struct, Slices
  <2> QED
    BY <1>1, <2>2, <2>3 DEF Ready
<1>5. ErasedAt(s, u, s.link[off]) /\ u.preClear = s.preClear
  BY <1>1, <1>4, UnlinkLog
<1>6. \A P, n, c : Sides(s, P, n, c) => Holds(s, u, P, n, c) /\ NoKey(u, s.key[off])
  BY <1>1, <1>4, <1>5, ErasedHolds
<1>7. ASSUME RefsBut(s, {}) PROVE RefsBut(u, {off})
  <2>1. Tracks(s, {}, s.tid)
    BY <1>1, <1>7 DEF Tracks
  <2>2. Tracks(u, {} \cup {off}, s.tid + 1)
    BY <1>1, <2>1, UnlinkTracks
  <2> QED
    BY <2>2 DEF Tracks
<1> QED
  BY <1>3, <1>4, <1>6, <1>7 DEF SameElems

(* The slice u is s with a new element at off, and with the same log. *)
Copied(s, u, k, off) ==
    /\ Ready(s) /\ u.key[off] = k /\ Log(u) = Log(s)
    /\ \A o \in Offs \ {off} : u.key[o] = s.key[o]
    /\ \A o : HasRef(s, o) => HasRef(u, o)
    /\ RefsBut(s, {}) => RefsBut(u, {off})
    /\ \A P, n, c : Sides(s, P, n, c) => Holds(s, u, P, n, c)

(* insertCopy2 writes to memory that no entry refers to. *)
LEMMA InsertPasses ==
    ASSUME NEW s, NEW u, NEW k, NEW v, NEW off, NEW w, Inserts(s, u, k, v, off, w),
           NoneAhead(s), Ready(u)
    PROVE  Copied(s, u, k, off)
<1>0. /\ Good(s) /\ Struct(s) /\ s \in Slices /\ k \in Keys /\ v \in Vals /\ w \in Nat
      /\ off \in Offs /\ off \notin s.live /\ u = insertCopy2(s, k, v, off, w) /\ s.tid \in Nat
  BY DEF Inserts, Good, Struct, Slices
<1>1. /\ u.blks = s.blks /\ u.tid = s.tid /\ u.preClear = s.preClear
      /\ \A o \in Offs \ {off} : u.key[o] = s.key[o] /\ u.val[o] = s.val[o]
      /\ u.key[off] = k
  BY <1>0 DEF insertCopy2, Slices
<1>2. Ready(s) /\ Struct(u)
  <2>1. Aligned(s)
    BY <1>1 DEF Ready, Aligned
  <2> QED
    BY <1>0, <1>1, <2>1 DEF Ready, Good
<1>3. \A t, x : Rec(u, t, x) <=> Rec(s, t, x)
  BY <1>1, SameRec
<1>4. ASSUME NEW o \in Offs, NEW t, Rec(s, t, iterOff2tidVal(o)) PROVE SameData(s, u, o)
  <2>1. o \in s.live
    BY <1>0, <1>2, <1>4, RecLink DEF Ready
  <2> QED
    BY <1>0, <1>1, <2>1 DEF SameData
<1>5. Log(u) = Log(s)
  BY <1>0, <1>2, <1>3, <1>4, SameLog
<1>6. \A o : HasRef(s, o) => HasRef(u, o)
  BY <1>1 DEF HasRef, RefersTo, EntryAt
<1>7. ASSUME RefsBut(s, {}) PROVE RefsBut(u, {off})
  <2>1. Tracks(s, {}, s.tid)
    BY <1>0, <1>7 DEF Tracks
  <2>2. Tracks(u, {off}, s.tid)
    BY <1>0, <2>1, InsertTracks
  <2> QED
    BY <2>2 DEF Tracks
<1>8. \A P, n, c : Sides(s, P, n, c) => Holds(s, u, P, n, c)
  BY <1>1, <1>5, SameHolds
<1> QED
  BY <1>1, <1>2, <1>5, <1>6, <1>7, <1>8 DEF Copied

(* A ready slice that fits has an entry for each element. *)
LEMMA FitsRef ==
    ASSUME NEW s, NEW P, NEW n, NEW c, Fits(s, P, n, c), NEW o \in s.live, Ready(s)
    PROVE  HasRef(s, o)
BY DEF Fits, RefsBut, Ready

(* A key that is not in the hash is not in the log. *)
LEMMA NotFound ==
    ASSUME NEW s, Ready(s), NEW k, find2(s, k) = {}
    PROVE  NoKey(s, k)
<1> SUFFICES ASSUME NEW p \in Log(s), IsAdd(p), p.key = k PROVE FALSE
  BY DEF NoKey
<1>1. PICK o \in s.live : s.key[o] = p.key
  BY LogElem DEF Ready
<1> QED
  BY <1>1 DEF find2

(* insert2 of a key that is not in the log. *)
LEMMA Insert2Passes ==
    ASSUME NEW s, Good(s), NoneAhead(s), NEW k \in Keys, NEW v \in Vals, NEW w \in Nat,
           NEW off \in Offs, off \notin s.live, NEW u, u = insert2(s, k, v, off, w), Ready(u)
    PROVE  /\ Ready(s) /\ (RefsBut(s, {}) => RefsBut(u, {}))
           /\ \A P, n, c : Sides(s, P, n, c) /\ NoKey(s, k) => Holds(s, u, P, n, c)
<1> DEFINE m == insertCopy2(s, k, v, off, w)
<1>1. Inserts(s, m, k, v, off, w) /\ u = linkTid(m, off, 0)
  BY DEF Inserts, insert2
<1> HIDE DEF m
<1>2. Continues(s, m) /\ Unref(m, off) /\ m.live = s.live \cup {off}
  BY <1>1, InsertContinues
<1>3. Good(m) /\ NoneAhead(m) /\ off \in m.live
  BY <1>2 DEF Continues, Follows, KeepsBehind
<1>4. /\ Ready(m)
      /\ \A P, n, c : Sides(m, P, n, c) /\ NoKey(m, m.key[off]) => Holds(m, u, P, n, c)
      /\ RefsBut(m, {off}) => RefsBut(u, {})
  BY <1>1, <1>2, <1>3, LinkPasses
<1>a. Copied(s, m, k, off)
  BY <1>1, <1>4, InsertPasses
<1>5. /\ Ready(s) /\ m.key[off] = k /\ Log(m) = Log(s)
      /\ (RefsBut(s, {}) => RefsBut(m, {off}))
      /\ \A P, n, c : Sides(s, P, n, c) => Holds(s, m, P, n, c)
  BY <1>a DEF Copied
<1>6. ASSUME NEW P, NEW n, NEW c, Sides(s, P, n, c), NoKey(s, k)
      PROVE  Holds(s, u, P, n, c)
  <2>1. Holds(s, m, P, n, c) /\ NoKey(m, m.key[off])
    BY <1>5, <1>6 DEF NoKey
  <2>2. Holds(m, u, P, n, c)
    BY <1>4, <2>1 DEF Holds
  <2> QED
    BY <2>1, <2>2, HoldsTrans
<1> QED
  BY <1>4, <1>5, <1>6

(* set, add and replace of a key that is not there. *)
LEMMA InsertCmd ==
    ASSUME NEW s, NEW P, NEW n, NEW c, Fits(s, P, n, c), NEW k \in Keys, NEW v \in Vals,
           NEW w \in Nat, find2(s, k) = {}, NEW off \in Free(s),
           NEW u, u = insert2(s, k, v, off, w)
    PROVE  Passes(s, u, P, n, c)
<1> SUFFICES ASSUME Ready(u)
             PROVE  Ready(s) /\ RefsBut(u, {}) /\ Holds(s, u, P, n, c)
  BY DEF Passes
<1>1. Good(s) /\ NoneAhead(s) /\ off \in Offs /\ off \notin s.live
  BY DEF Fits, Free
<1>2. /\ Ready(s) /\ (RefsBut(s, {}) => RefsBut(u, {}))
      /\ (Sides(s, P, n, c) /\ NoKey(s, k) => Holds(s, u, P, n, c))
  BY <1>1, Insert2Passes
<1>3. NoKey(s, k)
  BY <1>2, NotFound
<1> QED
  BY <1>2, <1>3 DEF Fits

(* set, cas, incr: the element stays where it is. *)
LEMMA InPlaceCmd ==
    ASSUME NEW s, NEW P, NEW n, NEW c, Fits(s, P, n, c), NEW v \in Vals,
           NEW off \in s.live, NEW u, u = doSetInPlace(s, off, v, "master")
    PROVE  Passes(s, u, P, n, c)
<1> SUFFICES ASSUME Ready(u)
             PROVE  Ready(s) /\ RefsBut(u, {}) /\ Holds(s, u, P, n, c)
  BY DEF Passes
<1>1. Good(s) /\ NoneAhead(s) /\ off \in Offs /\ Struct(s) /\ s \in Slices
  BY DEF Fits, Good, Struct, Slices
<1> DEFINE m1 == [s EXCEPT !.val[off] = v]
           m2 == eraseIterCb(m1, off, "master")
           s0 == [m1 EXCEPT !.link[off] = 0]
<1>2. u = linkTid(m2, off, 0)
  BY DEF doSetInPlace, updateIterCb
<1>3. Good(m1) /\ m1.live = s.live
  BY <1>1, SetVal DEF Follows
<1>4. /\ m1.blks = s.blks /\ m1.tid = s.tid /\ m1.preClear = s.preClear
      /\ m1.link = s.link /\ m1.key = s.key
      /\ Struct(s0) /\ s0.blks = s.blks /\ s0.tid = s.tid /\ s0.live = s.live
      /\ s0.preClear = s.preClear /\ s0.key = s.key
      /\ \A o \in Offs \ {off} : SameData(s, s0, o) /\ s0.link[o] = s.link[o]
  BY <1>1 DEF Struct, Slices, BasesWhole, LastBase, SameData
<1>5. m2 = IF s.link[off] = 0 THEN m1 ELSE unlinkTid(s0, s.link[off], "master")
  BY <1>4 DEF eraseIterCb
<1> HIDE DEF m1, s0
<1>6. NoneAhead(m1)
  BY <1>1, <1>4 DEF NoneAhead, EntryAt, EntryTid
<1>7. Follows(m1, m2) /\ Unref(m2, off) /\ m2.live = s.live /\ m2.key = s.key /\ Good(m2)
  BY <1>1, <1>3, <1>4, EraseCb DEF Follows
<1>8. Still(m1, m2) /\ Struct(m1)
  BY <1>1, <1>3, EraseCbStill DEF Good
<1> HIDE DEF m2
<1>9. NoneAhead(m2) /\ off \in m2.live
  BY <1>6, <1>7, <1>8 DEF Still, KeepsBehind
<1>10. /\ Ready(m2)
       /\ (Sides(m2, P, n, c) /\ NoKey(m2, m2.key[off]) => Holds(m2, u, P, n, c))
       /\ (RefsBut(m2, {off}) => RefsBut(u, {}))
  BY <1>2, <1>7, <1>9, LinkPasses
<1>11. Ready(s)
  <2>1. Ready(m1)
    BY <1>3, <1>6, <1>7, <1>8, <1>10, ReadyBack DEF Follows
  <2> QED
    BY <1>1, <1>4, <2>1 DEF Ready, Aligned
<1>12. HasRef(s, off) /\ s.link[off] # 0
  BY <1>1, <1>11, FitsRef, RefRec DEF Ready
<1>13. m2 = unlinkTid(s0, s.link[off], "master")
  BY <1>5, <1>12
<1>14. /\ (RefsBut(s, {}) => RefsBut(m2, {off}))
       /\ (Sides(s, P, n, c) => Holds(s, m2, P, n, c) /\ NoKey(m2, s.key[off]))
  BY <1>1, <1>4, <1>10, <1>12, <1>13, UnlinkPasses
<1>15. RefsBut(s, {}) /\ Sides(s, P, n, c)
  BY <1>11 DEF Fits
<1>16. Holds(s, m2, P, n, c) /\ Holds(m2, u, P, n, c)
  BY <1>7, <1>10, <1>14, <1>15 DEF Holds
<1> QED
  BY <1>10, <1>11, <1>14, <1>15, <1>16, HoldsTrans

(* set, replace: a new element takes the place of the old one. *)
LEMMA ReallocCmd ==
    ASSUME NEW s, NEW P, NEW n, NEW c, Fits(s, P, n, c), NEW v \in Vals, NEW w \in Nat,
           NEW off \in s.live, NEW new \in Free(s) \cup {off},
           NEW u, u = doSetRealloc(s, off, v, new, w, "master")
    PROVE  Passes(s, u, P, n, c)
<1> SUFFICES ASSUME Ready(u)
             PROVE  Ready(s) /\ RefsBut(u, {}) /\ Holds(s, u, P, n, c)
  BY DEF Passes
<1>1. /\ Good(s) /\ NoneAhead(s) /\ off \in Offs /\ new \in Offs /\ s.key[off] \in Keys
      /\ s.tid \in Nat
  BY DEF Fits, Good, Struct, Slices, Free
<1> DEFINE m == eraseIteratorHelper(s, off, "master")
<1>2. u = insert2(m, s.key[off], v, new, w)
  BY DEF doSetRealloc
<1>3. Continues(s, m) /\ m.live = s.live \ {off}
  BY <1>1, EraseContinues
<1>4. /\ Good(m) /\ NoneAhead(m) /\ new \notin m.live
  BY <1>1, <1>3 DEF Continues, Follows, KeepsBehind, Free
<1>5. /\ Ready(m) /\ (RefsBut(m, {}) => RefsBut(u, {}))
      /\ (Sides(m, P, n, c) /\ NoKey(m, s.key[off]) => Holds(m, u, P, n, c))
  <2> HIDE DEF m
  <2> QED
    BY <1>1, <1>2, <1>4, Insert2Passes
<1>6. /\ Ready(s)
      /\ (Sides(s, P, n, c) => Holds(s, m, P, n, c) /\ NoKey(m, s.key[off]))
  BY <1>1, <1>5, FitsRef, ErasePasses
<1>7. RefsBut(s, {}) /\ Sides(s, P, n, c)
  BY <1>6 DEF Fits
<1>8. RefsBut(m, {})
  <2>1. Tracks(s, {}, s.tid)
    BY <1>1, <1>7 DEF Tracks
  <2>2. Tracks(m, {}, s.tid + 1)
    BY <1>1, <2>1, EraseTracks
  <2> QED
    BY <2>2 DEF Tracks
<1>9. Holds(s, m, P, n, c) /\ Holds(m, u, P, n, c)
  BY <1>5, <1>6, <1>7 DEF Holds
<1> QED
  BY <1>5, <1>6, <1>8, <1>9, HoldsTrans

(* append and prepend. *)
LEMMA GrowCmd ==
    ASSUME NEW s, NEW P, NEW n, NEW c, Fits(s, P, n, c), NEW v \in Vals, NEW w \in Nat,
           NEW off \in s.live, NEW new \in Free(s),
           NEW u, u = iterGrowValue(s, off, v, new, w, "master")
    PROVE  Passes(s, u, P, n, c)
<1> SUFFICES ASSUME Ready(u)
             PROVE  Ready(s) /\ RefsBut(u, {}) /\ Holds(s, u, P, n, c)
  BY DEF Passes
<1>1. /\ Good(s) /\ NoneAhead(s) /\ off \in Offs /\ new \in Offs /\ new \notin s.live
      /\ new # 0 /\ new # off /\ s.key[off] \in Keys /\ s.tid \in Nat
  BY DEF Fits, Good, Struct, Slices, Free
<1>2. PICK k \in Keys : k = s.key[off]
  BY <1>1
<1> DEFINE m1 == insertCopy2(s, k, v, new, w)
           m2 == eraseIteratorHelper(m1, off, "master")
<1>3. u = linkTid(m2, new, 0)
  BY <1>1, <1>2 DEF iterGrowValue
<1>4. Inserts(s, m1, k, v, new, w)
  BY <1>1 DEF Inserts
<1> HIDE DEF m1
<1>5. Continues(s, m1) /\ Unref(m1, new) /\ m1.live = s.live \cup {new} /\ m1.tid = s.tid
  BY <1>4, InsertContinues
<1>6. Good(m1) /\ NoneAhead(m1) /\ off \in m1.live \ {new}
  BY <1>1, <1>5 DEF Continues, Follows, KeepsBehind
<1>a. Continues(m1, m2) /\ m2.live = m1.live \ {off} /\ m2.key = m1.key
  <2>1. m2 = eraseIteratorHelper(m1, off, "master") /\ Good(m1) /\ off \in Offs
    BY <1>1, <1>6
  <2> HIDE DEF m2
  <2> QED
    BY <2>1, EraseContinues
<1>b. Unref(m2, new)
  BY <1>1, <1>5, <1>6, EraseElem
<1>7. Continues(m1, m2) /\ m2.live = m1.live \ {off} /\ m2.key = m1.key /\ Unref(m2, new)
  BY <1>a, <1>b
<1>8. Good(m2) /\ NoneAhead(m2) /\ new \in m2.live
  BY <1>1, <1>5, <1>6, <1>7 DEF Continues, Follows, KeepsBehind
<1>9. /\ Ready(m2)
      /\ (Sides(m2, P, n, c) /\ NoKey(m2, m2.key[new]) => Holds(m2, u, P, n, c))
      /\ (RefsBut(m2, {new}) => RefsBut(u, {}))
  <2> HIDE DEF m2
  <2> QED
    BY <1>3, <1>7, <1>8, LinkPasses
<1>10. Ready(m1) => HasRef(m1, off)
  <2> SUFFICES ASSUME Ready(m1) PROVE HasRef(m1, off)
    OBVIOUS
  <2>1. Copied(s, m1, k, new)
    BY <1>1, <1>4, InsertPasses
  <2> QED
    BY <2>1, FitsRef DEF Copied
<1>11. /\ Ready(m1)
       /\ (Sides(m1, P, n, c) => Holds(m1, m2, P, n, c) /\ NoKey(m2, m1.key[off]))
  BY <1>6, <1>9, <1>10, ErasePasses
<1>c. Copied(s, m1, k, new)
  BY <1>1, <1>4, <1>11, InsertPasses
<1>12. /\ Ready(s) /\ m1.key[new] = k /\ m1.key[off] = k
       /\ (RefsBut(s, {}) => RefsBut(m1, {new}))
       /\ (Sides(s, P, n, c) => Holds(s, m1, P, n, c))
  BY <1>1, <1>2, <1>c DEF Copied
<1>13. RefsBut(s, {}) /\ Sides(s, P, n, c)
  BY <1>12 DEF Fits
<1>14. RefsBut(m2, {new})
  <2>1. Tracks(m1, {new}, s.tid)
    BY <1>1, <1>5, <1>6, <1>12, <1>13 DEF Tracks
  <2>2. Tracks(m2, {new}, s.tid + 1)
    BY <1>1, <1>6, <2>1, EraseTracks
  <2> QED
    BY <2>2 DEF Tracks
<1> HIDE DEF m2
<1>15. Holds(s, m1, P, n, c) /\ Holds(m1, m2, P, n, c) /\ Holds(m2, u, P, n, c)
  BY <1>7, <1>9, <1>11, <1>12, <1>13 DEF Holds
<1>16. Holds(s, m2, P, n, c)
  BY <1>15, HoldsTrans
<1> QED
  BY <1>9, <1>12, <1>14, <1>15, <1>16, HoldsTrans

(* delete, and what finds its key expired. *)
LEMMA EraseCmd ==
    ASSUME NEW s, NEW P, NEW n, NEW c, Fits(s, P, n, c), NEW off \in s.live,
           NEW u, u = eraseIteratorHelper(s, off, "master")
    PROVE  Passes(s, u, P, n, c)
<1> SUFFICES ASSUME Ready(u)
             PROVE  Ready(s) /\ RefsBut(u, {}) /\ Holds(s, u, P, n, c)
  BY DEF Passes
<1>1. Good(s) /\ NoneAhead(s) /\ s.tid \in Nat
  BY DEF Fits, Good, Struct, Slices
<1>2. Ready(s) /\ (Sides(s, P, n, c) => Holds(s, u, P, n, c))
  BY <1>1, FitsRef, ErasePasses
<1>3. RefsBut(s, {}) /\ Sides(s, P, n, c)
  BY <1>2 DEF Fits
<1>4. Tracks(s, {}, s.tid)
  BY <1>1, <1>3 DEF Tracks
<1>5. Tracks(u, {}, s.tid + 1)
  BY <1>1, <1>4, EraseTracks
<1> QED
  BY <1>2, <1>3, <1>5 DEF Tracks

(* touch. *)
LEMMA TouchCmd ==
    ASSUME NEW s, NEW P, NEW n, NEW c, Fits(s, P, n, c), NEW off \in s.live,
           NEW u, u = tidReplaceTid(s, off, "master")
    PROVE  Passes(s, u, P, n, c)
<1> SUFFICES ASSUME Ready(u)
             PROVE  Ready(s) /\ RefsBut(u, {}) /\ Holds(s, u, P, n, c)
  BY DEF Passes
<1>1. Good(s) /\ NoneAhead(s) /\ off \in Offs /\ Struct(s) /\ s.link[off] \in Nat
  BY DEF Fits, Good, Struct, Slices
<1> DEFINE m == unlinkTid(s, s.link[off], "master")
<1>2. u = linkTid(m, off, 0)
  BY DEF tidReplaceTid
<1>3. Follows(s, m) /\ Unref(m, off) /\ SameElems(s, m)
  BY <1>1, UnlinkOff
<1>4. Still(s, m)
  BY <1>1, UnlinkStill
<1>5. Good(m) /\ NoneAhead(m) /\ off \in m.live /\ m.key = s.key
  BY <1>1, <1>3, <1>4 DEF Follows, Still, KeepsBehind, SameElems
<1>6. /\ Ready(m)
      /\ (Sides(m, P, n, c) /\ NoKey(m, m.key[off]) => Holds(m, u, P, n, c))
      /\ (RefsBut(m, {off}) => RefsBut(u, {}))
  <2> HIDE DEF m
  <2> QED
    BY <1>2, <1>3, <1>5, LinkPasses
<1>7. \A o \in Offs \ {off} : SameData(s, s, o) /\ s.link[o] = s.link[o]
  BY DEF SameData
<1>8. /\ Ready(s) /\ (RefsBut(s, {}) => RefsBut(m, {off}))
      /\ (Sides(s, P, n, c) => Holds(s, m, P, n, c) /\ NoKey(m, s.key[off]))
  BY <1>1, <1>6, <1>7, FitsRef, UnlinkPasses
<1>9. RefsBut(s, {}) /\ Sides(s, P, n, c)
  BY <1>8 DEF Fits
<1> HIDE DEF m
<1>10. Holds(s, m, P, n, c) /\ Holds(m, u, P, n, c)
  BY <1>5, <1>6, <1>8, <1>9 DEF Holds
<1> QED
  BY <1>6, <1>8, <1>9, <1>10, HoldsTrans

(* checkTidTbl adds an empty block at most. *)
LEMMA CheckLog ==
    ASSUME NEW s, Good(s), NoneAhead(s), NEW u, u = checkTidTbl(s)
    PROVE  /\ Still(s, u) /\ Good(u) /\ NoneAhead(u) /\ u.live = s.live /\ u.tid = s.tid
           /\ Log(u) = Log(s)
           /\ \A t, x : Rec(u, t, x) <=> Rec(s, t, x)
<1>1. Struct(s) /\ s.tid \in Nat /\ Len(s.blks) \in Nat
  BY DEF Good, Struct, Slices
<1>2. Continues(s, u) /\ u.live = s.live
  BY CheckContinues, CheckTbl
<1>3. Good(u) /\ Struct(u) /\ NoneAhead(u)
  BY <1>2 DEF Continues, Follows, KeepsBehind, Good
<1> DEFINE n == s.tid + 1
<1>4. CASE u = s
  <2>1. Still(s, u)
    BY <1>1, <1>4, SameStill
  <2> QED
    BY <1>3, <1>4, <2>1
<1>5. CASE u = growTidTbl(s, n - Slot(n))
  <2>1. /\ SameElems(s, u) /\ SameBases(s, u) /\ u.tid = s.tid
        /\ Len(u.blks) = Len(s.blks) + 1
        /\ \A b \in 1 .. Len(s.blks) : u.blks[b] = s.blks[b]
        /\ \A i \in 0 .. BlkSz - 1 : EntryAt(u, Len(u.blks), i) = NoVal
    <3>1. n \in Nat /\ n <= s.tid + 1
      BY <1>1
    <3> HIDE DEF n
    <3> QED
      BY <1>1, <1>5, <3>1, GrowFacts
  <2>2. Still(s, u)
    BY <1>2, <2>1 DEF Still, SameElems, Continues
  <2>3. ASSUME NEW t, NEW x, Rec(u, t, x) PROVE Rec(s, t, x)
    <3>1. PICK b \in 1 .. Len(u.blks), i \in 0 .. BlkSz - 1 :
            EntryTid(u, b, i) = t /\ EntryAt(u, b, i) = x
      BY <2>3 DEF Rec, Recorded
    <3>2. b # Len(u.blks)
      BY <2>1, <2>3, <3>1 DEF Rec
    <3>3. b \in 1 .. Len(s.blks) /\ u.blks[b] = s.blks[b]
      BY <1>1, <2>1, <3>2
    <3> QED
      BY <2>3, <3>1, <3>3 DEF Rec, Recorded, EntryTid, EntryAt
  <2>4. ASSUME NEW t, NEW x, Rec(s, t, x) PROVE Rec(u, t, x)
    <3>1. PICK b \in 1 .. Len(s.blks), i \in 0 .. BlkSz - 1 :
            EntryTid(s, b, i) = t /\ EntryAt(s, b, i) = x
      BY <2>4 DEF Rec, Recorded
    <3>2. b \in 1 .. Len(u.blks) /\ u.blks[b] = s.blks[b]
      BY <1>1, <2>1
    <3> QED
      BY <2>4, <3>1, <3>2 DEF Rec, Recorded, EntryTid, EntryAt
  <2>5. \A t, x : Rec(u, t, x) <=> Rec(s, t, x)
    BY <2>3, <2>4
  <2>6. \A o \in Offs : SameData(s, u, o)
    BY <2>1 DEF SameElems, SameData
  <2>7. Log(u) = Log(s)
    BY <1>1, <1>3, <2>5, <2>6, SameLog
  <2> QED
    BY <1>2, <1>3, <2>1, <2>2, <2>5, <2>7
<1> QED
  BY <1>4, <1>5 DEF checkTidTbl

(* A round of trimsize. *)
LEMMA TrimCmd ==
    ASSUME NEW s, NEW P, NEW n, NEW c, Fits(s, P, n, c), NEW off \in s.live,
           NEW u, u = eraseIteratorHelper(checkTidTbl(s), off, "master")
    PROVE  Passes(s, u, P, n, c)
<1> SUFFICES ASSUME Ready(u)
             PROVE  Ready(s) /\ RefsBut(u, {}) /\ Holds(s, u, P, n, c)
  BY DEF Passes
<1> DEFINE m == checkTidTbl(s)
<1>1. Good(s) /\ NoneAhead(s) /\ s.tid \in Nat /\ Struct(s)
  BY DEF Fits, Good, Struct, Slices
<1>2. /\ Still(s, m) /\ Good(m) /\ NoneAhead(m) /\ off \in m.live /\ m.tid = s.tid
      /\ Log(m) = Log(s) /\ m.preClear = s.preClear
  BY <1>1, CheckLog DEF Still
<1>3. u = eraseIteratorHelper(m, off, "master")
  OBVIOUS
<1>4. ASSUME Ready(s) PROVE RefsBut(m, {}) /\ Sides(m, P, n, c)
  <2>1. RefsBut(s, {}) /\ Sides(s, P, n, c)
    BY <1>4 DEF Fits
  <2>2. Tracks(s, {}, s.tid)
    BY <1>1, <2>1 DEF Tracks
  <2>3. Tracks(m, {}, s.tid)
    BY <1>1, <2>2, CheckTracks
  <2> HIDE DEF m
  <2> QED
    BY <1>2, <2>1, <2>3 DEF Tracks, Sides
<1> HIDE DEF m
<1>5. ASSUME Ready(m) PROVE Ready(s)
  BY <1>1, <1>2, <1>5, ReadyBack
<1>6. Fits(m, P, n, c)
  BY <1>2, <1>4, <1>5 DEF Fits
<1>7. Passes(m, u, P, n, c)
  BY <1>2, <1>3, <1>6, EraseCmd
<1>8. Ready(m) /\ RefsBut(u, {}) /\ Holds(m, u, P, n, c)
  BY <1>7 DEF Passes
<1>9. Holds(s, u, P, n, c)
  BY <1>2, <1>8 DEF Holds
<1> QED
  BY <1>5, <1>8, <1>9

(* clear leaves a slice whose log is the flush. *)
LEMMA ClearLog ==
    ASSUME NEW s, Good(s), NEW u, u = clear(s, "master"), Ready(u)
    PROVE  /\ Log(u) = {FlushPkt(s.tid + 1)} /\ u.tid = s.tid + 1
           /\ u.preClear = s.tid /\ u.live = {}
<1> DEFINE m == [[s EXCEPT !.live = {}] EXCEPT !.blks = << >>, !.preClear = s.tid]
           v == TIDDEL_FLUSHALL
<1>1. s \in Slices /\ s.tid \in Nat
  BY DEF Good, Struct, Slices
<1>2. u = setTidTblEnt(m, v, 0)
  BY <1>1 DEF clear, clrTidTbl, isTidMaster, Slices
<1>3. /\ m \in Slices /\ m.blks = << >> /\ m.tid = s.tid /\ m.preClear = s.tid /\ m.live = {}
      /\ m.key = s.key /\ m.val = s.val
  <2>1. << >> \in Seq(Blocks)
    OBVIOUS
  <2> QED
    BY <1>1, <2>1 DEF Slices
<1> HIDE DEF m
<1>4. Struct(m) /\ NoneAhead(m)
  BY <1>3 DEF Struct, BasesWhole, LastBase, NoneAhead
<1>5. v \in TidVals /\ v # NoVal /\ Telling(v) /\ ~isTidValIterOff(v)
  BY DEF TIDDEL_FLUSHALL, TidVals, NoVal, Telling, iterOff2tidVal, isTidValIterOff
<1>6. InSeq(m, 0) /\ NewTid(m, 0) = s.tid + 1
  BY <1>3 DEF InSeq, NewTid
<1>7. v = [kind |-> "flush", arg |-> 0]
  BY DEF TIDDEL_FLUSHALL
<1> HIDE DEF v
<1>8. Appends(m, u, v) /\ SameElems(m, u) /\ u.tid = s.tid + 1
  BY <1>2, <1>4, <1>5, <1>6, SetAt
<1>9. HasRoom(m, s.tid + 1)
  <2>1. MaxBlks # 0
    BY <1>1, <1>8 DEF Ready
  <2> QED
    BY <1>3, <2>1 DEF HasRoom
<1>10. TblStep(m, u, s.tid + 1, s.tid + 1, v)
  BY <1>2, <1>4, <1>5, <1>6, <1>9, SetRec
<1>11. \A t, x : ~Rec(m, t, x)
  BY <1>3 DEF Rec, Recorded
<1>12. Log(u) = {p \in Log(m) : p.tid # s.tid + 1} \cup {PktOf(u, s.tid + 1, v)}
  BY <1>4, <1>5, <1>8, <1>10, <1>11, LogStep DEF Appends
<1>13. Log(m) = {}
  BY <1>11 DEF Log
<1>14. PktOf(u, s.tid + 1, v) = FlushPkt(s.tid + 1)
  BY <1>5, <1>7 DEF PktOf, del2tidPack, FlushPkt
<1> QED
  BY <1>3, <1>8, <1>12, <1>13, <1>14 DEF SameElems

-----------------------------------------------------------------------------
(* What the master sends. *)

(* Division by the size of a block is monotone. *)
LEMMA DivMono ==
    ASSUME NEW a \in Nat, NEW b \in Nat, a <= b
    PROVE  a \div BlkSz <= b \div BlkSz
BY SMTT(30)

(* A later tid is found in the same block or in a later one. *)
LEMMA LookupMono ==
    ASSUME NEW s, Struct(s), NEW x \in Nat, NEW y \in Nat, x <= y, tid2tblBlk(s, y) # 0
    PROVE  /\ tid2tblBlk(s, x) # 0 /\ tid2tblBlk(s, x) <= tid2tblBlk(s, y)
           /\ tid2tblBlk(s, x) \in 1 .. Len(s.blks)
<1> DEFINE fx == IF x < s.preClear THEN s.preClear ELSE x
           fy == IF y < s.preClear THEN s.preClear ELSE y
           pc == s.preClear
<1>1. pc \in Nat /\ Len(s.blks) \in Nat
  BY DEF Struct, Slices
<1>2. fx \in Nat /\ fy \in Nat /\ fx <= fy /\ pc <= fx /\ pc <= fy
  BY <1>1
<1>3. /\ tid2tblBlk(s, x) = IF (fx \div BlkSz) - (pc \div BlkSz) + 1 > Len(s.blks) THEN 0
                            ELSE (fx \div BlkSz) - (pc \div BlkSz) + 1
      /\ tid2tblBlk(s, y) = IF (fy \div BlkSz) - (pc \div BlkSz) + 1 > Len(s.blks) THEN 0
                            ELSE (fy \div BlkSz) - (pc \div BlkSz) + 1
  BY DEF tid2tblBlk
<1> HIDE DEF fx, fy, pc
<1>4. fx \div BlkSz \in Nat /\ fy \div BlkSz \in Nat /\ pc \div BlkSz \in Nat
  BY <1>1, <1>2, DivSlot
<1>5. fx \div BlkSz <= fy \div BlkSz /\ pc \div BlkSz <= fx \div BlkSz
  BY <1>1, <1>2, DivMono
<1>6. PICK dx \in Nat, dy \in Nat, dp \in Nat :
        dx = fx \div BlkSz /\ dy = fy \div BlkSz /\ dp = pc \div BlkSz
  BY <1>4
<1>7. dx <= dy /\ dp <= dx
  BY <1>5, <1>6
<1>8. /\ tid2tblBlk(s, x) = IF dx - dp + 1 > Len(s.blks) THEN 0 ELSE dx - dp + 1
      /\ tid2tblBlk(s, y) = IF dy - dp + 1 > Len(s.blks) THEN 0 ELSE dy - dp + 1
  BY <1>3, <1>6
<1>9. ~(dy - dp + 1 > Len(s.blks))
  BY <1>8
<1>10. dx - dp + 1 \in 1 .. Len(s.blks) /\ dx - dp + 1 <= dy - dp + 1
  BY <1>1, <1>7, <1>9
<1> QED
  BY <1>1, <1>8, <1>9, <1>10

(* Where the walk may start. *)
StartsAt(s, t, blk) ==
    blk = 0 \/ (blk \in 1 .. Len(s.blks) /\ s.blks[blk].base <= t)

(* While the index is aligned the walk finds all that is ahead. *)
LEMMA AheadAll ==
    ASSUME NEW s, Struct(s), Aligned(s), NEW t \in Nat, NEW blk, StartsAt(s, t, blk),
           NEW b \in 1 .. Len(s.blks), NEW i \in 0 .. BlkSz - 1,
           EntryTid(s, b, i) > t, EntryAt(s, b, i) # NoVal
    PROVE  << b, i >> \in Ahead(s, t, blk)
<1>1. EntryTid(s, b, i) \in Nat /\ tid2tblBlk(s, EntryTid(s, b, i)) = b
  BY LookupFinds
<1>2. tid2tblBlk(s, t) # 0 /\ tid2tblBlk(s, t) <= b
  BY <1>1, LookupMono
<1>3. blk # 0 => blk <= b
  <2> SUFFICES ASSUME blk # 0 PROVE blk <= b
    OBVIOUS
  <2>1. blk \in 1 .. Len(s.blks) /\ s.blks[blk].base <= t /\ 0 \in 0 .. BlkSz - 1
    BY DEF StartsAt
  <2>2. EntryTid(s, blk, 0) \in Nat /\ tid2tblBlk(s, EntryTid(s, blk, 0)) = blk
    BY <2>1, LookupFinds
  <2>3. EntryTid(s, blk, 0) = s.blks[blk].base
    <3>1. s.blks[blk].base \in Nat
      <4>1. s.blks \in Seq(Blocks)
        BY DEF Struct, Slices
      <4>2. s.blks[blk] \in Blocks
        BY <2>1, <4>1
      <4> QED
        BY <4>2 DEF Blocks
    <3> QED
      BY <3>1 DEF EntryTid
  <2>4. EntryTid(s, blk, 0) <= EntryTid(s, b, i)
    <3>1. EntryTid(s, blk, 0) <= t
      BY <2>1, <2>3
    <3> QED
      BY <1>1, <2>2, <3>1
  <2> QED
    BY <1>1, <2>2, <2>4, LookupMono
<1>4. (IF blk = 0 THEN tid2tblBlk(s, t) ELSE blk) # 0
      /\ b >= (IF blk = 0 THEN tid2tblBlk(s, t) ELSE blk)
  BY <1>2, <1>3
<1> QED
  BY <1>4 DEF Ahead

PktSet(q) == {q[i] : i \in 1 .. Len(q)}

(* The packets of q have growing tids after c and up to d. *)
Rising(q, c, d) ==
    \A i \in 1 .. Len(q) :
        /\ c < q[i].tid /\ q[i].tid <= d /\ (q[i].kind = "del" => q[i].old # 0)
        /\ \A j \in 1 .. i - 1 : q[j].tid < q[i].tid

(* The master is right for what is in flight, and for each log of X that the
   slave may have. *)
AtMaster(s, P, n, c, X) ==
    Ready(s) => /\ RefsBut(s, {}) /\ Sides(s, P, n, c)
                /\ \A R \in X : SlaveSide(Log(s), P, n, R)

(* The loop of tidGetNxtItems, which started at the tid c with P in flight. *)
Sending(st, P, n, c, X) ==
    /\ st \in GetStates /\ Batch(st)
    /\ c <= st.last /\ st.last <= st.cur /\ st.cur <= st.s.tid
    /\ Rising(st.pkts, c, st.last)
    /\ Ready(st.s) => StartsAt(st.s, st.cur, st.blk)
    /\ AtMaster(st.s, P \cup PktSet(st.pkts), n, st.cur, X)
    /\ Ready(st.s) /\ st.stop = "end" => \A q \in Log(st.s) : q.tid <= st.cur

(* What is in the log beyond a tid is found ahead of it. *)
LEMMA LogAhead ==
    ASSUME NEW s, Ready(s), NEW t \in Nat, NEW blk, StartsAt(s, t, blk),
           NEW p \in Log(s), p.tid > t
    PROVE  \E q \in Ahead(s, t, blk) : EntryTid(s, q[1], q[2]) = p.tid
<1>1. Struct(s) /\ Aligned(s)
  BY DEF Ready, Good
<1>2. PICK x \in TidVals : Rec(s, p.tid, x)
  BY DEF Log
<1>3. PICK b \in 1 .. Len(s.blks), i \in 0 .. BlkSz - 1 :
        EntryTid(s, b, i) = p.tid /\ EntryAt(s, b, i) = x
  BY <1>2 DEF Rec, Recorded
<1>4. << b, i >> \in Ahead(s, t, blk)
  BY <1>1, <1>2, <1>3, AheadAll DEF Rec
<1> QED
  BY <1>3, <1>4

(* The entry that the walk finds: a record, with no packet between. *)
Finds(s, t, blk, b, i) ==
    /\ b \in 1 .. Len(s.blks) /\ i \in 0 .. BlkSz - 1
    /\ EntryTid(s, b, i) \in Nat /\ EntryTid(s, b, i) > t /\ EntryTid(s, b, i) <= s.tid
    /\ EntryAt(s, b, i) \in TidVals /\ Rec(s, EntryTid(s, b, i), EntryAt(s, b, i))
    /\ isTidValIterOff(EntryAt(s, b, i)) => EntryAt(s, b, i).arg \in Offs \cup {0}
    /\ Ready(s) /\ StartsAt(s, t, blk)
         => \A q \in Log(s) : q.tid > t => EntryTid(s, b, i) <= q.tid

(* nxtTidTblVal finds a record of the log, and the first one after t. *)
LEMMA NxtFinds ==
    ASSUME NEW s, Good(s), NoneAhead(s), NEW t \in Nat, NEW blk, Ahead(s, t, blk) # {},
           NEW pos, pos = nxtTidTblVal(s, t, blk)
    PROVE  Finds(s, t, blk, pos[1], pos[2])
<1>1. Struct(s) /\ s \in Slices
  BY DEF Good, Struct
<1>2. /\ pos \in Ahead(s, t, blk)
      /\ \A q \in Ahead(s, t, blk) : EntryTid(s, pos[1], pos[2]) <= EntryTid(s, q[1], q[2])
  BY <1>1, NxtFound
<1>3. /\ pos[1] \in 1 .. Len(s.blks) /\ pos[2] \in 0 .. BlkSz - 1
      /\ EntryTid(s, pos[1], pos[2]) > t /\ EntryAt(s, pos[1], pos[2]) # NoVal
  BY <1>2 DEF Ahead
<1>4. /\ EntryAt(s, pos[1], pos[2]) \in TidVals /\ EntryTid(s, pos[1], pos[2]) \in Nat
      /\ isTidValIterOff(EntryAt(s, pos[1], pos[2]))
           => EntryAt(s, pos[1], pos[2]).arg \in Offs \cup {0}
  BY <1>1, <1>3, EntryType
<1>5. EntryTid(s, pos[1], pos[2]) <= s.tid
  BY <1>3 DEF NoneAhead
<1>6. Rec(s, EntryTid(s, pos[1], pos[2]), EntryAt(s, pos[1], pos[2]))
  BY <1>3 DEF Rec, Recorded
<1>7. ASSUME Ready(s), StartsAt(s, t, blk), NEW p \in Log(s), p.tid > t
      PROVE  EntryTid(s, pos[1], pos[2]) <= p.tid
  <2>1. PICK q \in Ahead(s, t, blk) : EntryTid(s, q[1], q[2]) = p.tid
    BY <1>7, LogAhead
  <2> QED
    BY <1>2, <2>1
<1> QED
  BY <1>3, <1>4, <1>5, <1>6, <1>7 DEF Finds

(* The loop skips an element that has expired, and erases it. *)
LEMMA SkipSends ==
    ASSUME NEW s, Good(s), NoneAhead(s), NEW P, NEW n, NEW c \in Nat, NEW X,
           \A R \in X : Tids(R), AtMaster(s, P, n, c, X), NEW blk,
           Ready(s) => StartsAt(s, c, blk), NEW b, NEW i, Finds(s, c, blk, b, i),
           isTidValIterOff(EntryAt(s, b, i)), EntryAt(s, b, i).arg # 0,
           NEW u, u = eraseIteratorHelper(s, EntryAt(s, b, i).arg, "master")
    PROVE  AtMaster(u, P, n, EntryTid(s, b, i), X)
<1> DEFINE off == EntryAt(s, b, i).arg
           t == EntryTid(s, b, i)
<1> SUFFICES ASSUME Ready(u)
             PROVE  /\ RefsBut(u, {}) /\ Sides(u, P, n, t)
                    /\ \A R \in X : SlaveSide(Log(u), P, n, R)
  BY DEF AtMaster
<1>1. /\ off \in Offs /\ t \in Nat /\ t > c /\ t <= s.tid /\ s.tid \in Nat
      /\ Rec(s, t, EntryAt(s, b, i)) /\ EntryAt(s, b, i) \in TidVals
  BY DEF Finds, Good, Struct, Slices
<1>2. EntryAt(s, b, i) = iterOff2tidVal(off)
  BY <1>1 DEF TidVals, isTidValIterOff, iterOff2tidVal, NoVal, TIDDEL_FLUSHALL
<1>a. u = eraseIteratorHelper(s, off, "master")
  OBVIOUS
<1> HIDE DEF off, t
<1>b. Ready(s)
  BY <1>1, <1>a, EraseReady
<1>3. Ready(s) /\ Aligned(s)
  BY <1>b DEF Ready
<1>4. s.link[off] = t /\ off \in s.live /\ HasRef(s, off)
  BY <1>1, <1>2, <1>3, RecLink
<1>5. RefsBut(s, {}) /\ Sides(s, P, n, c) /\ \A R \in X : SlaveSide(Log(s), P, n, R)
  BY <1>3 DEF AtMaster
<1>6. Passes(s, u, P, n, c)
  BY <1>4, <1>5, <1>a, EraseCmd DEF Fits
<1>7. RefsBut(u, {}) /\ Holds(s, u, P, n, c)
  BY <1>6 DEF Passes
<1>8. ErasedAt(s, u, t)
  BY <1>3, <1>4, <1>a, ErasePasses
<1>9. \A R \in X : SlaveSide(Log(u), P, n, R)
  BY <1>5, <1>7 DEF Holds
<1>10. Sides(u, P, n, t)
  <2>1. MasterSide(Log(u), u.preClear, u.tid, P, n, c)
    BY <1>7 DEF Holds, Sides
  <2>2. Tids(P) /\ Ranges(Log(u), u.preClear, u.tid, P, n, c) /\ n \in Nat /\ n <= c
    BY <2>1 DEF MasterSide, Ranges
  <2>3. n <= t /\ t <= u.tid /\ u.tid = s.tid + 1
    BY <1>1, <1>8, <2>2 DEF ErasedAt
  <2>4. \A p \in P : p.tid <= t
    BY <1>1, <2>2 DEF Ranges, Tids
  <2>5. ASSUME NEW q \in Log(u), c < q.tid PROVE ~(q.tid <= t)
    <3>1. CASE q \in Log(s) /\ q.tid # t
      <4>1. t <= q.tid
        BY <1>3, <2>5, <3>1 DEF Finds, t
      <4>2. q.tid \in Nat
        BY <3>1, LogTids DEF Good
      <4> QED
        BY <1>1, <3>1, <4>1, <4>2
    <3>2. CASE q = DelPkt(u.tid, t)
      BY <1>1, <2>3, <3>2 DEF DelPkt
    <3> QED
      BY <1>8, <3>1, <3>2 DEF ErasedAt
  <2> QED
    BY <1>1, <2>1, <2>3, <2>4, <2>5, SideCursor DEF Sides
<1> QED
  BY <1>7, <1>9, <1>10

(* The packet of an entry is in the log, and its deletion is of something. *)
LEMMA PacketInLog ==
    ASSUME NEW s, Good(s), NoneAhead(s), NEW c, NEW blk, NEW b, NEW i,
           Finds(s, c, blk, b, i),
           ~(isTidValIterOff(EntryAt(s, b, i)) /\ EntryAt(s, b, i).arg = 0),
           NEW p, p = PacketOf(s, b, i)
    PROVE  /\ p \in Log(s) /\ p \in Packets /\ p.tid = EntryTid(s, b, i)
           /\ p.kind = "del" => p.old # 0
<1> DEFINE x == EntryAt(s, b, i)
           t == EntryTid(s, b, i)
<1>1. Struct(s) /\ s \in Slices /\ t \in Nat /\ x \in TidVals /\ Rec(s, t, x)
  BY DEF Finds, Good, Struct
<1>2. Telling(x)
  BY <1>1 DEF Telling, Rec, iterOff2tidVal, isTidValIterOff
<1>3. p = PktOf(s, t, x)
  BY DEF PacketOf, PktOf
<1> HIDE DEF x, t
<1>4. p \in Log(s)
  BY <1>1, <1>2, <1>3, LogHas
<1>5. /\ p \in Packets /\ p.tid = t
      /\ isTidValIterOff(x) => IsAdd(p)
      /\ ~isTidValIterOff(x) => p.kind = x.kind /\ p.old = x.arg
  BY <1>1, <1>2, <1>3, PktType
<1>6. p.kind = "del" => p.old # 0
  BY <1>1, <1>5 DEF TidVals, isTidValIterOff, IsAdd, NoVal, TIDDEL_FLUSHALL
<1> QED
  BY <1>4, <1>5, <1>6 DEF t

(* The loop puts a packet into the buffer. *)
LEMMA PutSends ==
    ASSUME NEW s, Good(s), NoneAhead(s), NEW P, NEW n, NEW c \in Nat, NEW X,
           AtMaster(s, P, n, c, X), NEW blk, Ready(s) => StartsAt(s, c, blk),
           NEW b, NEW i, Finds(s, c, blk, b, i), NEW p \in Log(s), p.tid = EntryTid(s, b, i)
    PROVE  AtMaster(s, P \cup {p}, n, p.tid, X)
<1> SUFFICES ASSUME Ready(s)
             PROVE  /\ RefsBut(s, {}) /\ Sides(s, P \cup {p}, n, p.tid)
                    /\ \A R \in X : SlaveSide(Log(s), P \cup {p}, n, R)
  BY DEF AtMaster
<1>1. RefsBut(s, {}) /\ Sides(s, P, n, c) /\ \A R \in X : SlaveSide(Log(s), P, n, R)
  BY DEF AtMaster
<1>2. c < p.tid /\ \A q \in Log(s) : c < q.tid => p.tid <= q.tid
  <2>1. p.tid \in Nat /\ p.tid > c
    BY DEF Finds
  <2>2. ASSUME NEW q \in Log(s), c < q.tid PROVE p.tid <= q.tid
    <3>1. q.tid \in Nat
      BY LogTids DEF Good
    <3>2. q.tid > c
      BY <2>2, <3>1
    <3> QED
      BY <3>2 DEF Finds
  <2> QED
    BY <2>1, <2>2
<1> DEFINE Q == P \cup {p}
<1>3. /\ MasterSide(Log(s), s.preClear, s.tid, Q, n, p.tid)
      /\ \A R : SlaveSide(Log(s), P, n, R) => SlaveSide(Log(s), Q, n, R)
  <2>1. MasterSide(Log(s), s.preClear, s.tid, P, n, c)
    BY <1>1 DEF Sides
  <2> QED
    BY <1>2, <2>1, SideSend
<1> QED
  BY <1>1, <1>3 DEF Sides

Appended(q, c, d, p, u) ==
    /\ Rising(q, c, d) /\ c <= d /\ d < p.tid /\ (p.kind = "del" => p.old # 0)
    /\ u = Append(q, p)

(* Appending a packet to packets with growing tids. *)
LEMMA RisingAppend ==
    ASSUME NEW q \in Seq(Packets), NEW c \in Nat, NEW d \in Nat, NEW p \in Packets,
           NEW u, Appended(q, c, d, p, u)
    PROVE  Rising(u, c, p.tid) /\ PktSet(u) = PktSet(q) \cup {p}
<1> DEFINE e == p.tid
<1>0. /\ Rising(q, c, d) /\ c <= d /\ d < e /\ (p.kind = "del" => p.old # 0)
      /\ u = Append(q, p) /\ e \in Nat
  BY PktTid DEF Appended
<1> HIDE DEF e
<1>1. /\ u \in Seq(Packets) /\ Len(u) = Len(q) + 1 /\ Len(q) \in Nat
      /\ u[Len(u)] = p /\ \A j \in 1 .. Len(q) : u[j] = q[j]
  BY <1>0, AppendAt
<1>2. \A i \in 1 .. Len(u) : i \in 1 .. Len(q) \/ i = Len(u)
  BY <1>1
<1>3. \A j \in 1 .. Len(q) : q[j].tid \in Nat /\ c < q[j].tid /\ q[j].tid <= d
  BY <1>0, PktTid DEF Rising
<1>4. ASSUME NEW i \in 1 .. Len(u)
      PROVE  /\ c < u[i].tid /\ u[i].tid <= e /\ (u[i].kind = "del" => u[i].old # 0)
             /\ \A j \in 1 .. i - 1 : u[j].tid < u[i].tid
  <2>1. CASE i \in 1 .. Len(q)
    <3>1. \A j \in 1 .. i - 1 : j \in 1 .. Len(q)
      BY <1>1, <2>1
    <3> QED
      BY <1>0, <1>1, <1>3, <2>1, <3>1 DEF Rising
  <2>2. CASE i = Len(u)
    <3>1. \A j \in 1 .. i - 1 : j \in 1 .. Len(q)
      BY <1>1, <2>2
    <3>2. \A j \in 1 .. i - 1 : u[j].tid < u[i].tid
      BY <1>0, <1>1, <1>3, <2>2, <3>1 DEF e
    <3> QED
      BY <1>0, <1>1, <2>2, <3>2 DEF e
  <2> QED
    BY <1>2, <2>1, <2>2
<1>5. PktSet(u) = PktSet(q) \cup {p}
  <2>1. 1 .. Len(u) = (1 .. Len(q)) \cup {Len(u)}
    BY <1>1
  <2> QED
    BY <1>1, <2>1 DEF PktSet
<1> QED
  BY <1>4, <1>5 DEF Rising, e

(* One turn of the loop of tidGetNxtItems. *)
LEMMA ItemSends ==
    ASSUME NEW st, NEW P, NEW n, NEW c \in Nat, NEW X, \A R \in X : Tids(R),
           Sending(st, P, n, c, X), NEW expired, NEW u, u = getNxtTidItem(st, expired)
    PROVE  Sending(u, P, n, c, X)
<1> DEFINE pos == nxtTidTblVal(st.s, st.cur, st.blk)
           tid == EntryTid(st.s, pos[1], pos[2])
           v   == EntryAt(st.s, pos[1], pos[2])
           pkt == PacketOf(st.s, pos[1], pos[2])
           some == st.stop = "no" /\ Ahead(st.s, st.cur, st.blk) # {}
<1>1. /\ st \in GetStates /\ Batch(st) /\ Good(st.s) /\ Struct(st.s) /\ NoneAhead(st.s)
      /\ st.pkts \in Seq(Packets) /\ st.cur \in Nat /\ st.last \in Nat /\ st.s.tid \in Nat
      /\ c <= st.last /\ st.last <= st.cur /\ st.cur <= st.s.tid
      /\ Rising(st.pkts, c, st.last)
      /\ (Ready(st.s) => StartsAt(st.s, st.cur, st.blk))
      /\ AtMaster(st.s, P \cup PktSet(st.pkts), n, st.cur, X)
  BY DEF Sending, GetStates, Batch, Good, Slices
<1>2. u \in GetStates /\ Batch(u)
  BY <1>1, ItemContinues
<1>3. ASSUME NEW x \in {"full", "null"}, u = [st EXCEPT !.stop = x]
      PROVE  Sending(u, P, n, c, X)
  <2>1. /\ u.s = st.s /\ u.pkts = st.pkts /\ u.cur = st.cur /\ u.last = st.last
        /\ u.blk = st.blk /\ u.stop # "end"
    BY <1>1, <1>3 DEF GetStates
  <2> QED
    BY <1>1, <1>2, <2>1 DEF Sending
<1>4. CASE st.stop # "no"
  <2>1. u = st
    BY <1>4 DEF getNxtTidItem
  <2> QED
    BY <2>1
<1>5. CASE st.stop = "no" /\ Ahead(st.s, st.cur, st.blk) = {}
  <2>1. u = [st EXCEPT !.stop = "end"]
    BY <1>5 DEF getNxtTidItem
  <2>2. /\ u.s = st.s /\ u.pkts = st.pkts /\ u.cur = st.cur /\ u.last = st.last
        /\ u.blk = st.blk
    BY <1>1, <2>1 DEF GetStates
  <2>3. ASSUME Ready(st.s), NEW q \in Log(st.s) PROVE q.tid <= st.cur
    <3>1. q.tid \in Nat
      BY <1>1, LogTids
    <3>2. ~(q.tid > st.cur)
      BY <1>1, <1>5, <2>3, LogAhead
    <3> QED
      BY <1>1, <3>1, <3>2
  <2> QED
    BY <1>1, <1>2, <2>2, <2>3 DEF Sending
<1>6. CASE some /\ isTidValIterOff(v) /\ v.arg = 0
  <2>1. u = [st EXCEPT !.stop = "null"]
    BY <1>6 DEF getNxtTidItem
  <2> QED
    BY <1>3, <2>1
<1>7. some => Finds(st.s, st.cur, st.blk, pos[1], pos[2])
  BY <1>1, NxtFinds
<1>8. CASE some /\ isTidValIterOff(v) /\ v.arg # 0 /\ v.arg \in expired
  <2>1. u = [st EXCEPT !.s = eraseIteratorHelper(st.s, v.arg, "master"),
                       !.cur = tid, !.blk = 0]
    BY <1>8 DEF getNxtTidItem
  <2>2. Finds(st.s, st.cur, st.blk, pos[1], pos[2])
    BY <1>7, <1>8
  <2>3. tid \in Nat /\ tid > st.cur /\ tid <= st.s.tid /\ v.arg \in Offs
    BY <1>8, <2>2 DEF Finds
  <2> DEFINE e == eraseIteratorHelper(st.s, v.arg, "master")
  <2>4. AtMaster(e, P \cup PktSet(st.pkts), n, tid, X)
    <3> HIDE DEF pos
    <3> QED
      BY <1>1, <1>8, <2>2, SkipSends
  <2>5. st.s.tid <= e.tid /\ e.tid \in Nat
    <3>1. PICK o \in Offs : o = v.arg
      BY <2>3
    <3>2. Continues(st.s, eraseIteratorHelper(st.s, o, "master"))
      BY <1>1, EraseContinues
    <3>3. Continues(st.s, e)
      BY <3>1, <3>2
    <3> HIDE DEF e
    <3> QED
      BY <1>1, <3>3 DEF Continues, Follows, Good, Struct, Slices
  <2>6. u = [st EXCEPT !.s = e, !.cur = tid, !.blk = 0]
    BY <2>1
  <2> HIDE DEF e, tid, v
  <2>7. /\ u.s = e /\ u.pkts = st.pkts /\ u.cur = tid /\ u.last = st.last
        /\ u.blk = 0 /\ u.stop = "no"
    BY <1>1, <1>8, <2>6 DEF GetStates
  <2> QED
    BY <1>1, <1>2, <2>3, <2>4, <2>5, <2>7 DEF Sending, StartsAt
<1>9. CASE some /\ ~(isTidValIterOff(v) /\ (v.arg = 0 \/ v.arg \in expired)) /\ Fills(st.pkts)
  <2>1. u = [st EXCEPT !.stop = "full"]
    BY <1>9 DEF getNxtTidItem
  <2> QED
    BY <1>3, <2>1
<1>10. CASE some /\ ~(isTidValIterOff(v) /\ (v.arg = 0 \/ v.arg \in expired)) /\ ~Fills(st.pkts)
  <2>1. u = [st EXCEPT !.pkts = Append(st.pkts, pkt), !.blk = pos[1],
                       !.cur = tid, !.last = tid]
    BY <1>10 DEF getNxtTidItem, PacketOf
  <2>2. Finds(st.s, st.cur, st.blk, pos[1], pos[2])
    BY <1>7, <1>10
  <2>3. tid \in Nat /\ tid > st.cur /\ tid <= st.s.tid /\ pos[1] \in 1 .. Len(st.s.blks)
    BY <2>2 DEF Finds
  <2>4. /\ pkt \in Log(st.s) /\ pkt \in Packets /\ pkt.tid = tid
        /\ pkt.kind = "del" => pkt.old # 0
    <3> HIDE DEF pos
    <3> QED
      BY <1>1, <1>10, <2>2, PacketInLog
  <2>5. AtMaster(st.s, P \cup PktSet(st.pkts) \cup {pkt}, n, tid, X)
    <3> HIDE DEF pos, pkt
    <3>1. pkt \in Log(st.s) /\ pkt.tid = EntryTid(st.s, pos[1], pos[2])
      BY <2>4
    <3>2. AtMaster(st.s, P \cup PktSet(st.pkts) \cup {pkt}, n, pkt.tid, X)
      <4> DEFINE Q == P \cup PktSet(st.pkts)
                 b == pos[1]
                 i == pos[2]
      <4>1. AtMaster(st.s, Q, n, st.cur, X) /\ Finds(st.s, st.cur, st.blk, b, i)
            /\ pkt.tid = EntryTid(st.s, b, i)
        BY <1>1, <2>2, <3>1
      <4> HIDE DEF Q, b, i
      <4>2. AtMaster(st.s, Q \cup {pkt}, n, pkt.tid, X)
        BY <1>1, <3>1, <4>1, PutSends
      <4> QED
        BY <4>2 DEF Q
    <3> QED
      BY <2>4, <3>2
  <2>6. StartsAt(st.s, tid, pos[1])
    <3> HIDE DEF pos
    <3>1. pos[2] \in Nat /\ tid = st.s.blks[pos[1]].base + pos[2]
      BY <2>2 DEF Finds, EntryTid
    <3>2. st.s.blks[pos[1]].base \in Nat
      <4>1. st.s.blks \in Seq(Blocks)
        BY <1>1 DEF Struct, Slices
      <4>2. st.s.blks[pos[1]] \in Blocks
        BY <2>3, <4>1
      <4> QED
        BY <4>2 DEF Blocks
    <3>3. PICK x \in Nat : x = st.s.blks[pos[1]].base
      BY <3>2
    <3>4. PICK y \in Nat : y = pos[2]
      BY <3>1
    <3>5. tid = x + y
      BY <3>1, <3>3, <3>4
    <3>6. x <= tid
      BY <3>5
    <3> HIDE DEF tid
    <3> QED
      BY <2>3, <3>3, <3>6 DEF StartsAt
  <2> HIDE DEF pos, tid, pkt
  <2>7. Rising(Append(st.pkts, pkt), c, tid)
        /\ PktSet(Append(st.pkts, pkt)) = PktSet(st.pkts) \cup {pkt}
    <3>1. st.last < tid
      BY <1>1, <2>3
    <3>2. pkt \in Packets /\ pkt.tid = tid /\ (pkt.kind = "del" => pkt.old # 0)
      BY <2>4
    <3>3. st.pkts \in Seq(Packets) /\ st.last \in Nat /\ c <= st.last
          /\ Rising(st.pkts, c, st.last)
      BY <1>1
    <3> DEFINE q == Append(st.pkts, pkt)
    <3> HIDE DEF q
    <3>a. PICK r \in Seq(Packets), d \in Nat, p \in Packets :
            r = st.pkts /\ d = st.last /\ p = pkt
      BY <3>2, <3>3
    <3>b. Appended(r, c, d, p, q)
      BY <3>1, <3>2, <3>3, <3>a DEF Appended, q
    <3>c. Rising(q, c, p.tid) /\ PktSet(q) = PktSet(r) \cup {p}
      BY <3>b, RisingAppend
    <3>4. Rising(q, c, tid) /\ PktSet(q) = PktSet(st.pkts) \cup {pkt}
      BY <3>2, <3>a, <3>c
    <3> QED
      BY <3>4 DEF q
  <2>8. /\ u.s = st.s /\ u.pkts = Append(st.pkts, pkt) /\ u.cur = tid /\ u.last = tid
        /\ u.blk = pos[1] /\ u.stop = "no"
    BY <1>1, <1>10, <2>1 DEF GetStates
  <2>9. AtMaster(u.s, P \cup PktSet(u.pkts), n, tid, X)
    <3>1. P \cup PktSet(st.pkts) \cup {pkt} = P \cup (PktSet(st.pkts) \cup {pkt})
      OBVIOUS
    <3> QED
      BY <2>5, <2>7, <2>8, <3>1
  <2> QED
    BY <1>1, <1>2, <2>3, <2>6, <2>7, <2>8, <2>9 DEF Sending
<1> QED
  BY <1>4, <1>5, <1>6, <1>8, <1>9, <1>10

(* The loop has ended: the tid that it reports is right for the next batch. *)
LEMMA SendsAll ==
    ASSUME NEW st, NEW P, NEW n \in Nat, NEW c \in Nat, NEW X, n <= c, Tids(P),
           \A p \in P : p.tid <= c, Sending(st, P, n, c, X), NEW r, r = GetResult(st)
    PROVE  /\ c <= r.last /\ r.last <= r.s.tid /\ Rising(r.pkts, c, r.last)
           /\ AtMaster(r.s, P \cup PktSet(r.pkts), n, r.last, X)
<1>1. /\ st.cur \in Nat /\ st.last \in Nat /\ st.s.tid \in Nat /\ st.pkts \in Seq(Packets)
      /\ c <= st.last /\ st.last <= st.cur /\ st.cur <= st.s.tid
      /\ Rising(st.pkts, c, st.last)
      /\ AtMaster(st.s, P \cup PktSet(st.pkts), n, st.cur, X)
      /\ (Ready(st.s) /\ st.stop = "end" => \A q \in Log(st.s) : q.tid <= st.cur)
  BY DEF Sending, GetStates, Slices
<1>2. /\ r.s = st.s /\ r.pkts = st.pkts
      /\ r.last = IF st.stop = "end" THEN st.s.tid ELSE st.last
  BY DEF GetResult
<1>3. r.last \in Nat /\ st.last <= r.last /\ c <= r.last /\ r.last <= st.s.tid /\ n <= r.last
  <2>1. CASE st.stop = "end"
    BY <1>1, <1>2, <2>1
  <2>2. CASE st.stop # "end"
    BY <1>1, <1>2, <2>2
  <2> QED
    BY <2>1, <2>2
<1>4. \A i \in 1 .. Len(st.pkts) : st.pkts[i].tid \in Nat /\ st.pkts[i].tid <= st.last
  BY <1>1, PktTid DEF Rising
<1>5. Rising(st.pkts, c, r.last)
  <2>0. PICK x \in Nat, y \in Nat : x = st.last /\ y = r.last
    BY <1>1, <1>3
  <2>1. ASSUME NEW i \in 1 .. Len(st.pkts) PROVE st.pkts[i].tid <= r.last
    <3>1. st.pkts[i].tid \in Nat /\ st.pkts[i].tid <= x /\ x <= y
      BY <1>3, <1>4, <2>0
    <3> QED
      BY <2>0, <3>1
  <2> QED
    BY <1>1, <2>1 DEF Rising
<1> DEFINE Q == P \cup PktSet(st.pkts)
<1>6. \A p \in Q : p.tid <= r.last
  <2>1. \A p \in P : p.tid <= r.last
    BY <1>3 DEF Tids
  <2>2. \A p \in PktSet(st.pkts) : p.tid <= r.last
    BY <1>1, <1>3, <1>4 DEF PktSet
  <2> QED
    BY <2>1, <2>2
<1>7. AtMaster(st.s, Q, n, st.cur, X)
  BY <1>1
<1> HIDE DEF Q
<1>8. AtMaster(st.s, Q, n, r.last, X)
  <2> SUFFICES ASSUME Ready(st.s)
               PROVE  /\ RefsBut(st.s, {}) /\ Sides(st.s, Q, n, r.last)
                      /\ \A R \in X : SlaveSide(Log(st.s), Q, n, R)
    BY DEF AtMaster
  <2>1. /\ RefsBut(st.s, {}) /\ Sides(st.s, Q, n, st.cur)
        /\ \A R \in X : SlaveSide(Log(st.s), Q, n, R)
    BY <1>7 DEF AtMaster
  <2>2. ASSUME NEW q \in Log(st.s), st.cur < q.tid PROVE ~(q.tid <= r.last)
    <3>1. q.tid \in Nat
      BY LogTids DEF Ready, Good
    <3>2. CASE st.stop = "end"
      BY <1>1, <2>2, <3>1, <3>2
    <3>3. CASE st.stop # "end"
      BY <1>1, <1>2, <2>2, <3>1, <3>3
    <3> QED
      BY <3>2, <3>3
  <2>3. MasterSide(Log(st.s), st.s.preClear, st.s.tid, Q, n, st.cur)
    BY <2>1 DEF Sides
  <2>4. MasterSide(Log(st.s), st.s.preClear, st.s.tid, Q, n, r.last)
    BY <1>3, <1>6, <2>2, <2>3, SideCursor
  <2> QED
    BY <2>1, <2>4 DEF Sides
<1> QED
  BY <1>2, <1>3, <1>5, <1>8 DEF Q

(* A whole batch of tidGetNxtItems. *)
LEMMA BatchSends ==
    ASSUME NEW s, Good(s), NoneAhead(s), NEW P, NEW n \in Nat, NEW t \in Nat, t <= s.tid,
           NEW X, \A R \in X : Tids(R), n <= t, Tids(P), \A p \in P : p.tid <= t,
           AtMaster(s, P, n, t, X), NEW expired, NEW r, r = tidGetNxtItems(s, t, expired)
    PROVE  /\ t <= r.last /\ r.last <= r.s.tid /\ Rising(r.pkts, t, r.last)
           /\ AtMaster(r.s, P \cup PktSet(r.pkts), n, r.last, X)
<1>1. Struct(s) /\ s \in Slices /\ s.tid \in Nat
  BY DEF Good, Struct, Slices
<1>a. PICK M \in Nat : \E turn : GetTurning(M, turn, s, t, expired, r)
  BY <1>1, GetTurns
<1>2. PICK turn : /\ turn[0] = GetFirst(s, t)
                  /\ \A k \in 1 .. M : turn[k] = getNxtTidItem(turn[k - 1], expired)
                  /\ r = GetResult(turn[M])
  BY <1>a DEF GetTurning
<1> DEFINE S == {k \in Nat : Sending(turn[k], P, n, t, X)}
<1>3. 0 \in S
  <2> DEFINE x == GetFirst(s, t)
  <2>1. /\ x.s = s /\ x.pkts = << >> /\ << >> \in Seq(Packets) /\ Len(x.pkts) = 0
        /\ x.cur = t /\ x.last = t /\ x.blk = 0 /\ x.stop = "no"
    BY DEF GetFirst
  <2>2. x \in GetStates
    BY <1>1, <2>1 DEF GetStates, GetFirst
  <2> HIDE DEF x
  <2>3. Batch(x)
    BY <2>1, BatchMaxAssumption DEF Batch
  <2>4. PktSet(x.pkts) = {} /\ Rising(x.pkts, t, t)
    BY <2>1 DEF PktSet, Rising
  <2>5. P \cup {} = P
    OBVIOUS
  <2>6. Sending(x, P, n, t, X)
    <3>1. AtMaster(x.s, P \cup PktSet(x.pkts), n, x.cur, X)
      BY <2>1, <2>4, <2>5
    <3>2. StartsAt(x.s, x.cur, x.blk)
      BY <2>1 DEF StartsAt
    <3>3. t <= x.last /\ x.last <= x.cur /\ x.cur <= x.s.tid /\ x.stop # "end"
          /\ Rising(x.pkts, t, x.last)
      BY <1>1, <2>1, <2>4
    <3> QED
      BY <2>2, <2>3, <3>1, <3>2, <3>3 DEF Sending
  <2> QED
    BY <1>2, <2>6 DEF x
<1>4. ASSUME NEW k \in 0 .. M - 1, k \in S PROVE k + 1 \in S
  <2>1. k + 1 \in 1 .. M /\ (k + 1) - 1 = k /\ k + 1 \in Nat
    OBVIOUS
  <2>2. turn[k + 1] = getNxtTidItem(turn[k], expired)
    BY <1>2, <2>1
  <2>3. Sending(turn[k], P, n, t, X)
    BY <1>4
  <2>4. Sending(turn[k + 1], P, n, t, X)
    BY <2>2, <2>3, ItemSends
  <2> QED
    BY <2>1, <2>4
<1> HIDE DEF S
<1>5. 0 .. M \subseteq S
  BY <1>3, <1>4, UpTo
<1>6. Sending(turn[M], P, n, t, X)
  BY <1>5 DEF S
<1> QED
  BY <1>2, <1>6, SendsAll

-----------------------------------------------------------------------------
(* What the slave makes of a packet.  Its blocks are at least as far apart as
   their size, so that it has a block for each tid for which the master has one. *)

Spaced(s) ==
    s.blks # << >> => (Len(s.blks) - 1) * BlkSz <= s.blks[Len(s.blks)].base

UniqueKeys(s) == \A o, x \in s.live : s.key[o] = s.key[x] => o = x

Sound(s) ==
    Good(s) /\ NoneAhead(s) /\ Spaced(s) /\ UniqueKeys(s) /\ s.preClear <= s.tid

(* There is a block for every tid that the blocks can hold. *)
LEMMA RoomIfSpaced ==
    ASSUME NEW s, Struct(s), Spaced(s), NEW n \in Nat, n < MaxBlks * BlkSz
    PROVE  HasRoom(s, n)
<1>1. s.blks \in Seq(Blocks) /\ Len(s.blks) \in Nat
  BY DEF Struct, Slices
<1>2. CASE s.blks = << >>
  <2>1. MaxBlks > 0
    <3>1. CASE MaxBlks = 0
      BY <3>1
    <3> QED
      BY <3>1
  <2> QED
    BY <1>2, <2>1 DEF HasRoom
<1>3. CASE s.blks # << >>
  <2> SUFFICES ASSUME NeedsBlk(s, n), ~(Len(s.blks) < MaxBlks) PROVE FALSE
    BY DEF HasRoom
  <2>1. PICK b \in Nat : b = s.blks[Len(s.blks)].base
    BY <1>1, <1>3, LastBlk
  <2>2. PICK l \in Nat : l = Len(s.blks)
    BY <1>1
  <2>3. (l - 1) * BlkSz <= b /\ n >= b + BlkSz
    BY <1>3, <2>1, <2>2 DEF Spaced, NeedsBlk
  <2>4. (l - 1) * BlkSz + BlkSz = l * BlkSz /\ l * BlkSz >= MaxBlks * BlkSz
    BY <2>2
  <2>5. (l - 1) * BlkSz \in Int /\ l * BlkSz \in Int /\ MaxBlks * BlkSz \in Int
    OBVIOUS
  <2> QED
    BY <2>3, <2>4, <2>5
<1> QED
  BY <1>2, <1>3

(* The same number of blocks with the same bases. *)
LEMMA SameSpaced ==
    ASSUME NEW s, Struct(s), Spaced(s), NEW u, Struct(u), SameBases(s, u),
           Len(u.blks) = Len(s.blks)
    PROVE  Spaced(u)
<1>1. s.blks \in Seq(Blocks) /\ u.blks \in Seq(Blocks) /\ Len(s.blks) \in Nat
  BY DEF Struct, Slices
<1>2. CASE u.blks = << >>
  BY <1>2 DEF Spaced
<1>3. CASE u.blks # << >>
  <2>1. Len(u.blks) \in 1 .. Len(u.blks)
    BY <1>1, <1>3, LastBlk
  <2>2. s.blks # << >> /\ u.blks[Len(u.blks)].base = s.blks[Len(s.blks)].base
    BY <1>1, <2>1 DEF SameBases
  <2> QED
    BY <2>2 DEF Spaced
<1> QED
  BY <1>2, <1>3

(* growTidTbl adds a block where one is needed. *)
LEMMA GrowSpaced ==
    ASSUME NEW s, Struct(s), Spaced(s), NEW n \in Nat, n <= s.tid + 1, NeedsBlk(s, n),
           NEW u, u = growTidTbl(s, n - Slot(n))
    PROVE  Spaced(u)
<1>1. s.blks \in Seq(Blocks) /\ Len(s.blks) \in Nat
  BY DEF Struct, Slices
<1>2. Len(u.blks) = Len(s.blks) + 1 /\ u.blks[Len(u.blks)].base = n - Slot(n)
  BY GrowFacts
<1>3. PICK l \in Nat : l = Len(s.blks)
  BY <1>1
<1>4. PICK q \in Nat : q = n \div BlkSz /\ n - Slot(n) = q * BlkSz
  BY DivSlot
<1>5. Slot(n) \in 0 .. BlkSz - 1
  BY DivSlot
<1>6. l <= q
  <2>1. CASE s.blks = << >>
    BY <1>3, <2>1
  <2>2. CASE s.blks # << >>
    <3>1. PICK b \in Nat : b = s.blks[Len(s.blks)].base
      BY <1>1, <2>2, LastBlk
    <3>2. (l - 1) * BlkSz <= b /\ n >= b + BlkSz
      BY <1>3, <2>2, <3>1 DEF Spaced, NeedsBlk
    <3>3. (l - 1) * BlkSz + BlkSz = l * BlkSz
      OBVIOUS
    <3>4. l * BlkSz <= n
      BY <3>2, <3>3
    <3>5. l * BlkSz < q * BlkSz + BlkSz
      BY <1>4, <1>5, <3>4
    <3>6. l * BlkSz < (q + 1) * BlkSz
      BY <3>5
    <3> QED
      BY <3>6
  <2> QED
    BY <2>1, <2>2
<1>7. l * BlkSz <= q * BlkSz
  BY <1>6
<1>8. Len(u.blks) - 1 = l
  BY <1>2, <1>3
<1> QED
  BY <1>2, <1>4, <1>7, <1>8 DEF Spaced

(* So does setTidTblEnt. *)
LEMMA SetSpaced ==
    ASSUME NEW s, Struct(s), Spaced(s), NEW v \in TidVals, NEW t \in Nat, InSeq(s, t),
           NEW u, u = setTidTblEnt(s, v, t)
    PROVE  Spaced(u)
<1> DEFINE n == NewTid(s, t)
           s1 == [s EXCEPT !.tid = n]
           s2 == IF NeedsBlk(s1, n) THEN growTidTbl(s1, n - Slot(n)) ELSE s1
<1>1. s \in Slices /\ s.blks \in Seq(Blocks) /\ n \in Nat /\ s.tid \in Nat /\ n > s.tid
  BY DEF Struct, Slices, NewTid, InSeq
<1>2. s1 \in Slices /\ s1.blks = s.blks /\ s1.tid = n
  BY <1>1 DEF Slices
<1>3. u = IF HasRoom(s, n) THEN StoreVal(s2, v, n) ELSE s1
  BY DEF setTidTblEnt
<1> HIDE DEF s1, n
<1>4. Struct(s1) /\ Spaced(s1)
  <2>1. LastBase(s1)
    <3> SUFFICES ASSUME s.blks # << >> PROVE s.blks[Len(s.blks)].base <= n + 1
      BY <1>2 DEF LastBase
    <3>1. PICK b \in Nat : b = s.blks[Len(s.blks)].base
      BY <1>1, LastBlk
    <3>2. b <= s.tid + 1
      BY <3>1 DEF LastBase, Struct
    <3>3. PICK x \in Nat : x = s.tid /\ n > x
      BY <1>1
    <3>4. b <= n + 1
      BY <1>1, <3>2, <3>3
    <3> QED
      BY <3>1, <3>4
  <2>2. BasesWhole(s1) /\ Spaced(s1)
    BY <1>2 DEF BasesWhole, Struct, Spaced
  <2> QED
    BY <1>2, <2>1, <2>2 DEF Struct
<1>5. Struct(s2) /\ Spaced(s2) /\ s2.blks # << >>
  <2>1. CASE NeedsBlk(s1, n)
    <3>1. s2 = growTidTbl(s1, n - Slot(n)) /\ n <= s1.tid + 1
      BY <1>1, <1>2, <2>1
    <3> HIDE DEF s2
    <3> QED
      BY <1>1, <1>4, <2>1, <3>1, GrowFacts, GrowSpaced
  <2>2. CASE ~NeedsBlk(s1, n)
    BY <1>4, <2>2 DEF NeedsBlk
  <2> QED
    BY <2>1, <2>2
<1> HIDE DEF s2
<1>6. CASE HasRoom(s, n)
  <2>1. u = Put(s2, Len(s2.blks), Slot(n), v)
    BY <1>3, <1>6 DEF StoreVal, Put
  <2>2. Len(s2.blks) \in 1 .. Len(s2.blks) /\ Slot(n) \in 0 .. BlkSz - 1
    BY <1>1, <1>5, LastBlk, DivSlot DEF Struct, Slices
  <2>3. Struct(u) /\ SameBases(s2, u) /\ Len(u.blks) = Len(s2.blks)
    BY <1>5, <2>1, <2>2, PutFacts
  <2> QED
    BY <1>5, <2>3, SameSpaced
<1>7. CASE ~HasRoom(s, n)
  BY <1>3, <1>4, <1>7
<1> QED
  BY <1>6, <1>7

(* A pool with an element for each key has one for a key that is not there. *)
LEMMA FreeLeft ==
    ASSUME IsFiniteSet(Keys), Cardinality(Keys) <= Cardinality(Offs),
           NEW s \in Slices, UniqueKeys(s), NEW k \in Keys, find2(s, k) = {}
    PROVE  Free(s) # {}
<1> SUFFICES ASSUME Free(s) = {} PROVE FALSE
  OBVIOUS
<1>1. s.live = Offs /\ s.key \in [Offs -> Keys]
  BY DEF Free, Slices
<1>2. s.key \in [Offs -> Keys \ {k}]
  BY <1>1 DEF find2
<1>3. \A o, x \in Offs : s.key[o] = s.key[x] => o = x
  BY <1>1 DEF UniqueKeys
<1>4. IsFiniteSet(Keys \ {k}) /\ Cardinality(Keys \ {k}) = Cardinality(Keys) - 1
  BY FS_RemoveElement
<1>5. Cardinality(Keys) \in Nat /\ Cardinality(Offs) \in Nat
  BY FS_CardinalityType, PoolAssumption
<1>6. Cardinality(Keys \ {k}) < Cardinality(Offs)
  BY <1>4, <1>5
<1>7. \E o, x \in Offs : o # x /\ s.key[o] = s.key[x]
  BY <1>2, <1>4, <1>6, FS_PigeonHole, PoolAssumption
<1> QED
  BY <1>3, <1>7

(* A record of an element is an entry that refers to it. *)
LEMMA RecRef ==
    ASSUME NEW s, NEW o, NEW t, Rec(s, t, iterOff2tidVal(o))
    PROVE  HasRef(s, o)
<1>1. PICK b \in 1 .. Len(s.blks), i \in 0 .. BlkSz - 1 :
        EntryAt(s, b, i) = iterOff2tidVal(o)
  BY DEF Rec, Recorded
<1> QED
  BY <1>1 DEF HasRef, RefersTo, iterOff2tidVal, isTidValIterOff

(* The log after one record has gone. *)
LEMMA LogDrop ==
    ASSUME NEW s, NEW u, Struct(s), Struct(u), NEW l,
           \A t, x : Rec(u, t, x) <=> Rec(s, t, x) /\ t # l,
           \A o \in Offs : \A t : Rec(s, t, iterOff2tidVal(o)) /\ t # l => SameData(s, u, o)
    PROVE  Log(u) = {p \in Log(s) : p.tid # l}
<1>1. ASSUME NEW t, NEW x, Rec(s, t, x), Telling(x), t # l
      PROVE  PktOf(u, t, x) = PktOf(s, t, x)
  <2>1. t \in Nat /\ x \in TidVals /\ s \in Slices
    BY <1>1, RecType DEF Struct
  <2>2. CASE isTidValIterOff(x)
    <3>1. x.arg \in Offs
      BY <1>1, <2>1, <2>2, PktType
    <3>2. x = iterOff2tidVal(x.arg)
      BY <2>1, <2>2 DEF TidVals, isTidValIterOff, iterOff2tidVal, NoVal, TIDDEL_FLUSHALL
    <3>3. SameData(s, u, x.arg)
      BY <1>1, <3>1, <3>2
    <3> QED
      BY <2>2, <3>3 DEF PktOf, SameData, iter2tidPack
  <2>3. CASE ~isTidValIterOff(x)
    BY <2>3 DEF PktOf
  <2> QED
    BY <2>2, <2>3
<1>2. ASSUME NEW p \in Log(u) PROVE p \in Log(s) /\ p.tid # l
  <2>1. PICK x \in TidVals : Rec(u, p.tid, x) /\ Telling(x) /\ p = PktOf(u, p.tid, x)
    BY DEF Log
  <2>2. Rec(s, p.tid, x) /\ p.tid # l
    BY <2>1
  <2>3. p = PktOf(s, p.tid, x)
    BY <1>1, <2>1, <2>2
  <2> QED
    BY <2>1, <2>2, <2>3 DEF Log
<1>3. ASSUME NEW p \in Log(s), p.tid # l PROVE p \in Log(u)
  <2>1. PICK x \in TidVals : Rec(s, p.tid, x) /\ Telling(x) /\ p = PktOf(s, p.tid, x)
    BY DEF Log
  <2>2. Rec(u, p.tid, x) /\ p = PktOf(u, p.tid, x)
    BY <1>1, <1>3, <2>1
  <2> QED
    BY <2>1, <2>2 DEF Log
<1> QED
  BY <1>2, <1>3

(* u is s without the entry of off: no tid is handed out for it. *)
Drops(s, u, off) ==
    /\ Struct(u) /\ NoneAhead(u) /\ u.tid = s.tid /\ u.preClear = s.preClear
    /\ Len(u.blks) = Len(s.blks) /\ SameBases(s, u)
    /\ Aligned(s) /\ HasRef(s, off) =>
          /\ Log(u) = {p \in Log(s) : p.tid # s.link[off]}
          /\ \A o \in Offs \ {off} : HasRef(s, o) => HasRef(u, o)

(* The elements that the table has other than off. *)
LEMMA OtherRefs ==
    ASSUME NEW s, Good(s), Aligned(s), NEW off \in Offs, HasRef(s, off),
           NEW o \in Offs \ {off}, HasRef(s, o)
    PROVE  Rec(s, s.link[o], iterOff2tidVal(o)) /\ s.link[o] # s.link[off]
<1>1. Struct(s)
  BY DEF Good
<1>2. /\ Rec(s, s.link[o], iterOff2tidVal(o))
      /\ Rec(s, s.link[off], iterOff2tidVal(off))
  BY RefRec
<1>3. iterOff2tidVal(o) # iterOff2tidVal(off)
  BY DEF iterOff2tidVal
<1> QED
  BY <1>1, <1>2, <1>3, OneRec

(* unlinkTid on a slave. *)
LEMMA SlaveUnlink ==
    ASSUME NEW s, Good(s), NoneAhead(s), NEW off \in Offs, NEW s0, Struct(s0),
           s0.blks = s.blks, s0.tid = s.tid, s0.preClear = s.preClear,
           \A o \in Offs \ {off} : SameData(s, s0, o),
           NEW role, role # "master", NEW u, u = unlinkTid(s0, s.link[off], role)
    PROVE  Drops(s, u, off) /\ SameElems(s0, u)
<1> DEFINE l == s.link[off]
<1>1. Struct(s) /\ s.tid \in Nat /\ l \in Nat
  BY DEF Good, Struct, Slices
<1>2. u = clrTidTblEnt(s0, l)
  BY DEF unlinkTid, isTidMaster
<1>3. /\ Struct(u) /\ SameElems(s0, u) /\ SameBases(s0, u) /\ u.tid = s0.tid
      /\ Len(u.blks) = Len(s0.blks) /\ Still(s0, u)
  <2> HIDE DEF l
  <2>1. /\ Struct(u) /\ SameElems(s0, u) /\ SameBases(s0, u) /\ u.tid = s0.tid
        /\ Len(u.blks) = Len(s0.blks)
    BY <1>1, <1>2, ClrFacts
  <2>2. Still(s0, u)
    BY <1>1, <1>2, ClrStill
  <2> QED
    BY <2>1, <2>2
<1>4. NoneAhead(u)
  <2>1. NoneAhead(s0)
    BY DEF NoneAhead, EntryAt, EntryTid
  <2> QED
    BY <1>3, <2>1 DEF Still, KeepsBehind
<1>5. u.preClear = s.preClear /\ SameBases(s, u) /\ Len(u.blks) = Len(s.blks)
  BY <1>3 DEF SameElems, SameBases
<1>6. ASSUME Aligned(s), HasRef(s, off)
      PROVE  /\ Log(u) = {p \in Log(s) : p.tid # l}
             /\ \A o \in Offs \ {off} : HasRef(s, o) => HasRef(u, o)
  <2>1. Rec(s, l, iterOff2tidVal(off))
    BY <1>6, RefRec
  <2>2. \A t, x : Rec(s0, t, x) <=> Rec(s, t, x)
    BY SameRec
  <2>3. Aligned(s0)
    BY <1>6 DEF Aligned
  <2>4. \A t, x : Rec(u, t, x) <=> Rec(s0, t, x) /\ t # l
    BY <1>2, <2>1, <2>2, <2>3, ClrRec
  <2>5. \A t, x : Rec(u, t, x) <=> Rec(s, t, x) /\ t # l
    BY <2>2, <2>4
  <2>6. ASSUME NEW o \in Offs, NEW t, Rec(s, t, iterOff2tidVal(o)), t # l
        PROVE  SameData(s, u, o)
    <3>1. s.link[o] = t
      BY <1>6, <2>6, RecLink
    <3>2. o # off
      BY <2>6, <3>1
    <3> QED
      BY <1>3, <3>2 DEF SameData, SameElems
  <2>7. Log(u) = {p \in Log(s) : p.tid # l}
    <3> HIDE DEF l
    <3>1. \A o \in Offs : \A t : Rec(s, t, iterOff2tidVal(o)) /\ t # l => SameData(s, u, o)
      BY <2>6
    <3>2. Struct(s) /\ Struct(u)
      BY <1>1, <1>3
    <3> QED
      BY <2>5, <3>1, <3>2, LogDrop
  <2>8. ASSUME NEW o \in Offs \ {off}, HasRef(s, o) PROVE HasRef(u, o)
    <3>1. Rec(u, s.link[o], iterOff2tidVal(o))
      BY <1>6, <2>5, <2>8, OtherRefs
    <3> QED
      BY <3>1, RecRef
  <2> QED
    BY <2>7, <2>8
<1> QED
  BY <1>3, <1>4, <1>5, <1>6 DEF Drops

(* Erasing an element on a slave. *)
LEMMA SlaveErase ==
    ASSUME NEW s, Good(s), NoneAhead(s), NEW off \in Offs, NEW role, role # "master",
           NEW u, u = eraseIteratorHelper(s, off, role)
    PROVE  Drops(s, u, off) /\ u.live = s.live \ {off} /\ u.key = s.key
<1>1. Struct(s) /\ s \in Slices
  BY DEF Good, Struct
<1>2. u.live = s.live \ {off} /\ u.key = s.key /\ Struct(u)
  BY EraseContinues DEF Continues, Follows, Good
<1> DEFINE s1 == eraseIterCb(s, off, role)
<1>3. u = [s1 EXCEPT !.live = @ \ {off}]
  BY DEF eraseIteratorHelper
<1>4. Drops(s, s1, off)
  <2>1. CASE s.link[off] = 0
    <3>1. s1 = s
      BY <2>1 DEF eraseIterCb
    <3>2. Len(s.blks) <= Len(s.blks)
      BY <1>1 DEF Slices
    <3>3. ~(Aligned(s) /\ HasRef(s, off))
      BY <2>1, RefRec
    <3> QED
      BY <1>1, <3>1, <3>2, <3>3 DEF Drops, SameBases
  <2>2. CASE s.link[off] # 0
    <3> DEFINE s0 == [s EXCEPT !.link[off] = 0]
    <3>1. s1 = unlinkTid(s0, s.link[off], role)
      BY <2>2 DEF eraseIterCb
    <3>2. /\ s0 \in Slices /\ s0.blks = s.blks /\ s0.tid = s.tid
          /\ s0.preClear = s.preClear /\ s0.key = s.key /\ s0.val = s.val
      BY <1>1 DEF Slices
    <3> HIDE DEF s0, s1
    <3>3. Struct(s0)
      BY <1>1, <3>2 DEF Struct, BasesWhole, LastBase
    <3> QED
      BY <3>1, <3>2, <3>3, SlaveUnlink DEF SameData
  <2> QED
    BY <2>1, <2>2
<1> HIDE DEF s1
<1>5. /\ u.blks = s1.blks /\ u.tid = s1.tid /\ u.preClear = s1.preClear
      /\ u.key = s1.key /\ u.val = s1.val
  BY <1>3, <1>4 DEF Drops, Struct, Slices
<1>6. Log(u) = Log(s1)
  <2>1. \A t, x : Rec(u, t, x) <=> Rec(s1, t, x)
    BY <1>5, SameRec
  <2> QED
    BY <1>2, <1>4, <1>5, <2>1, SameLog DEF Drops, SameData
<1>7. NoneAhead(u) /\ SameBases(s, u) /\ \A o : HasRef(s1, o) => HasRef(u, o)
  BY <1>4, <1>5 DEF Drops, NoneAhead, SameBases, HasRef, RefersTo, EntryAt, EntryTid
<1> QED
  BY <1>2, <1>4, <1>5, <1>6, <1>7 DEF Drops

-----------------------------------------------------------------------------
(* A packet that stores an item. *)

(* The packet of an element, when no other has its key. *)
LEMMA KeyTid ==
    ASSUME NEW s, Good(s), Aligned(s), UniqueKeys(s), NEW off \in s.live, HasRef(s, off),
           NEW q \in Log(s), IsAdd(q)
    PROVE  q.tid = s.link[off] <=> q.key = s.key[off]
<1>1. off \in Offs /\ Struct(s)
  BY DEF Good, Struct, Slices
<1>2. PICK o \in s.live : /\ Rec(s, q.tid, iterOff2tidVal(o))
                          /\ s.key[o] = q.key /\ s.link[o] = q.tid
  BY LogElem
<1>3. Rec(s, s.link[off], iterOff2tidVal(off))
  BY <1>1, RefRec
<1>4. q.tid = s.link[off] => o = off
  BY <1>1, <1>2, <1>3, OneRec DEF iterOff2tidVal
<1>5. q.key = s.key[off] => o = off
  BY <1>2 DEF UniqueKeys
<1> QED
  BY <1>2, <1>4, <1>5

(* An element whose key is in the log is in the table. *)
LEMMA KeyRef ==
    ASSUME NEW s, Good(s), Aligned(s), UniqueKeys(s), NEW off \in s.live,
           NEW q \in Log(s), IsAdd(q), q.key = s.key[off]
    PROVE  HasRef(s, off)
<1>1. PICK o \in s.live : Rec(s, q.tid, iterOff2tidVal(o)) /\ s.key[o] = q.key
  BY LogElem
<1>2. o = off
  BY <1>1 DEF UniqueKeys
<1> QED
  BY <1>1, <1>2, RecRef

(* And the other way round. *)
LEMMA RefKey ==
    ASSUME NEW s, Good(s), Aligned(s), NEW off \in s.live, HasRef(s, off)
    PROVE  \E q \in Log(s) : IsAdd(q) /\ q.key = s.key[off]
<1>1. off \in Offs /\ Struct(s)
  BY DEF Good, Struct, Slices
<1>2. Rec(s, s.link[off], iterOff2tidVal(off))
  BY <1>1, RefRec
<1> QED
  BY <1>1, <1>2, ElemLog

(* u has the elements of s but for the key k, and a for it. *)
Without(s, u, k) == \A q : IsAdd(q) => (q \in Log(u) <=> q \in Log(s) /\ q.key # k)

(* An element is made ready to be linked to the tid of the packet p. *)
Cleaned(s, m, e, p) ==
    /\ Good(m) /\ NoneAhead(m) /\ m.tid = s.tid /\ m.preClear = s.preClear
    /\ Spaced(m) /\ UniqueKeys(m)
    /\ e \in m.live /\ Unref(m, e) /\ m.key[e] = p.key /\ m.val[e] = p.val
    /\ Aligned(m) /\ RefsBut(s, {}) /\ p.tid < MaxBlks * BlkSz =>
          Aligned(s) /\ Without(s, m, p.key) /\ \A o \in m.live \ {e} : HasRef(m, o)

TookAdd(s, u, p) ==
    /\ Sound(u) /\ u.tid = p.tid /\ u.preClear = s.preClear
    /\ Aligned(u) /\ RefsBut(s, {}) /\ p.tid < MaxBlks * BlkSz =>
          /\ Aligned(s) /\ RefsBut(u, {})
          /\ \A q : IsAdd(q) => (q \in Log(u) <=> (q \in Log(s) /\ q.key # p.key) \/ q = p)

(* Linking it. *)
LEMMA LinkTook ==
    ASSUME NEW s, Sound(s), NEW p \in AddPkts, p.tid > s.tid, NEW m, NEW e,
           Cleaned(s, m, e, p), NEW u, u = linkTid(m, e, p.tid)
    PROVE  TookAdd(s, u, p)
<1>1. /\ Good(m) /\ Struct(m) /\ NoneAhead(m) /\ m.tid = s.tid /\ m.preClear = s.preClear
      /\ Spaced(m) /\ UniqueKeys(m) /\ e \in m.live /\ Unref(m, e) /\ e \in Offs
      /\ m.key[e] = p.key /\ m.val[e] = p.val /\ e # 0
  BY DEF Cleaned, Good, Struct, Slices
<1>2. /\ p.tid \in Nat /\ s.tid \in Nat /\ s.preClear \in Nat /\ s.preClear <= s.tid
      /\ p.tid # 0 /\ Struct(s)
  BY DEF AddPkts, Sound, Good, Struct, Slices
<1>3. InSeq(m, p.tid) /\ NewTid(m, p.tid) = p.tid
  BY <1>1, <1>2 DEF InSeq, NewTid
<1>4. Continues(m, u) /\ u.live = m.live /\ Still(m, u) /\ Struct(u)
  <2>1. e \in Offs \cup {0}
    BY <1>1
  <2>2. Continues(m, u)
    BY <1>1, <1>2, <1>3, <2>1, LinkContinues
  <2>3. u.live = m.live
    <3>1. PICK t \in Nat : t = p.tid
      BY <1>2
    <3>2. InSeq(m, t) /\ u = linkTid(m, e, t)
      BY <1>3, <3>1
    <3> QED
      BY <1>1, <2>1, <3>2, LinkAt
  <2>4. Still(m, u) /\ Struct(u)
    BY <1>1, <1>2, <1>3, <2>1, LinkStill
  <2> QED
    BY <2>2, <2>3, <2>4
<1>5. Good(u) /\ NoneAhead(u) /\ u.key = m.key /\ u.val = m.val /\ u.preClear = m.preClear
  BY <1>1, <1>4 DEF Continues, Follows, KeepsBehind, Still
<1>6. u.tid = p.tid /\ Spaced(u)
  <2> DEFINE v == iterOff2tidVal(e)
             x == setTidTblEnt(m, v, p.tid)
  <2>1. v \in TidVals
    BY <1>1 DEF iterOff2tidVal, TidVals
  <2>2. u = x \/ u = [x EXCEPT !.link[e] = NewTid(m, p.tid)]
    BY DEF linkTid
  <2> HIDE DEF v
  <2>3. x.tid = p.tid /\ x \in Slices /\ Spaced(x)
    BY <1>1, <1>2, <1>3, <2>1, SetAt, SetSpaced DEF Appends, Struct
  <2> HIDE DEF x
  <2>4. u.tid = x.tid /\ u.blks = x.blks
    BY <2>2, <2>3 DEF Slices
  <2> QED
    BY <2>3, <2>4 DEF Spaced
<1>7. UniqueKeys(u)
  BY <1>1, <1>4, <1>5 DEF UniqueKeys
<1>8. Sound(u)
  BY <1>1, <1>2, <1>5, <1>6, <1>7 DEF Sound
<1>9. ASSUME Aligned(u), RefsBut(s, {}), p.tid < MaxBlks * BlkSz
      PROVE  /\ Aligned(s) /\ RefsBut(u, {})
             /\ \A q : IsAdd(q) =>
                   (q \in Log(u) <=> (q \in Log(s) /\ q.key # p.key) \/ q = p)
  <2>1. Aligned(m)
    BY <1>1, <1>4, <1>9, StillAligned
  <2>2. Aligned(s) /\ Without(s, m, p.key) /\ \A o \in m.live \ {e} : HasRef(m, o)
    BY <1>9, <2>1 DEF Cleaned
  <2>3. HasRoom(m, p.tid)
    BY <1>1, <1>2, <1>9, RoomIfSpaced
  <2>4. Log(u) = Log(m) \cup {AddPkt(p.tid, p.key, p.val)}
    BY <1>1, <1>2, <1>3, <1>6, <2>3, LinkLog
  <2>5. AddPkt(p.tid, p.key, p.val) = p /\ IsAdd(p)
    BY DEF AddPkts, AddPkt, IsAdd
  <2>6. ASSUME NEW o \in u.live PROVE HasRef(u, o)
    <3>1. CASE o = e
      BY <1>1, <1>5, <1>7, <1>9, <2>4, <2>5, <3>1, KeyRef
    <3>2. CASE o # e
      <4>1. PICK q \in Log(m) : IsAdd(q) /\ q.key = m.key[o]
        BY <1>1, <1>4, <2>1, <2>2, <3>2, RefKey
      <4> QED
        BY <1>5, <1>7, <1>9, <2>4, <4>1, KeyRef
    <3> QED
      BY <3>1, <3>2
  <2> QED
    BY <2>2, <2>4, <2>5, <2>6 DEF RefsBut, Without
<1> QED
  BY <1>1, <1>5, <1>6, <1>8, <1>9 DEF TookAdd

(* An element of a slave is erased. *)
Erases(s, u, off) ==
    /\ Sound(u) /\ u.tid = s.tid /\ u.preClear = s.preClear /\ off \in Free(u)
    /\ Aligned(u) => Aligned(s)
    /\ off \in s.live => find2(u, s.key[off]) = {}
    /\ off \in s.live /\ Aligned(u) /\ RefsBut(s, {}) =>
          RefsBut(u, {}) /\ Without(s, u, s.key[off])

(* eraseIteratorHelper at the slave drops one element and keeps the slice sound. *)
LEMMA EraseSound ==
    ASSUME NEW s, Sound(s), NEW off \in Offs, NEW role, role # "master",
           NEW u, u = eraseIteratorHelper(s, off, role)
    PROVE  Erases(s, u, off)
<1>1. /\ Good(s) /\ Struct(s) /\ NoneAhead(s) /\ Spaced(s) /\ UniqueKeys(s)
      /\ s.preClear <= s.tid /\ s.live \subseteq Offs
  BY DEF Sound, Good, Struct, Slices
<1>2. Drops(s, u, off) /\ u.live = s.live \ {off} /\ u.key = s.key
  BY <1>1, SlaveErase
<1>3. Good(u)
  BY <1>1, EraseContinues DEF Continues, Follows
<1>4. /\ Struct(u) /\ NoneAhead(u) /\ u.tid = s.tid /\ u.preClear = s.preClear
      /\ Len(u.blks) = Len(s.blks) /\ SameBases(s, u)
  BY <1>2 DEF Drops
<1>5. Spaced(u) /\ UniqueKeys(u)
  BY <1>1, <1>2, <1>4, SameSpaced DEF UniqueKeys
<1>6. (off \in s.live => find2(u, s.key[off]) = {}) /\ off \in Free(u)
  BY <1>1, <1>2 DEF find2, Free, UniqueKeys
<1>7. Aligned(u) => Aligned(s)
  BY <1>1, <1>4, AlignedBack
<1>8. ASSUME off \in s.live, Aligned(u), RefsBut(s, {})
      PROVE  RefsBut(u, {}) /\ Without(s, u, s.key[off])
  <2>2. Aligned(s) /\ \A o \in s.live : HasRef(s, o)
    BY <1>7, <1>8 DEF RefsBut
  <2>3. /\ Log(u) = {q \in Log(s) : q.tid # s.link[off]}
        /\ \A o \in Offs \ {off} : HasRef(s, o) => HasRef(u, o)
    BY <1>2, <1>8, <2>2 DEF Drops
  <2>4. RefsBut(u, {})
    BY <1>1, <1>2, <2>2, <2>3 DEF RefsBut
  <2>5. \A q \in Log(s) : IsAdd(q) => (q.tid = s.link[off] <=> q.key = s.key[off])
    BY <1>1, <1>8, <2>2, KeyTid
  <2>6. Without(s, u, s.key[off])
    BY <2>3, <2>5 DEF Without
  <2> QED
    BY <2>4, <2>6
<1> QED
  BY <1>1, <1>3, <1>4, <1>5, <1>6, <1>7, <1>8 DEF Sound, Erases

(* A new element for a key that is not there. *)
LEMMA InsertCleans ==
    ASSUME NEW s, Sound(s), NEW p \in AddPkts, p.tid > s.tid, find2(s, p.key) = {},
           NEW new \in Free(s), NEW w \in Nat,
           NEW m, m = insertCopy2(s, p.key, p.val, new, w)
    PROVE  Cleaned(s, m, new, p)
<1>1. /\ Good(s) /\ Struct(s) /\ NoneAhead(s) /\ Spaced(s) /\ UniqueKeys(s)
      /\ s \in Slices /\ s.tid \in Nat /\ s.live \subseteq Offs
  BY DEF Sound, Good, Struct, Slices
<1>2. /\ new \in Offs /\ new \notin s.live /\ new # 0
      /\ p.key \in Keys /\ p.val \in Vals /\ p.tid \in Nat
  BY DEF Free, AddPkts
<1>3. Inserts(s, m, p.key, p.val, new, w)
  BY <1>1, <1>2 DEF Inserts
<1>4. /\ Continues(s, m) /\ Unref(m, new) /\ m.live = s.live \cup {new}
      /\ m.tid = s.tid /\ m.key[new] = p.key /\ m.val[new] = p.val
  BY <1>3, InsertContinues
<1>5. Good(m) /\ Struct(m) /\ NoneAhead(m)
  BY <1>1, <1>4 DEF Continues, Follows, KeepsBehind, Good
<1>6. /\ m.blks = s.blks /\ m.preClear = s.preClear
      /\ \A o \in Offs \ {new} : m.key[o] = s.key[o]
  BY <1>1, <1>2 DEF insertCopy2, Slices
<1>7. Spaced(m)
  BY <1>1, <1>6 DEF Spaced
<1>8. UniqueKeys(m)
  <2>1. \A o \in s.live : m.key[o] = s.key[o] /\ m.key[o] # p.key
    BY <1>1, <1>2, <1>6 DEF find2
  <2> QED
    BY <1>1, <1>4, <2>1 DEF UniqueKeys
<1>9. ASSUME Aligned(m), RefsBut(s, {}), p.tid < MaxBlks * BlkSz
      PROVE  Aligned(s) /\ Without(s, m, p.key) /\ \A o \in m.live \ {new} : HasRef(m, o)
  <2>1. Ready(m)
    <3>1. m.tid + 1 < MaxBlks * BlkSz
      BY <1>1, <1>2, <1>4, <1>9
    <3> QED
      BY <1>5, <1>9, <3>1 DEF Ready
  <2>2. Copied(s, m, p.key, new)
    BY <1>1, <1>3, <2>1, InsertPasses
  <2>3. Ready(s) /\ Log(m) = Log(s) /\ RefsBut(m, {new})
    BY <1>9, <2>2 DEF Copied
  <2>4. NoKey(s, p.key)
    BY <2>3, NotFound
  <2> QED
    BY <1>9, <2>3, <2>4 DEF Ready, RefsBut, NoKey, Without
<1> QED
  BY <1>4, <1>5, <1>6, <1>7, <1>8, <1>9 DEF Cleaned

(* The entry of an element is cleared. *)
LEMMA UnlinkSelf ==
    ASSUME NEW s, Good(s), NEW off \in Offs, NEW role,
           NEW u, u = unlinkTid(s, s.link[off], role)
    PROVE  Follows(s, u) /\ Unref(u, off)
<1>1. Struct(s)
  BY DEF Good
<1> QED
  BY <1>1, UnlinkOff

(* The element that has the key is used again. *)
LEMMA InPlaceCleans ==
    ASSUME NEW s, Sound(s), NEW p \in AddPkts, NEW off \in s.live, s.key[off] = p.key,
           NEW role, role # "master", NEW m1, m1 = [s EXCEPT !.val[off] = p.val],
           NEW m, m = unlinkTid(m1, s.link[off], role)
    PROVE  Cleaned(s, m, off, p)
<1>1. /\ Good(s) /\ Struct(s) /\ NoneAhead(s) /\ Spaced(s) /\ UniqueKeys(s)
      /\ s \in Slices /\ s.live \subseteq Offs /\ off \in Offs /\ p.val \in Vals
  BY DEF Sound, Good, Struct, Slices, AddPkts
<1>2. /\ m1.blks = s.blks /\ m1.tid = s.tid /\ m1.preClear = s.preClear
      /\ m1.live = s.live /\ m1.key = s.key /\ m1.link = s.link /\ m1.val[off] = p.val
      /\ \A o \in Offs \ {off} : SameData(s, m1, o)
  BY <1>1 DEF Slices, SameData
<1>3. Good(m1) /\ Struct(m1)
  BY <1>1, SetVal DEF Follows, Good
<1>4. Drops(s, m, off) /\ SameElems(m1, m)
  BY <1>1, <1>2, <1>3, SlaveUnlink
<1>5. Good(m) /\ Unref(m, off)
  <2>1. m = unlinkTid(m1, m1.link[off], role)
    BY <1>2
  <2>2. Follows(m1, m) /\ Unref(m, off)
    BY <1>1, <1>3, <2>1, UnlinkSelf
  <2> QED
    BY <2>2 DEF Follows
<1>6. /\ Struct(m) /\ NoneAhead(m) /\ m.tid = s.tid /\ m.preClear = s.preClear
      /\ Len(m.blks) = Len(s.blks) /\ SameBases(s, m)
  BY <1>4 DEF Drops
<1>7. m.live = s.live /\ m.key = s.key /\ m.val[off] = p.val
  BY <1>2, <1>4 DEF SameElems
<1>8. Spaced(m) /\ UniqueKeys(m)
  BY <1>1, <1>6, <1>7, SameSpaced DEF UniqueKeys
<1>9. ASSUME Aligned(m), RefsBut(s, {})
      PROVE  Aligned(s) /\ Without(s, m, p.key) /\ \A o \in m.live \ {off} : HasRef(m, o)
  <2>1. Aligned(s)
    BY <1>1, <1>6, <1>9, AlignedBack
  <2>2. \A o \in s.live : HasRef(s, o)
    BY <1>9, <2>1 DEF RefsBut
  <2>3. /\ Log(m) = {q \in Log(s) : q.tid # s.link[off]}
        /\ \A o \in Offs \ {off} : HasRef(s, o) => HasRef(m, o)
    BY <1>4, <2>1, <2>2 DEF Drops
  <2>4. \A q \in Log(s) : IsAdd(q) => (q.tid = s.link[off] <=> q.key = s.key[off])
    BY <1>1, <2>1, <2>2, KeyTid
  <2> QED
    BY <1>1, <1>7, <2>1, <2>2, <2>3, <2>4 DEF Without
<1> QED
  BY <1>5, <1>6, <1>7, <1>8, <1>9 DEF Cleaned

(* A packet that stores an item is always taken. *)
LEMMA AddTook ==
    ASSUME IsFiniteSet(Keys), Cardinality(Keys) <= Cardinality(Offs),
           NEW s, Sound(s), NEW p \in AddPkts, p.tid > s.tid, NEW how, how # "full",
           NEW role, role # "master", NEW r, r = setIter(s, p, how, role)
    PROVE  r.ok = TRUE /\ TookAdd(s, r.s, p)
<1> DEFINE old == find2(s, p.key)
           o == CHOOSE x \in old : TRUE
           s1 == IF old = {} THEN s ELSE eraseIteratorHelper(s, o, role)
           new == CHOOSE x \in Free(s1) : TRUE
           m1 == [s EXCEPT !.val[o] = p.val]
           m2 == unlinkTid(m1, s.link[o], role)
           m3 == insertCopy2(s1, p.key, p.val, new, s1.link[new])
<1>1. p.key \in Keys /\ p.val \in Vals /\ s \in Slices /\ UniqueKeys(s)
  BY DEF AddPkts, Sound, Good, Struct
<1>2. old # {} => o \in s.live /\ o \in Offs /\ s.key[o] = p.key
  BY <1>1 DEF find2, Slices
<1>3. CASE old # {} /\ how = "inplace"
  <2>1. r = [ok |-> TRUE, s |-> linkTid(m2, o, p.tid)]
    BY <1>3 DEF setIter
  <2> HIDE DEF o, old
  <2>2. o \in s.live /\ s.key[o] = p.key
    BY <1>2, <1>3
  <2>3. Cleaned(s, m2, o, p)
    BY <2>2, InPlaceCleans
  <2> HIDE DEF m2
  <2>4. TookAdd(s, linkTid(m2, o, p.tid), p)
    BY <2>3, LinkTook
  <2> QED
    BY <2>1, <2>4
<1>4. CASE ~(old # {} /\ how = "inplace")
  <2>1. /\ Sound(s1) /\ find2(s1, p.key) = {} /\ s1.tid = s.tid /\ s1.preClear = s.preClear
        /\ Free(s1) # {}
        /\ Aligned(s1) /\ RefsBut(s, {}) =>
              Aligned(s) /\ RefsBut(s1, {}) /\ Without(s, s1, p.key)
    <3>1. CASE old = {}
      <4>1. s1 = s
        BY <3>1
      <4>2. Free(s) # {}
        BY <1>1, <3>1, FreeLeft
      <4>3. ASSUME Aligned(s) PROVE Without(s, s, p.key)
        <5>1. ASSUME NEW q \in Log(s), IsAdd(q) PROVE q.key # p.key
          <6>1. PICK x \in s.live : s.key[x] = q.key
            BY <4>3, <5>1, LogElem DEF Sound
          <6> QED
            BY <3>1, <6>1 DEF find2
        <5> QED
          BY <5>1 DEF Without
      <4> HIDE DEF s1
      <4> QED
        BY <3>1, <4>1, <4>2, <4>3
    <3>2. CASE old # {}
      <4>1. s1 = eraseIteratorHelper(s, o, role) /\ o \in s.live /\ o \in Offs
            /\ s.key[o] = p.key
        BY <1>2, <3>2
      <4> HIDE DEF s1, o
      <4>2. Erases(s, s1, o)
        BY <4>1, EraseSound
      <4> QED
        BY <4>1, <4>2 DEF Erases
    <3> QED
      BY <3>1, <3>2
  <2>2. r = [ok |-> TRUE, s |-> linkTid(m3, new, p.tid)]
    BY <1>4, <2>1 DEF setIter
  <2> HIDE DEF s1
  <2>3. new \in Free(s1) /\ s1.link[new] \in Nat
    <3>1. new \in Free(s1)
      BY <2>1
    <3> HIDE DEF new
    <3> QED
      BY <2>1, <3>1 DEF Sound, Good, Struct, Slices, Free
  <2> HIDE DEF new
  <2>4. Cleaned(s1, m3, new, p)
    <3>1. PICK w \in Nat : w = s1.link[new]
      BY <2>3
    <3> QED
      BY <2>1, <2>3, <3>1, InsertCleans
  <2> HIDE DEF m3
  <2>5. TookAdd(s1, linkTid(m3, new, p.tid), p)
    BY <2>1, <2>4, LinkTook
  <2> DEFINE u == linkTid(m3, new, p.tid)
  <2> HIDE DEF u
  <2>6. ASSUME Aligned(u), RefsBut(s, {}), p.tid < MaxBlks * BlkSz
        PROVE  /\ Aligned(s) /\ RefsBut(u, {})
               /\ \A q : IsAdd(q) =>
                     (q \in Log(u) <=> (q \in Log(s) /\ q.key # p.key) \/ q = p)
    <3>1. Aligned(s1)
      <4>1. Aligned(m3)
        <5>1. Struct(m3) /\ m3.live \subseteq Offs /\ new \in m3.live /\ m3.tid = s.tid
          BY <2>1, <2>4 DEF Cleaned, Good, Struct, Slices
        <5>2. InSeq(m3, p.tid) /\ p.tid \in Nat
          BY <5>1 DEF InSeq, AddPkts
        <5>3. Still(m3, u) /\ Struct(u)
          BY <5>1, <5>2, LinkStill DEF u
        <5> QED
          BY <2>6, <5>1, <5>3, StillAligned
      <4>2. m3.blks = s1.blks /\ m3.preClear = s1.preClear
        BY <2>1 DEF m3, insertCopy2, Sound, Good, Struct, Slices
      <4> QED
        BY <4>1, <4>2 DEF Aligned
    <3>2. Aligned(s) /\ RefsBut(s1, {}) /\ Without(s, s1, p.key)
      BY <2>1, <2>6, <3>1
    <3>3. /\ RefsBut(u, {})
          /\ \A q : IsAdd(q) =>
                (q \in Log(u) <=> (q \in Log(s1) /\ q.key # p.key) \/ q = p)
      BY <2>5, <2>6, <3>2 DEF TookAdd, u
    <3> QED
      BY <3>2, <3>3 DEF Without
  <2>7. TookAdd(s, u, p)
    BY <2>1, <2>5, <2>6 DEF TookAdd, u
  <2> QED
    BY <2>2, <2>7 DEF u
<1> QED
  BY <1>3, <1>4

-----------------------------------------------------------------------------
(* A packet that deletes an item. *)

(* The index gives a tid its own entry, when it is not from before the clear. *)
LEMMA LookupRight ==
    ASSUME NEW s, Struct(s), Aligned(s), NEW t \in Nat, s.preClear <= t,
           NEW b, b = tid2tblBlk(s, t), b # 0
    PROVE  b \in 1 .. Len(s.blks) /\ EntryTid(s, b, Slot(t)) = t
<1>1. s.preClear \in Nat /\ Len(s.blks) \in Nat /\ s.blks \in Seq(Blocks)
  BY DEF Struct, Slices
<1>2. PICK q \in Nat : q = t \div BlkSz /\ t - Slot(t) = q * BlkSz
  BY DivSlot
<1>3. PICK x \in Nat : x = s.preClear \div BlkSz
  BY <1>1, DivSlot
<1>4. x <= q
  BY <1>1, <1>2, <1>3, DivMono
<1>5. b = IF q - x + 1 > Len(s.blks) THEN 0 ELSE q - x + 1
  <2> DEFINE from == IF t < s.preClear THEN s.preClear ELSE t
  <2>1. from = t
    BY <1>1
  <2>2. b = IF (from \div BlkSz) - (s.preClear \div BlkSz) + 1 > Len(s.blks) THEN 0
            ELSE (from \div BlkSz) - (s.preClear \div BlkSz) + 1
    BY DEF tid2tblBlk
  <2> HIDE DEF from
  <2> QED
    BY <1>2, <1>3, <2>1, <2>2
<1>6. b = q - x + 1 /\ b \in 1 .. Len(s.blks)
  BY <1>1, <1>4, <1>5
<1>7. s.blks[b].base = (x + b - 1) * BlkSz
  BY <1>3, <1>6 DEF Aligned
<1>8. x + b - 1 = q
  BY <1>6
<1>9. s.blks[b].base = t - Slot(t)
  BY <1>2, <1>7, <1>8
<1>10. Slot(t) \in Nat
  BY DivSlot
<1> QED
  BY <1>6, <1>9, <1>10 DEF EntryTid

(* What tid2iterOff finds is an element, and the right one but for a tid from
   before the clear. *)
LEMMA IterOffElem ==
    ASSUME NEW s, Good(s), Aligned(s), NEW t \in Nat, NEW off, off = tid2iterOff(s, t),
           off # 0
    PROVE  off \in s.live /\ HasRef(s, off) /\ (s.link[off] = t \/ t < s.preClear)
<1>1. Struct(s) /\ EntriesOk(s) /\ s.preClear \in Nat /\ s \in Slices
  BY DEF Good, Struct, Slices
<1> DEFINE b == tid2tblBlk(s, t)
           i == Slot(t)
<1>2. b # 0 /\ isTidValIterOff(EntryAt(s, b, i)) /\ EntryAt(s, b, i).arg = off
  BY DEF tid2iterOff, EntryAt
<1>3. i \in 0 .. BlkSz - 1
  BY DivSlot
<1>4. b \in 1 .. Len(s.blks)
  BY <1>1, <1>2, LookupMono
<1>5. off \in Nat \ {0} /\ off \in Offs
  BY <1>1, IterOffType
<1>6. RefersTo(s, b, i, off)
  BY <1>2 DEF RefersTo
<1>7. EntryOk(s, b, i, off)
  BY <1>1, <1>3, <1>4, <1>5, <1>6 DEF EntriesOk
<1>8. s.preClear <= t => EntryTid(s, b, i) = t
  BY <1>1, <1>2, LookupRight
<1> HIDE DEF b, i
<1>9. off \in s.live /\ s.link[off] = EntryTid(s, b, i) /\ HasRef(s, off)
  BY <1>3, <1>4, <1>6, <1>7 DEF EntryOk, HasRef
<1> QED
  BY <1>1, <1>8, <1>9

(* An element is found under its tid. *)
LEMMA ElemIterOff ==
    ASSUME NEW s, Struct(s), Aligned(s), NEW o \in Offs, NEW t, Rec(s, t, iterOff2tidVal(o))
    PROVE  tid2iterOff(s, t) = o
<1>1. PICK b \in 1 .. Len(s.blks), i \in 0 .. BlkSz - 1 :
        EntryTid(s, b, i) = t /\ EntryAt(s, b, i) = iterOff2tidVal(o)
  BY DEF Rec, Recorded
<1>2. tid2tblBlk(s, t) = b /\ Slot(t) = i /\ b # 0
  BY <1>1, LookupFinds
<1> QED
  BY <1>1, <1>2 DEF tid2iterOff, EntryAt, iterOff2tidVal, isTidValIterOff

(* Recording a deletion or a flush leaves the elements. *)
SameAdds(s, u) == \A q : IsAdd(q) => (q \in Log(u) <=> q \in Log(s))

(* setTidTblEnt with a deletion or a flush leaves the elements of the log. *)
LEMMA SetDelLog ==
    ASSUME NEW s, Struct(s), NoneAhead(s), NEW v \in TidVals, ~isTidValIterOff(v),
           v # NoVal, NEW t \in Nat, t > s.tid, HasRoom(s, t),
           NEW u, u = setTidTblEnt(s, v, t)
    PROVE  SameAdds(s, u)
<1>1. s.tid \in Nat /\ InSeq(s, t) /\ NewTid(s, t) = t
  BY DEF Struct, Slices, InSeq, NewTid
<1>2. TblStep(s, u, t, t, v) /\ Struct(u) /\ SameElems(s, u)
  BY <1>1, SetRec, SetAt DEF Appends
<1>3. Telling(v)
  BY DEF Telling, isTidValIterOff, iterOff2tidVal
<1>4. Log(u) = {p \in Log(s) : p.tid # t} \cup {PktOf(u, t, v)}
  BY <1>2, <1>3, LogStep DEF SameElems, SameData
<1>5. \A p \in Log(s) : p.tid # t
  <2> SUFFICES ASSUME NEW p \in Log(s) PROVE p.tid # t
    OBVIOUS
  <2>1. p.tid \in Nat /\ p.tid <= s.tid
    BY LogTids
  <2> QED
    BY <1>1, <2>1
<1>6. ~IsAdd(PktOf(u, t, v))
  BY DEF PktOf, del2tidPack, IsAdd, isTidValIterOff, TidVals, NoVal, TIDDEL_FLUSHALL
<1> QED
  BY <1>4, <1>5, <1>6 DEF SameAdds

(* What setTidTblEnt for a deletion or a flush leaves of a slave's slice. *)
Marks(s, u, t) ==
    /\ Sound(u) /\ u.tid = t /\ u.preClear = s.preClear /\ u.live = s.live
    /\ Aligned(u) => Aligned(s)
    /\ Aligned(u) /\ RefsBut(s, {}) /\ t < MaxBlks * BlkSz =>
          RefsBut(u, {}) /\ SameAdds(s, u)

(* setTidTblEnt with a deletion or a flush keeps the slice sound, and succeeds as
   long as the blocks can hold the tid. *)
LEMMA MarkSound ==
    ASSUME NEW s, Sound(s), NEW v \in TidVals, ~isTidValIterOff(v), v # NoVal,
           NEW t \in Nat, t > s.tid, NEW u, u = setTidTblEnt(s, v, t)
    PROVE  Marks(s, u, t) /\ (t < MaxBlks * BlkSz => setTidTblEntOk(s, t))
<1>1. /\ Good(s) /\ Struct(s) /\ NoneAhead(s) /\ Spaced(s) /\ UniqueKeys(s)
      /\ s.preClear <= s.tid /\ s.preClear \in Nat /\ s.tid \in Nat
  BY DEF Sound, Good, Struct, Slices
<1>2. InSeq(s, t) /\ NewTid(s, t) = t
  BY <1>1 DEF InSeq, NewTid
<1>3. Good(u) /\ NoneAhead(u) /\ Struct(u)
  BY <1>1, <1>2, SetDelContinues DEF Continues, Follows, KeepsBehind, Good
<1>4. SameElems(s, u) /\ u.tid = t /\ Still(s, u) /\ Spaced(u)
  BY <1>1, <1>2, SetAt, SetStill, SetSpaced
<1>5. UniqueKeys(u)
  BY <1>1, <1>4 DEF SameElems, UniqueKeys
<1>6. Aligned(u) => Aligned(s)
  BY <1>1, <1>3, <1>4, StillAligned
<1>7. t < MaxBlks * BlkSz => HasRoom(s, t)
  BY <1>1, RoomIfSpaced
<1>8. ASSUME Aligned(u), RefsBut(s, {}), t < MaxBlks * BlkSz
      PROVE  RefsBut(u, {}) /\ SameAdds(s, u)
  <2>1. SameAdds(s, u)
    BY <1>1, <1>7, <1>8, SetDelLog
  <2>2. ASSUME NEW o \in u.live PROVE HasRef(u, o)
    <3>1. o \in s.live /\ u.key = s.key /\ HasRef(s, o)
      BY <1>4, <1>6, <1>8 DEF SameElems, RefsBut
    <3>2. PICK q \in Log(s) : IsAdd(q) /\ q.key = s.key[o]
      BY <1>1, <1>6, <1>8, <3>1, RefKey
    <3> QED
      BY <1>3, <1>5, <1>8, <2>1, <3>1, <3>2, KeyRef DEF SameAdds
  <2> QED
    BY <2>1, <2>2 DEF RefsBut
<1>9. Sound(u)
  BY <1>1, <1>3, <1>4, <1>5 DEF Sound, SameElems
<1>10. t < MaxBlks * BlkSz => setTidTblEntOk(s, t)
  BY <1>2, <1>7 DEF setTidTblEntOk
<1> QED
  BY <1>4, <1>6, <1>8, <1>9, <1>10 DEF Marks, SameElems

(* A deletion takes the element of the tid that it names, if it can find that,
   and leaves it to the next packet if that stores the same key. *)
TookDel(s, u, p, next) ==
    /\ Sound(u) /\ u.tid = p.tid /\ u.preClear = s.preClear
    /\ Aligned(u) /\ RefsBut(s, {}) /\ p.tid < MaxBlks * BlkSz =>
          /\ Aligned(s) /\ RefsBut(u, {})
          /\ \A q : IsAdd(q) /\ q \in Log(u) => q \in Log(s)
          /\ \A q \in Log(s) :
                IsAdd(q) /\ q \notin Log(u) => q.tid = p.old \/ p.old < s.preClear
          /\ \A q \in Log(u) :
                IsAdd(q) /\ q.tid = p.old
                => next # << >> /\ IsAdd(Head(next)) /\ Head(next).key = q.key

(* delTidItem with the deletion of one element, when no key is the beginning of
   another. *)
LEMMA DelTook ==
    ASSUME KeyPrefixes = {}, NEW s, Sound(s), NEW p \in DelPkts, p.kind = "del",
           p.old # 0, p.tid > s.tid, NEW next, NEW role, role # "master",
           NEW r, r = delTidItem(s, p, next, role)
    PROVE  TookDel(s, r.s, p, next) /\ (p.tid < MaxBlks * BlkSz => r.ok = TRUE)
<1> DEFINE off == tid2iterOff(s, p.old)
           Goes == off # 0 /\ ~ReplacedByNext(s, off, next)
           m == IF Goes THEN eraseIteratorHelper(s, off, role) ELSE s
           v == tidDelVal(p.old)
           u == setTidTblEnt(m, v, p.tid)
<1>1. p.tid \in Nat /\ p.old \in Nat /\ Good(s) /\ Struct(s) /\ UniqueKeys(s)
  BY DEF DelPkts, Sound, Good
<1>2. r = [ok |-> setTidTblEntOk(m, p.tid), s |-> u]
  BY DEF delTidItem
<1>3. v \in TidVals /\ ~isTidValIterOff(v) /\ v # NoVal
  BY <1>1 DEF tidDelVal, TidVals, isTidValIterOff, NoVal
<1>4. off # 0 => off \in Offs
  BY <1>1, IterOffType
<1>5. Goes => Erases(s, m, off)
  <2> SUFFICES ASSUME Goes PROVE Erases(s, m, off)
    OBVIOUS
  <2>1. m = eraseIteratorHelper(s, off, role) /\ off \in Offs
    BY <1>4
  <2> HIDE DEF m, off
  <2> QED
    BY <2>1, EraseSound
<1>6. ~Goes => m = s
  OBVIOUS
<1>7. off # 0 /\ Aligned(s)
      => off \in s.live /\ HasRef(s, off) /\ (s.link[off] = p.old \/ p.old < s.preClear)
  BY <1>1, IterOffElem
<1>8. \A o \in Offs : Aligned(s) /\ Rec(s, p.old, iterOff2tidVal(o)) => off = o
  BY <1>1, ElemIterOff
<1>9. off # 0 /\ ~Goes
      => next # << >> /\ IsAdd(Head(next)) /\ Head(next).key = s.key[off]
  BY DEF ReplacedByNext, IsAdd
<1> HIDE DEF off, m, v, Goes
<1>10. Sound(m) /\ m.tid = s.tid /\ m.preClear = s.preClear /\ (Aligned(m) => Aligned(s))
  BY <1>5, <1>6 DEF Erases
<1>11. Marks(m, u, p.tid) /\ (p.tid < MaxBlks * BlkSz => setTidTblEntOk(m, p.tid))
  BY <1>1, <1>3, <1>10, MarkSound
<1> HIDE DEF u
<1>12. ASSUME Aligned(u), RefsBut(s, {}), p.tid < MaxBlks * BlkSz
       PROVE  /\ Aligned(s) /\ RefsBut(u, {})
              /\ \A q : IsAdd(q) /\ q \in Log(u) => q \in Log(s)
              /\ \A q \in Log(s) :
                    IsAdd(q) /\ q \notin Log(u) => q.tid = p.old \/ p.old < s.preClear
              /\ \A q \in Log(u) :
                    IsAdd(q) /\ q.tid = p.old
                    => next # << >> /\ IsAdd(Head(next)) /\ Head(next).key = q.key
  <2>1. Aligned(m) /\ Aligned(s)
    BY <1>10, <1>11, <1>12 DEF Marks
  <2>2. Goes => off # 0 /\ off \in s.live /\ HasRef(s, off)
    BY <1>7, <2>1 DEF Goes
  <2>3. RefsBut(m, {}) /\ (Goes => Without(s, m, s.key[off]))
    BY <1>5, <1>6, <1>12, <2>1, <2>2 DEF Erases
  <2>4. RefsBut(u, {}) /\ SameAdds(m, u)
    BY <1>11, <1>12, <2>3 DEF Marks
  <2>5. ASSUME NEW q, IsAdd(q), q \in Log(u) PROVE q \in Log(s)
    BY <1>6, <2>3, <2>4, <2>5 DEF Without, SameAdds
  <2>6. ASSUME NEW q \in Log(s), IsAdd(q), q \notin Log(u)
        PROVE  q.tid = p.old \/ p.old < s.preClear
    <3>1. Goes /\ q.key = s.key[off]
      BY <1>6, <2>3, <2>4, <2>6 DEF Without, SameAdds
    <3>2. q.tid = s.link[off]
      BY <1>1, <2>1, <2>2, <2>6, <3>1, KeyTid
    <3> QED
      BY <1>7, <2>1, <2>2, <3>1, <3>2
  <2>7. ASSUME NEW q \in Log(u), IsAdd(q), q.tid = p.old
        PROVE  next # << >> /\ IsAdd(Head(next)) /\ Head(next).key = q.key
    <3>1. q \in Log(s)
      BY <2>5, <2>7
    <3>2. PICK o \in s.live : Rec(s, q.tid, iterOff2tidVal(o)) /\ s.key[o] = q.key
      BY <1>1, <2>1, <2>7, <3>1, LogElem
    <3>3. o \in Offs /\ o # 0
      BY <1>1 DEF Struct, Slices
    <3>4. off = o
      BY <1>8, <2>1, <2>7, <3>2, <3>3
    <3>5. ~Goes
      BY <2>3, <2>4, <2>7, <3>2, <3>4 DEF Without, SameAdds
    <3> QED
      BY <1>9, <3>2, <3>3, <3>4, <3>5
  <2> QED
    BY <2>1, <2>4, <2>5, <2>6, <2>7
<1>13. TookDel(s, u, p, next)
  BY <1>10, <1>11, <1>12 DEF TookDel, Marks
<1> QED
  BY <1>2, <1>11, <1>13

(* A flush leaves nothing. *)
TookFlush(s, u, p) ==
    /\ Sound(u) /\ u.tid = p.tid /\ u.preClear = s.tid
    /\ Aligned(u) /\ p.tid < MaxBlks * BlkSz =>
          RefsBut(u, {}) /\ \A q \in Log(u) : ~IsAdd(q)

(* delTidItem with a flush of all elements. *)
LEMMA FlushTook ==
    ASSUME NEW s, Sound(s), NEW p \in DelPkts, p.kind = "flush", p.tid > s.tid,
           NEW next, NEW role, role # "master", NEW r, r = delTidItem(s, p, next, role)
    PROVE  TookFlush(s, r.s, p) /\ (p.tid < MaxBlks * BlkSz => r.ok = TRUE)
<1> DEFINE m == clear(s, role)
           v == TIDDEL_FLUSHALL
           u == setTidTblEnt(m, v, p.tid)
<1>1. p.tid \in Nat /\ Good(s) /\ s \in Slices /\ s.tid \in Nat
  BY DEF DelPkts, Sound, Good, Struct, Slices
<1>2. r = [ok |-> setTidTblEntOk(m, p.tid), s |-> u]
  BY DEF delTidItem
<1>3. v \in TidVals /\ ~isTidValIterOff(v) /\ v # NoVal
  BY DEF TIDDEL_FLUSHALL, TidVals, isTidValIterOff, NoVal
<1>4. m.tid = s.tid /\ m.preClear = s.tid /\ m.blks = << >> /\ m.live = {}
  BY <1>1 DEF clear, clrTidTbl, isTidMaster, Slices
<1>5. Good(m)
  BY <1>1, ClearSlave DEF Continues, Follows
<1> HIDE DEF m, v
<1>6. Sound(m)
  BY <1>1, <1>4, <1>5 DEF Sound, NoneAhead, Spaced, UniqueKeys
<1>7. Marks(m, u, p.tid) /\ (p.tid < MaxBlks * BlkSz => setTidTblEntOk(m, p.tid))
  BY <1>1, <1>3, <1>4, <1>6, MarkSound
<1> HIDE DEF u
<1>8. RefsBut(m, {}) /\ Log(m) = {}
  BY <1>4 DEF RefsBut, Log, Rec, Recorded
<1>9. TookFlush(s, u, p)
  BY <1>4, <1>7, <1>8 DEF TookFlush, Marks, SameAdds
<1> QED
  BY <1>2, <1>7, <1>9

-----------------------------------------------------------------------------
(* The slave s of the master m, with P in flight and all sent up to the tid c. *)

SlaveLogs(s) == IF Aligned(s) THEN {Log(s)} ELSE {}

Room(m) == m.tid + 1 < MaxBlks * BlkSz

At(m, s, P, c) ==
    /\ Sound(s) /\ c \in Nat /\ m.tid \in Nat /\ s.tid <= c /\ c <= m.tid
    /\ \A p \in P : p \in Packets /\ s.tid < p.tid /\ p.tid <= c
    /\ Room(m) => RefsBut(s, {})
    /\ Ready(m) => s.preClear <= m.preClear
    /\ AtMaster(m, P, s.tid, c, SlaveLogs(s))

(* The packet p is the first of P, and Q is the rest. *)
FirstOf(P, p, Q) ==
    /\ p \in P /\ Q \subseteq P \ {p} /\ P \ {p} \subseteq Q
    /\ \A q \in Q : p.tid < q.tid

(* What the slave must show after it has taken the first packet. *)
LEMMA AtTake ==
    ASSUME NEW m, NEW s, NEW P, NEW c, At(m, s, P, c), NEW p, NEW Q, FirstOf(P, p, Q),
           NEW u, Sound(u), u.tid = p.tid,
           Ready(m) => u.preClear <= m.preClear,
           Room(m) /\ Aligned(u) => RefsBut(u, {}),
           Ready(m) /\ Aligned(u) => SlaveSide(Log(m), Q, p.tid, Log(u))
    PROVE  At(m, u, Q, c)
<1>1. /\ c \in Nat /\ m.tid \in Nat /\ s.tid <= c /\ c <= m.tid
      /\ \A q \in P : q \in Packets /\ s.tid < q.tid /\ q.tid <= c
      /\ AtMaster(m, P, s.tid, c, SlaveLogs(s))
  BY DEF At
<1>2. /\ p \in P /\ Q \subseteq P \ {p} /\ P \ {p} \subseteq Q
      /\ \A q \in Q : p.tid < q.tid
  BY DEF FirstOf
<1>3. /\ u.tid <= c
      /\ \A q \in Q : q \in Packets /\ u.tid < q.tid /\ q.tid <= c
  BY <1>1, <1>2
<1>4. Room(m) => RefsBut(u, {})
  BY DEF RefsBut
<1>5. ASSUME Ready(m)
      PROVE  /\ RefsBut(m, {}) /\ Sides(m, Q, p.tid, c)
             /\ \A R \in SlaveLogs(u) : SlaveSide(Log(m), Q, p.tid, R)
  <2>1. RefsBut(m, {}) /\ MasterSide(Log(m), m.preClear, m.tid, P, s.tid, c)
    BY <1>1, <1>5 DEF AtMaster, Sides
  <2>2. MasterSide(Log(m), m.preClear, m.tid, Q, p.tid, c)
    BY <1>2, <2>1, SideTake
  <2>3. \A R \in SlaveLogs(u) : Aligned(u) /\ R = Log(u)
    BY DEF SlaveLogs
  <2> QED
    BY <1>5, <2>1, <2>2, <2>3 DEF Sides
<1>6. AtMaster(m, Q, u.tid, c, SlaveLogs(u))
  BY <1>5 DEF AtMaster
<1> QED
  BY <1>1, <1>3, <1>4, <1>6 DEF At

(* What is known while there is room on the master. *)
LEMMA AtRoom ==
    ASSUME NEW m, NEW s, NEW P, NEW c, At(m, s, P, c), NEW p, NEW Q, FirstOf(P, p, Q),
           Room(m)
    PROVE  RefsBut(s, {}) /\ p.tid < MaxBlks * BlkSz
<1>1. /\ c \in Nat /\ m.tid \in Nat /\ c <= m.tid /\ RefsBut(s, {})
      /\ \A q \in P : q \in Packets /\ q.tid <= c
  BY DEF At
<1>2. p \in P /\ p.tid \in Nat /\ p.tid <= c
  BY <1>1, PktTid DEF FirstOf
<1>3. m.tid + 1 < MaxBlks * BlkSz /\ MaxBlks * BlkSz \in Nat
  BY DEF Room
<1> QED
  BY <1>1, <1>2, <1>3

(* What is known when the master is ready and the slave is aligned. *)
LEMMA AtReady ==
    ASSUME NEW m, NEW s, NEW P, NEW c, At(m, s, P, c), NEW p, NEW Q, FirstOf(P, p, Q),
           Ready(m)
    PROVE  /\ p.tid \in Nat /\ p.tid <= c /\ s.tid < p.tid
           /\ MasterSide(Log(m), m.preClear, m.tid, P, s.tid, c)
           /\ s.preClear <= m.preClear
           /\ Aligned(s) => /\ SlaveSide(Log(m), P, s.tid, Log(s)) /\ Tids(Log(s))
                            /\ \A q \in Log(s) : q.tid <= s.tid
<1>1. /\ c \in Nat /\ m.tid \in Nat /\ s.tid <= c /\ c <= m.tid /\ Sound(s)
      /\ \A q \in P : q \in Packets /\ s.tid < q.tid /\ q.tid <= c
      /\ AtMaster(m, P, s.tid, c, SlaveLogs(s))
      /\ s.preClear <= m.preClear
  BY DEF At
<1>2. p \in P /\ p.tid \in Nat
  BY <1>1, PktTid DEF FirstOf
<1>3. MasterSide(Log(m), m.preClear, m.tid, P, s.tid, c)
  BY <1>1 DEF AtMaster, Sides
<1>4. ASSUME Aligned(s)
      PROVE  /\ SlaveSide(Log(m), P, s.tid, Log(s)) /\ Tids(Log(s))
             /\ \A q \in Log(s) : q.tid <= s.tid
  <2>1. Log(s) \in SlaveLogs(s)
    BY <1>4 DEF SlaveLogs
  <2>2. SlaveSide(Log(m), P, s.tid, Log(s))
    BY <1>1, <2>1 DEF AtMaster
  <2>3. \A q \in Log(s) : q.tid \in Nat /\ q.tid <= s.tid
    BY <1>1, LogTids DEF Sound, Good
  <2> QED
    BY <2>2, <2>3 DEF Tids
<1> QED
  BY <1>1, <1>2, <1>3, <1>4

(* A master that is ready has room and is aligned. *)
LEMMA ReadyRoom ==
    ASSUME NEW m, Ready(m)
    PROVE  Room(m) /\ Aligned(m)
BY DEF Ready, Room

(* The slave takes the first packet in flight, which adds an element. *)
LEMMA AtAdd ==
    ASSUME NEW m, NEW s, NEW P, NEW c, At(m, s, P, c), NEW p, NEW Q, FirstOf(P, p, Q),
           IsAdd(p), NEW u, TookAdd(s, u, p)
    PROVE  At(m, u, Q, c)
<1>1. Sound(u) /\ u.tid = p.tid /\ u.preClear = s.preClear
  BY DEF TookAdd
<1>2. Ready(m) => u.preClear <= m.preClear
  BY <1>1, AtReady
<1>3. ASSUME Room(m), Aligned(u)
      PROVE  /\ Aligned(s) /\ RefsBut(u, {})
             /\ \A q : IsAdd(q) =>
                   (q \in Log(u) <=> (q \in Log(s) /\ q.key # p.key) \/ q = p)
  <2>1. p.tid < MaxBlks * BlkSz /\ RefsBut(s, {})
    BY <1>3, AtRoom
  <2> QED
    BY <1>3, <2>1 DEF TookAdd
<1>4. ASSUME Ready(m), Aligned(u)
      PROVE  SlaveSide(Log(m), Q, p.tid, Log(u))
  <2>2. /\ Aligned(s)
        /\ \A q : IsAdd(q) => (q \in Log(u) <=> (q \in Log(s) /\ q.key # p.key) \/ q = p)
    BY <1>3, <1>4, ReadyRoom
  <2>3. /\ MasterSide(Log(m), m.preClear, m.tid, P, s.tid, c)
        /\ SlaveSide(Log(m), P, s.tid, Log(s)) /\ Tids(Log(s))
        /\ \A q \in Log(s) : q.tid <= s.tid
    BY <1>4, <2>2, AtReady
  <2>4. p \in P /\ P \ {p} \subseteq Q /\ \A q \in Q : p.tid < q.tid
    BY DEF FirstOf
  <2> QED
    BY <2>2, <2>3, <2>4, TakeAdd
<1> QED
  BY <1>1, <1>2, <1>3, <1>4, AtTake

(* The slave takes the first packet in flight, which deletes an element.  It may
   keep the element because the next packet replaces it, and it may drop another
   one only when the deleted tid is older than its last flush. *)
LEMMA AtDel ==
    ASSUME NEW m, NEW s, NEW P, NEW c, At(m, s, P, c), NEW p, NEW Q, FirstOf(P, p, Q),
           p.kind = "del", p.old \in Nat, NEW next,
           next # << >> => Head(next) \in Q, NEW u, TookDel(s, u, p, next)
    PROVE  At(m, u, Q, c)
<1>1. Sound(u) /\ u.tid = p.tid /\ u.preClear = s.preClear
  BY DEF TookDel
<1>2. Ready(m) => u.preClear <= m.preClear
  BY <1>1, AtReady
<1>3. ASSUME Room(m), Aligned(u)
      PROVE  /\ Aligned(s) /\ RefsBut(u, {})
             /\ \A q : IsAdd(q) /\ q \in Log(u) => q \in Log(s)
             /\ \A q \in Log(s) :
                   IsAdd(q) /\ q \notin Log(u) => q.tid = p.old \/ p.old < s.preClear
             /\ \A q \in Log(u) :
                   IsAdd(q) /\ q.tid = p.old
                   => next # << >> /\ IsAdd(Head(next)) /\ Head(next).key = q.key
  <2>1. p.tid < MaxBlks * BlkSz /\ RefsBut(s, {})
    BY <1>3, AtRoom
  <2> QED
    BY <1>3, <2>1 DEF TookDel
<1>4. ASSUME Ready(m), Aligned(u)
      PROVE  SlaveSide(Log(m), Q, p.tid, Log(u))
  <2>1. s.preClear <= m.preClear /\ p.tid \in Nat /\ s.tid < p.tid
    BY <1>4, AtReady
  <2>8. Room(m)
    BY <1>4, ReadyRoom
  <2>2. /\ Aligned(s)
        /\ \A q : IsAdd(q) /\ q \in Log(u) => q \in Log(s)
        /\ \A q \in Log(s) :
                IsAdd(q) /\ q \notin Log(u) => q.tid = p.old \/ p.old < s.preClear
        /\ \A q \in Log(u) :
                IsAdd(q) /\ q.tid = p.old
                => next # << >> /\ IsAdd(Head(next)) /\ Head(next).key = q.key
    BY <1>3, <1>4, <2>8
  <2>3. /\ MasterSide(Log(m), m.preClear, m.tid, P, s.tid, c)
        /\ SlaveSide(Log(m), P, s.tid, Log(s)) /\ Tids(Log(s))
        /\ \A q \in Log(s) : q.tid <= s.tid
    BY <1>4, <2>2, AtReady
  <2>4. /\ p \in P /\ P \ {p} \subseteq Q /\ Q \subseteq P
        /\ \A q \in Q : p.tid < q.tid
    BY DEF FirstOf
  <2>5. ASSUME NEW q \in Log(s), IsAdd(q), q \notin Log(u)
        PROVE  q.tid = p.old \/ q.tid <= m.preClear
    <3>1. q.tid = p.old \/ p.old < s.preClear
      BY <2>2, <2>5
    <3>2. CASE p.old < s.preClear
      <4>1. /\ m.preClear \in Nat /\ s.tid \in Nat /\ s.preClear \in Nat
            /\ q.tid \in Nat /\ q.tid <= s.tid
        BY <2>3 DEF MasterSide, Ranges, Tids, At, Sound, Good, Struct, Slices
      <4>2. p.old <= m.preClear
        BY <2>1, <3>2, <4>1
      <4>3. Recent(Log(m), m.preClear, P)
        BY <2>3 DEF MasterSide
      <4>4. ~(p.tid > m.preClear)
        BY <2>4, <4>1, <4>2, <4>3 DEF Recent
      <4> QED
        BY <2>1, <4>1, <4>4
    <3> QED
      BY <3>1, <3>2
  <2>6. \A q \in Log(u) :
          IsAdd(q) /\ q.tid = p.old => \E a \in Q : IsAdd(a) /\ a.key = q.key
    BY <2>2
  <2>7. SlaveSide(Log(m), Q, p.tid, Log(u))
    <3> DEFINE L == Log(m)
               R == Log(s)
               S == Log(u)
               pc == m.preClear
               t == m.tid
               n == s.tid
    <3>1. /\ MasterSide(L, pc, t, P, n, c) /\ SlaveSide(L, P, n, R) /\ Tids(R)
          /\ \A q \in R : q.tid <= n
      BY <2>3
    <3>2. \A q : IsAdd(q) /\ q \in S => q \in R
      BY <2>2
    <3>3. \A q \in R : IsAdd(q) /\ q \notin S => q.tid = p.old \/ q.tid <= pc
      BY <2>5
    <3>4. \A q \in S : IsAdd(q) /\ q.tid = p.old => \E a \in Q : IsAdd(a) /\ a.key = q.key
      BY <2>6
    <3> HIDE DEF L, R, S, pc, t, n
    <3>5. SlaveSide(L, Q, p.tid, S)
      BY <2>4, <3>1, <3>2, <3>3, <3>4, TakeDel
    <3> QED
      BY <3>5 DEF L, S
  <2> QED
    BY <2>7
<1> QED
  BY <1>1, <1>2, <1>3, <1>4, AtTake

(* The slave takes the first packet in flight, which flushes all elements. *)
LEMMA AtFlush ==
    ASSUME NEW m, NEW s, NEW P, NEW c, At(m, s, P, c), NEW p, NEW Q, FirstOf(P, p, Q),
           p.kind = "flush", NEW u, TookFlush(s, u, p)
    PROVE  At(m, u, Q, c)
<1>1. Sound(u) /\ u.tid = p.tid /\ u.preClear = s.tid
  BY DEF TookFlush
<1>2. p \in P
  BY DEF FirstOf
<1>3. ASSUME Ready(m) PROVE u.preClear <= m.preClear
  <2>1. /\ MasterSide(Log(m), m.preClear, m.tid, P, s.tid, c)
        /\ p.tid \in Nat /\ s.tid < p.tid
    BY <1>3, AtReady
  <2>2. m.preClear \in Nat /\ s.tid \in Nat /\ p.tid <= m.preClear + 1
    BY <1>2, <2>1 DEF MasterSide, Ranges
  <2> QED
    BY <1>1, <2>1, <2>2
<1>4. ASSUME Room(m), Aligned(u)
      PROVE  RefsBut(u, {}) /\ \A q \in Log(u) : ~IsAdd(q)
  <2>1. p.tid < MaxBlks * BlkSz
    BY <1>4, AtRoom
  <2> QED
    BY <1>4, <2>1 DEF TookFlush
<1>5. ASSUME Ready(m), Aligned(u)
      PROVE  SlaveSide(Log(m), Q, p.tid, Log(u))
  <2>1. MasterSide(Log(m), m.preClear, m.tid, P, s.tid, c)
    BY <1>5, AtReady
  <2>2. \A q \in Log(u) : ~IsAdd(q)
    BY <1>4, <1>5, ReadyRoom
  <2> QED
    BY <1>2, <2>1, <2>2, TakeFlush
<1> QED
  BY <1>1, <1>3, <1>4, <1>5, AtTake

-----------------------------------------------------------------------------
(* A batch at the slave. *)

(* The pool of the slave has an element for every key, and no key is the
   beginning of another. *)
Roomy ==
    IsFiniteSet(Keys) /\ Cardinality(Keys) <= Cardinality(Offs) /\ KeyPrefixes = {}

Taking(st, m, P, c) ==
    st \in SetStates /\ At(m, st.s, P, c) /\ (Ready(m) => st.ok = TRUE)

(* A turn of the loop of tidSetItems takes the first packet in flight. *)
LEMMA PacketTaken ==
    ASSUME Roomy, NEW st, NEW m, NEW P, NEW c, Taking(st, m, P, c),
           NEW pkts \in Seq(Packets), NEW i \in 1 .. Len(pkts), NEW Q,
           FirstOf(P, pkts[i], Q), pkts[i].kind = "del" => pkts[i].old # 0,
           i < Len(pkts) => pkts[i + 1] \in Q, NEW how, how[i] # "full",
           NEW role, role # "master", NEW r, r = SetPacket(st, pkts, i, how, role)
    PROVE  Taking(r, m, Q, c)
<1> DEFINE p == pkts[i]
           next == SubSeq(pkts, i + 1, Len(pkts))
<1>1. /\ st \in SetStates /\ At(m, st.s, P, c) /\ (Ready(m) => st.ok = TRUE)
      /\ p \in AddPkts \cup DelPkts /\ p.tid \in Nat /\ FirstOf(P, p, Q)
      /\ st.ok \in BOOLEAN
  BY PktTid DEF Taking, Packets, SetStates
<1>2. Sound(st.s) /\ Good(st.s) /\ p.tid > st.s.tid
  <2>1. Sound(st.s) /\ st.s.tid < p.tid
    BY <1>1 DEF At, FirstOf
  <2> QED
    BY <1>1, <2>1 DEF Sound, Good, Struct, Slices
<1>3. r \in SetStates
  BY <1>1, <1>2, PacketContinues
<1>4. CASE st.ok = FALSE
  <2>1. r = [st EXCEPT !.ok = FALSE] /\ ~Ready(m)
    BY <1>1, <1>4 DEF SetPacket
  <2>2. r.s = st.s
    BY <1>1, <2>1 DEF SetStates
  <2>3. Q \subseteq P
    BY <1>1 DEF FirstOf
  <2>4. At(m, st.s, Q, c)
    BY <1>1, <2>1, <2>3 DEF At, AtMaster
  <2> QED
    BY <1>3, <2>1, <2>2, <2>4 DEF Taking
<1>5. ASSUME At(m, r.s, Q, c), p.tid < MaxBlks * BlkSz => r.ok = TRUE
      PROVE  Taking(r, m, Q, c)
  <2>1. Ready(m) => p.tid < MaxBlks * BlkSz
    <3> HIDE DEF p
    <3> QED
      BY <1>1, AtRoom, ReadyRoom
  <2> QED
    BY <1>3, <1>5, <2>1 DEF Taking
<1>6. CASE st.ok = TRUE /\ p.kind = "add"
  <2>1. r = setIter(st.s, p, how[i], role)
    BY <1>2, <1>6 DEF SetPacket
  <2>2. p \in AddPkts /\ IsAdd(p)
    BY <1>1, <1>6 DEF DelPkts, IsAdd
  <2> HIDE DEF p
  <2>3. r.ok = TRUE /\ TookAdd(st.s, r.s, p)
    BY <1>2, <2>1, <2>2, AddTook DEF Roomy
  <2>4. At(m, r.s, Q, c)
    BY <1>1, <2>2, <2>3, AtAdd
  <2> QED
    BY <1>5, <2>3, <2>4
<1>7. CASE st.ok = TRUE /\ p.kind # "add"
  <2>1. r = delTidItem(st.s, p, next, role)
    BY <1>2, <1>7 DEF SetPacket
  <2>2. p \in DelPkts /\ p.kind \in {"del", "flush"} /\ p.old \in Nat
    BY <1>1, <1>7 DEF AddPkts, DelPkts
  <2>3. next # << >> => Head(next) \in Q
    <3> SUFFICES ASSUME next # << >> PROVE Head(next) \in Q
      OBVIOUS
    <3>1. i < Len(pkts)
      OBVIOUS
    <3>2. Head(next) = pkts[i + 1]
      BY <3>1
    <3> QED
      BY <3>1, <3>2
  <2>4. p.kind = "del" => p.old # 0
    OBVIOUS
  <2> HIDE DEF p, next
  <2>5. CASE p.kind = "del"
    <3>1. TookDel(st.s, r.s, p, next) /\ (p.tid < MaxBlks * BlkSz => r.ok = TRUE)
      BY <1>2, <2>1, <2>2, <2>4, <2>5, DelTook DEF Roomy
    <3>2. At(m, r.s, Q, c)
      BY <1>1, <2>2, <2>3, <2>5, <3>1, AtDel
    <3> QED
      BY <1>5, <3>1, <3>2
  <2>6. CASE p.kind = "flush"
    <3>1. TookFlush(st.s, r.s, p) /\ (p.tid < MaxBlks * BlkSz => r.ok = TRUE)
      BY <1>2, <2>1, <2>2, <2>6, FlushTook
    <3>2. At(m, r.s, Q, c)
      BY <1>1, <2>6, <3>1, AtFlush
    <3> QED
      BY <1>5, <3>1, <3>2
  <2> QED
    BY <2>2, <2>5, <2>6
<1> QED
  BY <1>1, <1>4, <1>6, <1>7

(* The packets of q after the first k. *)
After(q, k) == {q[i] : i \in k + 1 .. Len(q)}

(* The first of the packets that the loop has still to take is the next one. *)
LEMMA AfterFirst ==
    ASSUME NEW q \in Seq(Packets), NEW k \in 0 .. Len(q) - 1, NEW W,
           \A i \in 1 .. Len(q) : /\ \A j \in 1 .. i - 1 : q[j].tid < q[i].tid
                                  /\ \A x \in W : q[i].tid < x.tid,
           Tids(W)
    PROVE  /\ FirstOf(After(q, k) \cup W, q[k + 1], After(q, k + 1) \cup W)
           /\ k + 1 < Len(q) => q[(k + 1) + 1] \in After(q, k + 1)
<1>1. Len(q) \in Nat /\ k + 1 \in 1 .. Len(q) /\ \A i \in 1 .. Len(q) : q[i].tid \in Nat
  BY PktTid
<1>2. After(q, k) = {q[k + 1]} \cup After(q, k + 1)
  <2>1. k + 1 .. Len(q) = {k + 1} \cup ((k + 1) + 1 .. Len(q))
    BY <1>1
  <2> QED
    BY <2>1 DEF After
<1>3. \A x \in After(q, k + 1) : q[k + 1].tid < x.tid
  <2> SUFFICES ASSUME NEW i \in (k + 1) + 1 .. Len(q) PROVE q[k + 1].tid < q[i].tid
    BY DEF After
  <2>1. i \in 1 .. Len(q) /\ k + 1 \in 1 .. i - 1
    BY <1>1
  <2> QED
    BY <2>1
<1>4. \A x \in W : q[k + 1].tid < x.tid
  BY <1>1
<1>5. q[k + 1] \notin After(q, k + 1) \cup W
  BY <1>1, <1>3, <1>4
<1>6. k + 1 < Len(q) => q[(k + 1) + 1] \in After(q, k + 1)
  BY <1>1 DEF After
<1> QED
  BY <1>2, <1>3, <1>4, <1>5, <1>6 DEF FirstOf

(* The batch pkts is the first in flight, and W is the rest. *)
BatchFirst(pkts, W) ==
    /\ Tids(W)
    /\ \A i \in 1 .. Len(pkts) :
          /\ pkts[i].kind = "del" => pkts[i].old # 0
          /\ \A j \in 1 .. i - 1 : pkts[j].tid < pkts[i].tid
          /\ \A x \in W : pkts[i].tid < x.tid

(* tidSetItems takes all packets of a batch. *)
LEMMA BatchTaken ==
    ASSUME Roomy, NEW m, NEW s, NEW c, NEW W, NEW pkts \in Seq(Packets),
           At(m, s, PktSet(pkts) \cup W, c), BatchFirst(pkts, W), NEW how,
           \A i \in 1 .. Len(pkts) : how[i] # "full", NEW role, role # "master",
           NEW u, u = tidSetItems(s, pkts, how, role)
    PROVE  At(m, u, W, c)
<1>1. PICK turn : /\ turn[0] = [ok |-> TRUE, s |-> s]
                  /\ \A n \in 1 .. Len(pkts) :
                       turn[n] = SetPacket(turn[n - 1], pkts, n, how, role)
                  /\ u = turn[Len(pkts)].s
  BY SetTurns
<1> DEFINE S == {n \in Nat : Taking(turn[n], m, After(pkts, n) \cup W, c)}
<1>2. Len(pkts) \in Nat /\ s \in Slices
  BY DEF At, Sound, Good, Struct
<1>3. 0 \in S
  <2>1. turn[0].s = s /\ turn[0] \in SetStates /\ turn[0].ok = TRUE
    BY <1>1, <1>2 DEF SetStates
  <2>2. After(pkts, 0) = PktSet(pkts)
    BY DEF After, PktSet
  <2> QED
    BY <2>1, <2>2 DEF Taking
<1>4. ASSUME NEW n \in 0 .. Len(pkts) - 1, n \in S PROVE n + 1 \in S
  <2>1. n + 1 \in 1 .. Len(pkts) /\ (n + 1) - 1 = n /\ n + 1 \in Nat
    BY <1>2
  <2>2. turn[n + 1] = SetPacket(turn[n], pkts, n + 1, how, role)
    BY <1>1, <2>1
  <2> DEFINE P == After(pkts, n) \cup W
             Q == After(pkts, n + 1) \cup W
  <2>3. Taking(turn[n], m, P, c)
    BY <1>4
  <2>4. FirstOf(P, pkts[n + 1], Q) /\ (n + 1 < Len(pkts) => pkts[(n + 1) + 1] \in Q)
    BY AfterFirst DEF BatchFirst
  <2>5. (pkts[n + 1].kind = "del" => pkts[n + 1].old # 0) /\ how[n + 1] # "full"
    BY <2>1 DEF BatchFirst
  <2> HIDE DEF P, Q
  <2>6. Taking(turn[n + 1], m, Q, c)
    <3>1. PICK i \in 1 .. Len(pkts) : i = n + 1
      BY <2>1
    <3>2. Taking(turn[i], m, Q, c)
      BY <2>2, <2>3, <2>4, <2>5, <3>1, PacketTaken
    <3> QED
      BY <3>1, <3>2
  <2> QED
    BY <2>1, <2>6 DEF Q
<1> HIDE DEF S
<1>5. 0 .. Len(pkts) \subseteq S
  BY <1>2, <1>3, <1>4, UpTo
<1>6. Taking(turn[Len(pkts)], m, After(pkts, Len(pkts)) \cup W, c)
  <2>1. Len(pkts) \in S
    BY <1>2, <1>5
  <2> QED
    BY <2>1 DEF S
<1>7. After(pkts, Len(pkts)) \cup W = W
  <2>1. Len(pkts) + 1 .. Len(pkts) = {}
    BY <1>2
  <2> QED
    BY <2>1 DEF After
<1> QED
  BY <1>1, <1>6, <1>7 DEF Taking

-----------------------------------------------------------------------------
(* No operation but clear changes preClear. *)

HasPre(s) == "preClear" \in DOMAIN s

SamePre(s, u) == HasPre(s) => HasPre(u) /\ u.preClear = s.preClear

(* What two steps in a row keep, both keep. *)
LEMMA PreTrans ==
    ASSUME NEW s, NEW m, NEW u, SamePre(s, m), SamePre(m, u)
    PROVE  SamePre(s, u)
BY DEF SamePre

(* An assignment to a field other than preClear keeps preClear. *)
LEMMA PreFields ==
    ASSUME NEW s, NEW x
    PROVE  /\ SamePre(s, [s EXCEPT !.tid = x]) /\ SamePre(s, [s EXCEPT !.blks = x])
           /\ SamePre(s, [s EXCEPT !.live = x]) /\ SamePre(s, [s EXCEPT !.link = x])
           /\ SamePre(s, [s EXCEPT !.key = x]) /\ SamePre(s, [s EXCEPT !.val = x])
<1>1. "preClear" # "tid" /\ "preClear" # "blks" /\ "preClear" # "live" /\ "preClear" # "link"
      /\ "preClear" # "key" /\ "preClear" # "val"
  OBVIOUS
<1> QED
  BY <1>1 DEF SamePre, HasPre

(* setTidTblEnt keeps preClear. *)
LEMMA PreSet ==
    ASSUME NEW s, NEW v, NEW t
    PROVE  SamePre(s, setTidTblEnt(s, v, t))
<1> DEFINE n == NewTid(s, t)
           s1 == [s EXCEPT !.tid = n]
           s2 == IF NeedsBlk(s1, n) THEN growTidTbl(s1, n - Slot(n)) ELSE s1
<1>1. SamePre(s, s1)
  BY PreFields
<1>2. SamePre(s1, s2)
  BY PreFields DEF growTidTbl, SamePre
<1>3. SamePre(s2, StoreVal(s2, v, n))
  BY PreFields DEF StoreVal
<1>4. SamePre(s, s)
  BY DEF SamePre
<1>5. SamePre(s, StoreVal(s2, v, n))
  BY <1>1, <1>2, <1>3, PreTrans
<1>6. setTidTblEnt(s, v, t) \in {s, s1, StoreVal(s2, v, n)}
  BY DEF setTidTblEnt
<1> QED
  BY <1>1, <1>4, <1>5, <1>6

(* unlinkTid keeps preClear. *)
LEMMA PreUnlink ==
    ASSUME NEW s, NEW t, NEW role
    PROVE  SamePre(s, unlinkTid(s, t, role))
<1> DEFINE m == clrTidTblEnt(s, t)
<1>1. SamePre(s, m)
  BY PreFields DEF clrTidTblEnt, SamePre
<1>2. SamePre(m, setTidTblEnt(m, tidDelVal(t), 0))
  BY PreSet
<1>3. unlinkTid(s, t, role) \in {m, setTidTblEnt(m, tidDelVal(t), 0)}
  BY DEF unlinkTid
<1> HIDE DEF m
<1> QED
  BY <1>1, <1>2, <1>3, PreTrans

(* linkTid keeps preClear. *)
LEMMA PreLink ==
    ASSUME NEW s, NEW off, NEW t
    PROVE  SamePre(s, linkTid(s, off, t))
<1> DEFINE m == setTidTblEnt(s, iterOff2tidVal(off), t)
<1>1. SamePre(s, m)
  BY PreSet
<1>2. SamePre(m, [m EXCEPT !.link[off] = NewTid(s, t)])
  BY PreFields
<1>3. linkTid(s, off, t) \in {m, [m EXCEPT !.link[off] = NewTid(s, t)]}
  BY DEF linkTid
<1> HIDE DEF m
<1> QED
  BY <1>1, <1>2, <1>3, PreTrans

(* Erasing an element keeps preClear. *)
LEMMA PreErase ==
    ASSUME NEW s, NEW off, NEW role
    PROVE  /\ SamePre(s, eraseIterCb(s, off, role))
           /\ SamePre(s, eraseIteratorHelper(s, off, role))
<1> DEFINE m == [s EXCEPT !.link[off] = 0]
           e == eraseIterCb(s, off, role)
<1>1. SamePre(s, m)
  BY PreFields
<1>2. SamePre(m, unlinkTid(m, s.link[off], role))
  BY PreUnlink
<1>3. e \in {s, unlinkTid(m, s.link[off], role)}
  BY DEF eraseIterCb
<1> HIDE DEF m
<1>4. SamePre(s, e)
  BY <1>1, <1>2, <1>3, PreTrans DEF SamePre
<1>5. eraseIteratorHelper(s, off, role) = [e EXCEPT !.live = @ \ {off}]
  BY DEF eraseIteratorHelper
<1> HIDE DEF e
<1>6. SamePre(e, [e EXCEPT !.live = @ \ {off}])
  BY PreFields
<1> QED
  BY <1>4, <1>5, <1>6, PreTrans DEF e

(* Inserting a copy of an element keeps preClear. *)
LEMMA PreCopy ==
    ASSUME NEW s, NEW k, NEW v, NEW off, NEW w
    PROVE  SamePre(s, insertCopy2(s, k, v, off, w))
<1> DEFINE a == [s EXCEPT !.live = @ \cup {off}]
           b == [a EXCEPT !.key[off] = k]
           c == [b EXCEPT !.val[off] = v]
           d == [c EXCEPT !.link[off] = w]
<1>1. insertCopy2(s, k, v, off, w) \in {s, d}
  BY DEF insertCopy2
<1>2. SamePre(s, a)
  BY PreFields
<1> HIDE DEF a
<1>3. SamePre(a, b)
  BY PreFields
<1> HIDE DEF b
<1>4. SamePre(b, c)
  BY PreFields
<1> HIDE DEF c
<1>5. SamePre(c, d)
  BY PreFields
<1> HIDE DEF d
<1>6. SamePre(s, d)
  BY <1>2, <1>3, <1>4, <1>5, PreTrans
<1> QED
  BY <1>1, <1>6 DEF SamePre

(* The commands of a worker, all but the flush, keep preClear. *)
LEMMA PreCmds ==
    ASSUME NEW s
    PROVE  /\ \A k, v, off, w : SamePre(s, insert2(s, k, v, off, w))
           /\ \A off, v, role : SamePre(s, doSetInPlace(s, off, v, role))
           /\ \A off, v, new, w, role : SamePre(s, doSetRealloc(s, off, v, new, w, role))
           /\ \A off, v, new, w, role : SamePre(s, iterGrowValue(s, off, v, new, w, role))
           /\ \A off, role : SamePre(s, eraseIteratorHelper(s, off, role))
           /\ \A off, role : SamePre(s, tidReplaceTid(s, off, role))
           /\ \A off, role : SamePre(s, eraseIteratorHelper(checkTidTbl(s), off, role))
<1>1. ASSUME NEW m, NEW k, NEW v, NEW off, NEW w PROVE SamePre(m, insert2(m, k, v, off, w))
  BY PreCopy, PreLink, PreTrans DEF insert2
<1>2. ASSUME NEW off, NEW v, NEW role PROVE SamePre(s, doSetInPlace(s, off, v, role))
  <2> DEFINE a == [s EXCEPT !.val[off] = v]
             b == eraseIterCb(a, off, role)
  <2>1. doSetInPlace(s, off, v, role) = linkTid(b, off, 0)
    BY DEF doSetInPlace, updateIterCb
  <2>2. SamePre(s, a)
    BY PreFields
  <2> HIDE DEF a
  <2>3. SamePre(a, b)
    BY PreErase
  <2> HIDE DEF b
  <2>4. SamePre(b, linkTid(b, off, 0))
    BY PreLink
  <2> QED
    BY <2>1, <2>2, <2>3, <2>4, PreTrans
<1>3. ASSUME NEW off, NEW v, NEW new, NEW w, NEW role
      PROVE  SamePre(s, doSetRealloc(s, off, v, new, w, role))
  BY <1>1, PreErase, PreTrans DEF doSetRealloc
<1>4. ASSUME NEW off, NEW v, NEW new, NEW w, NEW role
      PROVE  SamePre(s, iterGrowValue(s, off, v, new, w, role))
  <2> DEFINE a == insertCopy2(s, s.key[off], v, new, w)
             b == eraseIteratorHelper(a, off, role)
  <2>1. iterGrowValue(s, off, v, new, w, role) \in {s, linkTid(b, new, 0)}
    BY DEF iterGrowValue
  <2>2. SamePre(s, a)
    BY PreCopy
  <2> HIDE DEF a
  <2>3. SamePre(a, b)
    BY PreErase
  <2> HIDE DEF b
  <2>4. SamePre(b, linkTid(b, new, 0))
    BY PreLink
  <2>5. SamePre(s, linkTid(b, new, 0))
    BY <2>2, <2>3, <2>4, PreTrans
  <2> QED
    BY <2>1, <2>5 DEF SamePre
<1>5. ASSUME NEW off, NEW role PROVE SamePre(s, tidReplaceTid(s, off, role))
  BY PreUnlink, PreLink, PreTrans DEF tidReplaceTid
<1>6. ASSUME NEW off, NEW role
      PROVE  SamePre(s, eraseIteratorHelper(checkTidTbl(s), off, role))
  <2>1. SamePre(s, checkTidTbl(s))
    BY PreFields DEF checkTidTbl, growTidTbl, SamePre
  <2> QED
    BY <2>1, PreErase, PreTrans
<1> QED
  BY <1>1, <1>2, <1>3, <1>4, <1>5, <1>6, PreErase

(* A turn of the loop of tidGetNxtItems leaves the slice, or erases an element. *)
LEMMA ItemKeeps ==
    ASSUME NEW st \in GetStates, Batch(st), NEW expired, NEW u, u = getNxtTidItem(st, expired)
    PROVE  u.s = st.s \/ \E o \in Offs : u.s = eraseIteratorHelper(st.s, o, "master")
<1> DEFINE pos == nxtTidTblVal(st.s, st.cur, st.blk)
           v == EntryAt(st.s, pos[1], pos[2])
           Expires == /\ Ahead(st.s, st.cur, st.blk) # {}
                      /\ isTidValIterOff(v) /\ v.arg # 0
                      /\ u.s = eraseIteratorHelper(st.s, v.arg, "master")
<1>1. Good(st.s) /\ NoneAhead(st.s) /\ st.cur \in Nat
  BY DEF Batch, GetStates
<1>2. u.s = st.s \/ Expires
  BY DEF getNxtTidItem, GetStates
<1>3. ASSUME Expires PROVE v.arg \in Offs
  <2>1. Finds(st.s, st.cur, st.blk, pos[1], pos[2])
    BY <1>1, <1>3, NxtFinds
  <2> HIDE DEF pos
  <2> QED
    BY <1>3, <2>1 DEF Finds
<1> QED
  BY <1>2, <1>3

(* So a batch of tidGetNxtItems keeps preClear and aligns no index. *)
LEMMA BatchKeeps ==
    ASSUME NEW s, Good(s), NoneAhead(s), NEW t \in Nat, NEW expired, NEW r,
           r = tidGetNxtItems(s, t, expired)
    PROVE  r.s.preClear = s.preClear /\ (Ready(r.s) => Ready(s))
<1>1. Struct(s) /\ s \in Slices /\ s.tid \in Nat /\ HasPre(s)
  BY DEF Good, Struct, Slices, HasPre
<1>a. PICK M \in Nat : \E turn : GetTurning(M, turn, s, t, expired, r)
  BY <1>1, GetTurns
<1>2. PICK turn : /\ turn[0] = GetFirst(s, t)
                  /\ \A k \in 1 .. M : turn[k] = getNxtTidItem(turn[k - 1], expired)
                  /\ r = GetResult(turn[M])
  BY <1>a DEF GetTurning
<1> DEFINE S == {k \in Nat : /\ turn[k] \in GetStates /\ Batch(turn[k])
                             /\ SamePre(s, turn[k].s) /\ (Ready(turn[k].s) => Ready(s))}
<1>3. 0 \in S
  <2> DEFINE x == GetFirst(s, t)
  <2>1. x.s = s /\ x.pkts = << >> /\ << >> \in Seq(Packets) /\ Len(x.pkts) = 0
    BY DEF GetFirst
  <2>2. x \in GetStates
    BY <1>1, <2>1 DEF GetStates, GetFirst
  <2> HIDE DEF x
  <2>3. Batch(x)
    BY <2>1, BatchMaxAssumption DEF Batch
  <2>4. turn[0] = x
    BY <1>2 DEF x
  <2> QED
    BY <2>1, <2>2, <2>3, <2>4 DEF SamePre
<1>4. ASSUME NEW k \in 0 .. M - 1, k \in S PROVE k + 1 \in S
  <2>1. k + 1 \in 1 .. M /\ (k + 1) - 1 = k /\ k + 1 \in Nat
    OBVIOUS
  <2> DEFINE st == turn[k]
             u == turn[k + 1]
  <2>2. u = getNxtTidItem(st, expired)
    BY <1>2, <2>1
  <2>3. st \in GetStates /\ Batch(st) /\ SamePre(s, st.s) /\ (Ready(st.s) => Ready(s))
    BY <1>4
  <2> HIDE DEF st, u
  <2>4. u \in GetStates /\ Batch(u)
    BY <2>2, <2>3, ItemContinues
  <2>5. SamePre(st.s, u.s) /\ (Ready(u.s) => Ready(st.s))
    <3>1. CASE u.s = st.s
      BY <3>1 DEF SamePre
    <3>2. ASSUME NEW o \in Offs, u.s = eraseIteratorHelper(st.s, o, "master")
          PROVE  SamePre(st.s, u.s) /\ (Ready(u.s) => Ready(st.s))
      <4>1. SamePre(st.s, u.s)
        BY <3>2, PreErase
      <4>2. Ready(u.s) => Ready(st.s)
        BY <2>3, <3>2, EraseReady DEF Batch
      <4> QED
        BY <4>1, <4>2
    <3> QED
      BY <2>2, <2>3, <3>1, <3>2, ItemKeeps
  <2>6. SamePre(s, u.s)
    BY <2>3, <2>5, PreTrans
  <2> QED
    BY <2>1, <2>3, <2>4, <2>5, <2>6 DEF u
<1> HIDE DEF S
<1>5. 0 .. M \subseteq S
  BY <1>3, <1>4, UpTo
<1>6. SamePre(s, turn[M].s) /\ (Ready(turn[M].s) => Ready(s))
  BY <1>5 DEF S
<1> QED
  BY <1>1, <1>2, <1>6 DEF GetResult, SamePre

-----------------------------------------------------------------------------
(* Steps of the master. *)

(* The master of a steady pair meets what the lemmas on its commands ask for. *)
LEMMA AtFits ==
    ASSUME NEW m, NEW s, NEW P, NEW c, Good(m), NoneAhead(m), At(m, s, P, c)
    PROVE  Fits(m, P, s.tid, c)
BY DEF At, AtMaster, Fits

(* The tids in the log of the slave are numbers up to its tid. *)
LEMMA LogsTids ==
    ASSUME NEW s, Sound(s), NEW R \in SlaveLogs(s)
    PROVE  Tids(R) /\ \A p \in R : p.tid <= s.tid
<1>1. R = Log(s) /\ Struct(s) /\ NoneAhead(s)
  BY DEF SlaveLogs, Sound, Good
<1> QED
  BY <1>1, LogTids DEF Tids

(* A command that was carried out. *)
LEMMA AtCmd ==
    ASSUME NEW m, NEW s, NEW P, NEW c, Good(m), At(m, s, P, c), NEW u,
           Continues(m, u), SamePre(m, u), Passes(m, u, P, s.tid, c)
    PROVE  At(u, s, P, c)
<1>1. /\ m.tid \in Nat /\ u.tid \in Nat /\ m.tid <= u.tid
      /\ HasPre(m) /\ u.preClear = m.preClear
  BY DEF Continues, Follows, Good, Struct, Slices, HasPre, SamePre
<1>2. /\ Sound(s) /\ c \in Nat /\ s.tid \in Nat /\ s.tid <= c /\ c <= m.tid
      /\ \A p \in P : p \in Packets /\ s.tid < p.tid /\ p.tid <= c
      /\ (Room(m) => RefsBut(s, {})) /\ (Ready(m) => s.preClear <= m.preClear)
      /\ AtMaster(m, P, s.tid, c, SlaveLogs(s))
  BY DEF At, Sound, Good, Struct, Slices
<1>3. Room(u) => Room(m)
  <2>1. MaxBlks * BlkSz \in Int
    OBVIOUS
  <2> QED
    BY <1>1, <2>1 DEF Room
<1>4. ASSUME Ready(u)
      PROVE  /\ Ready(m) /\ RefsBut(u, {}) /\ Sides(u, P, s.tid, c)
             /\ \A R \in SlaveLogs(s) : SlaveSide(Log(u), P, s.tid, R)
  <2>1. Ready(m) /\ RefsBut(u, {}) /\ Holds(m, u, P, s.tid, c)
    BY <1>4 DEF Passes
  <2>2. \A R \in SlaveLogs(s) : SlaveSide(Log(m), P, s.tid, R)
    BY <1>2, <2>1 DEF AtMaster
  <2>3. \A R \in SlaveLogs(s) : Tids(R)
    BY <1>2, LogsTids
  <2> QED
    BY <2>1, <2>2, <2>3 DEF Holds
<1>5. AtMaster(u, P, s.tid, c, SlaveLogs(s))
  BY <1>4 DEF AtMaster
<1>6. c <= u.tid
  BY <1>1, <1>2
<1> QED
  BY <1>1, <1>2, <1>3, <1>4, <1>5, <1>6 DEF At

(* flush_all, which puts the master right again if its index was not aligned. *)
LEMMA AtClear ==
    ASSUME NEW m, NEW s, NEW P, NEW c, Good(m), At(m, s, P, c),
           \A p, q \in P : p.tid = q.tid => p = q,
           NEW u, u = clear(m, "master"), Continues(m, u)
    PROVE  At(u, s, P, c)
<1>1. m.tid \in Nat /\ u.tid \in Nat /\ m.tid <= u.tid
  BY DEF Continues, Follows, Good, Struct, Slices
<1>2. /\ Sound(s) /\ c \in Nat /\ s.tid \in Nat /\ s.tid <= c /\ c <= m.tid
      /\ s.preClear \in Nat /\ s.preClear <= s.tid
      /\ \A p \in P : p \in Packets /\ s.tid < p.tid /\ p.tid <= c
      /\ (Room(m) => RefsBut(s, {}))
  BY DEF At, Sound, Good, Struct, Slices
<1>3. Room(u) => Room(m)
  <2>1. MaxBlks * BlkSz \in Int
    OBVIOUS
  <2> QED
    BY <1>1, <2>1 DEF Room
<1>4. ASSUME Ready(u)
      PROVE  /\ s.preClear <= u.preClear /\ RefsBut(u, {}) /\ Sides(u, P, s.tid, c)
             /\ \A R \in SlaveLogs(s) : SlaveSide(Log(u), P, s.tid, R)
  <2>1. /\ Log(u) = {FlushPkt(m.tid + 1)} /\ u.tid = m.tid + 1
        /\ u.preClear = m.tid /\ u.live = {}
    BY <1>4, ClearLog
  <2>2. s.preClear <= u.preClear
    BY <1>1, <1>2, <2>1
  <2>3. RefsBut(u, {})
    BY <2>1 DEF RefsBut
  <2>4. FlushPkt(m.tid + 1).kind = "flush" /\ FlushPkt(m.tid + 1).tid = m.tid + 1
    BY DEF FlushPkt
  <2>5. Tids(P)
    BY <1>2, PktTid DEF Tids
  <2> DEFINE f == FlushPkt(m.tid + 1)
             n == s.tid
             t == m.tid
  <2>6. /\ f.kind = "flush" /\ f.tid = t + 1 /\ n \in Nat /\ t \in Nat /\ n <= c /\ c <= t
        /\ \A p \in P : n < p.tid /\ p.tid <= c
    BY <1>1, <1>2, <2>4
  <2> HIDE DEF f, n, t
  <2>7. /\ MasterSide({f}, t, t + 1, P, n, c)
        /\ \A R : Tids(R) /\ (\A p \in R : p.tid <= n) => SlaveSide({f}, P, n, R)
    BY <1>2, <2>5, <2>6, SideFlush
  <2>8. Sides(u, P, s.tid, c)
    BY <2>1, <2>7 DEF Sides, f, n, t
  <2>9. \A R \in SlaveLogs(s) : Tids(R) /\ \A p \in R : p.tid <= s.tid
    BY <1>2, LogsTids
  <2> QED
    BY <2>1, <2>2, <2>3, <2>7, <2>8, <2>9 DEF f, n
<1>5. AtMaster(u, P, s.tid, c, SlaveLogs(s))
  BY <1>4 DEF AtMaster
<1>6. c <= u.tid
  BY <1>1, <1>2
<1> QED
  BY <1>1, <1>2, <1>3, <1>4, <1>5, <1>6 DEF At

(* A batch of bcastNewTidData. *)
LEMMA AtBatch ==
    ASSUME NEW m, NEW s, NEW P, NEW c, Good(m), NoneAhead(m), At(m, s, P, c),
           NEW expired, NEW r, r = tidGetNxtItems(m, c, expired), Continues(m, r.s),
           r.pkts \in Seq(Packets), r.last \in Nat
    PROVE  /\ At(r.s, s, P \cup PktSet(r.pkts), r.last) /\ c <= r.last
           /\ Rising(r.pkts, c, r.last)
<1>1. m.tid \in Nat /\ r.s.tid \in Nat /\ m.tid <= r.s.tid
  BY DEF Continues, Follows, Good, Struct, Slices
<1>2. /\ Sound(s) /\ c \in Nat /\ s.tid \in Nat /\ s.tid <= c /\ c <= m.tid
      /\ \A p \in P : p \in Packets /\ s.tid < p.tid /\ p.tid <= c
      /\ (Room(m) => RefsBut(s, {})) /\ (Ready(m) => s.preClear <= m.preClear)
      /\ AtMaster(m, P, s.tid, c, SlaveLogs(s))
  BY DEF At, Sound, Good, Struct, Slices
<1>3. Tids(P) /\ \A R \in SlaveLogs(s) : Tids(R)
  BY <1>2, PktTid, LogsTids DEF Tids
<1>4. /\ c <= r.last /\ r.last <= r.s.tid /\ Rising(r.pkts, c, r.last)
      /\ AtMaster(r.s, P \cup PktSet(r.pkts), s.tid, r.last, SlaveLogs(s))
  BY <1>2, <1>3, BatchSends
<1>5. r.s.preClear = m.preClear
  BY <1>2, BatchKeeps
<1>6. Room(r.s) => Room(m)
  <2>1. MaxBlks * BlkSz \in Int
    OBVIOUS
  <2> QED
    BY <1>1, <2>1 DEF Room
<1>7. Ready(r.s) => Ready(m)
  BY <1>2, BatchKeeps
<1>8. \A p \in P \cup PktSet(r.pkts) : p \in Packets /\ s.tid < p.tid /\ p.tid <= r.last
  <2>1. \A p \in P : p.tid \in Nat /\ p.tid <= r.last
    BY <1>2, <1>3, <1>4 DEF Tids
  <2>2. ASSUME NEW i \in 1 .. Len(r.pkts)
        PROVE  r.pkts[i] \in Packets /\ s.tid < r.pkts[i].tid /\ r.pkts[i].tid <= r.last
    <3>1. r.pkts[i] \in Packets /\ r.pkts[i].tid \in Nat
      BY PktTid
    <3>2. c < r.pkts[i].tid /\ r.pkts[i].tid <= r.last
      BY <1>4 DEF Rising
    <3> QED
      BY <1>2, <3>1, <3>2
  <2> QED
    BY <1>2, <2>1, <2>2 DEF PktSet
<1>9. s.tid <= r.last
  BY <1>2, <1>4
<1> QED
  BY <1>1, <1>2, <1>4, <1>5, <1>6, <1>7, <1>8, <1>9 DEF At

-----------------------------------------------------------------------------
(* The batches on the connection. *)

InFlight(q) == UNION {PktSet(q[i]) : i \in 1 .. Len(q)}

(* The tids grow from packet to packet and from batch to batch. *)
Ordered(q) ==
    \A i \in 1 .. Len(q) : \A j \in 1 .. Len(q[i]) :
        /\ q[i][j].kind = "del" => q[i][j].old # 0
        /\ \A x \in 1 .. j - 1 : q[i][x].tid < q[i][j].tid
        /\ \A y \in i + 1 .. Len(q) : \A x \in 1 .. Len(q[y]) : q[i][j].tid < q[y][x].tid

(* In ordered batches a tid has one packet. *)
LEMMA OrderedOnce ==
    ASSUME NEW q \in Seq(Batches), Ordered(q), NEW p \in InFlight(q), NEW r \in InFlight(q),
           p.tid = r.tid
    PROVE  p = r
<1>1. PICK i \in 1 .. Len(q) : p \in PktSet(q[i])
  BY DEF InFlight
<1>2. PICK j \in 1 .. Len(q[i]) : p = q[i][j]
  BY <1>1 DEF PktSet
<1>3. PICK y \in 1 .. Len(q) : r \in PktSet(q[y])
  BY DEF InFlight
<1>4. PICK x \in 1 .. Len(q[y]) : r = q[y][x]
  BY <1>3 DEF PktSet
<1>5. q[i] \in Seq(Packets) /\ q[y] \in Seq(Packets) /\ Len(q) \in Nat
  BY DEF Batches
<1>6. Len(q[i]) \in Nat /\ Len(q[y]) \in Nat /\ p \in Packets /\ r \in Packets
  <2>1. PICK a \in Seq(Packets), b \in Seq(Packets) : a = q[i] /\ b = q[y]
    BY <1>5
  <2>2. Len(a) \in Nat /\ j \in 1 .. Len(a) /\ p = a[j]
    BY <1>2, <2>1
  <2>3. Len(b) \in Nat /\ x \in 1 .. Len(b) /\ r = b[x]
    BY <1>4, <2>1
  <2>4. p \in Packets
    BY <2>2
  <2>5. r \in Packets
    BY <2>3
  <2> QED
    BY <2>1, <2>2, <2>3, <2>4, <2>5
<1>7. p.tid \in Nat /\ r.tid \in Nat
  BY <1>6, PktTid
<1>8. CASE i < y
  <2>1. y \in i + 1 .. Len(q)
    BY <1>5, <1>8
  <2>2. p.tid < r.tid
    BY <1>2, <1>4, <2>1 DEF Ordered
  <2> QED
    BY <1>7, <2>2
<1>9. CASE y < i
  <2>1. i \in y + 1 .. Len(q)
    BY <1>5, <1>9
  <2>2. r.tid < p.tid
    BY <1>2, <1>4, <2>1 DEF Ordered
  <2> QED
    BY <1>7, <2>2
<1>10. CASE i = y
  <2>1. CASE j < x
    <3>1. j \in 1 .. x - 1
      BY <1>6, <1>10, <2>1
    <3>2. p.tid < r.tid
      BY <1>2, <1>4, <1>10, <3>1 DEF Ordered
    <3> QED
      BY <1>7, <3>2
  <2>2. CASE x < j
    <3>1. x \in 1 .. j - 1
      BY <1>6, <1>10, <2>2
    <3>2. r.tid < p.tid
      BY <1>2, <1>4, <1>10, <3>1 DEF Ordered
    <3> QED
      BY <1>7, <3>2
  <2>3. CASE x = j
    BY <1>2, <1>4, <1>10, <2>3
  <2> QED
    BY <1>6, <1>10, <2>1, <2>2, <2>3
<1> QED
  BY <1>5, <1>8, <1>9, <1>10

(* The first batch is taken from the connection. *)
LEMMA OrderedTail ==
    ASSUME NEW q \in Seq(Batches), q # << >>, Ordered(q), Tids(InFlight(q))
    PROVE  /\ InFlight(q) = PktSet(Head(q)) \cup InFlight(Tail(q))
           /\ Ordered(Tail(q)) /\ BatchFirst(Head(q), InFlight(Tail(q)))
<1> DEFINE t == Tail(q)
           h == Head(q)
<1>1. Len(q) \in Nat /\ 1 \in 1 .. Len(q) /\ h = q[1]
  OBVIOUS
<1>2. Len(t) = Len(q) - 1 /\ \A i \in 1 .. Len(q) - 1 : t[i] = q[i + 1]
  OBVIOUS
<1> HIDE DEF t, h
<1>3. \A i \in 1 .. Len(t) : t[i] = q[i + 1] /\ i + 1 \in 2 .. Len(q) /\ i + 1 \in 1 .. Len(q)
  BY <1>1, <1>2
<1>4. \A k \in 1 .. Len(q) : k = 1 \/ (k - 1 \in 1 .. Len(t) /\ t[k - 1] = q[k])
  BY <1>1, <1>2
<1>5. InFlight(q) = PktSet(h) \cup InFlight(t)
  <2>1. InFlight(q) \subseteq PktSet(h) \cup InFlight(t)
    BY <1>1, <1>4 DEF InFlight
  <2>2. PktSet(h) \cup InFlight(t) \subseteq InFlight(q)
    BY <1>1, <1>3 DEF InFlight
  <2> QED
    BY <2>1, <2>2
<1>6. Ordered(t)
  <2> SUFFICES ASSUME NEW i \in 1 .. Len(t), NEW j \in 1 .. Len(t[i])
               PROVE  /\ t[i][j].kind = "del" => t[i][j].old # 0
                      /\ \A x \in 1 .. j - 1 : t[i][x].tid < t[i][j].tid
                      /\ \A y \in i + 1 .. Len(t) : \A x \in 1 .. Len(t[y]) :
                            t[i][j].tid < t[y][x].tid
    BY DEF Ordered
  <2>1. PICK k \in 1 .. Len(q) : k = i + 1 /\ t[i] = q[k]
    BY <1>3
  <2>2. /\ q[k][j].kind = "del" => q[k][j].old # 0
        /\ \A x \in 1 .. j - 1 : q[k][x].tid < q[k][j].tid
        /\ \A y \in k + 1 .. Len(q) : \A x \in 1 .. Len(q[y]) : q[k][j].tid < q[y][x].tid
    BY <2>1 DEF Ordered
  <2>3. \A y \in i + 1 .. Len(t) : y + 1 \in k + 1 .. Len(q) /\ t[y] = q[y + 1]
    BY <1>1, <1>2, <2>1
  <2> QED
    BY <2>1, <2>2, <2>3
<1>7. BatchFirst(h, InFlight(t))
  <2>1. Tids(InFlight(t))
    BY <1>5 DEF Tids
  <2>2. ASSUME NEW i \in 1 .. Len(h)
        PROVE  /\ h[i].kind = "del" => h[i].old # 0
               /\ \A j \in 1 .. i - 1 : h[j].tid < h[i].tid
    BY <1>1 DEF Ordered
  <2>3. ASSUME NEW i \in 1 .. Len(h), NEW x \in InFlight(t) PROVE h[i].tid < x.tid
    <3>1. PICK y \in 1 .. Len(t) : x \in PktSet(t[y])
      BY DEF InFlight
    <3>2. PICK k \in 2 .. Len(q) : t[y] = q[k]
      BY <1>3
    <3>3. PICK j \in 1 .. Len(q[k]) : x = q[k][j]
      BY <3>1, <3>2 DEF PktSet
    <3>4. k \in 1 + 1 .. Len(q)
      OBVIOUS
    <3> QED
      BY <1>1, <3>3, <3>4 DEF Ordered
  <2> QED
    BY <2>1, <2>2, <2>3 DEF BatchFirst
<1> QED
  BY <1>5, <1>6, <1>7 DEF t, h

(* A batch beyond all others is put on the connection. *)
LEMMA OrderedAppend ==
    ASSUME NEW q \in Seq(Batches), Ordered(q), NEW c \in Nat, NEW d \in Nat,
           \A p \in InFlight(q) : p.tid \in Nat /\ p.tid <= c,
           NEW e \in Batches, Rising(e, c, d), NEW u, u = Append(q, e)
    PROVE  Ordered(u) /\ InFlight(u) = InFlight(q) \cup PktSet(e)
<1>1. /\ Len(u) = Len(q) + 1 /\ Len(q) \in Nat /\ u[Len(u)] = e
      /\ \A j \in 1 .. Len(q) : u[j] = q[j]
  BY AppendAt
<1>2. \A i \in 1 .. Len(u) : i \in 1 .. Len(q) \/ i = Len(u)
  BY <1>1
<1>3. InFlight(u) = InFlight(q) \cup PktSet(e)
  <2>1. InFlight(u) \subseteq InFlight(q) \cup PktSet(e)
    BY <1>1, <1>2 DEF InFlight
  <2>2. Len(u) \in 1 .. Len(u) /\ \A i \in 1 .. Len(q) : i \in 1 .. Len(u)
    BY <1>1
  <2>3. InFlight(q) \cup PktSet(e) \subseteq InFlight(u)
    BY <1>1, <2>2 DEF InFlight
  <2> QED
    BY <2>1, <2>3
<1>4. \A j \in 1 .. Len(e) : e[j].tid \in Nat /\ c < e[j].tid
  <2>1. e \in Seq(Packets)
    BY DEF Batches
  <2> QED
    BY <2>1, PktTid DEF Rising
<1>5. ASSUME NEW i \in 1 .. Len(u), NEW j \in 1 .. Len(u[i])
      PROVE  /\ u[i][j].kind = "del" => u[i][j].old # 0
             /\ \A x \in 1 .. j - 1 : u[i][x].tid < u[i][j].tid
             /\ \A y \in i + 1 .. Len(u) : \A x \in 1 .. Len(u[y]) :
                   u[i][j].tid < u[y][x].tid
  <2>1. CASE i \in 1 .. Len(q)
    <3>1. u[i] = q[i] /\ q[i][j] \in InFlight(q)
      BY <1>1, <2>1 DEF InFlight, PktSet
    <3>2. /\ q[i][j].kind = "del" => q[i][j].old # 0
          /\ \A x \in 1 .. j - 1 : q[i][x].tid < q[i][j].tid
          /\ \A y \in i + 1 .. Len(q) : \A x \in 1 .. Len(q[y]) : q[i][j].tid < q[y][x].tid
      BY <2>1, <3>1 DEF Ordered
    <3>3. q[i][j].tid \in Nat /\ q[i][j].tid <= c
      BY <3>1
    <3>4. \A x \in 1 .. Len(e) : q[i][j].tid < e[x].tid
      <4>1. PICK n \in Nat : n = q[i][j].tid
        BY <3>3
      <4>2. ASSUME NEW x \in 1 .. Len(e) PROVE n < e[x].tid
        <5>1. PICK z \in Nat : z = e[x].tid
          BY <1>4
        <5>2. n <= c
          BY <3>3, <4>1
        <5>3. c < z
          BY <1>4, <5>1
        <5>4. n < z
          BY <5>2, <5>3
        <5> QED
          BY <5>1, <5>4
      <4> QED
        BY <4>1, <4>2
    <3>5. \A y \in i + 1 .. Len(u) : (y \in i + 1 .. Len(q) /\ u[y] = q[y]) \/ u[y] = e
      BY <1>1, <2>1
    <3> QED
      BY <3>1, <3>2, <3>4, <3>5
  <2>2. CASE i = Len(u)
    <3>1. i + 1 .. Len(u) = {} /\ u[i] = e
      BY <1>1, <2>2
    <3> QED
      BY <3>1 DEF Rising
  <2> QED
    BY <1>2, <2>1, <2>2
<1> QED
  BY <1>3, <1>5 DEF Ordered

-----------------------------------------------------------------------------
(* The commands of the workers. *)

(* doSet after an allocation that failed leaves the key out. *)
LEMMA ReallocFails ==
    ASSUME NEW s, NEW P, NEW n, NEW c, Fits(s, P, n, c), NEW k, NEW v, NEW w,
           NEW off \in s.live, s.key[off] = k,
           NEW u, u = doSetRealloc(s, off, v, 0, w, "master"), find2(u, k) # {}
    PROVE  ~Ready(u)
<1> SUFFICES ASSUME Ready(u) PROVE FALSE
  OBVIOUS
<1> DEFINE m == eraseIteratorHelper(s, off, "master")
<1>1. u = linkTid(m, 0, 0)
  BY DEF doSetRealloc, insert2, insertCopy2
<1>2. Good(s) /\ NoneAhead(s) /\ off \in Offs
  BY DEF Fits, Good, Struct, Slices
<1>3. Continues(s, m)
  BY <1>2, EraseContinues
<1>4. Passes(s, m, P, n, c)
  BY EraseCmd
<1>5. Ready(m) => NoKey(m, k)
  <2> SUFFICES ASSUME Ready(m) PROVE NoKey(m, k)
    OBVIOUS
  <2>1. Ready(s) => HasRef(s, off)
    BY FitsRef
  <2>2. Ready(s)
    BY <1>4 DEF Passes
  <2>3. Sides(s, P, n, c)
    BY <2>2 DEF Fits
  <2> QED
    BY <1>2, <2>1, <2>3, ErasePasses
<1> HIDE DEF m
<1>6. Good(m) /\ Struct(m) /\ NoneAhead(m) /\ m.tid \in Nat /\ InSeq(m, 0)
  BY <1>2, <1>3 DEF Continues, KeepsBehind, Follows, Good, Struct, Slices, InSeq
<1>7. /\ Still(m, u) /\ Struct(u)
  BY <1>1, <1>6, LinkStill
<1>8. m.tid <= u.tid /\ u.live = m.live
  <2>1. u = setTidTblEnt(m, iterOff2tidVal(0), 0)
    BY <1>1 DEF linkTid
  <2>2. iterOff2tidVal(0) \in TidVals
    BY DEF iterOff2tidVal, TidVals
  <2>3. Appends(m, u, iterOff2tidVal(0)) /\ SameElems(m, u)
    BY <1>6, <2>1, <2>2, SetAt
  <2> QED
    BY <2>3 DEF Appends, SameElems
<1>9. Ready(m)
  BY <1>6, <1>7, <1>8, ReadyBack
<1>10. PICK o \in m.live : m.key[o] = k
  BY <1>7, <1>8 DEF find2, Still
<1>11. o \in Offs /\ HasRef(m, o) /\ Aligned(m)
  BY <1>4, <1>6, <1>9 DEF Passes, RefsBut, Ready, Struct, Slices
<1>12. \E p \in Log(m) : IsAdd(p) /\ p.key = m.key[o]
  BY <1>6, <1>11, RefRec, ElemLog
<1> QED
  BY <1>5, <1>9, <1>10, <1>12 DEF NoKey

StoreStep(k, v) ==
    \/ Worker!CmdInsert(k, v) \/ Worker!CmdUpdateInPlace(k, v)
    \/ Worker!CmdUpdateRealloc(k, v) \/ Worker!CmdGrow(k, v)

OtherStep ==
    \/ \E k \in Keys : Worker!CmdErase(k) \/ Worker!CmdTouch(k)
    \/ \E off \in Offs : Worker!TrimRound(off)

(* A command that stores a value. *)
LEMMA StoreAt ==
    ASSUME NEW s, NEW P, NEW c, Good(master), NoneAhead(master), At(master, s, P, c),
           NEW k \in Keys, NEW v \in Vals, StoreStep(k, v), Stored(k)
    PROVE  At(master', s, P, c)
<1>1. Continues(master, master')
  BY CmdContinues DEF StoreStep
<1>2. Fits(master, P, s.tid, c)
  BY AtFits
<1>3. find2(master', k) # {} /\ master'.tid > master.tid /\ master.tid \in Nat
  BY DEF Stored, Good, Struct, Slices
<1>4. \A w \in LinkWords : w \in Nat
  OBVIOUS
<1>5. ASSUME Worker!CmdInsert(k, v)
      PROVE  SamePre(master, master') /\ Passes(master, master', P, s.tid, c)
  <2>1. PICK off \in Free(master) \cup {0}, w \in LinkWords :
          master' = insert2(master, k, v, off, w)
    BY <1>5, SameOps DEF Worker!CmdInsert, Worker!Allocs
  <2>2. find2(master, k) = {}
    BY <1>5, SameOps DEF Worker!CmdInsert
  <2>3. off # 0
    <3> SUFFICES ASSUME off = 0 PROVE FALSE
      OBVIOUS
    <3>1. master' = linkTid(master, 0, 0)
      BY <2>1 DEF insert2, insertCopy2
    <3>2. master' = setTidTblEnt(master, iterOff2tidVal(0), 0)
      BY <3>1 DEF linkTid
    <3>3. iterOff2tidVal(0) \in TidVals /\ InSeq(master, 0) /\ Struct(master)
      BY DEF iterOff2tidVal, TidVals, InSeq, Good
    <3>4. SameElems(master, master')
      BY <3>2, <3>3, SetAt
    <3> QED
      BY <1>3, <2>2, <3>4 DEF SameElems, find2
  <2>4. SamePre(master, master')
    BY <2>1, PreCmds
  <2>5. Passes(master, master', P, s.tid, c)
    BY <1>2, <1>4, <2>1, <2>2, <2>3, InsertCmd
  <2> QED
    BY <2>4, <2>5
<1>6. ASSUME Worker!CmdUpdateInPlace(k, v)
      PROVE  SamePre(master, master') /\ Passes(master, master', P, s.tid, c)
  <2>1. PICK off \in master.live :
          master' = doSetInPlace(master, off, v, "master")
    BY <1>6, SameOps DEF Worker!CmdUpdateInPlace, find2
  <2>2. SamePre(master, master')
    BY <2>1, PreCmds
  <2>3. Passes(master, master', P, s.tid, c)
    BY <1>2, <2>1, InPlaceCmd
  <2> QED
    BY <2>2, <2>3
<1>7. ASSUME Worker!CmdUpdateRealloc(k, v)
      PROVE  SamePre(master, master') /\ Passes(master, master', P, s.tid, c)
  <2>1. PICK off \in master.live, new \in Offs \cup {0}, w \in LinkWords :
          /\ master.key[off] = k /\ (new \in Free(master) \cup {off} \/ new = 0)
          /\ master' = doSetRealloc(master, off, v, new, w, "master")
    <3>1. PICK off \in find2(master, k) :
            \E new \in Free(master) \cup {0} \cup {off}, w \in LinkWords :
              master' = doSetRealloc(master, off, v, new, w, "master")
      BY <1>7, SameOps DEF Worker!CmdUpdateRealloc, Worker!Allocs
    <3>2. off \in master.live /\ master.key[off] = k /\ master.live \subseteq Offs
      BY <3>1 DEF find2, Good, Struct, Slices
    <3> QED
      BY <3>1, <3>2 DEF Free
  <2>2. SamePre(master, master')
    BY <2>1, PreCmds
  <2>3. CASE new = 0
    <3>1. ~Ready(master')
      BY <1>2, <1>3, <2>1, <2>3, ReallocFails
    <3> QED
      BY <2>2, <3>1 DEF Passes
  <2>4. CASE new # 0
    <3>1. Passes(master, master', P, s.tid, c)
      BY <1>2, <1>4, <2>1, <2>4, ReallocCmd
    <3> QED
      BY <2>2, <3>1
  <2> QED
    BY <2>3, <2>4
<1>8. ASSUME Worker!CmdGrow(k, v)
      PROVE  SamePre(master, master') /\ Passes(master, master', P, s.tid, c)
  <2>1. PICK off \in master.live, new \in Free(master) \cup {0}, w \in LinkWords :
          master' = iterGrowValue(master, off, v, new, w, "master")
    BY <1>8, SameOps DEF Worker!CmdGrow, find2, Worker!Allocs
  <2>2. new # 0
    BY <1>3, <2>1 DEF iterGrowValue
  <2>3. SamePre(master, master')
    BY <2>1, PreCmds
  <2>4. Passes(master, master', P, s.tid, c)
    BY <1>2, <1>4, <2>1, <2>2, GrowCmd
  <2> QED
    BY <2>3, <2>4
<1>9. SamePre(master, master') /\ Passes(master, master', P, s.tid, c)
  BY <1>5, <1>6, <1>7, <1>8 DEF StoreStep
<1> QED
  BY <1>1, <1>9, AtCmd

(* Every other command but flush_all. *)
LEMMA OtherAt ==
    ASSUME NEW s, NEW P, NEW c, Good(master), NoneAhead(master), At(master, s, P, c),
           OtherStep
    PROVE  At(master', s, P, c)
<1>1. Continues(master, master')
  BY CmdContinues DEF OtherStep
<1>2. Fits(master, P, s.tid, c)
  BY AtFits
<1>3. ASSUME NEW k \in Keys, Worker!CmdErase(k)
      PROVE  SamePre(master, master') /\ Passes(master, master', P, s.tid, c)
  <2>1. PICK off \in master.live :
          master' = eraseIteratorHelper(master, off, "master")
    BY <1>3, SameOps DEF Worker!CmdErase, find2
  <2>2. SamePre(master, master')
    BY <2>1, PreCmds
  <2>3. Passes(master, master', P, s.tid, c)
    BY <1>2, <2>1, EraseCmd
  <2> QED
    BY <2>2, <2>3
<1>4. ASSUME NEW k \in Keys, Worker!CmdTouch(k)
      PROVE  SamePre(master, master') /\ Passes(master, master', P, s.tid, c)
  <2>1. PICK off \in master.live : master' = tidReplaceTid(master, off, "master")
    BY <1>4, SameOps DEF Worker!CmdTouch, find2
  <2>2. SamePre(master, master')
    BY <2>1, PreCmds
  <2>3. Passes(master, master', P, s.tid, c)
    BY <1>2, <2>1, TouchCmd
  <2> QED
    BY <2>2, <2>3
<1>5. ASSUME NEW off \in Offs, Worker!TrimRound(off)
      PROVE  SamePre(master, master') /\ Passes(master, master', P, s.tid, c)
  <2>1. /\ off \in master.live
        /\ master' = eraseIteratorHelper(checkTidTbl(master), off, "master")
    BY <1>5, SameOps DEF Worker!TrimRound
  <2>2. SamePre(master, master')
    BY <2>1, PreCmds
  <2>3. Passes(master, master', P, s.tid, c)
    BY <1>2, <2>1, TrimCmd
  <2> QED
    BY <2>2, <2>3
<1>6. SamePre(master, master') /\ Passes(master, master', P, s.tid, c)
  BY <1>3, <1>4, <1>5 DEF OtherStep
<1> QED
  BY <1>1, <1>6, AtCmd

-----------------------------------------------------------------------------
(* The state of both nodes. *)

(* The tid up to which the master's repld has sent. *)
Cursor == IF bcast.caller = "notify" THEN bcast.tid ELSE tracker

(* Without faults nothing is sent but broadcasts, once the first full sync is
   over. *)
Quiet ==
    /\ didFsync = TRUE /\ linkUp = TRUE /\ pings = << >> /\ fsync = << >>
    /\ tracker # NoTracker /\ bcast.caller # "ping"

Steady ==
    Quiet /\ Ordered(updates) /\ At(master, slave, InFlight(updates), Cursor)

(* The two nodes without faults, with the first full sync over. *)
Smooth ==
    Joined = "yes" /\ Faults = {} /\ ReplRole = "slave" /\ Roomy

(* The nodes start without elements and with nothing in flight. *)
LEMMA InitSteady ==
    ASSUME Smooth, Init
    PROVE  Steady
<1>1. /\ Base /\ slave = master /\ master.blks = << >> /\ updates = << >> /\ fsync = << >>
  BY InitBase
<1>2. /\ Good(master) /\ NoneAhead(master) /\ Struct(master) /\ Len(master.blks) = 0
      /\ 0 \in Nat
  BY <1>1 DEF Base, SlicesOk, Good
<1>3. /\ master.live = {} /\ master.tid = 0 /\ master.preClear = 0
      /\ tracker = 0 /\ bcast = Idle /\ pings = << >> /\ linkUp = TRUE
  BY DEF Init, InitSlice
<1>4. didFsync = TRUE
  <2>1. didFsync = (Joined = "yes")
    BY DEF Init
  <2> QED
    BY <2>1, Zenon DEF Smooth
<1>5. Quiet
  BY <1>1, <1>3, <1>4, NoTrackerAssumption DEF Quiet, Idle
<1>6. InFlight(updates) = {} /\ Ordered(updates) /\ Cursor = 0
  BY <1>1, <1>3 DEF InFlight, Ordered, Cursor, Idle
<1>7. Log(master) = {}
  <2>1. \A t, x : ~Rec(master, t, x)
    BY <1>2 DEF Rec, Recorded
  <2> QED
    BY <2>1 DEF Log
<1>8. Sound(slave)
  BY <1>1, <1>2, <1>3 DEF Sound, Spaced, UniqueKeys
<1>9. RefsBut(master, {})
  BY <1>3 DEF RefsBut
<1>10. MasterSide({}, 0, 0, {}, 0, 0)
  BY DEF MasterSide, Tids, Ranges, SentAll, Useful, Harmless, Recent
<1>11. \A R \in SlaveLogs(slave) : SlaveSide({}, {}, 0, R)
  <2>1. \A R \in SlaveLogs(slave) : R = {}
    BY <1>1, <1>7 DEF SlaveLogs
  <2> QED
    BY <2>1 DEF SlaveSide
<1>12. AtMaster(master, {}, 0, 0, SlaveLogs(slave))
  BY <1>3, <1>7, <1>9, <1>10, <1>11 DEF AtMaster, Sides
<1>13. At(master, slave, {}, 0)
  BY <1>1, <1>3, <1>8, <1>9, <1>12 DEF At
<1> QED
  BY <1>5, <1>6, <1>13 DEF Steady

(* A command on the master leaves the rest. *)
LEMMA CmdSteady ==
    ASSUME Base, Steady, WorkerUnchanged,
           At(master', slave, InFlight(updates), Cursor)
    PROVE  Steady'
<1>1. UNCHANGED << slave, tracker, bcast, linkUp, updates, fsync, pings, didFsync >>
  BY DEF WorkerUnchanged
<1>2. Quiet' /\ Ordered(updates') /\ Cursor' = Cursor /\ InFlight(updates') = InFlight(updates)
  BY <1>1 DEF Steady, Quiet, Cursor
<1>3. At(master', slave', InFlight(updates'), Cursor')
  BY <1>1, <1>2
<1> QED
  BY <1>2, <1>3 DEF Steady

(* A command at the master, or the loss of an expired element. *)
LEMMA WorkerSteady ==
    ASSUME Smooth, Base, Steady,
           (\E w \in Workers : StoreCmd(w) \/ OtherCmd(w)) \/ SilentErase
    PROVE  Steady'
<1>1. /\ Good(master) /\ NoneAhead(master) /\ updates \in Seq(Batches) /\ Ordered(updates)
      /\ At(master, slave, InFlight(updates), Cursor)
  BY DEF Base, SlicesOk, TypeRest, Steady
<1> DEFINE P == InFlight(updates)
<1>2. ASSUME NEW w \in Workers, StoreCmd(w) PROVE Steady'
  <2>1. PICK k \in Keys : /\ \E v \in Vals : StoreStep(k, v)
                          /\ \/ Stored(k)
                             \/ "master_full" \in Faults
    BY <1>2 DEF StoreCmd, StoreStep
  <2>2. Stored(k)
    BY <2>1 DEF Smooth
  <2>3. At(master', slave, P, Cursor)
    <3> HIDE DEF P
    <3> DEFINE c == Cursor
    <3> HIDE DEF c
    <3>1. At(master, slave, P, c)
      BY <1>1 DEF P, c
    <3>2. At(master', slave, P, c)
      BY <1>1, <2>1, <2>2, <3>1, StoreAt
    <3> QED
      BY <3>2 DEF c
  <2> QED
    BY <1>2, <2>3, CmdSteady DEF StoreCmd
<1>3. ASSUME OtherStep, WorkerUnchanged PROVE Steady'
  <2>1. At(master', slave, P, Cursor)
    <3> HIDE DEF P
    <3> DEFINE c == Cursor
    <3> HIDE DEF c
    <3>1. At(master, slave, P, c)
      BY <1>1 DEF P, c
    <3>2. At(master', slave, P, c)
      BY <1>1, <1>3, <3>1, OtherAt
    <3> QED
      BY <3>2 DEF c
  <2> QED
    BY <1>3, <2>1, CmdSteady
<1>4. ASSUME Worker!CmdFlush, WorkerUnchanged PROVE Steady'
  <2>1. master' = clear(master, "master") /\ Continues(master, master')
    BY <1>1, <1>4, SameOps, CmdContinues DEF Worker!CmdFlush
  <2>2. \A p, q \in P : p.tid = q.tid => p = q
    BY <1>1, OrderedOnce
  <2>3. At(master', slave, P, Cursor)
    <3> HIDE DEF P
    <3> DEFINE c == Cursor
    <3> HIDE DEF c
    <3>1. At(master, slave, P, c)
      BY <1>1 DEF P, c
    <3>2. At(master', slave, P, c)
      BY <1>1, <2>1, <2>2, <3>1, AtClear
    <3> QED
      BY <3>2 DEF c
  <2> QED
    BY <1>4, <2>3, CmdSteady
<1>5. ASSUME NEW w \in Workers, OtherCmd(w) PROVE Steady'
  BY <1>3, <1>4, <1>5 DEF OtherCmd, OtherStep
<1>6. ASSUME SilentErase PROVE Steady'
  BY <1>3, <1>6 DEF SilentErase, OtherStep
<1> QED
  BY <1>2, <1>5, <1>6

(* A batch of bcastNewTidData. *)
LEMMA SendSteady ==
    ASSUME Base, Steady, NEW expired \in SUBSET master.live, bcastBatch(expired)
    PROVE  Steady'
<1>1. /\ Good(master) /\ NoneAhead(master) /\ updates \in Seq(Batches) /\ Ordered(updates)
      /\ At(master, slave, InFlight(updates), Cursor) /\ Quiet
      /\ bcast \in [caller : {"none", "notify", "ping"}, tid : Nat, loop : 0 .. MaxLoop]
  BY DEF Base, SlicesOk, TypeRest, Steady
<1>2. bcast.caller = "notify" /\ Cursor = bcast.tid /\ bcast.tid \in Nat
  <2>1. bcast.caller # "none"
    BY DEF bcastBatch
  <2> QED
    BY <1>1, <2>1 DEF Quiet, Cursor
<1> DEFINE r == tidGetNxtItems(master, bcast.tid, expired)
           c == bcast.tid
           P == InFlight(updates)
<1>3. /\ Continues(master, r.s) /\ r.pkts \in Seq(Packets) /\ r.last \in Nat
      /\ Len(r.pkts) <= BatchMax
  BY <1>1, <1>2, BatchSent
<1>4. /\ master' = r.s /\ fsync' = fsync /\ bcast'.caller = "notify" /\ bcast'.tid = r.last
      /\ updates' = updates \o (IF r.pkts # << >> THEN << r.pkts >> ELSE << >>)
      /\ UNCHANGED << slave, tracker, linkUp, pings, didFsync >>
  BY <1>1, <1>2 DEF bcastBatch, Quiet
<1>5. r = tidGetNxtItems(master, c, expired) /\ At(master, slave, P, c) /\ c \in Nat
  BY <1>1, <1>2
<1> HIDE DEF r, c, P
<1>6. /\ At(r.s, slave, P \cup PktSet(r.pkts), r.last) /\ Rising(r.pkts, c, r.last)
  BY <1>1, <1>3, <1>5, AtBatch
<1>7. Quiet' /\ Cursor' = r.last
  BY <1>1, <1>4 DEF Quiet, Cursor
<1>8. Ordered(updates') /\ InFlight(updates') = P \cup PktSet(r.pkts)
  <2>1. CASE r.pkts = << >>
    <3>1. updates' = updates /\ PktSet(r.pkts) = {}
      BY <1>1, <1>4, <2>1 DEF PktSet
    <3> QED
      BY <1>1, <3>1 DEF P
  <2>2. CASE r.pkts # << >>
    <3>1. r.pkts \in Batches
      BY <1>3, <2>2, MessageIsBatch
    <3>2. updates' = Append(updates, r.pkts)
      BY <1>1, <1>4, <2>2, <3>1, ConcatOne
    <3>3. \A p \in P : p.tid \in Nat /\ p.tid <= c
      BY <1>5, PktTid DEF At
    <3>4. PICK e \in Batches, d \in Nat : e = r.pkts /\ d = r.last
      BY <1>3, <3>1
    <3>5. Rising(e, c, d) /\ updates' = Append(updates, e)
      BY <1>6, <3>2, <3>4
    <3>6. Ordered(updates') /\ InFlight(updates') = InFlight(updates) \cup PktSet(e)
      BY <1>1, <1>5, <3>3, <3>5, OrderedAppend DEF P
    <3> QED
      BY <3>4, <3>6 DEF P
  <2> QED
    BY <2>1, <2>2
<1>9. At(master', slave', InFlight(updates'), Cursor')
  BY <1>4, <1>6, <1>7, <1>8
<1> QED
  BY <1>7, <1>8, <1>9 DEF Steady

(* A batch that the slave applies. *)
LEMMA TakeSteady ==
    ASSUME Smooth, Base, Steady, handleUpdate
    PROVE  Steady'
<1>1. /\ updates \in Seq(Batches) /\ Ordered(updates) /\ Quiet
      /\ At(master, slave, InFlight(updates), Cursor)
  BY DEF Base, TypeRest, Steady
<1>2. /\ updates # << >> /\ Apply(Head(updates)) /\ updates' = Tail(updates)
      /\ UNCHANGED << master, tracker, bcast, linkUp, fsync, pings, didFsync >>
  BY DEF handleUpdate
<1> DEFINE h == Head(updates)
           W == InFlight(Tail(updates))
           c == Cursor
<1>3. Tids(InFlight(updates))
  BY <1>1, PktTid DEF At, Tids
<1>4. /\ InFlight(updates) = PktSet(h) \cup W
      /\ Ordered(Tail(updates)) /\ BatchFirst(h, W)
  BY <1>1, <1>2, <1>3, OrderedTail
<1>5. h \in Seq(Packets)
  BY <1>1, <1>2, HeadOf DEF Batches
<1>6. PICK how : /\ how \in [1 .. Len(h) -> Stores \ {"full"}]
                 /\ slave' = tidSetItems(slave, h, how, "slave")
  BY <1>2 DEF Apply, Smooth
<1>7. At(master, slave, PktSet(h) \cup W, c)
  BY <1>1, <1>4
<1> HIDE DEF h, W, c
<1>8. \A i \in 1 .. Len(h) : how[i] # "full"
  BY <1>6
<1>9. At(master, slave', W, c)
  <2>1. Roomy /\ "slave" # "master"
    BY DEF Smooth
  <2> QED
    BY <1>4, <1>5, <1>6, <1>7, <1>8, <2>1, BatchTaken
<1>10. Quiet' /\ Cursor' = Cursor
  BY <1>1, <1>2 DEF Quiet, Cursor
<1> QED
  BY <1>2, <1>4, <1>9, <1>10 DEF Steady, W, c

(* Each step of the two nodes keeps them steady. *)
LEMMA SteadyStep ==
    ASSUME Smooth, Base, Steady, [Next]_vars
    PROVE  Steady'
<1>1. /\ Quiet /\ Ordered(updates) /\ At(master, slave, InFlight(updates), Cursor)
      /\ Faults = {}
      /\ bcast \in [caller : {"none", "notify", "ping"}, tid : Nat, loop : 0 .. MaxLoop]
  BY DEF Steady, Smooth, Base, TypeRest
<1>2. ASSUME UNCHANGED << master, slave, updates >>, Quiet', Cursor' = Cursor PROVE Steady'
  BY <1>1, <1>2 DEF Steady
<1>3. ASSUME UNCHANGED << master, slave, tracker, bcast, linkUp, updates, fsync, pings,
                          didFsync >>
      PROVE  Steady'
  BY <1>1, <1>2, <1>3 DEF Quiet, Cursor
<1>4. ASSUME (\E w \in Workers : StoreCmd(w) \/ OtherCmd(w)) \/ SilentErase PROVE Steady'
  BY <1>4, WorkerSteady
<1>5. ASSUME NEW w \in Workers, recvConnChange(w) PROVE Steady'
  BY <1>3, <1>5 DEF recvConnChange
<1>6. ASSUME NEW w \in Workers, recvCachedNotify(w) PROVE Steady'
  <2>1. /\ UNCHANGED << master, slave, tracker, linkUp, updates, fsync, pings, didFsync >>
        /\ bcast = Idle /\ bcast' = [caller |-> "notify", tid |-> tracker, loop |-> 0]
    BY <1>1, <1>6 DEF recvCachedNotify, Quiet
  <2>2. bcast'.caller = "notify" /\ bcast'.tid = tracker /\ bcast.caller = "none"
    BY <2>1 DEF Idle
  <2>3. Quiet' /\ Cursor' = Cursor
    BY <1>1, <2>1, <2>2 DEF Quiet, Cursor
  <2> QED
    BY <1>2, <2>1, <2>3
<1>7. ASSUME bcastReturn PROVE Steady'
  <2>1. /\ UNCHANGED << master, slave, linkUp, updates, pings, didFsync >>
        /\ bcast.caller = "notify" /\ bcast' = Idle /\ tracker' = bcast.tid
        /\ fsync' = fsync
    BY <1>1, <1>7 DEF bcastReturn, Quiet
  <2>2. bcast'.caller = "none" /\ bcast.tid \in Nat
    BY <1>1, <2>1 DEF Idle
  <2>3. Quiet' /\ Cursor' = Cursor
    BY <1>1, <2>1, <2>2, NoTrackerAssumption DEF Quiet, Cursor
  <2> QED
    BY <1>2, <2>1, <2>3
<1>8. ASSUME NEW expired \in SUBSET master.live, bcastBatch(expired) PROVE Steady'
  BY <1>8, SendSteady
<1>9. ASSUME handleUpdate PROVE Steady'
  BY <1>9, TakeSteady
<1>10. ~(\E w \in Workers : UsockSvrRecycle(w)) /\ ~Disconnect
  BY <1>1 DEF UsockSvrRecycle, Disconnect
<1>11. ~svrHandleClientPingStatus /\ ~sockClientPingSvrStatus /\ ~handleFsync
       /\ ~Reconnect /\ ~UsockAccept
  BY <1>1 DEF Quiet, svrHandleClientPingStatus, sockClientPingSvrStatus, handleFsync,
              Reconnect, UsockAccept
<1>12. ASSUME UNCHANGED vars PROVE Steady'
  BY <1>3, <1>12 DEF vars
<1> QED
  BY <1>4, <1>5, <1>6, <1>7, <1>8, <1>9, <1>10, <1>11, <1>12 DEF Next

-----------------------------------------------------------------------------
(* The contents of a slice are the elements of its log. *)
LEMMA ContentsLog ==
    ASSUME NEW s, Good(s), Aligned(s), RefsBut(s, {}), NEW x
    PROVE  x \in Contents(s) <=>
               \E p \in Log(s) : IsAdd(p) /\ x = << p.key, p.val, p.tid >>
<1>1. Struct(s) /\ s.live \subseteq Offs
  BY DEF Good, Struct, Slices
<1>2. ASSUME x \in Contents(s)
      PROVE  \E p \in Log(s) : IsAdd(p) /\ x = << p.key, p.val, p.tid >>
  <2>1. PICK o \in s.live : x = << s.key[o], s.val[o], s.link[o] >>
    BY <1>2 DEF Contents
  <2>2. HasRef(s, o) /\ o \in Offs
    BY <1>1 DEF RefsBut
  <2>3. Rec(s, s.link[o], iterOff2tidVal(o))
    BY <2>2, RefRec
  <2>4. PICK p \in Log(s) : /\ IsAdd(p) /\ p.tid = s.link[o]
                            /\ p.key = s.key[o] /\ p.val = s.val[o]
    BY <1>1, <2>2, <2>3, ElemLog
  <2> QED
    BY <2>1, <2>4
<1>3. ASSUME NEW p \in Log(s), IsAdd(p), x = << p.key, p.val, p.tid >>
      PROVE  x \in Contents(s)
  <2>1. PICK o \in s.live : s.key[o] = p.key /\ s.val[o] = p.val /\ s.link[o] = p.tid
    BY <1>3, LogElem
  <2> QED
    BY <1>3, <2>1 DEF Contents
<1> QED
  BY <1>2, <1>3

(* When nothing is left to send, no element is doomed, and the logs of both
   nodes have the same elements. *)
LEMMA SidesEqual ==
    ASSUME NEW L, NEW P, NEW n \in Nat, NEW R, SlaveSide(L, P, n, R),
           \A p \in L : p.tid \in Nat /\ p.tid <= n, P = {}
    PROVE  \A p : IsAdd(p) => (p \in L <=> p \in R)
<1>1. \A p : ~Doomed(L, P, n, p)
  BY DEF Doomed
<1> QED
  BY <1>1 DEF SlaveSide

(* The index of the master's table has room for one more transaction. *)
RoomLeft == Room(master)

(* A slave that has got every packet has what the master has. *)
LEMMA SteadyInSync ==
    ASSUME Base, Steady, RoomLeft
    PROVE  InSyncIfAligned
<1> SUFFICES ASSUME Aligned(master), Aligned(slave), slave.tid = master.tid
             PROVE  Contents(slave) = Contents(master)
  BY DEF InSyncIfAligned, InSync
<1> DEFINE P == InFlight(updates)
           c == Cursor
<1>1. At(master, slave, P, c)
  BY DEF Steady
<1> HIDE DEF P, c
<1>2. /\ Good(master) /\ NoneAhead(master) /\ Good(slave) /\ Room(master)
      /\ Struct(master) /\ slave.tid \in Nat
  BY DEF Base, SlicesOk, RoomLeft, Good, Struct, Slices
<1>3. Ready(master)
  BY <1>2 DEF Ready, Room
<1>4. /\ RefsBut(slave, {}) /\ c \in Nat /\ c <= master.tid
      /\ \A p \in P : p \in Packets /\ slave.tid < p.tid /\ p.tid <= c
      /\ AtMaster(master, P, slave.tid, c, SlaveLogs(slave))
  BY <1>1, <1>2 DEF At
<1>5. Log(slave) \in SlaveLogs(slave)
  BY DEF SlaveLogs
<1>6. RefsBut(master, {}) /\ SlaveSide(Log(master), P, slave.tid, Log(slave))
  BY <1>3, <1>4, <1>5 DEF AtMaster
<1>7. P = {}
  <2>1. ASSUME NEW p \in P PROVE FALSE
    <3>1. p \in Packets /\ slave.tid < p.tid /\ p.tid <= c
      BY <1>4
    <3>2. p.tid \in Nat
      BY <3>1 DEF Packets, AddPkts, DelPkts
    <3> QED
      BY <1>2, <1>4, <3>1, <3>2
  <2> QED
    BY <2>1
<1>8. \A p \in Log(master) : p.tid \in Nat /\ p.tid <= slave.tid
  BY <1>2, LogTids
<1>9. \A p : IsAdd(p) => (p \in Log(master) <=> p \in Log(slave))
  BY <1>2, <1>6, <1>7, <1>8, SidesEqual
<1>10. ASSUME NEW x PROVE x \in Contents(slave) <=> x \in Contents(master)
  <2>1. x \in Contents(slave) <=>
            \E p \in Log(slave) : IsAdd(p) /\ x = << p.key, p.val, p.tid >>
    BY <1>2, <1>4, ContentsLog
  <2>2. x \in Contents(master) <=>
            \E p \in Log(master) : IsAdd(p) /\ x = << p.key, p.val, p.tid >>
    BY <1>2, <1>6, ContentsLog
  <2> QED
    BY <1>9, <2>1, <2>2
<1> QED
  BY <1>10

(* isAllClientSync: a slave that reports the tid of the master has the data of
   the master, under the same tids, as long as both block indices are aligned and
   the table of the master is not full.  The two nodes have done their first full
   sync and nothing fails between them, the pool of the slave has an element for
   every key, and no key is the beginning of another: a broadcast then replays
   every store, deletion and flush of the master, whatever the commands and
   however the broadcasts are batched and delayed. *)
THEOREM SlaveInSync ==
    ASSUME Joined = "yes", Faults = {}, ReplRole = "slave", KeyPrefixes = {},
           IsFiniteSet(Keys), Cardinality(Keys) <= Cardinality(Offs)
    PROVE  Spec => [](RoomLeft => InSyncIfAligned)
<1>1. Smooth
  BY Zenon DEF Smooth, Roomy
<1>2. Init => Steady
  BY <1>1, InitSteady
<1>3. Base /\ Steady /\ [Next]_vars => Steady'
  BY <1>1, SteadyStep
<1>4. Base /\ Steady => (RoomLeft => InSyncIfAligned)
  BY SteadyInSync
<1> QED
  BY <1>2, <1>3, <1>4, BaseHolds, PTL DEF Spec

=============================================================================
