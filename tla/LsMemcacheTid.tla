--------------------------- MODULE LsMemcacheTid ---------------------------
(***************************************************************************)
(* How a slice is turned into replication packets on its master and how    *)
(* the packets are applied to a slave's copy: LsMemcache::tidGetNxtItems   *)
(* and tidSetItems (src/memcache/lsmemcache.cpp) with the functions of     *)
(* LsShmTidMgr that only they use.  Both run under one hold of the slice   *)
(* lock, so each is one operator on the slice record of LsShmTidMgr.       *)
(***************************************************************************)
EXTENDS LsShmTidMgr

CONSTANTS
    BatchMax,   \* packets that fit in the buffer of 64000 bytes
    KeyPrefixes    \* <<a, b>>: the bytes of key a are a prefix of key b's packet

ASSUME BatchMaxAssumption == BatchMax \in Nat \ {0}
ASSUME KeyPrefixesAssumption == KeyPrefixes \subseteq Keys \X Keys

-----------------------------------------------------------------------------
(* Packets (LsMcTidPkt). *)

AddPkts == [kind : {"add"}, tid : Nat, key : Keys, val : Vals]
DelPkts == [kind : {"del", "flush"}, tid : Nat, old : Nat]
Packets == AddPkts \cup DelPkts

iter2tidPack(s, off, t) ==
    [kind |-> "add", tid |-> t, key |-> s.key[off], val |-> s.val[off]]

del2tidPack(v, t) == [kind |-> v.kind, tid |-> t, old |-> v.arg]

-----------------------------------------------------------------------------
(* The sending side. *)

(* The used entries after tid t that nxtTidTblVal walks to from block blk; with
   blk = 0 the walk starts at the block that the index gives for t, and finds
   nothing when it gives none. *)
Ahead(s, t, blk) ==
    LET from == IF blk = 0 THEN tid2tblBlk(s, t) ELSE blk
    IN  {p \in (1 .. Len(s.blks)) \X (0 .. BlkSz - 1) :
            /\ from # 0 /\ p[1] >= from
            /\ EntryTid(s, p[1], p[2]) > t
            /\ EntryAt(s, p[1], p[2]) # NoVal}

nxtTidTblVal(s, t, blk) ==
    CHOOSE p \in Ahead(s, t, blk) : \A q \in Ahead(s, t, blk) :
        EntryTid(s, p[1], p[2]) <= EntryTid(s, q[1], q[2])

(* The next packet does not fit in the buffer any more. *)
Fills(pkts) == Len(pkts) >= BatchMax

(* One turn of the loop of getNxtTidItem.  st.cur is its local tid, st.last the
   caller's *pTidLast, st.stop why the loop of tidGetNxtItems has ended:
   "end" (0), "full" (- size) or "null" (-1: the entry has no element).
   expired is the set of offsets whose element has expired by now. *)
getNxtTidItem(st, expired) ==
    LET pos == nxtTidTblVal(st.s, st.cur, st.blk)
        tid == EntryTid(st.s, pos[1], pos[2])
        v   == EntryAt(st.s, pos[1], pos[2])
        pkt == IF isTidValIterOff(v) THEN iter2tidPack(st.s, v.arg, tid)
               ELSE del2tidPack(v, tid)
    IN  CASE st.stop # "no" -> st
          [] st.stop = "no" /\ Ahead(st.s, st.cur, st.blk) = {} ->
                [st EXCEPT !.stop = "end"]
          [] OTHER ->
             CASE isTidValIterOff(v) /\ v.arg = 0 -> [st EXCEPT !.stop = "null"]
               [] isTidValIterOff(v) /\ v.arg # 0 /\ v.arg \in expired ->
                    [st EXCEPT !.s = eraseIteratorHelper(@, v.arg, "master"),
                               !.cur = tid, !.blk = 0]
               [] OTHER ->
                    IF Fills(st.pkts) THEN [st EXCEPT !.stop = "full"]
                    ELSE [st EXCEPT !.pkts = Append(@, pkt), !.blk = pos[1],
                                    !.cur = tid, !.last = tid]

(* The whole of tidGetNxtItems: the slice afterwards, the packets, the tid they
   reach and the reason to stop.  Every turn but the last moves st.cur ahead,
   and an expired element adds one tid, so the turns below are enough. *)
tidGetNxtItems(s, t, expired) ==
    LET turns == s.tid + Cardinality(Offs) + 1
        turn[n \in 0 .. turns] ==
            IF n = 0 THEN [s |-> s, cur |-> t, last |-> t, blk |-> 0,
                           pkts |-> << >>, stop |-> "no"]
            ELSE getNxtTidItem(turn[n - 1], expired)
        st == turn[turns]
    IN  [s |-> st.s, pkts |-> st.pkts, stop |-> st.stop,
         last |-> IF st.stop = "end" THEN st.s.tid ELSE st.last]

-----------------------------------------------------------------------------
(* The receiving side.  role is what the process that applies the packets has
   set for the slice. *)

(* How LsShmTidMgr::doSet stores a value: "inplace" when it is shorter than the
   one that is there, in a new element otherwise ("alloc"), which fails when the
   pool has no memory ("full"). *)
Stores == {"inplace", "alloc", "full"}

setIter(s, p, how, role) ==
    LET old == find2(s, p.key)
        o   == CHOOSE x \in old : TRUE
        s1  == IF old = {} THEN s ELSE eraseIteratorHelper(s, o, role)
        new == CHOOSE x \in Free(s1) : TRUE
    IN  CASE old # {} /\ how = "inplace" ->
               [ok |-> TRUE,
                s  |-> linkTid(unlinkTid([s EXCEPT !.val[o] = p.val],
                                         s.link[o], role), o, p.tid)]
          [] ~(old # {} /\ how = "inplace") /\ (how = "full" \/ Free(s1) = {}) ->
               [ok |-> FALSE, s |-> s1]
          [] OTHER ->
               [ok |-> TRUE,
                s  |-> linkTid(insertCopy2(s1, p.key, p.val, new, s1.link[new]),
                               new, p.tid)]

(* Wrong variant: any store that follows makes the deletion superfluous. *)
ReplacedByAnyAdd(s, off, next) == next # << >> /\ Head(next).kind = "add"

(* The deletion is skipped when the next packet in the buffer stores the same
   key, as far as a memcmp over the length of the element's key can tell. *)
ReplacedByNext(s, off, next) ==
    /\ next # << >>
    /\ Head(next).kind = "add"
    /\ \/ Head(next).key = s.key[off]
       \/ << s.key[off], Head(next).key >> \in KeyPrefixes

delTidItem(s, p, next, role) ==
    LET off == tid2iterOff(s, p.old)
        s1  == CASE p.kind = "flush" -> clear(s, role)
                 [] p.kind = "del" /\ off # 0 /\ ~ReplacedByNext(s, off, next) ->
                        eraseIteratorHelper(s, off, role)
                 [] OTHER -> s
        v   == IF p.kind = "flush" THEN TIDDEL_FLUSHALL ELSE tidDelVal(p.old)
    IN  [ok |-> setTidTblEntOk(s1, p.tid), s |-> setTidTblEnt(s1, v, p.tid)]

(* The loop of tidSetItems: the first packet that is out of sequence or that
   fails ends it, and the rest of the buffer is dropped.  how[i] is how the i-th
   packet would be stored. *)
SetPacket(st, pkts, i, how, role) ==
    LET p == pkts[i]
    IN  CASE ~(st.ok /\ p.tid > st.s.tid) -> [st EXCEPT !.ok = FALSE]
          [] st.ok /\ p.tid > st.s.tid /\ p.kind = "add" ->
                setIter(st.s, p, how[i], role)
          [] OTHER ->
                delTidItem(st.s, p, SubSeq(pkts, i + 1, Len(pkts)), role)

tidSetItems(s, pkts, how, role) ==
    LET turn[n \in 0 .. Len(pkts)] ==
            IF n = 0 THEN [ok |-> TRUE, s |-> s]
            ELSE SetPacket(turn[n - 1], pkts, n, how, role)
    IN  turn[Len(pkts)].s

=============================================================================
