----------------------------- MODULE ReplAudit -----------------------------
(***************************************************************************)
(* Bulk replication of LRU hashes.  Two nodes compare, window by window,   *)
(* the digests of the one-second slots of their hashes; the slots that     *)
(* differ are read from the hash and sent, a buffer at a time, while other *)
(* processes go on changing it.  A full replication walks all the slots.   *)
(* The sending node is modelled; the peer's hashes do not change.          *)
(***************************************************************************)
EXTENDS Integers, Sequences, SequencesExt, FiniteSetsExt

CONSTANTS
    Conts,           \* container ids
    AuditKeys,       \* keys of a hash
    FreqTm,          \* m_freqTm, length of an audited window
    FReplInt,        \* FREPLINT, length of a window of a full replication
    AuditRoom,       \* FULLREPLBUFSZ, in entries
    MaxTm,           \* bound of the model: the clock
    MaxTouch         \* bound of the model: changes of the hashes

VARIABLES
    lru,        \* LRU list of each container, oldest first
    peerLru,    \* the same at the peer
    clock,      \* time(NULL)
    auditor,    \* IncReplAuditor or FullReplAuditor, and its BulkReplCtx
    track,      \* ReplProgressTrker::m_cont2TmSlotMap, << >> for no entry
    bulk        \* the entries sent
auditVars == <<lru, peerLru, clock, auditor, track, bulk>>

Entry(k, t) == [key |-> k, tm |-> t]
Sorted(l) == \A i, j \in DOMAIN l : i < j => l[i].tm <= l[j].tm /\ l[i].key # l[j].key
StartLists == {l \in BoundedSeq({Entry(k, t) : k \in AuditKeys, t \in {1, 3}}, 2) : Sorted(l)}
FewLists == {l \in StartLists : Len(l) = 1}

NoSlots == [c \in Conts |-> << >>]

(* The times of the containers' oldest and newest entries. *)
getContsLruMinMaxTm(ls) ==
    LET heads == {ls[c][1].tm : c \in {c \in Conts : ls[c] # << >>}}
        tails == {Last(ls[c]).tm : c \in {c \in Conts : ls[c] # << >>}}
    IN  [min |-> IF heads = {} THEN clock ELSE Min(heads), max |-> IF tails = {} THEN clock ELSE Max(tails)]

(* setPeerMMTm: a full replication asks for what this node said it has; the *)
(* first audit starts at 1.                                                 *)
NewAuditor(mode) ==
    LET mm == getContsLruMinMaxTm(lru)
    IN  [mode |-> mode, st |-> "idle", cutoff |-> 1, low |-> mm.min, up |-> 0, max |-> mm.max,
         touched |-> 0, digest |-> NoSlots]

InitAudit ==
    /\ \E c \in Conts : /\ lru \in {f \in [Conts -> StartLists] : \A d \in Conts \ {c} : f[d] \in FewLists}
                        /\ peerLru \in {f \in [Conts -> StartLists] : \A d \in Conts \ {c} : f[d] = << >>}
    /\ clock = 4 /\ auditor \in {NewAuditor("inc"), NewAuditor("full")}
    /\ track = NoSlots /\ bulk = {}

-----------------------------------------------------------------------------
(* The hash, read by slot. *)

(* The times of the entries after tm, nextTmLruIterOff. *)
Later(l, tm) == {l[i].tm : i \in {i \in DOMAIN l : l[i].tm > tm}}

(* The next slot after tm: its time and its entries. *)
for_each_tmslot(l, tm, endTm) ==
    LET next == Min(Later(l, tm))
    IN  CASE Later(l, tm) = {} -> [tm |-> IF clock > endTm THEN clock + 1 ELSE endTm + 1, es |-> << >>]
          [] Later(l, tm) # {} /\ next > endTm -> [tm |-> next, es |-> << >>]
          [] OTHER -> [tm |-> next, es |-> SelectSeq(l, LAMBDA e : e.tm = next)]

(* The digest of a slot is over its keys, in order, and not over the values. *)
hashTillNextTmSlot(n) == [tm |-> n.tm, hash |-> [i \in DOMAIN n.es |-> n.es[i].key]]

RECURSIVE getLruHashTmHash(_, _, _)
getLruHashTmHash(l, startTm, endTm) ==
    LET n == for_each_tmslot(l, startTm - 1, endTm)
    IN  IF startTm - 1 > endTm \/ n.tm > endTm THEN << >>
        ELSE <<hashTillNextTmSlot(n)>> \o getLruHashTmHash(l, n.tm + 1, endTm)

calRTReplHash(ls, startTm, endTm) == [c \in Conts |-> getLruHashTmHash(ls[c], startTm, endTm)]

(* The slots the peer has not, or has with another digest. *)
RECURSIVE cmpTimeHashList(_, _)
cmpTimeHashList(l, p) ==
    CASE l = << >> -> << >>
      [] l # << >> /\ p = << >> -> [i \in DOMAIN l |-> l[i].tm]
      [] OTHER -> CASE l[1].tm < p[1].tm -> <<l[1].tm>> \o cmpTimeHashList(Tail(l), p)
                    [] l[1].tm > p[1].tm -> cmpTimeHashList(l, Tail(p))
                    [] OTHER -> (IF l[1].hash # p[1].hash THEN <<l[1].tm>> ELSE << >>)
                                \o cmpTimeHashList(Tail(l), Tail(p))

cmpRTReplHash(ls, ps) == [c \in Conts |-> cmpTimeHashList(ls[c], ps[c])]

(* The tracker keeps the time before each slot still to be read. *)
addBReplTmSlot(tms) == [i \in DOMAIN tms |-> tms[i] - 1]

advBReplTmSlotLate(slots, tm) == SelectSeq(slots, LAMBDA t : t >= tm - 1)
advBReplTmSlot(slots, tm) ==
    IF Len(slots) = 1 /\ slots[1] = tm THEN slots ELSE SelectSeq(slots, LAMBDA t : t >= tm)

(* readShmKeyVal: slots are read until the list is done or the buffer is full. *)
RECURSIVE readSlots(_, _, _, _, _, _)
readSlots(l, slots, tm, endTm, room, out) ==
    IF slots = << >> \/ Len(out) >= room THEN [slots |-> slots, out |-> out]
    ELSE LET n == for_each_tmslot(l, tm, endTm + 1)
         IN  readSlots(l, advBReplTmSlot(slots, n.tm), n.tm, endTm, room, out \o n.es)

readShmKeyVal(l, slots, room) == readSlots(l, slots, slots[1], Last(slots), room, << >>)

-----------------------------------------------------------------------------
(* The transfer of the slots, BulkReplCtx. *)

(* The slots of every container that has some are tracked, and the         *)
(* connection is written to from then on, linkBReplCtx2Clnt.               *)
startBulk(diff) == track' = [c \in Conts |-> addBReplTmSlot(diff[c])]

isAllReplDone == \A c \in Conts : track[c] = << >>

(* The window is done; the cut-off moves behind it. *)
doneOneAudit(a) == [a EXCEPT !.st = "idle", !.cutoff = a.up + 1]

(* The next time of any container, or a time as good as never. *)
getAllContNextTm(tm) ==
    Min({(tm + 1) * 2} \cup {Min(S) : S \in {Later(lru[c], tm) : c \in Conts} \ {{}}})

advTmSlots(a, nextJumpTm) == [a EXCEPT !.st = "idle", !.low = nextJumpTm]

(* FReplDoneCallBack: the peer is told where to go on. *)
FReplDoneCallBack(a) == advTmSlots(a, getAllContNextTm(a.up))

(* resumeBulkRepl, run when the connection can be written to. *)
resumeBulkRepl ==
    /\ auditor.st = "linked"
    /\ \/ /\ isAllReplDone
          /\ auditor' = IF auditor.mode = "full" THEN FReplDoneCallBack(auditor) ELSE doneOneAudit(auditor)
          /\ UNCHANGED <<track, bulk>>
       \/ \E c \in Conts, room \in 1 .. AuditRoom :
             /\ track[c] # << >>
             /\ LET r == readShmKeyVal(lru[c], track[c], room)
                IN  /\ track' = [track EXCEPT ![c] = r.slots]
                    /\ bulk' = bulk \cup {<<c, r.out[i]>> : i \in DOMAIN r.out}
             /\ UNCHANGED auditor
    /\ UNCHANGED <<lru, peerLru, clock>>

-----------------------------------------------------------------------------
(* Incremental audit. *)

(* A window is audited once it lies in the past. *)
nextAuditTmSlotNow == auditor.cutoff + FreqTm <= clock
nextAuditTmSlot == auditor.cutoff + FreqTm < clock - 1

(* continueAudit: the digests of the window are kept and sent to the peer. *)
continueAudit ==
    /\ auditor.mode = "inc" /\ auditor.st = "idle" /\ nextAuditTmSlot
    /\ LET up == auditor.cutoff + FreqTm
       IN  auditor' = [auditor EXCEPT !.st = "hashed", !.low = auditor.cutoff, !.up = up,
                                      !.digest = calRTReplHash(lru, auditor.cutoff, up)]
    /\ UNCHANGED <<lru, peerLru, clock, track, bulk>>

(* addReplTaskByRtHash, with the peer's digests of the window. *)
addReplTaskByRtHash ==
    /\ auditor.st = "hashed"
    /\ LET diff == cmpRTReplHash(auditor.digest, calRTReplHash(peerLru, auditor.low, auditor.up))
       IN  \/ /\ diff # NoSlots
              /\ startBulk(diff) /\ auditor' = [auditor EXCEPT !.st = "linked"]
           \/ /\ diff = NoSlots
              /\ auditor' = doneOneAudit(auditor) /\ UNCHANGED track
    /\ UNCHANGED <<lru, peerLru, clock, bulk>>

(* Full replication: the peer asks for a window, getCurrTmSlots, and all   *)
(* its slots are tracked for every container.                              *)
fillContsAllTm(startTm, endTm) == [c \in Conts |-> [i \in 1 .. endTm - startTm + 1 |-> startTm + i - 1]]

getCurrTmSlots ==
    LET up == Min({auditor.low + FReplInt, auditor.max})
    IN  /\ auditor.mode = "full" /\ auditor.st = "idle" /\ auditor.low <= auditor.max
        /\ auditor' = [auditor EXCEPT !.st = "linked", !.up = up]
        /\ startBulk(fillContsAllTm(auditor.low, up))
        /\ UNCHANGED <<lru, peerLru, clock, bulk>>

-----------------------------------------------------------------------------
(* Other processes: an entry is set or used, and is then the newest. *)
Without(l, k) == SelectSeq(l, LAMBDA e : e.key # k)
Change(c, l) ==
    /\ auditor.touched < MaxTouch /\ auditor' = [auditor EXCEPT !.touched = @ + 1]
    /\ lru' = [lru EXCEPT ![c] = l]
    /\ UNCHANGED <<peerLru, clock, track, bulk>>
TouchEntry(c, k) == Change(c, Append(Without(lru[c], k), Entry(k, clock)))
EraseEntry(c, k) == (\E i \in DOMAIN lru[c] : lru[c][i].key = k) /\ Change(c, Without(lru[c], k))
TickAudit == clock < MaxTm /\ clock' = clock + 1 /\ UNCHANGED <<lru, peerLru, auditor, track, bulk>>

NextAudit ==
    \/ continueAudit \/ addReplTaskByRtHash \/ resumeBulkRepl \/ getCurrTmSlots \/ TickAudit
    \/ \E c \in Conts, k \in AuditKeys : TouchEntry(c, k) \/ EraseEntry(c, k)

-----------------------------------------------------------------------------
(* Properties. *)

(* Behind the cut-off nothing is missed: an entry whose slot the audit has *)
(* passed, and that was not used since, was sent, or the peer has it in    *)
(* that slot; however the reads were cut up by full buffers, whatever was  *)
(* set, used or erased between them (nextAuditTmSlot's closed windows,     *)
(* cmpTimeHashList, the tracker's off-by-one of addBReplTmSlot,            *)
(* resumption in readShmKeyVal, the cut-off of doneOneAudit).              *)
AuditedSlots ==
    auditor.mode = "inc" =>
        \A c \in Conts : \A i \in DOMAIN lru[c] :
            lru[c][i].tm < auditor.cutoff =>
                <<c, lru[c][i]>> \in bulk \/ lru[c][i] \in ToSet(peerLru[c])

(* A full replication that has passed the last slot the peer asked for has *)
(* sent every entry up to it that was not used since (fillContsAllTm,      *)
(* getAllContNextTm's jump over empty slots, getCurrTmSlots).              *)
FullySent ==
    (auditor.mode = "full" /\ auditor.st = "idle") =>
        \A c \in Conts : \A i \in DOMAIN lru[c] :
            lru[c][i].tm < auditor.low /\ lru[c][i].tm <= auditor.max => <<c, lru[c][i]>> \in bulk

(* A resumption never leaves the list of slots as it was, so a transfer    *)
(* ends however little room each write finds (advBReplTmSlot, whose        *)
(* exception keeps a last slot that equals the time read).                 *)
ResumeAdvances ==
    (auditor.st = "linked" /\ auditor'.st = "linked" /\ bulk # bulk') => track' # track
=============================================================================
