----------------------------- MODULE LsMemcache -----------------------------
(***************************************************************************)
(* The memcached commands on the master of a slice, as the handlers of     *)
(* LsMemcache run them in several worker processes that share the hash.    *)
(* A handler holds the slice lock from its first look at the hash to its   *)
(* last change, so it is one action; only a get of several keys takes the  *)
(* lock once per key.  An expired item stays in the hash until a command   *)
(* finds it.  m_noreply belongs to the process, not to the connection, and *)
(* outlives the command that set it when that command never answers.       *)
(***************************************************************************)
EXTENDS Integers, Sequences, FiniteSetsExt

CONSTANTS Keys, Requests, ValMax, HdrLen, MaxDelta, ULLMod, ULL_MAXLEN,
          Procs,
          ElemLen,      \* bytes of an element beside its value: LsShmHElem, key
          TableLen,     \* bytes of a new LsShmHTable, its index and its bitmap
          HeadLen,      \* x_iSize: bytes of LsMcHdr, the cas counter, LsShmTidInfo
          BlkLen,       \* bytes of a tid block, or by which a rehash grows the index
          MemMax,       \* m_iMemMaxSz
          MaxOps, MaxTime, OtherMax     \* bounds of the model

VARIABLES hash,         \* the elements of the slice, expired ones included
          cas,          \* LsMcHdr.x_data->cas
          now,          \* time(NULL)
          m_nomemfail,  \* configured: refuse to store instead of evicting
          m_noreply,    \* per process
          m_keyList,    \* per process: keys a get has still to look up
          out,          \* the last command, its outcome and what was sent of it
          ops,
          x_iLen,       \* bytes of each element, 0 where there is none
          other,        \* m_iHashInUse beside the elements
          alive         \* processes that have not ended in rebuild

(* The binary commands that setupNoreplyCmd lets be quiet: GETQ and GETKQ are
   answered like GET and GETK. *)
QuietBinOps == {"set", "add", "replace", "append", "prepend", "delete", "incr",
                "decr", "gat", "flush", "quit"}

(* Requests are what the two parsers can make of a client's bytes. *)
ASSUME RequestsAssumption ==
    \A r \in Requests :
       /\ r.key \in Keys
       /\ r.bin \in BOOLEAN
       /\ r.quiet \in BOOLEAN
       /\ r.bin /\ r.quiet => r.op \in QuietBinOps

(* Bytes of a value: the two digits, and what is no digit. *)
Chars == {"0", "1", "x"}

(* The lengths and the numbers are unsigned in the protocols; a text command
   has a cas number only in cas, and never a value to start from. *)
ASSUME FieldsAssumption ==
    \A r \in Requests :
       /\ r.val \in Seq(Chars)
       /\ r.exp \in Nat /\ r.cas \in Nat /\ r.delta \in Nat
       /\ r.init \in {-1} \cup 0 .. ULLMod - 1
       /\ ~r.bin => r.init = -1
       /\ ~r.bin /\ r.op # "cas" => r.cas = 0

ASSUME SizesAssumption ==
    /\ ValMax \in Nat /\ HdrLen \in Nat /\ ElemLen \in Nat /\ MemMax \in Nat
    /\ TableLen \in Nat /\ HeadLen \in Nat /\ BlkLen \in Nat /\ OtherMax \in Nat
    /\ MaxDelta \in Nat /\ ULL_MAXLEN \in Nat /\ ULLMod \in Nat \ {0}

vars == << hash, cas, now, m_nomemfail, m_noreply, m_keyList, out, ops, x_iLen,
           other, alive >>

NoItem == [val |-> <<>>, cas |-> 0, exp |-> 0]

(* An element whose value has been allocated and not yet written. *)
Raw(len) == [val |-> [i \in 1 .. len |-> "?"], cas |-> -1, exp |-> 0]

isExpired(item) == item.exp # 0 /\ item.exp <= now

find(h, k) == h[k] # NoItem

eraseIterator(h, k) == [h EXCEPT ![k] = NoItem]

Digits == {"0", "1"}

(* strtoull, with binary numerals.  Values hold no blanks and no signs. *)
strtoull(v) ==
    LET n[i \in 0 .. Len(v)] ==
            IF i = 0 THEN 0 ELSE 2 * n[i - 1] + (IF v[i] = "1" THEN 1 ELSE 0)
    IN n[Len(v)]

(* No digit to begin with, a character after the digits, or ERANGE. *)
myStrtoull(v) ==
    IF (\A i \in DOMAIN v : v[i] \in Digits) /\ strtoull(v) < ULLMod
    THEN strtoull(v) ELSE -1

mcIter2num(item) ==
    IF Len(item.val) \in 1 .. ULL_MAXLEN THEN myStrtoull(item.val) ELSE -1

(* snprintf "%llu" *)
printNum(n) ==
    LET s[m \in 0 .. ULLMod] ==
            (IF m < 2 THEN <<>> ELSE s[m \div 2]) \o << IF m % 2 = 1 THEN "1" ELSE "0" >>
    IN s[n]

setItemExptime(exp) == IF exp # 0 /\ exp <= MaxDelta THEN exp + now ELSE exp

-----------------------------------------------------------------------------
(* Memory *)

parmAdjLen(len) == len + HdrLen

chkItemSize(len) == ValMax = 0 \/ len <= ValMax

(* alloc2 and release2 keep m_iHashInUse: bytes o beside the elements of h. *)
inUse(o, h) ==
    o + MapThenSumSet(LAMBDA k : IF find(h, k) THEN x_iLen[k] ELSE 0, Keys)

getHashDataSize == inUse(other, hash)

(* What o may become: whether the index is rehashed at the lock, and whether a
   tid needs a new block, depends on counts that are not part of this module. *)
grown(o) == {o} \cup {u \in {o + BlkLen} : u <= OtherMax}

(* trimsize erases elements until need bytes are gone or none is left, or stops
   before that for want of a block for the tids.  The order is that of the LRU
   list, which is not part of this module. *)
victims(h, need) ==
    LET all == {k \in Keys : find(h, k)}
        size(S) == MapThenSumSet(LAMBDA k : x_iLen[k], S)
    IN  {S \in SUBSET all : S = {} \/ \E k \in S : size(S \ {k}) < need}

trimsize(h, need) ==
    {[k \in Keys |-> IF k \in S THEN NoItem ELSE h[k]] : S \in victims(h, need)}

(* Wrong variant: goes on with what the trim has left. *)
trimmedAnyhow(o, h) == [ret |-> "SUCCESS", h |-> h, o |-> o]

(* The test after a trim: rebuild when what is left is still too much.  Unlike
   the test before, it does not take x_iSize off. *)
trimmed(o, h) ==
    [ret |-> IF inUse(o, h) > MemMax THEN "REBUILD" ELSE "SUCCESS", h |-> h, o |-> o]

(* len is what the caller has put in m_parms.val.len: the text handlers have
   added the item header for all but append and prepend, the binary ones have
   not. *)
chkMemSz(h, k, len, cmd) ==
    LET more == IF cmd \in {"add", "set"} THEN ElemLen + len ELSE len
        over(o) == inUse(o, h) + more - HeadLen - MemMax
        roomy == {o \in grown(other) : over(o) <= 0}
        tight == grown(other) \ roomy
        room(o) == {trimmed(u, g) : u \in grown(o), g \in trimsize(h, 8 * over(o))}
    IN  IF ~chkItemSize(len)
        THEN {[ret |-> "E2BIG", h |-> IF cmd = "set" THEN eraseIterator(h, k) ELSE h,
               o |-> other]}
        ELSE {[ret |-> "SUCCESS", h |-> h, o |-> o] : o \in roomy}
             \cup IF m_nomemfail THEN {[ret |-> "ENOMEM", h |-> h, o |-> o] : o \in tight}
                  ELSE UNION {room(o) : o \in tight}

-----------------------------------------------------------------------------
(* Changes of the hash: what is allocated, with the code that decides the
   reply.  iter: an element to write the value to. *)

Found(ret, h) == [iter |-> TRUE, ret |-> ret, h |-> h]
NotFound(ret, h) == [iter |-> FALSE, ret |-> ret, h |-> h]

doSet(h, k, len) == [h EXCEPT ![k] = Raw(len)]

(* Wrong variant: an expired element keeps an add from storing. *)
doHashInsertExpired(h, k, len) ==
    IF find(h, k) THEN NotFound("EEXISTS", h) ELSE Found("DONE", doSet(h, k, len))

(* add *)
doHashInsert(h, k, len) ==
    IF find(h, k) /\ ~isExpired(h[k])
    THEN NotFound("EEXISTS", h)
    ELSE Found("DONE", doSet(h, k, len))

newNumber(cmd, num, value) ==
    IF cmd = "incr" THEN (num + value) % ULLMod
    ELSE IF value > num THEN 0 ELSE num - value

(* iterGrowValue; a prepend then moves the old value up. *)
growValue(item, len, front) ==
    [item EXCEPT !.val = IF front THEN Raw(len).val \o @ ELSE @ \o Raw(len).val]

(* replace, cas, append, prepend, incr, decr.  withcas: LSMC_WITHCAS *)
doHashUpdate(h, k, len, cmd, withcas, c, value) ==
    LET item == h[k]
        num  == mcIter2num(item)
    IN  CASE ~find(h, k) -> NotFound("NOTFOUND", h)
          [] find(h, k) /\ isExpired(item) -> NotFound("NOTFOUND", eraseIterator(h, k))
          [] OTHER ->
             CASE (withcas \/ c # 0) /\ item.cas # c -> NotFound("EEXISTS", h)
               [] OTHER ->
                  CASE cmd = "replace" -> Found("DONE", doSet(h, k, len))
                    [] cmd \in {"append", "prepend"} ->
                         Found(cmd, [h EXCEPT ![k] = growValue(@, len, cmd = "prepend")])
                    [] cmd \in {"incr", "decr"} /\ num = -1 -> NotFound("NONNUMERIC", h)
                    [] OTHER ->
                         Found("NONE",
                            doSet(h, k, Len(printNum(newNumber(cmd, num, value)))))

(* Writes the value and the item header, which append and prepend keep. *)
dataItemUpdate(item, retcode, buf, exptime) ==
    LET n == Len(item.val)
        len == Len(buf)
    IN  [val |-> CASE retcode = "append"  -> SubSeq(item.val, 1, n - len) \o buf
                   [] retcode = "prepend" -> buf \o SubSeq(item.val, len + 1, n)
                   [] OTHER               -> buf,
         exp |-> IF retcode \in {"append", "prepend"} THEN item.exp
                 ELSE setItemExptime(exptime),
         cas |-> cas + 1]

(* doSet writes over an element that is long enough, iterGrowValue never does. *)
allocIter(h, k, res) ==
    LET len == Len(res.h[k].val)
    IN  CASE ~res.iter -> x_iLen[k]
          [] res.iter /\ res.ret \in {"append", "prepend"} ->
                x_iLen[k] + len - Len(h[k].val)
          [] OTHER -> IF find(h, k) /\ x_iLen[k] >= ElemLen + parmAdjLen(len)
                      THEN x_iLen[k] ELSE ElemLen + parmAdjLen(len)

(* What updOpt.m_iRetcode may hold when nothing has set it. *)
RetCodes == {"NONE", "NOTFOUND", "EEXISTS", "NONNUMERIC"}

(* The change res, or what is left of it when its element is to be allocated and
   there is no memory: doSet has erased the old element by then, iterGrowValue has
   not.  incr and decr have not set a code. *)
allocated(h, k, res) ==
    {res} \cup
    {NotFound(ret, IF res.ret \in {"append", "prepend"} THEN h ELSE eraseIterator(h, k)) :
        ret \in CASE ~res.iter \/ (find(h, k) /\ allocIter(h, k, res) = x_iLen[k]) -> {}
                  [] res.iter /\ res.ret = "NONE" -> RetCodes
                  [] OTHER -> {res.ret}}

-----------------------------------------------------------------------------
(* Replies.  A reply is a number of pieces; m_noreply swallows the first one
   and is then reset. *)

Sent(noreply, pieces) ==
    CASE pieces = 0               -> "nothing"
      [] pieces = 1 /\ noreply    -> "nothing"
      [] pieces > 1 /\ noreply    -> "tail"
      [] OTHER                    -> "whole"

InBound(p) == p \in alive /\ ops < MaxOps /\ m_keyList[p] = <<>>

(* A request: the fields a command does not have keep these values. *)
GetReq(k) == [op |-> "get", bin |-> FALSE, key |-> k, val |-> <<>>, exp |-> 0,
              cas |-> 0, delta |-> 0, init |-> -1, quiet |-> FALSE]

(* Every key can be read. *)
ASSUME GetsAssumption == {GetReq(k) : k \in Keys} \subseteq Requests

(* The end of every command: noreply is the flag as the handler has set it. *)
Respond(p, r, noreply, pieces, code, val, c, stat) ==
    /\ out' = [req |-> r, code |-> code, val |-> val, cas |-> c, stat |-> stat,
               sent |-> Sent(noreply, pieces), stale |-> m_noreply[p]]
    /\ m_noreply' = [m_noreply EXCEPT ![p] = noreply /\ pieces = 0]
    /\ ops' = ops + 1
    /\ UNCHANGED << now, m_nomemfail, m_keyList, alive >>

Unchanged == UNCHANGED << hash, cas, x_iLen, other >>

(* The elements keep their bytes, but k now has n; o counts what the tables had
   before the last tid of the command was taken. *)
Sized(o, k, n) ==
    /\ x_iLen' = [j \in Keys |-> IF hash'[j] = NoItem THEN 0
                                ELSE IF j = k THEN n ELSE x_iLen[j]]
    /\ other' \in grown(o)

Freed(o, k) == Sized(o, k, x_iLen[k])

(* The counter of LsMcStats that a look at a key increments. *)
hitStat(op, hit) ==
    CASE op = "get"             -> IF hit THEN "get_hits" ELSE "get_misses"
      [] op \in {"touch", "gat"} -> IF hit THEN "touch_hits" ELSE "touch_misses"
      [] op = "delete"          -> IF hit THEN "delete_hits" ELSE "delete_misses"
      [] op = "incr"            -> IF hit THEN "incr_hits" ELSE "incr_misses"
      [] op = "decr"            -> IF hit THEN "decr_hits" ELSE "decr_misses"

casStat(withcas, ret) ==
    IF ~withcas THEN "set"
    ELSE CASE ret = "NOTFOUND" -> "cas_misses"
           [] ret = "EEXISTS"  -> "cas_badval"
           [] OTHER            -> "cas_hits"

(* Wrong variant: the counter behind getCas is not advanced. *)
DataUpdateSameCas(k, res, item) ==
    /\ hash' = IF res.iter THEN [res.h EXCEPT ![k] = item] ELSE res.h
    /\ UNCHANGED cas

(* doDataUpdate and doBinDataUpdate: finish a change or report its failure.
   The caller passes the reply of either case. *)
DataUpdate(k, res, item) ==
    /\ hash' = IF res.iter THEN [res.h EXCEPT ![k] = item] ELSE res.h
    /\ cas' = IF res.iter THEN cas + 1 ELSE cas

(* The process signals itself to death, inside chkMemSz and with the lock held;
   the client is never answered. *)
rebuild(p, m) ==
    /\ hash' = m.h
    /\ x_iLen' = [k \in Keys |-> IF hash'[k] = NoItem THEN 0 ELSE x_iLen[k]]
    /\ other' = m.o
    /\ alive' = alive \ {p}
    /\ ops' = ops + 1
    /\ UNCHANGED << cas, now, m_nomemfail, m_noreply, m_keyList, out >>

(* The crash guard removes the databases and starts every process anew. *)
childSignaled ==
    /\ alive # Procs
    /\ hash' = [k \in Keys |-> NoItem]
    /\ cas' = 0
    /\ x_iLen' = [k \in Keys |-> 0]
    /\ other' = TableLen + HeadLen
    /\ m_noreply' = [p \in Procs |-> FALSE]
    /\ m_keyList' = [p \in Procs |-> <<>>]
    /\ alive' = Procs
    /\ UNCHANGED << now, m_nomemfail, out, ops >>

-----------------------------------------------------------------------------
(* Text protocol *)

doCmdUpdate(p, r) ==
    LET cmd  == IF r.op = "cas" THEN "replace" ELSE r.op
        grow == cmd \in {"append", "prepend"}
        len  == Len(r.val)
    IN  /\ ~r.bin
        /\ r.op \in {"set", "add", "replace", "cas", "append", "prepend"}
        /\ InBound(p)
        /\ \E m \in chkMemSz(hash, r.key, IF grow THEN len ELSE parmAdjLen(len), r.op) :
             \/ m.ret = "REBUILD" /\ rebuild(p, m)
             \/ /\ m.ret \in {"E2BIG", "ENOMEM"}
                /\ hash' = m.h
                /\ UNCHANGED cas
                /\ Freed(m.o, r.key)
                /\ Respond(p, r, r.quiet, 1,
                      IF m.ret = "E2BIG" THEN "TOO_LARGE" ELSE "OUT_OF_MEMORY",
                      <<>>, 0, "none")
             \/ /\ m.ret = "SUCCESS"
                /\ \E res \in allocated(m.h, r.key,
                                 CASE cmd = "set" -> Found("DONE", doSet(m.h, r.key, len))
                                   [] cmd = "add" -> doHashInsert(m.h, r.key, len)
                                   [] OTHER -> doHashUpdate(m.h, r.key, len, cmd,
                                                            r.op = "cas", r.cas, 0)) :
                     /\ DataUpdate(r.key, res,
                           dataItemUpdate(res.h[r.key], IF grow THEN cmd ELSE "DONE",
                                          r.val, r.exp))
                     /\ Sized(m.o, r.key, allocIter(m.h, r.key, res))
                     /\ Respond(p, r, r.quiet, 1,
                           CASE res.iter -> "STORED"
                             [] r.op = "cas" /\ res.ret = "NOTFOUND" -> "NOT_FOUND"
                             [] r.op = "cas" /\ res.ret = "EEXISTS" -> "EXISTS"
                             [] OTHER -> "NOT_STORED",
                           <<>>, 0, casStat(r.op = "cas", res.ret))

(* The same handler when the value has not arrived or does not end in CR LF:
   it returns without an answer, with m_noreply already set. *)
doCmdUpdateNoData(p, r) ==
    /\ ~r.bin
    /\ r.op = "set"
    /\ InBound(p)
    /\ m_noreply' = [m_noreply EXCEPT ![p] = r.quiet]
    /\ ops' = ops + 1
    /\ UNCHANGED << hash, cas, now, m_nomemfail, m_keyList, out, x_iLen, other, alive >>

doCmdArithmetic(p, r) ==
    LET item == hash[r.key]
        num  == printNum(newNumber(r.op, mcIter2num(item), r.delta))
    IN  /\ ~r.bin
        /\ r.op \in {"incr", "decr"}
        /\ InBound(p)
        /\ \E res \in allocated(hash, r.key,
                           doHashUpdate(hash, r.key, 0, r.op, FALSE, 0, r.delta)) :
             /\ DataUpdate(r.key, res,
                           dataItemUpdate(res.h[r.key], res.ret, num, item.exp))
             /\ Sized(other, r.key, allocIter(hash, r.key, res))
             /\ CASE res.iter ->
                       Respond(p, r, r.quiet, 1, "NUMBER", num, 0, hitStat(r.op, TRUE))
                  [] ~res.iter /\ res.ret = "NOTFOUND" ->
                       Respond(p, r, r.quiet, 1, "NOT_FOUND", <<>>, 0,
                               hitStat(r.op, FALSE))
                  [] OTHER ->
                       Respond(p, r, r.quiet, 1,
                               IF res.ret = "NONNUMERIC" THEN "NON_NUMERIC"
                               ELSE "SERVER_ERROR", <<>>, 0, "none")

(* Without a word after the key m_noreply is left as it was. *)
doCmdDelete(p, r) ==
    LET item == hash[r.key]
        hit  == find(hash, r.key) /\ ~isExpired(item)
        noreply == IF r.quiet THEN TRUE ELSE m_noreply[p]
    IN  /\ ~r.bin
        /\ r.op = "delete"
        /\ InBound(p)
        /\ hash' = eraseIterator(hash, r.key)
        /\ UNCHANGED cas
        /\ Freed(other, r.key)
        /\ IF hit THEN Respond(p, r, noreply, 1, "DELETED", <<>>, 0, hitStat(r.op, TRUE))
           ELSE Respond(p, r, noreply, 1, "NOT_FOUND", <<>>, 0, hitStat(r.op, FALSE))

(* Wrong variant: leaves m_noreply to the command before. *)
doCmdTouchFlag(p, r) ==
    /\ ~r.bin /\ r.op = "touch" /\ InBound(p)
    /\ Unchanged
    /\ Respond(p, r, m_noreply[p], 1, "NOT_FOUND", <<>>, 0, "touch_misses")

doCmdTouch(p, r) ==
    LET item == hash[r.key]
        hit  == find(hash, r.key) /\ ~isExpired(item)
    IN  /\ ~r.bin
        /\ r.op = "touch"
        /\ InBound(p)
        /\ UNCHANGED cas
        /\ IF hit
           THEN /\ hash' = [hash EXCEPT ![r.key].exp = setItemExptime(r.exp)]
                /\ Respond(p, r, r.quiet, 1, "TOUCHED", <<>>, 0, hitStat(r.op, TRUE))
           ELSE /\ hash' = eraseIterator(hash, r.key)
                /\ Respond(p, r, r.quiet, 1, "NOT_FOUND", <<>>, 0, hitStat(r.op, FALSE))
        /\ Freed(other, r.key)

(* gets of several keys: the list is made first, ... *)
doCmdGet(p, ks) ==
    /\ InBound(p)
    /\ m_keyList' = [m_keyList EXCEPT ![p] = ks]
    /\ m_noreply' = [m_noreply EXCEPT ![p] = FALSE]
    /\ ops' = ops + 1
    /\ UNCHANGED << hash, cas, now, m_nomemfail, out, x_iLen, other, alive >>

(* ... then each key is looked up under a lock of its own. *)
getKey(p) ==
    LET k == Head(m_keyList[p])
        hit == find(hash, k) /\ ~isExpired(hash[k])
    IN  /\ m_keyList[p] # <<>>
        /\ hash' = IF hit THEN hash ELSE eraseIterator(hash, k)
        /\ out' = [req |-> GetReq(k), code |-> IF hit THEN "VALUE" ELSE "MISS",
                   val |-> IF hit THEN hash[k].val ELSE <<>>,
                   cas |-> IF hit THEN hash[k].cas ELSE 0,
                   stat |-> hitStat("get", hit),
                   sent |-> "whole", stale |-> FALSE]
        /\ m_keyList' = [m_keyList EXCEPT ![p] = Tail(@)]
        /\ Freed(other, k)
        /\ UNCHANGED << cas, now, m_nomemfail, m_noreply, ops, alive >>

(* clear: the elements go and so do the blocks of the tid table, the index stays
   as long as it is. *)
clear ==
    /\ hash' = [k \in Keys |-> NoItem]
    /\ x_iLen' = [k \in Keys |-> 0]
    /\ \E u \in TableLen + HeadLen .. other : other' \in grown(u)

doCmdFlush(p, r) ==
    /\ ~r.bin
    /\ r.op = "flush"
    /\ InBound(p)
    /\ clear
    /\ UNCHANGED cas
    /\ Respond(p, r, IF r.quiet THEN TRUE ELSE m_noreply[p], 1, "OK", <<>>, 0, "flush")

doCmdVersion(p, r) ==
    /\ ~r.bin
    /\ r.op = "version"
    /\ InBound(p)
    /\ Unchanged
    /\ Respond(p, r, m_noreply[p], 1, "VERSION", <<>>, 0, "none")

(* The level set here only decides what is logged. *)
doCmdVerbosity(p, r) ==
    /\ ~r.bin
    /\ r.op = "verbosity"
    /\ InBound(p)
    /\ Unchanged
    /\ Respond(p, r, r.quiet, 1, "OK", <<>>, 0, "none")

(* -2: the connection is closed without a word, and m_noreply is not looked at. *)
doCmdQuit(p, r) ==
    /\ ~r.bin
    /\ r.op = "quit"
    /\ InBound(p)
    /\ Unchanged
    /\ Respond(p, r, m_noreply[p], 0, "CLOSED", <<>>, 0, "none")

(* A command line with bad arguments.  Some handlers have read the word noreply
   by then, delete may have reset the flag, the others leave it as it was. *)
doCmdMalformed(p, r) ==
    /\ ~r.bin
    /\ r.op = "malformed"
    /\ InBound(p)
    /\ Unchanged
    /\ \E noreply \in {m_noreply[p], r.quiet, FALSE} :
          Respond(p, r, noreply, 1, "CLIENT_ERROR", <<>>, 0, "none")

-----------------------------------------------------------------------------
(* Binary protocol.  An error is answered even when the command is a quiet
   one: binErrRespond resets m_noreply. *)

binErrRespond(p, r, code, stat) == Respond(p, r, FALSE, 2, code, <<>>, 0, stat)

(* setupNoreplyCmd and the special case of processBinCmd. *)
binCmd(r) == IF r.op = "set" /\ r.cas # 0 THEN "replace" ELSE r.op

(* The checks that come before the command itself, under the same lock. *)
setupBinCmd(h, r) == chkMemSz(h, r.key, Len(r.val), binCmd(r))

(* doBinDataUpdate's status for a change that was not made. *)
binUpdateStatus(retcode) ==
    CASE retcode = "NOTFOUND" -> "KEYENOENT"
      [] retcode = "EEXISTS"  -> "KEYEEXISTS"
      [] OTHER                -> "NOTSTORED"

doBinUpdate(p, r) ==
    LET cmd == binCmd(r)
        len == Len(r.val)
    IN  /\ r.bin
        /\ r.op \in {"set", "add", "replace", "append", "prepend"}
        /\ InBound(p)
        /\ \E m \in setupBinCmd(hash, r) :
             \/ m.ret = "REBUILD" /\ rebuild(p, m)
             \/ /\ m.ret \in {"E2BIG", "ENOMEM"}
                /\ hash' = m.h
                /\ UNCHANGED cas
                /\ Freed(m.o, r.key)
                /\ binErrRespond(p, r, m.ret, "none")
             \/ /\ m.ret = "SUCCESS"
                /\ \E res \in allocated(m.h, r.key,
                                 CASE cmd = "set" -> Found("DONE", doSet(m.h, r.key, len))
                                   [] cmd = "add" -> doHashInsert(m.h, r.key, len)
                                   [] OTHER -> doHashUpdate(m.h, r.key, len, cmd, FALSE,
                                                            r.cas, 0)) :
                     LET stat == casStat(cmd = "replace" /\ r.cas # 0, res.ret)
                         retcode == IF cmd \in {"append", "prepend"} /\ res.ret = "NOTFOUND"
                                    THEN "DONE" ELSE res.ret
                     IN  /\ DataUpdate(r.key, res,
                               dataItemUpdate(res.h[r.key], retcode, r.val, r.exp))
                         /\ Sized(m.o, r.key, allocIter(m.h, r.key, res))
                         /\ IF res.iter
                            THEN Respond(p, r, r.quiet, 1, "SUCCESS", <<>>, cas + 1, stat)
                            ELSE binErrRespond(p, r, binUpdateStatus(retcode), stat)

(* A success is answered twice: by doBinDataUpdate, then with the number.  A
   count that got no memory may find NOTFOUND in its code and start anew. *)
doBinArithmetic(p, r) ==
    LET item == hash[r.key]
        num  == printNum(newNumber(r.op, mcIter2num(item), r.delta))
        init == printNum(r.init)
    IN  /\ r.bin
        /\ r.op \in {"incr", "decr"}
        /\ InBound(p)
        /\ \E res \in allocated(hash, r.key,
                           doHashUpdate(hash, r.key, 0, r.op, FALSE, r.cas, r.delta)) :
             \/ /\ res.iter
                /\ DataUpdate(r.key, res,
                              dataItemUpdate(res.h[r.key], "NONE", num, item.exp))
                /\ Sized(other, r.key, allocIter(hash, r.key, res))
                /\ Respond(p, r, r.quiet, 2, "SUCCESS", num, cas + 1,
                           hitStat(r.op, TRUE))
             \/ /\ ~res.iter /\ res.ret = "NOTFOUND" /\ r.init = -1
                /\ DataUpdate(r.key, res, NoItem)
                /\ Freed(other, r.key)
                /\ binErrRespond(p, r, "KEYENOENT", hitStat(r.op, FALSE))
             \/ /\ ~res.iter /\ res.ret = "NOTFOUND" /\ r.init # -1
                /\ \E made \in allocated(res.h, r.key,
                                   Found("NONE", doSet(res.h, r.key, Len(init)))) :
                     /\ DataUpdate(r.key, made,
                                   dataItemUpdate(made.h[r.key], "NONE", init, r.exp))
                     /\ Sized(other, r.key, allocIter(res.h, r.key, made))
                     /\ IF made.iter
                        THEN Respond(p, r, r.quiet, 2, "SUCCESS", init, cas + 1, "none")
                        ELSE binErrRespond(p, r, "NOTSTORED", "none")
             \/ /\ ~res.iter /\ res.ret # "NOTFOUND"
                /\ DataUpdate(r.key, res, NoItem)
                /\ Freed(other, r.key)
                /\ binErrRespond(p, r, CASE res.ret = "NONNUMERIC" -> "DELTABADVAL"
                                         [] res.ret = "EEXISTS" -> "KEYEEXISTS"
                                         [] OTHER -> "NOTSTORED", "none")

doBinDelete(p, r) ==
    LET item == hash[r.key]
    IN  /\ r.bin
        /\ r.op = "delete"
        /\ InBound(p)
        /\ UNCHANGED cas
        /\ CASE ~find(hash, r.key) \/ isExpired(item) ->
                  /\ hash' = eraseIterator(hash, r.key)
                  /\ binErrRespond(p, r, "KEYENOENT", hitStat(r.op, FALSE))
             [] find(hash, r.key) /\ ~isExpired(item) /\ r.cas # 0 /\ r.cas # item.cas ->
                  /\ UNCHANGED hash
                  /\ binErrRespond(p, r, "KEYEEXISTS", "none")
             [] OTHER ->
                  /\ hash' = eraseIterator(hash, r.key)
                  /\ Respond(p, r, r.quiet, 1, "SUCCESS", <<>>, 0, hitStat(r.op, TRUE))
        /\ Freed(other, r.key)

(* get, touch, gat; get is never quiet here (GETQ is answered like GET), and a
   quiet gat that misses leaves m_noreply set. *)
doBinGet(p, r) ==
    LET item == hash[r.key]
        t    == r.op # "get"
        hit  == find(hash, r.key) /\ ~isExpired(item)
        noreply == r.quiet /\ r.op = "gat"
        val  == IF r.op = "touch" THEN <<>> ELSE item.val
    IN  /\ r.bin
        /\ r.op \in {"get", "touch", "gat"}
        /\ InBound(p)
        /\ UNCHANGED cas
        /\ IF hit
           THEN /\ hash' = IF t THEN [hash EXCEPT ![r.key].exp = setItemExptime(r.exp)]
                           ELSE hash
                /\ Respond(p, r, noreply, IF val = <<>> THEN 1 ELSE 2, "SUCCESS", val,
                           item.cas, hitStat(r.op, TRUE))
           ELSE /\ hash' = eraseIterator(hash, r.key)
                /\ Respond(p, r, noreply, IF noreply THEN 0 ELSE 2, "KEYENOENT", <<>>, 0,
                           hitStat(r.op, FALSE))
        /\ Freed(other, r.key)

doBinFlush(p, r) ==
    /\ r.bin
    /\ r.op = "flush"
    /\ InBound(p)
    /\ clear
    /\ UNCHANGED cas
    /\ Respond(p, r, r.quiet, 1, "SUCCESS", <<>>, 0, "flush")

(* A header, then the text. *)
doBinVersion(p, r) ==
    /\ r.bin
    /\ r.op = "version"
    /\ InBound(p)
    /\ Unchanged
    /\ Respond(p, r, r.quiet, 2, "SUCCESS", <<>>, 0, "none")

(* noop, verbosity and quit, which closes the connection after the answer. *)
doBinControl(p, r) ==
    /\ r.bin
    /\ r.op \in {"noop", "verbosity", "quit"}
    /\ InBound(p)
    /\ Unchanged
    /\ Respond(p, r, r.quiet, 1, "SUCCESS", <<>>, 0, "none")

(* setupBinCmd returns NULL: lengths that do not fit the command. *)
doBinMalformed(p, r) ==
    /\ r.bin
    /\ r.op = "malformed"
    /\ InBound(p)
    /\ Unchanged
    /\ binErrRespond(p, r, "EINVAL", "none")

-----------------------------------------------------------------------------
Tick ==
    /\ now < MaxTime
    /\ now' = now + 1
    /\ UNCHANGED << hash, cas, m_nomemfail, m_noreply, m_keyList, out, ops, x_iLen,
                    other, alive >>

NoReq == [GetReq(CHOOSE k \in Keys : TRUE) EXCEPT !.op = "none"]

Init ==
    /\ hash = [k \in Keys |-> NoItem]
    /\ cas = 0
    /\ now = MaxDelta + 1
    /\ m_nomemfail \in BOOLEAN
    /\ m_noreply = [p \in Procs |-> FALSE]
    /\ m_keyList = [p \in Procs |-> <<>>]
    /\ out = [req |-> NoReq, code |-> "none", val |-> <<>>, cas |-> 0,
              stat |-> "none", sent |-> "whole", stale |-> FALSE]
    /\ ops = 0
    /\ x_iLen = [k \in Keys |-> 0]
    /\ other = TableLen + HeadLen
    /\ alive = Procs

KeyLists == {<< k >> : k \in Keys} \cup (Keys \X Keys)

Next ==
    \/ Tick
    \/ childSignaled
    \/ \E p \in Procs :
         \/ \E ks \in KeyLists : doCmdGet(p, ks)
         \/ getKey(p)
         \/ \E r \in Requests :
              \/ doCmdUpdate(p, r)
              \/ doCmdUpdateNoData(p, r)
              \/ doCmdArithmetic(p, r)
              \/ doCmdDelete(p, r)
              \/ doCmdTouch(p, r)
              \/ doCmdFlush(p, r)
              \/ doCmdVersion(p, r)
              \/ doCmdVerbosity(p, r)
              \/ doCmdQuit(p, r)
              \/ doCmdMalformed(p, r)
              \/ doBinUpdate(p, r)
              \/ doBinArithmetic(p, r)
              \/ doBinDelete(p, r)
              \/ doBinGet(p, r)
              \/ doBinFlush(p, r)
              \/ doBinVersion(p, r)
              \/ doBinControl(p, r)
              \/ doBinMalformed(p, r)

Spec == Init /\ [][Next]_vars

-----------------------------------------------------------------------------
Present(k) == hash[k] # NoItem

(* Every element has a cas number and a value all of whose bytes a client has
   sent: nothing is left of the space doSet and iterGrowValue allocate before
   dataItemUpdate fills it. *)
TypeOK ==
    /\ \A k \in Keys : Present(k) =>
          /\ hash[k].cas \in 1 .. cas
          /\ hash[k].exp \in Nat
          /\ \A i \in DOMAIN hash[k].val : hash[k].val[i] \in Chars
    /\ cas \in 0 .. MaxOps
    /\ m_noreply \in [Procs -> BOOLEAN]
    /\ out.sent \in {"nothing", "tail", "whole"}

(* No two elements carry the same cas number, so a client that names the number
   it has read can only change the very value it has read (getCas and
   dataItemUpdate under the slice lock). *)
CasUnique ==
    \A j, k \in Keys : j # k /\ Present(j) => hash[j].cas # hash[k].cas

(* A command that asks for an answer gets the whole of it, unless an earlier
   command of the process has left m_noreply set and the handler answers before
   it looks at the flag, or is quit; one that asks for none gets none when it
   succeeds.  The quiet binary incr, decr and gat are left out: they send the
   second piece of their answer (respond, binRespond). *)
Answered ==
    LET r == out.req
    IN  /\ ~r.quiet => \/ out.sent = "whole"
                       \/ out.code = "CLOSED"
                       \/ /\ out.stale
                          /\ ~r.bin
                          /\ r.op \in {"delete", "flush", "version", "malformed"}
        /\ r.quiet /\ out.code \in {"STORED", "NUMBER", "DELETED", "TOUCHED", "OK"}
                => out.sent = "nothing"
        /\ r.quiet /\ out.code = "SUCCESS" /\ r.op \notin {"incr", "decr", "gat"}
                => out.sent = "nothing"

(* A store leaves m_iHashInUse, everything the hash has allocated, within
   m_iMemMaxSz and one of these: the x_iSize that only the first test of chkMemSz
   leaves out, or the element just stored.  What the step takes for the tables
   after the tests is on top, and so is the item header of a binary store, which
   counts it only after the check. *)
SizeBounded ==
    [][ /\ out' # out
        /\ out'.req.op \in {"set", "add", "replace", "cas", "append", "prepend"}
        /\ out'.code \in {"STORED", "SUCCESS"}
        => getHashDataSize' <= MemMax + Max({HeadLen, x_iLen'[out'.req.key]})
                               + (other' - other)
                               + (IF out'.req.bin THEN HdrLen ELSE 0) ]_vars

(* The handlers of both protocols implement the promise of a slice: expired
   elements that are still in the hash cannot be told from missing ones.  From a
   rebuild to the restart that follows it the database is doomed. *)
Slice == INSTANCE MemcacheSpec
            WITH store <- [k \in Keys |-> IF isExpired(hash[k]) THEN NoItem ELSE hash[k]],
                 out <- [req |-> out.req, code |-> out.code, val |-> out.val,
                         cas |-> out.cas, stat |-> out.stat],
                 damaged <- alive # Procs

Implements == Slice!Spec

(* Numerals: what strtoull reads is the value of the digits, and what snprintf
   prints is the numeral of the number. *)
NumeralsAgree ==
    /\ \A l \in 1 .. ULL_MAXLEN : \A v \in [1 .. l -> Digits] :
          strtoull(v) \in Nat /\ strtoull(v) = Slice!ValueOf(v)
    /\ \A n \in 0 .. ULLMod - 1 :
          printNum(n) \in Seq(Digits) /\ printNum(n) = Slice!Numeral(n)
ASSUME NumeralsAssumption == NumeralsAgree
=============================================================================
