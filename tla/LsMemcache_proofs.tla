------------------------- MODULE LsMemcache_proofs -------------------------
(***************************************************************************)
(* What the two protocols' handlers keep for every set of keys, processes  *)
(* and requests: cas numbers are unique, a command is answered as it asks, *)
(* and what the handlers do to the hash, seen through the deadlines, is    *)
(* what MemcacheSpec promises of a slice.                                  *)
(***************************************************************************)
EXTENDS LsMemcache, TLAPS

-----------------------------------------------------------------------------
(* The inductive invariant. *)

IsItem(x) == x = [val |-> x.val, cas |-> x.cas, exp |-> x.exp]

IsHash(h) == h = [k \in Keys |-> h[k]] /\ \A k \in Keys : IsItem(h[k])

(* Every element carries a number the counter has passed, no two the same. *)
HashOk(h, c) ==
    /\ IsHash(h)
    /\ \A k \in Keys : h[k] # NoItem => h[k].cas \in 1 .. c
    /\ \A j, k \in Keys : (j # k /\ h[j] # NoItem) => h[j].cas # h[k].cas

IInv ==
    /\ cas \in Nat
    /\ HashOk(hash, cas)
    /\ m_noreply \in [Procs -> BOOLEAN]
    /\ Answered

-----------------------------------------------------------------------------
(* Changes of the hash. *)

(* g is h without some elements. *)
Less(g, h) == g = [k \in Keys |-> g[k]] /\ \A k \in Keys : g[k] \in {h[k], NoItem}

(* What a change of one key returns: all other elements are those of h or gone. *)
ResOk(res, h, k) ==
    /\ res.iter \in BOOLEAN
    /\ res.h = [j \in Keys |-> res.h[j]]
    /\ \A j \in Keys : (res.iter => j # k) => res.h[j] \in {h[j], NoItem}

(* Fewer elements keep their numbers. *)
LEMMA LessIsOk ==
    ASSUME NEW g, NEW h, NEW c, HashOk(h, c), Less(g, h)
    PROVE  HashOk(g, c)
<1>1. NoItem.cas = 0 /\ IsItem(NoItem)
  BY DEF NoItem, IsItem
<1>2. IsHash(g)
  BY <1>1, Zenon DEF HashOk, IsHash, Less
<1>3. \A k \in Keys : g[k] # NoItem => g[k] = h[k]
  BY DEF Less
<1>4. \A k \in Keys : g[k].cas = h[k].cas \/ g[k] = NoItem
  BY <1>3
<1>5. ASSUME NEW j \in Keys, NEW k \in Keys, j # k, g[j] # NoItem
      PROVE  g[j].cas # g[k].cas
  <2>1. g[j] = h[j] /\ h[j].cas # h[k].cas /\ h[j].cas \in 1 .. c
    BY <1>3, <1>5 DEF HashOk
  <2>2. CASE g[k] = NoItem
    BY <2>1, <2>2, <1>1
  <2>3. CASE g[k] # NoItem
    BY <2>1, <2>3, <1>3
  <2> QED
    BY <2>2, <2>3
<1> QED
  BY <1>2, <1>3, <1>5 DEF HashOk

(* Erasing a key. *)
LEMMA EraseIsLess ==
    ASSUME NEW h, NEW k \in Keys, IsHash(h)
    PROVE  Less(eraseIterator(h, k), h) /\ Less(h, h)
  BY DEF Less, eraseIterator, IsHash

(* Making room erases elements and changes none. *)
LEMMA ChkMemSzIsLess ==
    ASSUME NEW h, NEW k \in Keys, NEW len, NEW cmd, IsHash(h),
           NEW m \in chkMemSz(h, k, len, cmd)
    PROVE  Less(m.h, h) /\ m.ret \in {"SUCCESS", "E2BIG", "ENOMEM", "REBUILD"}
<1>1. \A need : \A g \in trimsize(h, need) : Less(g, h)
  <2> SUFFICES ASSUME NEW need, NEW g \in trimsize(h, need)
               PROVE  Less(g, h)
    OBVIOUS
  <2>1. PICK S \in victims(h, need) : g = [j \in Keys |-> IF j \in S THEN NoItem ELSE h[j]]
    BY DEF trimsize
  <2> QED
    BY <2>1 DEF Less
<1>2. Less(h, h) /\ Less(eraseIterator(h, k), h)
  BY EraseIsLess
<1>3. \/ m.ret = "E2BIG" /\ m.h \in {eraseIterator(h, k), h}
      \/ m.ret \in {"SUCCESS", "ENOMEM"} /\ m.h = h
      \/ \E need, u : \E g \in trimsize(h, need) : m = trimmed(u, g)
  BY DEF chkMemSz
<1>4. \A u, g : trimmed(u, g).h = g /\ trimmed(u, g).ret \in {"SUCCESS", "REBUILD"}
  BY DEF trimmed
<1> QED
  BY <1>1, <1>2, <1>3, <1>4

(* set allocates at its key only. *)
LEMMA SetIsOk ==
    ASSUME NEW h, NEW k \in Keys, NEW len, NEW ret, IsHash(h)
    PROVE  ResOk(Found(ret, doSet(h, k, len)), h, k)
  BY DEF ResOk, Found, doSet, IsHash

(* add *)
LEMMA InsertIsOk ==
    ASSUME NEW h, NEW k \in Keys, NEW len, IsHash(h)
    PROVE  ResOk(doHashInsert(h, k, len), h, k)
<1>1. ResOk(NotFound("EEXISTS", h), h, k)
  BY DEF ResOk, NotFound, IsHash
<1> QED
  BY <1>1, SetIsOk DEF doHashInsert

(* replace, cas, append, prepend, incr and decr; the item they change is there. *)
LEMMA UpdateIsOk ==
    ASSUME NEW h, NEW k \in Keys, NEW len, NEW cmd, NEW withcas, NEW c, NEW value,
           IsHash(h)
    PROVE  ResOk(doHashUpdate(h, k, len, cmd, withcas, c, value), h, k)
<1>1. \A ret : ResOk(NotFound(ret, h), h, k) /\ ResOk(NotFound(ret, eraseIterator(h, k)), h, k)
  BY DEF ResOk, NotFound, IsHash, eraseIterator
<1>2. \A ret, n : ResOk(Found(ret, doSet(h, k, n)), h, k)
  BY SetIsOk
<1>3. \A ret, x : ResOk(Found(ret, [h EXCEPT ![k] = x]), h, k)
  BY DEF ResOk, Found, IsHash
<1> DEFINE res == doHashUpdate(h, k, len, cmd, withcas, c, value)
<1>4. \/ \E ret : \/ res = NotFound(ret, h)
                  \/ res = NotFound(ret, eraseIterator(h, k))
                  \/ \E n : res = Found(ret, doSet(h, k, n))
                  \/ \E x : res = Found(ret, [h EXCEPT ![k] = x])
  <2>1. CASE ~find(h, k)
    BY <2>1 DEF doHashUpdate
  <2>2. CASE find(h, k) /\ isExpired(h[k])
    BY <2>2 DEF doHashUpdate
  <2>3. CASE find(h, k) /\ ~isExpired(h[k]) /\ (withcas \/ c # 0) /\ h[k].cas # c
    BY <2>3 DEF doHashUpdate
  <2>4. CASE find(h, k) /\ ~isExpired(h[k]) /\ ~((withcas \/ c # 0) /\ h[k].cas # c)
    <3>1. CASE cmd = "replace"
      BY <2>4, <3>1 DEF doHashUpdate
    <3>2. CASE cmd \in {"append", "prepend"}
      BY <2>4, <3>2 DEF doHashUpdate
    <3>3. CASE cmd \in {"incr", "decr"} /\ mcIter2num(h[k]) = -1
      BY <2>4, <3>3 DEF doHashUpdate
    <3>4. CASE /\ cmd \notin {"replace", "append", "prepend"}
               /\ ~(cmd \in {"incr", "decr"} /\ mcIter2num(h[k]) = -1)
      BY <2>4, <3>4 DEF doHashUpdate
    <3> QED
      BY <3>1, <3>2, <3>3, <3>4
  <2> QED
    BY <2>1, <2>2, <2>3, <2>4
<1> QED
  BY <1>1, <1>2, <1>3, <1>4, Zenon

(* A change is made as it was meant, or has got no memory. *)
Starved(res, h, k, meant) ==
    /\ meant.iter
    /\ res.iter = FALSE
    /\ res.h = IF meant.ret \in {"append", "prepend"} THEN h ELSE eraseIterator(h, k)
    /\ res.ret = meant.ret \/ (meant.ret = "NONE" /\ res.ret \in RetCodes)

(* What a change may come to. *)
LEMMA AllocatedIs ==
    ASSUME NEW h, NEW k \in Keys, NEW meant, NEW res \in allocated(h, k, meant)
    PROVE  res = meant \/ Starved(res, h, k, meant)
  BY DEF allocated, Starved, NotFound

(* Without memory its key may be gone, all else is as it was. *)
LEMMA AllocatedIsOk ==
    ASSUME NEW h, NEW k \in Keys, NEW meant, NEW res \in allocated(h, k, meant),
           IsHash(h), ResOk(meant, h, k)
    PROVE  ResOk(res, h, k)
<1>1. CASE res = meant
  BY <1>1
<1>2. CASE Starved(res, h, k, meant)
  <2>1. res.iter = FALSE /\ (res.h = h \/ res.h = eraseIterator(h, k))
    BY <1>2 DEF Starved
  <2> QED
    BY <2>1 DEF ResOk, IsHash, eraseIterator
<1> QED
  BY <1>1, <1>2, AllocatedIs

(* The end of a store: the new number is above all others. *)
LEMMA StoreIsOk ==
    ASSUME NEW h, NEW g, NEW k \in Keys, NEW res, NEW item,
           cas \in Nat, HashOk(h, cas), Less(g, h), ResOk(res, g, k),
           IsItem(item), item.cas = cas + 1,
           DataUpdate(k, res, item)
    PROVE  cas' \in Nat /\ HashOk(hash', cas')
<1>1. HashOk(g, cas)
  BY LessIsOk
<1>2. CASE ~res.iter
  <2>1. Less(res.h, g)
    BY <1>2 DEF ResOk, Less
  <2>2. hash' = res.h /\ cas' = cas
    BY <1>2 DEF DataUpdate
  <2> QED
    BY <1>1, <2>1, <2>2, LessIsOk
<1>3. CASE res.iter
  <2>1. hash' = [res.h EXCEPT ![k] = item] /\ cas' = cas + 1
    BY <1>3 DEF DataUpdate
  <2>2. /\ hash' = [j \in Keys |-> hash'[j]]
        /\ hash'[k] = item
        /\ \A j \in Keys : j # k => hash'[j] \in {g[j], NoItem}
    BY <1>3, <2>1 DEF ResOk
  <2>3. NoItem.cas = 0 /\ IsItem(NoItem)
    BY DEF NoItem, IsItem
  <2>4. IsHash(hash')
    BY <1>1, <2>2, <2>3, Zenon DEF HashOk, IsHash
  <2>5. \A j \in Keys : j # k => (hash'[j] = NoItem \/ hash'[j].cas \in 1 .. cas)
    BY <1>1, <2>2 DEF HashOk
  <2>6. \A j \in Keys : hash'[j] # NoItem => hash'[j].cas \in 1 .. cas'
    BY <2>1, <2>2, <2>5
  <2>7. ASSUME NEW i \in Keys, NEW j \in Keys, i # j, hash'[i] # NoItem
        PROVE  hash'[i].cas # hash'[j].cas
    <3>1. CASE i = k
      <4>1. hash'[i].cas = cas + 1
        BY <2>2, <3>1
      <4>2. hash'[j] = NoItem \/ hash'[j].cas \in 1 .. cas
        BY <2>5, <2>7, <3>1
      <4> QED
        BY <4>1, <4>2, <2>3
    <3>2. CASE j = k
      <4>1. hash'[j].cas = cas + 1
        BY <2>2, <3>2
      <4>2. hash'[i].cas \in 1 .. cas
        BY <2>5, <2>7, <3>2
      <4> QED
        BY <4>1, <4>2
    <3>3. CASE i # k /\ j # k
      <4>1. hash'[i] = g[i] /\ hash'[j] \in {g[j], NoItem}
        BY <2>2, <2>7, <3>3
      <4>2. g[i].cas \in 1 .. cas /\ g[i].cas # g[j].cas
        BY <1>1, <2>7, <4>1 DEF HashOk
      <4> QED
        BY <4>1, <4>2, <2>3
    <3> QED
      BY <3>1, <3>2, <3>3
  <2> QED
    BY <2>1, <2>4, <2>6, <2>7 DEF HashOk
<1> QED
  BY <1>2, <1>3 DEF ResOk

(* Moving the deadline of an element keeps its number. *)
LEMMA TouchIsOk ==
    ASSUME NEW h, NEW c, NEW k \in Keys, NEW e, HashOk(h, c), h[k] # NoItem
    PROVE  HashOk([h EXCEPT ![k].exp = e], c)
<1>1. PICK x : x = [val |-> h[k].val, cas |-> h[k].cas, exp |-> e]
  OBVIOUS
<1>2. h[k] = [val |-> h[k].val, cas |-> h[k].cas, exp |-> h[k].exp]
  BY DEF HashOk, IsHash, IsItem
<1>3. [h[k] EXCEPT !.exp = e] = x
  BY <1>1, <1>2
<1>4. PICK g : g = [h EXCEPT ![k] = x]
  OBVIOUS
<1>5. [h EXCEPT ![k].exp = e] = g
  BY <1>3, <1>4 DEF HashOk, IsHash
<1>6. IsItem(x) /\ x.cas = h[k].cas
  BY <1>1 DEF IsItem
<1>7. g = [j \in Keys |-> g[j]] /\ \A j \in Keys : g[j] = IF j = k THEN x ELSE h[j]
  BY <1>4 DEF HashOk, IsHash
<1>8. \A j \in Keys : g[j].cas = h[j].cas /\ IsItem(g[j])
  BY <1>6, <1>7 DEF HashOk, IsHash
<1>9. \A j \in Keys : g[j] # NoItem => h[j] # NoItem
  BY <1>7
<1>10. HashOk(g, c)
  BY <1>7, <1>8, <1>9 DEF HashOk, IsHash
<1> QED
  BY <1>5, <1>10

-----------------------------------------------------------------------------
(* Replies. *)

(* The end of a command keeps the flag a Boolean, and answers as asked when the
   command has set the flag to what it asks, or is one that may not. *)
LEMMA RespondAnswers ==
    ASSUME NEW p \in Procs, NEW r \in Requests, NEW noreply \in BOOLEAN,
           NEW pieces \in 0 .. 2, NEW code, NEW val, NEW c, NEW stat,
           m_noreply \in [Procs -> BOOLEAN],
           Respond(p, r, noreply, pieces, code, val, c, stat),
           ~r.quiet => \/ ~noreply /\ pieces # 0
                       \/ code = "CLOSED"
                       \/ /\ (noreply => m_noreply[p])
                          /\ pieces = 1
                          /\ ~r.bin
                          /\ r.op \in {"delete", "flush", "version", "malformed"},
           r.quiet => \/ noreply /\ pieces = 1
                      \/ code \notin {"STORED", "NUMBER", "DELETED", "TOUCHED", "OK", "SUCCESS"}
                      \/ code = "SUCCESS" /\ r.op \in {"incr", "decr", "gat"}
    PROVE  m_noreply' \in [Procs -> BOOLEAN] /\ Answered'
<1>1. m_noreply' \in [Procs -> BOOLEAN]
  BY DEF Respond
<1>2. /\ out'.req = r /\ out'.code = code
      /\ out'.sent = Sent(noreply, pieces) /\ out'.stale = m_noreply[p]
  BY DEF Respond
<1>3. r.quiet \in BOOLEAN /\ r.bin \in BOOLEAN /\ m_noreply[p] \in BOOLEAN
  BY RequestsAssumption
<1>4. ~noreply /\ pieces # 0 => Sent(noreply, pieces) = "whole"
  BY DEF Sent
<1>5. noreply /\ pieces = 1 => Sent(noreply, pieces) = "nothing"
  BY DEF Sent
<1>6. CASE ~r.quiet
  <2>1. \/ out'.sent = "whole"
        \/ out'.code = "CLOSED"
        \/ /\ out'.stale
           /\ ~r.bin
           /\ r.op \in {"delete", "flush", "version", "malformed"}
    BY <1>2, <1>4, <1>6
  <2> QED
    BY <1>1, <1>2, <1>6, <2>1 DEF Answered
<1>7. CASE r.quiet
  BY <1>1, <1>2, <1>5, <1>7 DEF Answered
<1> QED
  BY <1>6, <1>7, <1>3

(* Commands that only answer. *)
LEMMA KeptHash ==
    ASSUME IInv, Unchanged
    PROVE  cas' \in Nat /\ HashOk(hash', cas')
  BY DEF IInv, Unchanged

(* A key is erased. *)
LEMMA ErasedHash ==
    ASSUME IInv, NEW k \in Keys, hash' = eraseIterator(hash, k), cas' = cas
    PROVE  cas' \in Nat /\ HashOk(hash', cas')
<1>1. IsHash(hash) /\ HashOk(hash, cas) /\ cas \in Nat
  BY DEF IInv, HashOk
<1>2. Less(hash', hash)
  BY <1>1, EraseIsLess
<1> QED
  BY <1>1, <1>2, LessIsOk

(* Everything is erased. *)
LEMMA FlushedHash ==
    ASSUME IInv, hash' = [k \in Keys |-> NoItem], cas' = cas
    PROVE  cas' \in Nat /\ HashOk(hash', cas')
<1>1. Less(hash', hash)
  BY DEF Less
<1> QED
  BY <1>1, LessIsOk DEF IInv

(* dataItemUpdate makes an item with the next number. *)
LEMMA NewItem ==
    ASSUME NEW x, NEW retcode, NEW buf, NEW e
    PROVE  /\ IsItem(dataItemUpdate(x, retcode, buf, e))
           /\ dataItemUpdate(x, retcode, buf, e).cas = cas + 1
<1>1. PICK v, d : dataItemUpdate(x, retcode, buf, e) = [val |-> v, exp |-> d, cas |-> cas + 1]
  BY DEF dataItemUpdate
<1> QED
  BY <1>1 DEF IsItem

(* A process that ends in rebuild leaves fewer elements behind. *)
LEMMA Rebuilt ==
    ASSUME IInv, NEW p \in Procs, NEW m, Less(m.h, hash), rebuild(p, m)
    PROVE  IInv'
<1>1. hash' = m.h /\ cas' = cas /\ m_noreply' = m_noreply /\ out' = out
  BY DEF rebuild
<1>2. HashOk(hash', cas')
  BY <1>1, LessIsOk DEF IInv
<1> QED
  BY <1>1, <1>2 DEF IInv, Answered

(* A new database has no elements, and its counter starts at 0. *)
LEMMA Restarted ==
    ASSUME IInv, childSignaled
    PROVE  IInv'
<1>1. /\ hash' = [k \in Keys |-> NoItem] /\ cas' = 0 /\ out' = out
      /\ m_noreply' \in [Procs -> BOOLEAN]
  BY DEF childSignaled
<1>2. HashOk(hash', cas')
  BY <1>1 DEF HashOk, IsHash, IsItem, NoItem
<1> QED
  BY <1>1, <1>2 DEF IInv, Answered

-----------------------------------------------------------------------------
(* One lemma for each handler. *)

(* set, add, replace, append, prepend and cas of the text protocol. *)
LEMMA CmdUpdate ==
    ASSUME IInv, NEW p \in Procs, NEW r \in Requests, doCmdUpdate(p, r)
    PROVE  IInv'
<1> DEFINE cmd  == IF r.op = "cas" THEN "replace" ELSE r.op
           grow == cmd \in {"append", "prepend"}
           len  == Len(r.val)
           asked == IF grow THEN len ELSE parmAdjLen(len)
<1>1. r.key \in Keys /\ r.quiet \in BOOLEAN
  BY RequestsAssumption
<1> DEFINE meant(m) == CASE cmd = "set" -> Found("DONE", doSet(m.h, r.key, len))
                           [] cmd = "add" -> doHashInsert(m.h, r.key, len)
                           [] OTHER -> doHashUpdate(m.h, r.key, len, cmd,
                                                    r.op = "cas", r.cas, 0)
           item(res) == dataItemUpdate(res.h[r.key], IF grow THEN cmd ELSE "DONE", r.val, r.exp)
<1>2. PICK m \in chkMemSz(hash, r.key, asked, r.op) :
         \/ m.ret = "REBUILD" /\ rebuild(p, m)
         \/ /\ m.ret \in {"E2BIG", "ENOMEM"}
            /\ hash' = m.h
            /\ UNCHANGED cas
            /\ \E code : Respond(p, r, r.quiet, 1, code, <<>>, 0, "none")
         \/ /\ m.ret = "SUCCESS"
            /\ \E res \in allocated(m.h, r.key, meant(m)) :
                 /\ DataUpdate(r.key, res, item(res))
                 /\ \E code, stat : Respond(p, r, r.quiet, 1, code, <<>>, 0, stat)
  BY Zenon DEF doCmdUpdate
<1> HIDE DEF asked, len
<1>3. Less(m.h, hash)
  BY <1>1, <1>2, ChkMemSzIsLess DEF IInv, HashOk
<1>4. HashOk(m.h, cas) /\ IsHash(m.h)
  BY <1>3, LessIsOk DEF IInv, HashOk
<1>5. \A code, stat : Respond(p, r, r.quiet, 1, code, <<>>, 0, stat)
         => m_noreply' \in [Procs -> BOOLEAN] /\ Answered'
  BY <1>1, RespondAnswers DEF IInv
<1>6. CASE m.ret = "REBUILD" /\ rebuild(p, m)
  BY <1>3, <1>6, Rebuilt
<1>7. CASE /\ hash' = m.h
           /\ UNCHANGED cas
           /\ \E code : Respond(p, r, r.quiet, 1, code, <<>>, 0, "none")
  BY <1>4, <1>5, <1>7 DEF IInv
<1>8. ASSUME NEW res \in allocated(m.h, r.key, meant(m)),
             DataUpdate(r.key, res, item(res)),
             \E code, stat : Respond(p, r, r.quiet, 1, code, <<>>, 0, stat)
      PROVE  IInv'
  <2>1. ResOk(meant(m), m.h, r.key)
    <3>1. CASE cmd = "set"
      BY <1>1, <1>4, <3>1, SetIsOk
    <3>2. CASE cmd = "add"
      BY <1>1, <1>4, <3>2, InsertIsOk
    <3>3. CASE cmd # "set" /\ cmd # "add"
      BY <1>1, <1>4, <3>3, UpdateIsOk
    <3> QED
      BY <3>1, <3>2, <3>3
  <2> HIDE DEF meant
  <2>2. ResOk(res, m.h, r.key)
    BY <1>1, <1>4, <2>1, AllocatedIsOk
  <2>3. IsItem(item(res)) /\ item(res).cas = cas + 1
    BY NewItem
  <2> HIDE DEF item
  <2>4. cas' \in Nat /\ HashOk(hash', cas')
    BY <1>1, <1>3, <1>8, <2>2, <2>3, StoreIsOk DEF IInv
  <2> QED
    BY <1>5, <1>8, <2>4 DEF IInv
<1> HIDE DEF meant, item
<1> QED
  BY <1>2, <1>6, <1>7, <1>8

(* The same, refused before its data was stored. *)
LEMMA CmdUpdateNoData ==
    ASSUME IInv, NEW p \in Procs, NEW r \in Requests, doCmdUpdateNoData(p, r)
    PROVE  IInv'
<1>1. r.quiet \in BOOLEAN
  BY RequestsAssumption
<1>2. m_noreply' \in [Procs -> BOOLEAN]
  BY <1>1 DEF doCmdUpdateNoData, IInv
<1>3. hash' = hash /\ cas' = cas /\ out' = out
  BY DEF doCmdUpdateNoData
<1> QED
  BY <1>2, <1>3 DEF IInv, Answered

(* incr and decr. *)
LEMMA CmdArithmetic ==
    ASSUME IInv, NEW p \in Procs, NEW r \in Requests, doCmdArithmetic(p, r)
    PROVE  IInv'
<1> DEFINE meant == doHashUpdate(hash, r.key, 0, r.op, FALSE, 0, r.delta)
           num  == printNum(newNumber(r.op, mcIter2num(hash[r.key]), r.delta))
           item(res) == dataItemUpdate(res.h[r.key], res.ret, num, hash[r.key].exp)
<1>1. r.key \in Keys /\ r.quiet \in BOOLEAN
  BY RequestsAssumption
<1>2. PICK res \in allocated(hash, r.key, meant) :
        /\ DataUpdate(r.key, res, item(res))
        /\ CASE res.iter ->
                  Respond(p, r, r.quiet, 1, "NUMBER", num, 0, hitStat(r.op, TRUE))
             [] ~res.iter /\ res.ret = "NOTFOUND" ->
                  Respond(p, r, r.quiet, 1, "NOT_FOUND", <<>>, 0,
                          hitStat(r.op, FALSE))
             [] OTHER ->
                  Respond(p, r, r.quiet, 1,
                          IF res.ret = "NONNUMERIC" THEN "NON_NUMERIC"
                          ELSE "SERVER_ERROR", <<>>, 0, "none")
  BY Zenon DEF doCmdArithmetic
<1>3. IsHash(hash) /\ Less(hash, hash)
  BY <1>1, EraseIsLess DEF IInv, HashOk
<1>9. ResOk(meant, hash, r.key)
  BY <1>1, <1>3, UpdateIsOk
<1> HIDE DEF meant, num
<1>4. ResOk(res, hash, r.key)
  BY <1>1, <1>2, <1>3, <1>9, AllocatedIsOk
<1>8. IsItem(item(res)) /\ item(res).cas = cas + 1
  BY NewItem
<1> HIDE DEF item
<1>5. PICK code, val, stat : Respond(p, r, r.quiet, 1, code, val, 0, stat)
  <2>2. CASE res.iter
    BY <1>2, <2>2
  <2>3. CASE ~res.iter /\ res.ret = "NOTFOUND"
    BY <1>2, <2>3
  <2>4. CASE ~res.iter /\ res.ret # "NOTFOUND"
    BY <1>2, <2>4
  <2> QED
    BY <2>2, <2>3, <2>4, <1>4 DEF ResOk
<1>6. cas' \in Nat /\ HashOk(hash', cas')
  BY <1>1, <1>2, <1>3, <1>4, <1>8, StoreIsOk DEF IInv
<1>7. m_noreply' \in [Procs -> BOOLEAN] /\ Answered'
  BY <1>1, <1>5, RespondAnswers DEF IInv
<1> QED
  BY <1>6, <1>7 DEF IInv

(* delete. *)
LEMMA CmdDelete ==
    ASSUME IInv, NEW p \in Procs, NEW r \in Requests, doCmdDelete(p, r)
    PROVE  IInv'
<1> DEFINE noreply == IF r.quiet THEN TRUE ELSE m_noreply[p]
<1>1. r.key \in Keys /\ r.quiet \in BOOLEAN /\ noreply \in BOOLEAN
  BY RequestsAssumption DEF IInv
<1>2. hash' = eraseIterator(hash, r.key) /\ cas' = cas /\ ~r.bin /\ r.op = "delete"
  BY DEF doCmdDelete
<1>3. PICK code, stat : Respond(p, r, noreply, 1, code, <<>>, 0, stat)
  BY DEF doCmdDelete
<1>6. IF r.quiet THEN noreply ELSE (noreply => m_noreply[p])
  BY <1>1 DEF IInv
<1> HIDE DEF noreply
<1>4. m_noreply' \in [Procs -> BOOLEAN] /\ Answered'
  BY <1>1, <1>2, <1>3, <1>6, RespondAnswers DEF IInv
<1>5. cas' \in Nat /\ HashOk(hash', cas')
  BY <1>1, <1>2, ErasedHash
<1> QED
  BY <1>4, <1>5 DEF IInv

(* touch. *)
LEMMA CmdTouch ==
    ASSUME IInv, NEW p \in Procs, NEW r \in Requests, doCmdTouch(p, r)
    PROVE  IInv'
<1>1. r.key \in Keys /\ r.quiet \in BOOLEAN
  BY RequestsAssumption
<1>2. /\ cas' = cas
      /\ \/ /\ find(hash, r.key)
            /\ hash' = [hash EXCEPT ![r.key].exp = setItemExptime(r.exp)]
         \/ hash' = eraseIterator(hash, r.key)
  BY DEF doCmdTouch
<1>3. PICK code, stat : Respond(p, r, r.quiet, 1, code, <<>>, 0, stat)
  BY DEF doCmdTouch
<1>4. m_noreply' \in [Procs -> BOOLEAN] /\ Answered'
  BY <1>1, <1>3, RespondAnswers DEF IInv
<1>5. CASE hash' = eraseIterator(hash, r.key)
  BY <1>1, <1>2, <1>4, <1>5, ErasedHash DEF IInv
<1>6. CASE /\ find(hash, r.key)
           /\ hash' = [hash EXCEPT ![r.key].exp = setItemExptime(r.exp)]
  <2>1. HashOk(hash', cas)
    BY <1>1, <1>6, TouchIsOk DEF IInv, find
  <2> QED
    BY <1>2, <1>4, <2>1 DEF IInv
<1> QED
  BY <1>2, <1>5, <1>6

(* One key of a get; the last one ends the answer. *)
LEMMA GetKey ==
    ASSUME IInv, NEW p \in Procs, m_keyList[p] \in Seq(Keys), getKey(p)
    PROVE  IInv'
<1> DEFINE k == Head(m_keyList[p])
<1>1. k \in Keys
  BY DEF getKey
<1>2. /\ cas' = cas /\ m_noreply' = m_noreply
      /\ hash' = hash \/ hash' = eraseIterator(hash, k)
      /\ out'.req.quiet = FALSE /\ out'.sent = "whole"
  BY DEF getKey, GetReq
<1>3. Answered'
  BY <1>2 DEF Answered
<1> HIDE DEF k
<1>4. CASE hash' = hash
  BY <1>2, <1>3, <1>4 DEF IInv
<1>5. CASE hash' = eraseIterator(hash, k)
  BY <1>1, <1>2, <1>3, <1>5, ErasedHash DEF IInv
<1> QED
  BY <1>2, <1>4, <1>5

(* flush_all. *)
LEMMA CmdFlush ==
    ASSUME IInv, NEW p \in Procs, NEW r \in Requests, doCmdFlush(p, r)
    PROVE  IInv'
<1> DEFINE noreply == IF r.quiet THEN TRUE ELSE m_noreply[p]
<1>1. r.quiet \in BOOLEAN /\ noreply \in BOOLEAN
  BY RequestsAssumption DEF IInv
<1>2. /\ hash' = [k \in Keys |-> NoItem] /\ cas' = cas /\ ~r.bin /\ r.op = "flush"
      /\ Respond(p, r, noreply, 1, "OK", <<>>, 0, "flush")
  BY DEF doCmdFlush, clear
<1>4. IF r.quiet THEN noreply ELSE (noreply => m_noreply[p])
  BY <1>1 DEF IInv
<1> HIDE DEF noreply
<1>3. m_noreply' \in [Procs -> BOOLEAN] /\ Answered'
  BY <1>1, <1>2, <1>4, RespondAnswers DEF IInv
<1> QED
  BY <1>2, <1>3, FlushedHash DEF IInv

(* version, verbosity, quit, and what the parser refuses. *)
LEMMA CmdControl ==
    ASSUME IInv, NEW p \in Procs, NEW r \in Requests,
           \/ doCmdVersion(p, r)
           \/ doCmdVerbosity(p, r)
           \/ doCmdQuit(p, r)
           \/ doCmdMalformed(p, r)
    PROVE  IInv'
<1>1. r.quiet \in BOOLEAN /\ m_noreply[p] \in BOOLEAN /\ Unchanged
  BY RequestsAssumption
     DEF IInv, doCmdVersion, doCmdVerbosity, doCmdQuit, doCmdMalformed
<1>2. cas' \in Nat /\ HashOk(hash', cas')
  BY <1>1, KeptHash
<1>3. CASE doCmdVersion(p, r)
  BY <1>1, <1>2, <1>3, RespondAnswers DEF IInv, doCmdVersion
<1>4. CASE doCmdVerbosity(p, r)
  BY <1>1, <1>2, <1>4, RespondAnswers DEF IInv, doCmdVerbosity
<1>5. CASE doCmdQuit(p, r)
  BY <1>1, <1>2, <1>5, RespondAnswers DEF IInv, doCmdQuit
<1>6. CASE doCmdMalformed(p, r)
  <2>1. PICK noreply \in {m_noreply[p], r.quiet, FALSE} :
           Respond(p, r, noreply, 1, "CLIENT_ERROR", <<>>, 0, "none")
    BY <1>6 DEF doCmdMalformed
  <2>2. ~r.bin /\ r.op = "malformed" /\ noreply \in BOOLEAN
    BY <1>1, <1>6, <2>1 DEF doCmdMalformed
  <2>3. ~r.quiet => (noreply => m_noreply[p])
    BY <1>1, <2>1
  <2>4. m_noreply' \in [Procs -> BOOLEAN] /\ Answered'
    BY <1>1, <2>1, <2>2, <2>3, RespondAnswers DEF IInv
  <2> QED
    BY <1>2, <2>4 DEF IInv
<1> QED
  BY <1>3, <1>4, <1>5, <1>6

(* An error is answered in full, whatever the flag. *)
LEMMA BinErrAnswers ==
    ASSUME IInv, NEW p \in Procs, NEW r \in Requests, NEW code, NEW stat,
           binErrRespond(p, r, code, stat), code \notin
           {"STORED", "NUMBER", "DELETED", "TOUCHED", "OK", "SUCCESS"}
    PROVE  m_noreply' \in [Procs -> BOOLEAN] /\ Answered'
<1>4. PICK noreply \in BOOLEAN : noreply = FALSE
  OBVIOUS
<1>5. PICK pieces \in 0 .. 2 : pieces = 2
  OBVIOUS
<1>1. noreply = FALSE /\ pieces = 2
  BY <1>4, <1>5
<1>2. Respond(p, r, noreply, pieces, code, <<>>, 0, stat)
  BY <1>1 DEF binErrRespond
<1>3. m_noreply \in [Procs -> BOOLEAN] /\ ~noreply /\ pieces # 0
  BY <1>1 DEF IInv
<1> QED
  BY <1>2, <1>3, RespondAnswers

(* The updates of the binary protocol. *)
LEMMA BinUpdate ==
    ASSUME IInv, NEW p \in Procs, NEW r \in Requests, doBinUpdate(p, r)
    PROVE  IInv'
<1> DEFINE cmd == binCmd(r)
           len == Len(r.val)
           resOf(m) == CASE cmd = "set" -> Found("DONE", doSet(m.h, r.key, len))
                         [] cmd = "add" -> doHashInsert(m.h, r.key, len)
                         [] OTHER -> doHashUpdate(m.h, r.key, len, cmd, FALSE, r.cas, 0)
           retOf(res) == IF cmd \in {"append", "prepend"} /\ res.ret = "NOTFOUND"
                         THEN "DONE" ELSE res.ret
           stat(res) == casStat(cmd = "replace" /\ r.cas # 0, res.ret)
           item(res) == dataItemUpdate(res.h[r.key], retOf(res), r.val, r.exp)
<1>1. r.key \in Keys /\ r.quiet \in BOOLEAN
  BY RequestsAssumption
<1>2. PICK m \in setupBinCmd(hash, r) :
         \/ m.ret = "REBUILD" /\ rebuild(p, m)
         \/ /\ m.ret \in {"E2BIG", "ENOMEM"}
            /\ hash' = m.h
            /\ UNCHANGED cas
            /\ binErrRespond(p, r, m.ret, "none")
         \/ /\ m.ret = "SUCCESS"
            /\ \E res \in allocated(m.h, r.key, resOf(m)) :
                 /\ DataUpdate(r.key, res, item(res))
                 /\ IF res.iter
                    THEN Respond(p, r, r.quiet, 1, "SUCCESS", <<>>, cas + 1, stat(res))
                    ELSE binErrRespond(p, r, binUpdateStatus(retOf(res)), stat(res))
  BY Zenon DEF doBinUpdate
<1>3. Less(m.h, hash)
  <2> HIDE DEF cmd, len
  <2>1. IsHash(hash) /\ m \in chkMemSz(hash, r.key, Len(r.val), binCmd(r))
    BY <1>2 DEF IInv, HashOk, setupBinCmd
  <2> QED
    BY <1>1, <2>1, ChkMemSzIsLess
<1>4. HashOk(m.h, cas) /\ IsHash(m.h)
  BY <1>3, LessIsOk DEF IInv, HashOk
<1> HIDE DEF cmd, len
<1>5. CASE m.ret = "REBUILD" /\ rebuild(p, m)
  BY <1>3, <1>5, Rebuilt
<1>6. CASE /\ m.ret \in {"E2BIG", "ENOMEM"}
           /\ hash' = m.h
           /\ UNCHANGED cas
           /\ binErrRespond(p, r, m.ret, "none")
  <2>1. m_noreply' \in [Procs -> BOOLEAN] /\ Answered'
    BY <1>6, BinErrAnswers
  <2> QED
    BY <1>4, <1>6, <2>1 DEF IInv
<1>7. ASSUME NEW res \in allocated(m.h, r.key, resOf(m)),
             DataUpdate(r.key, res, item(res)),
             IF res.iter
             THEN Respond(p, r, r.quiet, 1, "SUCCESS", <<>>, cas + 1, stat(res))
             ELSE binErrRespond(p, r, binUpdateStatus(retOf(res)), stat(res))
      PROVE  IInv'
  <2>1. ResOk(resOf(m), m.h, r.key)
    <3>1. CASE cmd = "set"
      BY <1>1, <1>4, <3>1, SetIsOk
    <3>2. CASE cmd = "add"
      BY <1>1, <1>4, <3>2, InsertIsOk
    <3>3. CASE cmd # "set" /\ cmd # "add"
      BY <1>1, <1>4, <3>3, UpdateIsOk
    <3> QED
      BY <3>1, <3>2, <3>3
  <2> HIDE DEF resOf, retOf, stat
  <2>2. ResOk(res, m.h, r.key)
    BY <1>1, <1>4, <2>1, AllocatedIsOk
  <2>3. IsItem(item(res)) /\ item(res).cas = cas + 1
    BY NewItem
  <2> HIDE DEF item
  <2>4. \A ret : binUpdateStatus(ret) \in {"KEYENOENT", "KEYEEXISTS", "NOTSTORED"}
    BY DEF binUpdateStatus
  <2>5. cas' \in Nat /\ HashOk(hash', cas')
    BY <1>1, <1>3, <1>7, <2>2, <2>3, StoreIsOk DEF IInv
  <2>6. m_noreply' \in [Procs -> BOOLEAN] /\ Answered'
    <3>1. CASE res.iter
      BY <1>1, <1>7, <3>1, RespondAnswers DEF IInv
    <3>2. CASE ~res.iter
      BY <1>7, <2>4, <3>2, BinErrAnswers
    <3> QED
      BY <3>1, <3>2
  <2> QED
    BY <2>5, <2>6 DEF IInv
<1> HIDE DEF resOf, retOf, stat, item
<1> QED
  BY <1>2, <1>5, <1>6, <1>7

(* increment and decrement of the binary protocol. *)
LEMMA BinArithmetic ==
    ASSUME IInv, NEW p \in Procs, NEW r \in Requests, doBinArithmetic(p, r)
    PROVE  IInv'
<1> DEFINE meant == doHashUpdate(hash, r.key, 0, r.op, FALSE, r.cas, r.delta)
           num  == printNum(newNumber(r.op, mcIter2num(hash[r.key]), r.delta))
           init == printNum(r.init)
           item(res) == dataItemUpdate(res.h[r.key], "NONE", num, hash[r.key].exp)
           begun(res) == Found("NONE", doSet(res.h, r.key, Len(init)))
           first(made) == dataItemUpdate(made.h[r.key], "NONE", init, r.exp)
           code(res) == CASE res.ret = "NONNUMERIC" -> "DELTABADVAL"
                          [] res.ret = "EEXISTS" -> "KEYEEXISTS"
                          [] OTHER -> "NOTSTORED"
<1>1. r.key \in Keys /\ r.quiet \in BOOLEAN
  BY RequestsAssumption
<1>12. r.op \in {"incr", "decr"}
  BY DEF doBinArithmetic
<1>2. PICK res \in allocated(hash, r.key, meant) :
        \/ /\ res.iter
           /\ DataUpdate(r.key, res, item(res))
           /\ Respond(p, r, r.quiet, 2, "SUCCESS", num, cas + 1, hitStat(r.op, TRUE))
        \/ /\ ~res.iter /\ res.ret = "NOTFOUND" /\ r.init = -1
           /\ DataUpdate(r.key, res, NoItem)
           /\ binErrRespond(p, r, "KEYENOENT", hitStat(r.op, FALSE))
        \/ /\ ~res.iter /\ res.ret = "NOTFOUND" /\ r.init # -1
           /\ \E made \in allocated(res.h, r.key, begun(res)) :
                /\ DataUpdate(r.key, made, first(made))
                /\ IF made.iter
                   THEN Respond(p, r, r.quiet, 2, "SUCCESS", init, cas + 1, "none")
                   ELSE binErrRespond(p, r, "NOTSTORED", "none")
        \/ /\ ~res.iter /\ res.ret # "NOTFOUND"
           /\ DataUpdate(r.key, res, NoItem)
           /\ binErrRespond(p, r, code(res), "none")
  BY Zenon DEF doBinArithmetic
<1> HIDE DEF num, init
<1>3. IsHash(hash) /\ HashOk(hash, cas) /\ Less(hash, hash)
  BY <1>1, EraseIsLess DEF IInv, HashOk
<1>5. ResOk(meant, hash, r.key)
  BY <1>1, <1>3, UpdateIsOk
<1> HIDE DEF meant
<1>4. ResOk(res, hash, r.key)
  BY <1>1, <1>2, <1>3, <1>5, AllocatedIsOk
<1>6. IsItem(item(res)) /\ item(res).cas = cas + 1
  BY NewItem
<1>7. \A made : IsItem(first(made)) /\ first(made).cas = cas + 1
  BY NewItem
<1> HIDE DEF item, first
<1>8. CASE /\ res.iter
           /\ DataUpdate(r.key, res, item(res))
           /\ Respond(p, r, r.quiet, 2, "SUCCESS", num, cas + 1, hitStat(r.op, TRUE))
  <2>2. cas' \in Nat /\ HashOk(hash', cas')
    BY <1>1, <1>3, <1>4, <1>6, <1>8, StoreIsOk DEF IInv
  <2>3. m_noreply' \in [Procs -> BOOLEAN] /\ Answered'
    <3>1. PICK stat : Respond(p, r, r.quiet, 2, "SUCCESS", num, cas + 1, stat)
      BY <1>8, Zenon
    <3> QED
      BY <1>1, <1>12, <3>1, RespondAnswers DEF IInv
  <2> QED
    BY <2>2, <2>3 DEF IInv
<1>9. ASSUME ~res.iter, DataUpdate(r.key, res, NoItem),
             NEW c \in {"KEYENOENT", "DELTABADVAL", "KEYEEXISTS", "NOTSTORED"}, NEW stat,
             binErrRespond(p, r, c, stat)
      PROVE  IInv'
  <2>2. hash' = res.h /\ cas' = cas /\ Less(res.h, hash)
    BY <1>4, <1>9 DEF DataUpdate, ResOk, Less
  <2>3. HashOk(hash', cas')
    BY <1>3, <2>2, LessIsOk
  <2>4. m_noreply' \in [Procs -> BOOLEAN] /\ Answered'
    BY <1>9, BinErrAnswers
  <2> QED
    BY <2>2, <2>3, <2>4 DEF IInv
<1>10. ASSUME ~res.iter, NEW made \in allocated(res.h, r.key, begun(res)),
              DataUpdate(r.key, made, first(made)),
              IF made.iter
              THEN Respond(p, r, r.quiet, 2, "SUCCESS", init, cas + 1, "none")
              ELSE binErrRespond(p, r, "NOTSTORED", "none")
       PROVE  IInv'
  <2>2. Less(res.h, hash)
    BY <1>4, <1>10 DEF ResOk, Less
  <2>3. HashOk(res.h, cas) /\ IsHash(res.h)
    BY <1>3, <2>2, LessIsOk DEF HashOk
  <2>7. ResOk(begun(res), res.h, r.key)
    BY <1>1, <2>3, SetIsOk
  <2> HIDE DEF begun
  <2>4. ResOk(made, res.h, r.key)
    BY <1>1, <2>3, <2>7, AllocatedIsOk
  <2>5. cas' \in Nat /\ HashOk(hash', cas')
    BY <1>1, <1>3, <1>7, <1>10, <2>2, <2>4, StoreIsOk DEF IInv
  <2>6. m_noreply' \in [Procs -> BOOLEAN] /\ Answered'
    <3>1. CASE made.iter
      BY <1>1, <1>12, <1>10, <3>1, RespondAnswers DEF IInv
    <3>2. CASE ~made.iter
      BY <1>10, <3>2, BinErrAnswers
    <3> QED
      BY <3>1, <3>2
  <2> QED
    BY <2>5, <2>6 DEF IInv
<1>11. code(res) \in {"DELTABADVAL", "KEYEEXISTS", "NOTSTORED"}
  OBVIOUS
<1> HIDE DEF begun, code
<1> QED
  BY <1>2, <1>8, <1>9, <1>10, <1>11, Zenon

(* delete of the binary protocol. *)
LEMMA BinDelete ==
    ASSUME IInv, NEW p \in Procs, NEW r \in Requests, doBinDelete(p, r)
    PROVE  IInv'
<1>1. r.key \in Keys /\ r.quiet \in BOOLEAN
  BY RequestsAssumption
<1>2. cas' = cas /\ (hash' = hash \/ hash' = eraseIterator(hash, r.key))
  BY DEF doBinDelete
<1>3. \/ \E code \in {"KEYENOENT", "KEYEEXISTS"} : \E stat : binErrRespond(p, r, code, stat)
      \/ \E stat : Respond(p, r, r.quiet, 1, "SUCCESS", <<>>, 0, stat)
  BY DEF doBinDelete
<1>4. m_noreply' \in [Procs -> BOOLEAN] /\ Answered'
  <2>1. CASE \E code \in {"KEYENOENT", "KEYEEXISTS"} : \E stat : binErrRespond(p, r, code, stat)
    BY <2>1, BinErrAnswers
  <2>2. CASE \E stat : Respond(p, r, r.quiet, 1, "SUCCESS", <<>>, 0, stat)
    BY <1>1, <2>2, RespondAnswers DEF IInv
  <2> QED
    BY <1>3, <2>1, <2>2
<1>5. CASE hash' = hash
  BY <1>2, <1>4, <1>5 DEF IInv
<1>6. CASE hash' = eraseIterator(hash, r.key)
  BY <1>1, <1>2, <1>4, <1>6, ErasedHash DEF IInv
<1> QED
  BY <1>2, <1>5, <1>6

(* get, touch and gat of the binary protocol. *)
LEMMA BinGet ==
    ASSUME IInv, NEW p \in Procs, NEW r \in Requests, doBinGet(p, r)
    PROVE  IInv'
<1> DEFINE noreply == r.quiet /\ r.op = "gat"
<1>1. r.key \in Keys /\ r.quiet \in BOOLEAN /\ r.bin \in BOOLEAN
  BY RequestsAssumption
<1>2. r.quiet => r.op = "gat"
  BY RequestsAssumption DEF doBinGet, QuietBinOps
<1>3. noreply = r.quiet
  BY <1>1, <1>2
<1>4. /\ cas' = cas
      /\ \/ hash' = hash
         \/ hash' = eraseIterator(hash, r.key)
         \/ /\ find(hash, r.key)
            /\ hash' = [hash EXCEPT ![r.key].exp = setItemExptime(r.exp)]
  BY DEF doBinGet
<1>5. \/ \E pieces \in 1 .. 2 : \E val, c, stat :
            Respond(p, r, noreply, pieces, "SUCCESS", val, c, stat)
      \/ \E stat : Respond(p, r, noreply, IF noreply THEN 0 ELSE 2, "KEYENOENT", <<>>, 0, stat)
  <2> DEFINE val == IF r.op = "touch" THEN <<>> ELSE hash[r.key].val
             pieces == IF val = <<>> THEN 1 ELSE 2
  <2>1. CASE find(hash, r.key) /\ ~isExpired(hash[r.key])
    <3>1. Respond(p, r, noreply, pieces, "SUCCESS", val, hash[r.key].cas, hitStat(r.op, TRUE))
      BY <2>1 DEF doBinGet
    <3>2. pieces \in 1 .. 2
      OBVIOUS
    <3> QED
      BY <3>1, <3>2, Zenon
  <2>2. CASE ~(find(hash, r.key) /\ ~isExpired(hash[r.key]))
    <3>1. Respond(p, r, noreply, IF noreply THEN 0 ELSE 2, "KEYENOENT", <<>>, 0,
                  hitStat(r.op, FALSE))
      BY <2>2 DEF doBinGet
    <3> QED
      BY <3>1, Zenon
  <2> QED
    BY <2>1, <2>2
<1>6. m_noreply' \in [Procs -> BOOLEAN] /\ Answered'
  <2>1. CASE \E pieces \in 1 .. 2 : \E val, c, stat :
               Respond(p, r, r.quiet, pieces, "SUCCESS", val, c, stat)
    <3>1. PICK pieces \in 1 .. 2 : \E val, c, stat :
               Respond(p, r, r.quiet, pieces, "SUCCESS", val, c, stat)
      BY <2>1
    <3>2. pieces \in 0 .. 2 /\ pieces # 0
      OBVIOUS
    <3> QED
      BY <1>1, <1>2, <3>1, <3>2, RespondAnswers DEF IInv
  <2>2. CASE \E stat : Respond(p, r, r.quiet, IF r.quiet THEN 0 ELSE 2, "KEYENOENT", <<>>, 0, stat)
    <3>1. PICK pieces \in 0 .. 2 : pieces = IF r.quiet THEN 0 ELSE 2
      OBVIOUS
    <3>2. PICK stat : Respond(p, r, r.quiet, pieces, "KEYENOENT", <<>>, 0, stat)
      BY <2>2, <3>1
    <3>3. ~r.quiet => pieces # 0
      BY <3>1
    <3> QED
      BY <1>1, <3>2, <3>3, RespondAnswers DEF IInv
  <2> QED
    BY <1>3, <1>5, <2>1, <2>2
<1>7. CASE hash' = hash
  BY <1>4, <1>6, <1>7 DEF IInv
<1>8. CASE hash' = eraseIterator(hash, r.key)
  BY <1>1, <1>4, <1>6, <1>8, ErasedHash DEF IInv
<1>9. CASE /\ find(hash, r.key)
           /\ hash' = [hash EXCEPT ![r.key].exp = setItemExptime(r.exp)]
  <2>1. HashOk(hash', cas)
    BY <1>1, <1>9, TouchIsOk DEF IInv, find
  <2> QED
    BY <1>4, <1>6, <2>1 DEF IInv
<1> QED
  BY <1>4, <1>7, <1>8, <1>9

(* flush, version, quit and no-op of the binary protocol, and a refused packet. *)
LEMMA BinControl ==
    ASSUME IInv, NEW p \in Procs, NEW r \in Requests,
           \/ doBinFlush(p, r)
           \/ doBinVersion(p, r)
           \/ doBinControl(p, r)
           \/ doBinMalformed(p, r)
    PROVE  IInv'
<1>1. r.quiet \in BOOLEAN /\ r.bin \in BOOLEAN
  BY RequestsAssumption
<1>2. CASE doBinFlush(p, r)
  <2>1. /\ hash' = [k \in Keys |-> NoItem] /\ cas' = cas
        /\ Respond(p, r, r.quiet, 1, "SUCCESS", <<>>, 0, "flush")
    BY <1>2 DEF doBinFlush, clear
  <2>2. m_noreply' \in [Procs -> BOOLEAN] /\ Answered'
    BY <1>1, <2>1, RespondAnswers DEF IInv
  <2> QED
    BY <2>1, <2>2, FlushedHash DEF IInv
<1>3. CASE doBinVersion(p, r)
  <2>1. Unchanged /\ Respond(p, r, r.quiet, 2, "SUCCESS", <<>>, 0, "none") /\ ~r.quiet
    BY <1>1, <1>3, RequestsAssumption DEF doBinVersion, QuietBinOps
  <2>2. m_noreply' \in [Procs -> BOOLEAN] /\ Answered'
    BY <1>1, <2>1, RespondAnswers DEF IInv
  <2> QED
    BY <2>1, <2>2, KeptHash DEF IInv
<1>4. CASE doBinControl(p, r)
  <2>1. Unchanged /\ Respond(p, r, r.quiet, 1, "SUCCESS", <<>>, 0, "none")
    BY <1>4 DEF doBinControl
  <2>2. m_noreply' \in [Procs -> BOOLEAN] /\ Answered'
    BY <1>1, <2>1, RespondAnswers DEF IInv
  <2> QED
    BY <2>1, <2>2, KeptHash DEF IInv
<1>5. CASE doBinMalformed(p, r)
  <2>1. Unchanged /\ binErrRespond(p, r, "EINVAL", "none")
    BY <1>5 DEF doBinMalformed
  <2>2. m_noreply' \in [Procs -> BOOLEAN] /\ Answered'
    BY <2>1, BinErrAnswers
  <2> QED
    BY <2>1, <2>2, KeptHash DEF IInv
<1> QED
  BY <1>2, <1>3, <1>4, <1>5

-----------------------------------------------------------------------------
(* What a get has still to look up are keys. *)
ListsOk == m_keyList \in [Procs -> Seq(Keys)]

(* The keys of a get are a list of keys. *)
LEMMA KeyListsAreSeqs ==
    ASSUME NEW ks \in KeyLists
    PROVE  ks \in Seq(Keys)
<1>1. CASE \E k \in Keys : ks = << k >>
  BY <1>1
<1>2. CASE ks \in Keys \X Keys
  <2>1. PICK i \in Keys, j \in Keys : ks = << i, j >>
    BY <1>2
  <2> QED
    BY <2>1
<1> QED
  BY <1>1, <1>2 DEF KeyLists

(* The keys that a get has left stay a list of keys. *)
LEMMA ListsStep ==
    ASSUME ListsOk, [Next]_vars
    PROVE  ListsOk'
<1>1. CASE \E p \in Procs : \E ks \in KeyLists : doCmdGet(p, ks)
  BY <1>1, KeyListsAreSeqs DEF ListsOk, doCmdGet
<1>2. CASE \E p \in Procs : getKey(p)
  BY <1>2 DEF ListsOk, getKey
<1>3. CASE m_keyList' = m_keyList
  BY <1>3 DEF ListsOk
<1> QED
  <2>1. CASE Tick \/ vars' = vars
    BY <2>1, <1>3 DEF Tick, vars
  <2>8. CASE childSignaled
    <3>1. m_keyList' = [p \in Procs |-> <<>>] /\ <<>> \in Seq(Keys)
      BY <2>8 DEF childSignaled
    <3> QED
      BY <3>1 DEF ListsOk
  <2>2. \A p, r, noreply, pieces, code, val, c, stat :
           Respond(p, r, noreply, pieces, code, val, c, stat) => m_keyList' = m_keyList
    BY Zenon DEF Respond
  <2>3. \A p, r, code, stat : binErrRespond(p, r, code, stat) => m_keyList' = m_keyList
    BY <2>2, Zenon DEF binErrRespond
  <2>7. \A p, m : rebuild(p, m) => m_keyList' = m_keyList
    BY Zenon DEF rebuild
  <2>4. ASSUME NEW p \in Procs, NEW r \in Requests,
               \/ doCmdUpdate(p, r) \/ doCmdUpdateNoData(p, r) \/ doCmdArithmetic(p, r)
               \/ doCmdDelete(p, r) \/ doCmdTouch(p, r) \/ doCmdFlush(p, r)
        PROVE  m_keyList' = m_keyList
    <3>1. CASE doCmdUpdate(p, r)
      BY <3>1, <2>2, <2>7, Zenon DEF doCmdUpdate
    <3>2. CASE doCmdUpdateNoData(p, r)
      BY <3>2 DEF doCmdUpdateNoData
    <3>3. CASE doCmdArithmetic(p, r)
      BY <3>3, <2>2, Zenon DEF doCmdArithmetic
    <3>4. CASE doCmdDelete(p, r) \/ doCmdTouch(p, r) \/ doCmdFlush(p, r)
      BY <3>4, <2>2, Zenon DEF doCmdDelete, doCmdTouch, doCmdFlush
    <3> QED
      BY <2>4, <3>1, <3>2, <3>3, <3>4
  <2>5. ASSUME NEW p \in Procs, NEW r \in Requests,
               \/ doCmdVersion(p, r) \/ doCmdVerbosity(p, r) \/ doCmdQuit(p, r)
               \/ doCmdMalformed(p, r) \/ doBinFlush(p, r) \/ doBinVersion(p, r)
               \/ doBinControl(p, r) \/ doBinMalformed(p, r)
        PROVE  m_keyList' = m_keyList
    BY <2>5, <2>2, <2>3, Zenon
       DEF doCmdVersion, doCmdVerbosity, doCmdQuit, doCmdMalformed, 
       doBinFlush, doBinVersion, doBinControl, doBinMalformed
  <2>6. ASSUME NEW p \in Procs, NEW r \in Requests,
               \/ doBinUpdate(p, r) \/ doBinArithmetic(p, r) \/ doBinDelete(p, r)
               \/ doBinGet(p, r)
        PROVE  m_keyList' = m_keyList
    <3>1. CASE doBinUpdate(p, r)
      BY <3>1, <2>2, <2>3, <2>7, Zenon DEF doBinUpdate
    <3>2. CASE doBinArithmetic(p, r)
      BY <3>2, <2>2, <2>3, Zenon DEF doBinArithmetic
    <3>3. CASE doBinDelete(p, r) \/ doBinGet(p, r)
      BY <3>3, <2>2, <2>3, Zenon DEF doBinDelete, doBinGet
    <3> QED
      BY <2>6, <3>1, <3>2, <3>3
  <2> QED
    BY <1>1, <1>2, <1>3, <2>1, <2>4, <2>5, <2>6, <2>8 DEF Next

(* The start. *)
LEMMA InitOk == Init => IInv /\ ListsOk
<1> SUFFICES ASSUME Init
             PROVE  IInv /\ ListsOk
  OBVIOUS
<1>1. ListsOk /\ m_noreply \in [Procs -> BOOLEAN] /\ cas \in Nat
  BY DEF Init, ListsOk
<1>2. HashOk(hash, cas)
  BY DEF Init, HashOk, IsHash, IsItem, NoItem
<1>3. out.req.quiet = FALSE /\ out.sent = "whole"
  BY DEF Init, NoReq, GetReq
<1>4. Answered
  BY <1>3 DEF Answered
<1> QED
  BY <1>1, <1>2, <1>4 DEF IInv

(* Every step. *)
LEMMA StepOk ==
    ASSUME IInv, ListsOk, [Next]_vars
    PROVE  IInv'
<1>1. CASE Tick \/ vars' = vars
  BY <1>1 DEF Tick, vars, IInv, Answered
<1>7. CASE childSignaled
  BY <1>7, Restarted
<1>2. ASSUME NEW p \in Procs, NEW ks \in KeyLists, doCmdGet(p, ks)
      PROVE  IInv'
  BY <1>2 DEF doCmdGet, IInv, Answered
<1>3. ASSUME NEW p \in Procs, getKey(p)
      PROVE  IInv'
  BY <1>3, GetKey DEF ListsOk
<1>4. ASSUME NEW p \in Procs, NEW r \in Requests,
             \/ doCmdUpdate(p, r) \/ doCmdUpdateNoData(p, r) \/ doCmdArithmetic(p, r)
             \/ doCmdDelete(p, r) \/ doCmdTouch(p, r) \/ doCmdFlush(p, r)
      PROVE  IInv'
  BY <1>4, CmdUpdate, CmdUpdateNoData, CmdArithmetic, CmdDelete, CmdTouch, CmdFlush
<1>5. ASSUME NEW p \in Procs, NEW r \in Requests,
             \/ doCmdVersion(p, r) \/ doCmdVerbosity(p, r) \/ doCmdQuit(p, r)
             \/ doCmdMalformed(p, r) \/ doBinFlush(p, r) \/ doBinVersion(p, r)
             \/ doBinControl(p, r) \/ doBinMalformed(p, r)
      PROVE  IInv'
  BY <1>5, CmdControl, BinControl
<1>6. ASSUME NEW p \in Procs, NEW r \in Requests,
             \/ doBinUpdate(p, r) \/ doBinArithmetic(p, r) \/ doBinDelete(p, r)
             \/ doBinGet(p, r)
      PROVE  IInv'
  BY <1>6, BinUpdate, BinArithmetic, BinDelete, BinGet
<1> QED
  BY <1>1, <1>2, <1>3, <1>4, <1>5, <1>6, <1>7 DEF Next

-----------------------------------------------------------------------------
(* For any keys, processes and requests, whatever is evicted, expires or is
   refused, no two elements of a slice ever carry the same cas number. *)
THEOREM CasIsUnique == Spec => []CasUnique
<1>1. IInv => CasUnique
  BY DEF IInv, HashOk, CasUnique, Present
<1> QED
  BY InitOk, StepOk, ListsStep, <1>1, PTL DEF Spec

(* For any requests the parsers can make, a command is answered as it asks,
   but for the handlers that answer with the flag an earlier command left. *)
THEOREM CommandsAreAnswered == Spec => []Answered
<1>1. IInv => Answered
  BY DEF IInv
<1> QED
  BY InitOk, StepOk, ListsStep, <1>1, PTL DEF Spec

-----------------------------------------------------------------------------
(* The refinement.  The abstract store is what can be seen of the hash now. *)

(* What can be seen of the hash h at time t. *)
VisAt(h, t) == [k \in Keys |-> IF h[k].exp # 0 /\ h[k].exp <= t THEN NoItem ELSE h[k]]

(* An element that a command finds. *)
Alive(h, k) == find(h, k) /\ ~isExpired(h[k])

(* Deadlines are points in time, never distances; values are what a client has
   sent or what printNum has made. *)
ItemOk(x) ==
    /\ x.val \in Seq(Chars)
    /\ x.exp \in Nat
    /\ x.exp = 0 \/ x.exp > MaxDelta

ItemsOk(h) == \A k \in Keys : ItemOk(h[k])

(* A key is seen as missing just when no command finds it. *)
LEMMA VisAlive ==
    ASSUME NEW h, NEW k \in Keys
    PROVE  /\ Alive(h, k) => VisAt(h, now)[k] = h[k] /\ h[k] # NoItem
           /\ ~Alive(h, k) => VisAt(h, now)[k] = NoItem
  BY DEF VisAt, Alive, isExpired, find, NoItem

(* Erasing a key; one that no command finds is not missed. *)
LEMMA VisErase ==
    ASSUME NEW h, NEW k \in Keys, IsHash(h)
    PROVE  /\ VisAt(eraseIterator(h, k), now) = [VisAt(h, now) EXCEPT ![k] = NoItem]
           /\ ~Alive(h, k) => VisAt(eraseIterator(h, k), now) = VisAt(h, now)
<1> DEFINE g == eraseIterator(h, k)
<1>1. \A j \in Keys : g[j] = IF j = k THEN NoItem ELSE h[j]
  BY DEF IsHash, eraseIterator
<1>2. VisAt(g, now) = [VisAt(h, now) EXCEPT ![k] = NoItem]
  BY <1>1 DEF VisAt, NoItem
<1>3. ASSUME ~Alive(h, k)
      PROVE  VisAt(g, now) = VisAt(h, now)
  <2>1. VisAt(h, now)[k] = NoItem
    BY <1>3, VisAlive
  <2>2. \A s : s = [j \in Keys |-> s[j]] /\ s[k] = NoItem => [s EXCEPT ![k] = NoItem] = s
    OBVIOUS
  <2>3. VisAt(h, now) = [j \in Keys |-> VisAt(h, now)[j]]
    BY DEF VisAt
  <2> QED
    BY <1>2, <2>1, <2>2, <2>3
<1> QED
  BY <1>2, <1>3

(* Evicting some keys. *)
LEMMA VisTrim ==
    ASSUME NEW h, NEW S, NEW g, g = [j \in Keys |-> IF j \in S THEN NoItem ELSE h[j]]
    PROVE  VisAt(g, now) = [j \in Keys |-> IF j \in S THEN NoItem ELSE VisAt(h, now)[j]]
  BY DEF VisAt, NoItem

(* Room made at either end of a value and then filled. *)
LEMMA GrowEnds ==
    ASSUME NEW v \in Seq(Chars), NEW n \in Nat, NEW w, w = Raw(n).val
    PROVE  /\ Len(v \o w) = Len(v) + n /\ Len(w \o v) = Len(v) + n
           /\ SubSeq(v \o w, 1, Len(v)) = v
           /\ SubSeq(w \o v, n + 1, Len(v) + n) = v
<1>1. w \in Seq({"?"}) /\ Len(w) = n
  BY DEF Raw
<1>2. v \o w \in Seq(Chars \cup {"?"}) /\ w \o v \in Seq(Chars \cup {"?"})
  BY <1>1
<1>3. Len(v \o w) = Len(v) + n /\ Len(w \o v) = Len(v) + n
  BY <1>1
<1>4. SubSeq(v \o w, 1, Len(v)) = v
  BY <1>1, <1>2
<1>5. SubSeq(w \o v, n + 1, Len(v) + n) = v
  BY <1>1, <1>2
<1> QED
  BY <1>3, <1>4, <1>5

(* A store as both protocols make it: the command that doHashUpdate is given,
   and what it finds in the hash g that is left after making room. *)
CmdOf(r) == IF Slice!Op(r) = "cas" THEN "replace" ELSE Slice!Op(r)

Change(g, r) ==
    CASE CmdOf(r) = "set" -> Found("DONE", doSet(g, r.key, Len(r.val)))
      [] CmdOf(r) = "add" -> doHashInsert(g, r.key, Len(r.val))
      [] OTHER -> doHashUpdate(g, r.key, Len(r.val), CmdOf(r), r.op = "cas", r.cas, 0)

RetOf(r) == IF CmdOf(r) \in {"append", "prepend"} THEN CmdOf(r) ELSE "DONE"

(* The element is made as the abstract store says. *)
Makes(res, g, r) ==
    /\ res.iter = TRUE
    /\ res.ret = RetOf(r)
    /\ res.h = [j \in Keys |-> res.h[j]]
    /\ \A j \in Keys : j # r.key => res.h[j] = g[j]
    /\ dataItemUpdate(res.h[r.key], RetOf(r), r.val, r.exp)
          = Slice!Stored(r, VisAt(g, now)[r.key])
    /\ ItemOk(Slice!Stored(r, VisAt(g, now)[r.key]))

(* Nothing that can be seen changes. *)
Refuses(res, g, ret) ==
    /\ res.iter = FALSE
    /\ res.ret = ret
    /\ IsHash(res.h) /\ ItemsOk(res.h)
    /\ VisAt(res.h, now) = VisAt(g, now)

(* The clock is past every distance in time. *)
TimeOk == now \in Nat /\ now > MaxDelta

(* The fields of a request, and which command a store becomes. *)
LEMMA OpIs ==
    ASSUME NEW r \in Requests
    PROVE  /\ r.key \in Keys /\ r.val \in Seq(Chars) /\ r.exp \in Nat /\ r.cas \in Nat
           /\ Slice!Op(r) = "cas" <=> r.op = "cas"
           /\ (r.op # "cas" /\ CmdOf(r) = "replace") => Slice!Op(r) = "replace"
<1>1. r.key \in Keys /\ r.val \in Seq(Chars) /\ r.exp \in Nat /\ r.cas \in Nat
  BY RequestsAssumption, FieldsAssumption
<1> QED
  BY <1>1 DEF Slice!Op, CmdOf

(* setItemExptime makes the deadline that the abstract store asks for. *)
LEMMA ExptimeIs ==
    ASSUME TimeOk, NEW e \in Nat
    PROVE  /\ setItemExptime(e) = Slice!Deadline(e)
           /\ setItemExptime(e) \in Nat
           /\ setItemExptime(e) = 0 \/ setItemExptime(e) > MaxDelta
  BY SizesAssumption DEF TimeOk, setItemExptime, Slice!Deadline

(* set, add of a missing key, replace and cas: the value is the request's. *)
LEMMA MakesNew ==
    ASSUME TimeOk, NEW g, NEW r \in Requests, IsHash(g),
           Slice!Op(r) \notin {"append", "prepend"}
    PROVE  Makes(Found("DONE", doSet(g, r.key, Len(r.val))), g, r)
<1>1. r.key \in Keys /\ r.val \in Seq(Chars) /\ r.exp \in Nat
  BY OpIs
<1>2. RetOf(r) = "DONE"
  BY DEF RetOf, CmdOf
<1> DEFINE res == Found("DONE", doSet(g, r.key, Len(r.val)))
           x   == [val |-> r.val, exp |-> setItemExptime(r.exp), cas |-> cas + 1]
<1>3. res.iter = TRUE /\ res.ret = "DONE" /\ res.h = [g EXCEPT ![r.key] = Raw(Len(r.val))]
  BY DEF Found, doSet
<1>4. /\ res.h = [j \in Keys |-> res.h[j]]
      /\ \A j \in Keys : j # r.key => res.h[j] = g[j]
  BY <1>3 DEF IsHash
<1>5. \A y : dataItemUpdate(y, "DONE", r.val, r.exp) = x
  BY DEF dataItemUpdate
<1>6. \A y : Slice!Stored(r, y) = x
  BY <1>1, ExptimeIs DEF Slice!Stored
<1>7. ItemOk(x)
  BY <1>1, ExptimeIs DEF ItemOk
<1> HIDE DEF res, x
<1>8. Makes(res, g, r)
  BY <1>2, <1>3, <1>4, <1>5, <1>6, <1>7 DEF Makes
<1> QED
  BY <1>8 DEF res

(* append and prepend: room is made at one end of the old value and filled. *)
LEMMA MakesGrown ==
    ASSUME TimeOk, NEW g, NEW r \in Requests, IsHash(g), ItemsOk(g), Alive(g, r.key),
           Slice!Op(r) \in {"append", "prepend"}
    PROVE  Makes(Found(CmdOf(r), [g EXCEPT ![r.key] =
                    growValue(@, Len(r.val), CmdOf(r) = "prepend")]), g, r)
<1>1. r.key \in Keys /\ r.val \in Seq(Chars) /\ r.exp \in Nat
  BY OpIs
<1>2. RetOf(r) = CmdOf(r) /\ CmdOf(r) = Slice!Op(r)
  BY DEF RetOf, CmdOf
<1> DEFINE old == g[r.key]
           w   == Raw(Len(r.val)).val
           n   == Len(r.val)
           y   == growValue(old, n, CmdOf(r) = "prepend")
           res == Found(CmdOf(r), [g EXCEPT ![r.key] = y])
           x   == [val |-> IF CmdOf(r) = "append" THEN old.val \o r.val ELSE r.val \o old.val, 
                   exp |-> old.exp, cas |-> cas + 1]
<1>3. old.val \in Seq(Chars) /\ ItemOk(old) /\ IsItem(old) /\ n \in Nat
  BY <1>1 DEF ItemsOk, ItemOk, IsHash
<1>4. VisAt(g, now)[r.key] = old
  BY <1>1, VisAlive
<1>5. Slice!Stored(r, old) = x
  BY <1>2 DEF Slice!Stored
<1>6. ItemOk(x)
  BY <1>1, <1>3 DEF ItemOk
<1>7. /\ Len(old.val \o w) = Len(old.val) + n /\ Len(w \o old.val) = Len(old.val) + n
      /\ SubSeq(old.val \o w, 1, Len(old.val)) = old.val
      /\ SubSeq(w \o old.val, n + 1, Len(old.val) + n) = old.val
  BY <1>3, GrowEnds
<1>8. Len(old.val) \in Nat /\ n \in Nat
  BY <1>3
<1> HIDE DEF old, n, w
<1>9. /\ y.val = IF CmdOf(r) = "prepend" THEN w \o old.val ELSE old.val \o w
      /\ y.exp = old.exp
  BY <1>3 DEF growValue, IsItem, w, n
<1> HIDE DEF y
<1>10. y.val = old.val \o w => Len(y.val) - n = Len(old.val)
  <2>1. \A a, b \in Nat : (a + b) - b = a
    OBVIOUS
  <2> QED
    BY <1>7, <1>8, <2>1, Zenon
<1>11. dataItemUpdate(y, CmdOf(r), r.val, r.exp) = x
  <2>1. CASE CmdOf(r) = "append"
    <3>1. SubSeq(y.val, 1, Len(y.val) - n) = old.val
      BY <2>1, <1>7, <1>9, <1>10
    <3> QED
      BY <2>1, <3>1, <1>9 DEF dataItemUpdate, n
  <2>2. CASE CmdOf(r) = "prepend"
    <3>1. SubSeq(y.val, n + 1, Len(y.val)) = old.val
      BY <2>2, <1>7, <1>9
    <3> QED
      BY <2>2, <3>1, <1>9 DEF dataItemUpdate, n
  <2> QED
    BY <1>2, <2>1, <2>2
<1>12. /\ res.iter = TRUE /\ res.ret = CmdOf(r)
       /\ res.h = [j \in Keys |-> res.h[j]] /\ res.h[r.key] = y
       /\ \A j \in Keys : j # r.key => res.h[j] = g[j]
  BY <1>1 DEF IsHash, Found
<1> HIDE DEF x
<1>13. Makes(res, g, r)
  BY <1>2, <1>4, <1>5, <1>6, <1>11, <1>12 DEF Makes
<1> QED
  BY <1>1, <1>13 DEF res, y, old, n, IsHash

(* The store insists on a cas number. *)
Insists(r) == Slice!Op(r) = "cas" \/ (Slice!Op(r) = "replace" /\ r.cas # 0)

TextCode(r, ret) ==
    CASE r.op = "cas" /\ ret = "NOTFOUND" -> "NOT_FOUND"
      [] r.op = "cas" /\ ret = "EEXISTS"  -> "EXISTS"
      [] OTHER                            -> "NOT_STORED"

BinCode(r, ret) ==
    binUpdateStatus(IF CmdOf(r) \in {"append", "prepend"} /\ ret = "NOTFOUND"
                    THEN "DONE" ELSE ret)

(* What the handler answers is what the abstract store answers. *)
Agrees(r, item, ret) ==
    /\ ret \in {"NOTFOUND", "EEXISTS"}
    /\ Slice!Refusal(r, item) = IF r.bin THEN BinCode(r, ret) ELSE TextCode(r, ret)
    /\ Slice!Refusal(r, item) # ""
    /\ Slice!CasStat(r, item) = casStat(Insists(r), ret)

Outcome(res, g, r) ==
    LET item == VisAt(g, now)[r.key]
    IN  \/ /\ Slice!Refusal(r, item) = ""
           /\ Slice!CasStat(r, item) = casStat(Insists(r), RetOf(r))
           /\ Makes(res, g, r)
        \/ \E ret : Agrees(r, item, ret) /\ Refuses(res, g, ret)

(* The command finds nothing. *)
LEMMA MissAgrees ==
    ASSUME NEW r \in Requests, Slice!Op(r) \in {"replace", "cas", "append", "prepend"}
    PROVE  Agrees(r, NoItem, "NOTFOUND")
<1>1. NoItem = Slice!None
  BY DEF NoItem, Slice!None
<1>2. Slice!Op(r) = "cas" <=> r.op = "cas"
  BY OpIs
<1>3. Slice!Refusal(r, NoItem) = IF r.bin THEN BinCode(r, "NOTFOUND") ELSE TextCode(r, "NOTFOUND")
  BY <1>1, <1>2 DEF Slice!Refusal, Slice!Code, BinCode, TextCode, CmdOf, binUpdateStatus
<1>4. Slice!Refusal(r, NoItem) # ""
  BY <1>1 DEF Slice!Refusal, Slice!Code
<1>5. Slice!CasStat(r, NoItem) = casStat(Insists(r), "NOTFOUND")
  <2>1. CASE Insists(r)
    BY <1>1, <2>1 DEF Slice!CasStat, casStat, Insists
  <2>2. CASE ~Insists(r)
    BY <1>1, <2>2 DEF Slice!CasStat, casStat, Insists
  <2> QED
    BY <2>1, <2>2
<1> QED
  BY <1>3, <1>4, <1>5 DEF Agrees

(* The command finds an element with another cas number. *)
LEMMA CasDisagrees ==
    ASSUME NEW r \in Requests, Slice!Op(r) \in {"replace", "cas", "append", "prepend"},
           NEW item, item # NoItem, (r.op = "cas" \/ r.cas # 0), item.cas # r.cas
    PROVE  Agrees(r, item, "EEXISTS")
<1>1. NoItem = Slice!None
  BY DEF NoItem, Slice!None
<1>2. Slice!Op(r) = "cas" <=> r.op = "cas"
  BY OpIs
<1>3. ~r.bin => r.op = "cas"
  BY FieldsAssumption
<1>6. ~Slice!CasAgrees(r, item)
  BY DEF Slice!CasAgrees
<1>4. Slice!Refusal(r, item) = IF r.bin THEN "KEYEEXISTS" ELSE "EXISTS"
  BY <1>1, <1>2, <1>6 DEF Slice!Refusal, Slice!Code
<1>5. Slice!CasStat(r, item) = casStat(Insists(r), "EEXISTS")
  <2>1. CASE Insists(r)
    BY <1>1, <1>6, <2>1 DEF Slice!CasStat, casStat, Insists
  <2>2. CASE ~Insists(r)
    BY <1>1, <2>2 DEF Slice!CasStat, casStat, Insists
  <2> QED
    BY <2>1, <2>2
<1>7. (IF r.bin THEN BinCode(r, "EEXISTS") ELSE TextCode(r, "EEXISTS"))
        = IF r.bin THEN "KEYEEXISTS" ELSE "EXISTS"
  BY <1>3 DEF BinCode, TextCode, binUpdateStatus
<1> QED
  BY <1>4, <1>5, <1>7 DEF Agrees

(* add finds an element. *)
LEMMA AddAgrees ==
    ASSUME NEW r \in Requests, Slice!Op(r) = "add", NEW item, item # NoItem
    PROVE  Agrees(r, item, "EEXISTS")
<1>1. NoItem = Slice!None
  BY DEF NoItem, Slice!None
<1>2. r.op # "cas"
  BY OpIs
<1>4. Slice!Refusal(r, item) = IF r.bin THEN "KEYEEXISTS" ELSE "NOT_STORED"
  BY <1>1 DEF Slice!Refusal, Slice!Code
<1>5. Slice!CasStat(r, item) = casStat(Insists(r), "EEXISTS")
  BY DEF Slice!CasStat, casStat, Insists
<1>7. (IF r.bin THEN BinCode(r, "EEXISTS") ELSE TextCode(r, "EEXISTS"))
        = IF r.bin THEN "KEYEEXISTS" ELSE "NOT_STORED"
  BY <1>2 DEF BinCode, TextCode, binUpdateStatus
<1> QED
  BY <1>4, <1>5, <1>7 DEF Agrees

(* Nothing stands against the store. *)
LEMMA NoRefusal ==
    ASSUME NEW r \in Requests, Slice!Op(r) \in Slice!StoreOps, NEW item,
           Slice!Op(r) \notin {"set", "add"} =>
              item # NoItem /\ ~((r.op = "cas" \/ r.cas # 0) /\ item.cas # r.cas),
           Slice!Op(r) = "add" => item = NoItem
    PROVE  /\ Slice!Refusal(r, item) = ""
           /\ Slice!CasStat(r, item) = casStat(Insists(r), RetOf(r))
<1>1. NoItem = Slice!None
  BY DEF NoItem, Slice!None
<1>2. Slice!Op(r) \notin {"set", "add"} => Slice!CasAgrees(r, item)
  BY DEF Slice!CasAgrees
<1>3. Slice!Refusal(r, item) = ""
  BY <1>1, <1>2 DEF Slice!Refusal, Slice!StoreOps
<1>4. Slice!CasStat(r, item) = casStat(Insists(r), RetOf(r))
  <2>1. CASE Insists(r)
    BY <1>1, <1>2, <2>1 DEF Slice!CasStat, casStat, Insists, RetOf, CmdOf
  <2>2. CASE ~Insists(r)
    BY <1>1, <2>2 DEF Slice!CasStat, casStat, Insists
  <2> QED
    BY <2>1, <2>2
<1> QED
  BY <1>3, <1>4

(* A change that is refused leaves everything as it is seen. *)
LEMMA RefusedIs ==
    ASSUME NEW g, NEW k \in Keys, IsHash(g), ItemsOk(g)
    PROVE  /\ \A ret : Refuses(NotFound(ret, g), g, ret)
           /\ ~Alive(g, k) => \A ret : Refuses(NotFound(ret, eraseIterator(g, k)), g, ret)
<1>1. \A ret, h : /\ NotFound(ret, h).iter = FALSE
                  /\ NotFound(ret, h).ret = ret /\ NotFound(ret, h).h = h
  BY DEF NotFound
<1>2. \A ret : Refuses(NotFound(ret, g), g, ret)
  BY <1>1 DEF Refuses
<1>3. ASSUME ~Alive(g, k)
      PROVE  \A ret : Refuses(NotFound(ret, eraseIterator(g, k)), g, ret)
  <2>1. VisAt(eraseIterator(g, k), now) = VisAt(g, now)
    BY <1>3, VisErase
  <2>2. ItemOk(NoItem) /\ IsItem(NoItem)
    BY DEF ItemOk, NoItem, IsItem
  <2>3. /\ eraseIterator(g, k) = [j \in Keys |-> eraseIterator(g, k)[j]]
        /\ \A j \in Keys : eraseIterator(g, k)[j] = IF j = k THEN NoItem ELSE g[j]
    BY DEF eraseIterator, IsHash
  <2>4. IsHash(eraseIterator(g, k)) /\ ItemsOk(eraseIterator(g, k))
    BY <2>2, <2>3 DEF IsHash, ItemsOk
  <2>5. PICK h : h = eraseIterator(g, k)
    OBVIOUS
  <2>6. VisAt(h, now) = VisAt(g, now) /\ IsHash(h) /\ ItemsOk(h)
    BY <2>1, <2>4, <2>5
  <2>7. \A ret : Refuses(NotFound(ret, h), g, ret)
    BY <1>1, <2>6 DEF Refuses
  <2> QED
    BY <2>5, <2>7
<1> QED
  BY <1>2, <1>3

(* The two ways of doHashUpdate with an element that lives. *)
LEMMA UpdateAlive ==
    ASSUME TimeOk, NEW g, NEW r \in Requests, IsHash(g), ItemsOk(g), Alive(g, r.key),
           Slice!Op(r) \in {"replace", "cas", "append", "prepend"},
           ~((r.op = "cas" \/ r.cas # 0) /\ g[r.key].cas # r.cas)
    PROVE  Makes(doHashUpdate(g, r.key, Len(r.val), CmdOf(r), r.op = "cas", r.cas, 0), g, r)
<1> DEFINE res == doHashUpdate(g, r.key, Len(r.val), CmdOf(r), r.op = "cas", r.cas, 0)
<1>1. find(g, r.key) /\ ~isExpired(g[r.key])
  BY DEF Alive
<1>2. CASE Slice!Op(r) \in {"replace", "cas"}
  <2>1. CmdOf(r) = "replace"
    BY <1>2 DEF CmdOf
  <2>2. res = Found("DONE", doSet(g, r.key, Len(r.val)))
    BY <1>1, <2>1 DEF doHashUpdate
  <2> QED
    BY <1>2, <2>2, MakesNew
<1>3. CASE Slice!Op(r) \in {"append", "prepend"}
  <2>1. CmdOf(r) \in {"append", "prepend"}
    BY <1>3 DEF CmdOf
  <2>2. res = Found(CmdOf(r), [g EXCEPT ![r.key] =
                    growValue(@, Len(r.val), CmdOf(r) = "prepend")])
    BY <1>1, <2>1 DEF doHashUpdate
  <2> QED
    BY <1>3, <2>2, MakesGrown
<1> QED
  BY <1>2, <1>3

(* Every store does to what can be seen what the abstract one does. *)
LEMMA ChangeIs ==
    ASSUME TimeOk, NEW g, NEW r \in Requests, IsHash(g), ItemsOk(g),
           Slice!Op(r) \in Slice!StoreOps
    PROVE  Outcome(Change(g, r), g, r)
<1> DEFINE item == VisAt(g, now)[r.key]
<1>1. r.key \in Keys /\ (Slice!Op(r) = "cas" <=> r.op = "cas")
  BY OpIs
<1>2. /\ Alive(g, r.key) => item = g[r.key] /\ item # NoItem
      /\ ~Alive(g, r.key) => item = NoItem
  BY <1>1, VisAlive
<1> HIDE DEF item
<1>3. ASSUME Makes(Change(g, r), g, r),
             Slice!Op(r) \notin {"set", "add"} =>
                item # NoItem /\ ~((r.op = "cas" \/ r.cas # 0) /\ item.cas # r.cas),
             Slice!Op(r) = "add" => item = NoItem
      PROVE  Outcome(Change(g, r), g, r)
  BY <1>3, NoRefusal DEF Outcome, item
<1>4. ASSUME NEW ret, Agrees(r, item, ret), Refuses(Change(g, r), g, ret)
      PROVE  Outcome(Change(g, r), g, r)
  BY <1>4, Zenon DEF Outcome, item
<1>5. CASE Slice!Op(r) = "set"
  <2>1. Change(g, r) = Found("DONE", doSet(g, r.key, Len(r.val)))
    BY <1>5 DEF Change, CmdOf
  <2> QED
    BY <1>3, <1>5, <2>1, MakesNew
<1>6. CASE Slice!Op(r) = "add"
  <2>1. Change(g, r) = doHashInsert(g, r.key, Len(r.val))
    BY <1>6 DEF Change, CmdOf
  <2>2. CASE Alive(g, r.key)
    <3>1. Change(g, r) = NotFound("EEXISTS", g)
      BY <2>1, <2>2 DEF doHashInsert, Alive
    <3>2. Refuses(Change(g, r), g, "EEXISTS")
      BY <1>1, <3>1, RefusedIs
    <3> QED
      BY <1>2, <1>4, <1>6, <2>2, <3>2, AddAgrees
  <2>3. CASE ~Alive(g, r.key)
    <3>1. Change(g, r) = Found("DONE", doSet(g, r.key, Len(r.val)))
      BY <2>1, <2>3 DEF doHashInsert, Alive
    <3>2. Makes(Change(g, r), g, r)
      BY <1>6, <3>1, MakesNew
    <3> QED
      BY <1>2, <1>3, <1>6, <2>3, <3>2
  <2> QED
    BY <2>2, <2>3
<1>7. CASE Slice!Op(r) \in {"replace", "cas", "append", "prepend"}
  <2>1. Change(g, r) = doHashUpdate(g, r.key, Len(r.val), CmdOf(r), r.op = "cas", r.cas, 0)
    BY <1>7 DEF Change, CmdOf
  <2>2. CASE ~Alive(g, r.key)
    <3>1. \/ Change(g, r) = NotFound("NOTFOUND", g)
          \/ Change(g, r) = NotFound("NOTFOUND", eraseIterator(g, r.key))
      <4>1. CASE ~find(g, r.key)
        BY <2>1, <4>1 DEF doHashUpdate
      <4>2. CASE find(g, r.key) /\ isExpired(g[r.key])
        BY <2>1, <4>2 DEF doHashUpdate
      <4> QED
        BY <2>2, <4>1, <4>2 DEF Alive
    <3>2. Refuses(Change(g, r), g, "NOTFOUND")
      BY <1>1, <2>2, <3>1, RefusedIs
    <3> QED
      BY <1>2, <1>4, <1>7, <2>2, <3>2, MissAgrees
  <2>3. CASE Alive(g, r.key) /\ (r.op = "cas" \/ r.cas # 0) /\ g[r.key].cas # r.cas
    <3>1. Change(g, r) = NotFound("EEXISTS", g)
      BY <2>1, <2>3 DEF doHashUpdate, Alive
    <3>2. Refuses(Change(g, r), g, "EEXISTS")
      BY <1>1, <3>1, RefusedIs
    <3> QED
      BY <1>2, <1>4, <1>7, <2>3, <3>2, CasDisagrees
  <2>4. CASE Alive(g, r.key) /\ ~((r.op = "cas" \/ r.cas # 0) /\ g[r.key].cas # r.cas)
    <3>1. Makes(Change(g, r), g, r)
      BY <1>7, <2>1, <2>4, UpdateAlive
    <3> QED
      BY <1>2, <1>3, <1>7, <2>4, <3>1
  <2> QED
    BY <2>2, <2>3, <2>4
<1> QED
  BY <1>5, <1>6, <1>7 DEF Slice!StoreOps

(* The hash without the keys of S. *)
Without(h, S) == [j \in Keys |-> IF j \in S THEN NoItem ELSE h[j]]

(* Only keys are evicted. *)
LEMMA VictimsAreKeys ==
    ASSUME NEW h, NEW need, NEW S \in victims(h, need)
    PROVE  S \subseteq Keys
<1> DEFINE all == {k \in Keys : find(h, k)}
           size(T) == MapThenSumSet(LAMBDA k : x_iLen[k], T)
<1>1. S \in {T \in SUBSET all : T = {} \/ \E k \in T : size(T \ {k}) < need}
  BY Zenon DEF victims
<1> HIDE DEF size
<1> QED
  BY <1>1

(* What making room comes to. *)
RoomMade(m, k, len, cmd) ==
    \/ /\ ~chkItemSize(len)
       /\ m.ret = "E2BIG"
       /\ m.h = IF cmd = "set" THEN eraseIterator(hash, k) ELSE hash
    \/ /\ chkItemSize(len)
       /\ m_nomemfail
       /\ m.ret = "ENOMEM"
       /\ m.h = hash
    \/ /\ chkItemSize(len)
       /\ m.ret \in {"SUCCESS", "REBUILD"}
       /\ m.ret = "REBUILD" => ~m_nomemfail
       /\ \E S \in SUBSET Keys : m.h = Without(hash, S) /\ (m_nomemfail => S = {})

(* chkMemSz refuses, or evicts what it may and finds that enough or not. *)
LEMMA RoomIs ==
    ASSUME NEW k \in Keys, NEW len, NEW cmd, IsHash(hash),
           NEW m \in chkMemSz(hash, k, len, cmd)
    PROVE  RoomMade(m, k, len, cmd)
<1>1. \/ /\ ~chkItemSize(len)
         /\ m.ret = "E2BIG"
         /\ m.h = IF cmd = "set" THEN eraseIterator(hash, k) ELSE hash
      \/ chkItemSize(len) /\ m.ret = "SUCCESS" /\ m.h = hash
      \/ chkItemSize(len) /\ m_nomemfail /\ m.ret = "ENOMEM" /\ m.h = hash
      \/ /\ chkItemSize(len) /\ ~m_nomemfail
         /\ \E need, u : \E g \in trimsize(hash, need) : m = trimmed(u, g)
  BY DEF chkMemSz
<1>2. \A need : \A g \in trimsize(hash, need) : \E S \in SUBSET Keys : g = Without(hash, S)
  <2> SUFFICES ASSUME NEW need, NEW g \in trimsize(hash, need)
               PROVE  \E S \in SUBSET Keys : g = Without(hash, S)
    OBVIOUS
  <2>1. PICK S \in victims(hash, need) :
             g = [j \in Keys |-> IF j \in S THEN NoItem ELSE hash[j]]
    BY Zenon DEF trimsize
  <2> QED
    BY <2>1, VictimsAreKeys DEF Without
<1>3. hash = Without(hash, {})
  BY DEF Without, IsHash
<1>4. \A u, g : trimmed(u, g).h = g /\ trimmed(u, g).ret \in {"SUCCESS", "REBUILD"}
  BY DEF trimmed
<1>5. CASE chkItemSize(len) /\ m.ret = "SUCCESS" /\ m.h = hash
  BY <1>3, <1>5 DEF RoomMade
<1>6. CASE /\ chkItemSize(len) /\ ~m_nomemfail
           /\ \E need, u : \E g \in trimsize(hash, need) : m = trimmed(u, g)
  <2>1. PICK need, u : \E g \in trimsize(hash, need) : m = trimmed(u, g)
    BY <1>6
  <2>2. PICK g \in trimsize(hash, need) : m = trimmed(u, g)
    BY <2>1
  <2>3. PICK S \in SUBSET Keys : m.h = Without(hash, S)
    BY <1>2, <1>4, <2>2
  <2>4. m.ret \in {"SUCCESS", "REBUILD"}
    BY <1>4, <2>2
  <2> QED
    BY <1>6, <2>3, <2>4 DEF RoomMade
<1> QED
  BY <1>1, <1>5, <1>6 DEF RoomMade

(* Fewer elements are as well formed. *)
LEMMA WithoutIs ==
    ASSUME NEW S \in SUBSET Keys, IsHash(hash), ItemsOk(hash)
    PROVE  /\ IsHash(Without(hash, S)) /\ ItemsOk(Without(hash, S))
           /\ VisAt(Without(hash, S), now)
                = [j \in Keys |-> IF j \in S THEN NoItem ELSE VisAt(hash, now)[j]]
<1>1. ItemOk(NoItem) /\ IsItem(NoItem)
  BY DEF ItemOk, NoItem, IsItem
<1>2. \A j \in Keys : Without(hash, S)[j] = IF j \in S THEN NoItem ELSE hash[j]
  BY DEF Without
<1>3. IsHash(Without(hash, S)) /\ ItemsOk(Without(hash, S))
  <2>1. Without(hash, S) = [j \in Keys |-> Without(hash, S)[j]]
    BY DEF Without
  <2> QED
    BY <1>1, <1>2, <2>1 DEF IsHash, ItemsOk
<1> QED
  BY <1>3, VisTrim DEF Without

(* A request that is too large. *)
LEMMA StoreTooLarge ==
    ASSUME NEW r \in Requests, Slice!Op(r) \in Slice!StoreOps, Slice!TooLarge(r),
           VisAt(hash, now)' = [VisAt(hash, now) EXCEPT ![r.key] =
                                   IF Slice!Op(r) = "set" THEN NoItem ELSE @],
           cas' = cas, now' = now,
           Slice!Answer(r, Slice!Code(r, "TOO_LARGE", "E2BIG"), <<>>, 0, "none")
    PROVE  Slice!Store(r)
  BY DEF Slice!Store, VisAt, isExpired, NoItem, Slice!None

(* A store for which nothing may be evicted. *)
LEMMA StoreNoMem ==
    ASSUME NEW r \in Requests, Slice!Op(r) \in Slice!StoreOps, ~Slice!TooLarge(r),
           m_nomemfail, hash' = hash, cas' = cas, now' = now,
           Slice!Answer(r, Slice!Code(r, "OUT_OF_MEMORY", "ENOMEM"), <<>>, 0, "none")
    PROVE  Slice!Store(r)
  BY DEF Slice!Store, VisAt, isExpired, NoItem, Slice!None

(* The abstract store when the keys of gone are evicted. *)
Evicts(r, s, t, gone) ==
    LET left == [k \in Keys |-> IF k \in gone THEN Slice!None ELSE s[k]]
        item == left[r.key]
        refusal == Slice!Refusal(r, item)
    IN  /\ m_nomemfail => gone = {}
        /\ \/ /\ refusal = ""
              /\ t = [left EXCEPT ![r.key] = Slice!Visible(Slice!Stored(r, item))]
              /\ cas' = cas + 1
              /\ Slice!Answer(r, Slice!Code(r, "STORED", "SUCCESS"), <<>>,
                              IF r.bin THEN cas + 1 ELSE 0, Slice!CasStat(r, item))
           \/ /\ refusal = ""
              /\ t = [left EXCEPT ![r.key] =
                         IF Slice!Op(r) \in {"append", "prepend"} THEN @ ELSE Slice!None]
              /\ UNCHANGED cas
              /\ Slice!Answer(r, Slice!Code(r, "NOT_STORED", "NOTSTORED"), <<>>, 0,
                              Slice!CasStat(r, item))
           \/ /\ refusal # ""
              /\ t = left
              /\ UNCHANGED cas
              /\ Slice!Answer(r, refusal, <<>>, 0, Slice!CasStat(r, item))

(* That store is one. *)
LEMMA StoreWith ==
    ASSUME NEW r \in Requests, Slice!Op(r) \in Slice!StoreOps, ~Slice!TooLarge(r), now' = now,
           NEW gone \in SUBSET Keys, Evicts(r, VisAt(hash, now), VisAt(hash, now)', gone)
    PROVE  Slice!Store(r)
<1>1. /\ VisAt(hash, now) = [k \in Keys |-> IF isExpired(hash[k]) THEN NoItem ELSE hash[k]]
      /\ VisAt(hash, now)' = [k \in Keys |-> IF isExpired(hash[k]) THEN NoItem ELSE hash[k]]'
  BY DEF VisAt, isExpired
<1>2. Evicts(r, [k \in Keys |-> IF isExpired(hash[k]) THEN NoItem ELSE hash[k]],
                [k \in Keys |-> IF isExpired(hash[k]) THEN NoItem ELSE hash[k]]', gone)
  BY <1>1, Zenon
<1> QED
  BY <1>2, Zenon DEF Slice!Store, Slice!Without, Evicts

(* A store that the state of the key stands against. *)
LEMMA StoreRefused ==
    ASSUME NEW r \in Requests, Slice!Op(r) \in Slice!StoreOps, ~Slice!TooLarge(r),
           NEW S \in SUBSET Keys, m_nomemfail => S = {},
           NEW left, left = [j \in Keys |-> IF j \in S THEN NoItem ELSE VisAt(hash, now)[j]],
           NEW item, item = left[r.key],
           Slice!Refusal(r, item) # "",
           VisAt(hash, now)' = left,
           cas' = cas, now' = now,
           Slice!Answer(r, Slice!Refusal(r, item), <<>>, 0, Slice!CasStat(r, item))
    PROVE  Slice!Store(r)
<1>1. left = [j \in Keys |-> IF j \in S THEN Slice!None ELSE VisAt(hash, now)[j]]
  BY DEF NoItem, Slice!None
<1>2. Evicts(r, VisAt(hash, now), VisAt(hash, now)', S)
  BY <1>1, Zenon DEF Evicts
<1> QED
  BY <1>2, StoreWith

(* What is seen after an element is written. *)
LEMMA WrittenIs ==
    ASSUME NEW g, NEW k \in Keys, NEW x, ItemsOk(g), ItemOk(x), now' = now,
           \A j \in Keys : hash'[j] = IF j = k THEN x ELSE g[j]
    PROVE  /\ VisAt(hash, now)' = [VisAt(g, now) EXCEPT ![k] = Slice!Visible(x)]
           /\ ItemsOk(hash')
<1>1. ItemsOk(hash')
  BY DEF ItemsOk
<1>2. Slice!Visible(x) = IF x.exp # 0 /\ x.exp <= now THEN NoItem ELSE x
  BY DEF Slice!Visible, Slice!Gone, NoItem, Slice!None
<1>3. \A j \in Keys : VisAt(hash', now)[j] = IF j = k THEN Slice!Visible(x) ELSE VisAt(g, now)[j]
  BY <1>2 DEF VisAt
<1>4. /\ VisAt(hash', now) = [j \in Keys |-> VisAt(hash', now)[j]]
      /\ VisAt(g, now) = [j \in Keys |-> VisAt(g, now)[j]]
  BY DEF VisAt
<1>5. VisAt(hash', now) = [VisAt(g, now) EXCEPT ![k] = Slice!Visible(x)]
  BY <1>3, <1>4
<1> QED
  BY <1>1, <1>5 DEF VisAt

(* What is seen after an element is made. *)
LEMMA MadeIs ==
    ASSUME NEW r \in Requests, NEW g, NEW res, NEW x, IsHash(g), ItemsOk(g), Makes(res, g, r),
           x = Slice!Stored(r, VisAt(g, now)[r.key]),
           hash' = [res.h EXCEPT ![r.key] = x], now' = now
    PROVE  /\ VisAt(hash, now)' = [VisAt(g, now) EXCEPT ![r.key] = Slice!Visible(x)]
           /\ ItemsOk(hash')
<1>1. r.key \in Keys
  BY OpIs
<1>2. \A j \in Keys : hash'[j] = IF j = r.key THEN x ELSE g[j]
  BY <1>1 DEF Makes
<1>3. ItemOk(x)
  BY DEF Makes
<1> QED
  BY <1>1, <1>2, <1>3, WrittenIs

(* The answer to a store. *)
StoreAnswer(r, res) ==
    IF res.iter
    THEN Slice!Answer(r, Slice!Code(r, "STORED", "SUCCESS"), <<>>,
                      IF r.bin THEN cas + 1 ELSE 0, casStat(Insists(r), res.ret))
    ELSE Slice!Answer(r, IF r.bin THEN BinCode(r, res.ret) ELSE TextCode(r, res.ret), <<>>,
                      0, casStat(Insists(r), res.ret))

(* A store for whose element there is no memory. *)
LEMMA StoreStarved ==
    ASSUME TimeOk, IsHash(hash), ItemsOk(hash), now' = now,
           NEW r \in Requests, Slice!Op(r) \in Slice!StoreOps, ~Slice!TooLarge(r),
           NEW S \in SUBSET Keys, m_nomemfail => S = {},
           NEW g, g = Without(hash, S),
           NEW res, Starved(res, g, r.key, Change(g, r)),
           NEW item, DataUpdate(r.key, res, item),
           StoreAnswer(r, res)
    PROVE  Slice!Store(r) /\ ItemsOk(hash')
<1>1. PICK l, i : l = VisAt(g, now) /\ i = l[r.key]
  OBVIOUS
<1>2. IsHash(g) /\ ItemsOk(g) /\ r.key \in Keys
      /\ l = [j \in Keys |-> IF j \in S THEN NoItem ELSE VisAt(hash, now)[j]]
  BY <1>1, WithoutIs, OpIs
<1>3. Outcome(Change(g, r), g, r)
  BY <1>2, ChangeIs
<1>4. Change(g, r).iter
  BY DEF Starved
<1>5. \A ret : ~Refuses(Change(g, r), g, ret)
  BY <1>4 DEF Refuses
<1>6. /\ Slice!Refusal(r, i) = ""
      /\ Slice!CasStat(r, i) = casStat(Insists(r), RetOf(r))
      /\ Makes(Change(g, r), g, r)
  BY <1>1, <1>3, <1>5 DEF Outcome
<1>7. Change(g, r).ret = RetOf(r) /\ RetOf(r) # "NONE"
  BY <1>6 DEF Makes, RetOf
<1>8. /\ res.iter = FALSE /\ res.ret = RetOf(r)
      /\ res.h = IF RetOf(r) \in {"append", "prepend"} THEN g ELSE eraseIterator(g, r.key)
  BY <1>7 DEF Starved
<1>9. RetOf(r) \in {"append", "prepend"} <=> Slice!Op(r) \in {"append", "prepend"}
  BY DEF RetOf, CmdOf
<1>10. hash' = res.h /\ cas' = cas
  BY <1>8 DEF DataUpdate
<1>11. VisAt(res.h, now) = [l EXCEPT ![r.key] =
            IF Slice!Op(r) \in {"append", "prepend"} THEN @ ELSE NoItem]
  <2>1. CASE Slice!Op(r) \in {"append", "prepend"}
    <3>1. [l EXCEPT ![r.key] = l[r.key]] = l
      BY <1>2
    <3>2. VisAt(res.h, now) = l
      BY <1>1, <1>8, <1>9, <2>1
    <3> QED
      BY <2>1, <3>1, <3>2
  <2>2. CASE Slice!Op(r) \notin {"append", "prepend"}
    <3>1. VisAt(eraseIterator(g, r.key), now) = [l EXCEPT ![r.key] = NoItem]
      BY <1>1, <1>2, VisErase
    <3>2. res.h = eraseIterator(g, r.key)
      BY <1>8, <1>9, <2>2
    <3> QED
      BY <2>2, <3>1, <3>2
  <2> QED
    BY <2>1, <2>2
<1>12. VisAt(hash, now)' = [l EXCEPT ![r.key] =
            IF Slice!Op(r) \in {"append", "prepend"} THEN @ ELSE Slice!None]
  BY <1>10, <1>11 DEF VisAt, NoItem, Slice!None
<1>13. ItemsOk(hash')
  <2>1. ItemOk(NoItem)
    BY DEF ItemOk, NoItem
  <2>2. \A j \in Keys : res.h[j] \in {g[j], NoItem}
    BY <1>2, <1>8 DEF eraseIterator, IsHash
  <2> QED
    BY <1>2, <1>10, <2>1, <2>2 DEF ItemsOk
<1>14. (IF r.bin THEN BinCode(r, RetOf(r)) ELSE TextCode(r, RetOf(r)))
          = Slice!Code(r, "NOT_STORED", "NOTSTORED")
  BY DEF BinCode, TextCode, RetOf, CmdOf, binUpdateStatus, Slice!Code
<1>15. Slice!Answer(r, Slice!Code(r, "NOT_STORED", "NOTSTORED"), <<>>, 0, Slice!CasStat(r, i))
  BY <1>6, <1>8, <1>14 DEF StoreAnswer
<1>16. l = [j \in Keys |-> IF j \in S THEN Slice!None ELSE VisAt(hash, now)[j]]
  BY <1>2 DEF NoItem, Slice!None
<1>17. Evicts(r, VisAt(hash, now), VisAt(hash, now)', S)
  BY <1>1, <1>6, <1>10, <1>12, <1>15, <1>16, Zenon DEF Evicts
<1> QED
  BY <1>13, <1>17, StoreWith

(* A store for which there is room. *)
LEMMA StoreEnds ==
    ASSUME TimeOk, IsHash(hash), ItemsOk(hash), now' = now,
           NEW r \in Requests, Slice!Op(r) \in Slice!StoreOps, ~Slice!TooLarge(r),
           NEW S \in SUBSET Keys, m_nomemfail => S = {},
           NEW g, g = Without(hash, S),
           NEW res \in allocated(g, r.key, Change(g, r)),
           NEW retcode, res.iter => retcode = RetOf(r),
           DataUpdate(r.key, res, dataItemUpdate(res.h[r.key], retcode, r.val, r.exp)),
           StoreAnswer(r, res)
    PROVE  Slice!Store(r) /\ ItemsOk(hash')
<1> DEFINE left == VisAt(g, now)
           item == left[r.key]
<1>1. IsHash(g) /\ ItemsOk(g)
      /\ left = [j \in Keys |-> IF j \in S THEN NoItem ELSE VisAt(hash, now)[j]]
  BY WithoutIs
<1>0. CASE Starved(res, g, r.key, Change(g, r))
  BY <1>0, StoreStarved
<1>2. ASSUME res = Change(g, r) PROVE Outcome(res, g, r)
  BY <1>1, <1>2, ChangeIs
<1>3. CASE /\ Slice!Refusal(r, item) = ""
           /\ Slice!CasStat(r, item) = casStat(Insists(r), RetOf(r))
           /\ Makes(res, g, r)
  <2> DEFINE x == Slice!Stored(r, item)
  <2>1. /\ res.iter /\ res.ret = RetOf(r)
        /\ dataItemUpdate(res.h[r.key], RetOf(r), r.val, r.exp) = x
    BY <1>3 DEF Makes
  <2>2. hash' = [res.h EXCEPT ![r.key] = x] /\ cas' = cas + 1
    BY <2>1 DEF DataUpdate
  <2>3. VisAt(hash, now)' = [left EXCEPT ![r.key] = Slice!Visible(x)] /\ ItemsOk(hash')
    BY <1>1, <1>3, <2>2, MadeIs
  <2>4. Slice!Answer(r, Slice!Code(r, "STORED", "SUCCESS"), <<>>,
                     IF r.bin THEN cas + 1 ELSE 0, Slice!CasStat(r, item))
    BY <1>3, <2>1 DEF StoreAnswer
  <2>5. PICK c, y, l, i : /\ c = (IF r.bin THEN cas + 1 ELSE 0)
                          /\ l = left /\ i = l[r.key] /\ y = Slice!Visible(Slice!Stored(r, i))
    OBVIOUS
  <2>7. /\ Slice!Answer(r, Slice!Code(r, "STORED", "SUCCESS"), <<>>, c, Slice!CasStat(r, i))
        /\ VisAt(hash, now)' = [l EXCEPT ![r.key] = y]
        /\ Slice!Refusal(r, i) = ""
        /\ l = [j \in Keys |-> IF j \in S THEN NoItem ELSE VisAt(hash, now)[j]]
    BY <1>1, <1>3, <2>3, <2>4, <2>5
  <2>8. c = (IF r.bin THEN cas + 1 ELSE 0) /\ i = l[r.key] /\ y = Slice!Visible(Slice!Stored(r, i))
    BY <2>5
  <2>10. cas' = cas + 1
    BY <2>2
  <2>9. Slice!Store(r)
    <3>1. l = [j \in Keys |-> IF j \in S THEN Slice!None ELSE VisAt(hash, now)[j]]
      BY <2>7 DEF NoItem, Slice!None
    <3>2. Evicts(r, VisAt(hash, now), VisAt(hash, now)', S)
      BY <2>7, <2>8, <2>10, <3>1, Zenon DEF Evicts
    <3> QED
      BY <3>2, StoreWith
  <2> QED
    BY <2>3, <2>9
<1>4. CASE \E ret : Agrees(r, item, ret) /\ Refuses(res, g, ret)
  <2>1. PICK ret : Agrees(r, item, ret) /\ Refuses(res, g, ret)
    BY <1>4
  <2>2. ~res.iter /\ res.ret = ret /\ ItemsOk(res.h) /\ VisAt(res.h, now) = left
    BY <2>1 DEF Refuses
  <2>3. hash' = res.h /\ cas' = cas
    BY <2>2 DEF DataUpdate
  <2>4. VisAt(hash, now)' = left /\ ItemsOk(hash')
    BY <2>2, <2>3 DEF VisAt
  <2>5. /\ Slice!Refusal(r, item) # ""
        /\ Slice!Answer(r, Slice!Refusal(r, item), <<>>, 0, Slice!CasStat(r, item))
    BY <2>1, <2>2 DEF StoreAnswer, Agrees
  <2> HIDE DEF left
  <2> QED
    BY <1>1, <2>3, <2>4, <2>5, StoreRefused
<1>5. r.key \in Keys
  BY OpIs
<1>6. res = Change(g, r) \/ Starved(res, g, r.key, Change(g, r))
  BY <1>5, AllocatedIs
<1> QED
  BY <1>0, <1>2, <1>3, <1>4, <1>6 DEF Outcome

(* A change that is made has the code of its command. *)
LEMMA AnswerOf ==
    ASSUME NEW g, NEW r \in Requests, r.key \in Keys, Outcome(Change(g, r), g, r),
           NEW res \in allocated(g, r.key, Change(g, r))
    PROVE  \/ /\ res.iter = TRUE /\ res.ret = RetOf(r)
              /\ res.ret \notin {"NOTFOUND", "EEXISTS"}
           \/ res.iter = FALSE
<1>1. CASE Starved(res, g, r.key, Change(g, r))
  BY <1>1 DEF Starved
<1>2. CASE res = Change(g, r)
  <2>1. RetOf(r) \notin {"NOTFOUND", "EEXISTS"}
    BY DEF RetOf
  <2> QED
    BY <1>2, <2>1 DEF Outcome, Makes, Refuses
<1> QED
  BY <1>1, <1>2, AllocatedIs

(* A store that is not begun. *)
LEMMA StoreNotBegun ==
    ASSUME IsHash(hash), ItemsOk(hash), now' = now, cas' = cas,
           NEW r \in Requests, Slice!Op(r) \in Slice!StoreOps,
           NEW m, hash' = m.h,
           \/ /\ Slice!TooLarge(r)
              /\ m.h = IF Slice!Op(r) = "set" THEN eraseIterator(hash, r.key) ELSE hash
              /\ Slice!Answer(r, Slice!Code(r, "TOO_LARGE", "E2BIG"), <<>>, 0, "none")
           \/ /\ ~Slice!TooLarge(r) /\ m_nomemfail /\ m.h = hash
              /\ Slice!Answer(r, Slice!Code(r, "OUT_OF_MEMORY", "ENOMEM"), <<>>, 0, "none")
    PROVE  Slice!Store(r) /\ ItemsOk(hash')
<1>1. r.key \in Keys
  BY OpIs
<1>2. hash' = hash \/ hash' = eraseIterator(hash, r.key)
  OBVIOUS
<1>3. ItemOk(NoItem)
  BY DEF ItemOk, NoItem
<1>4. \A j \in Keys : hash'[j] \in {hash[j], NoItem}
  BY <1>1, <1>2 DEF eraseIterator, IsHash
<1>5. ItemsOk(hash')
  BY <1>3, <1>4 DEF ItemsOk
<1>6. CASE Slice!TooLarge(r)
  <2>1. /\ hash' = IF Slice!Op(r) = "set" THEN eraseIterator(hash, r.key) ELSE hash
        /\ Slice!Answer(r, Slice!Code(r, "TOO_LARGE", "E2BIG"), <<>>, 0, "none")
    BY <1>6
  <2>2. VisAt(hash', now) = [VisAt(hash, now) EXCEPT ![r.key] =
                                   IF Slice!Op(r) = "set" THEN NoItem ELSE @]
    <3>1. CASE Slice!Op(r) = "set"
      BY <1>1, <2>1, <3>1, VisErase
    <3>2. CASE Slice!Op(r) # "set"
      BY <1>1, <2>1, <3>2 DEF VisAt
    <3> QED
      BY <3>1, <3>2
  <2>3. VisAt(hash, now)' = [VisAt(hash, now) EXCEPT ![r.key] =
                                   IF Slice!Op(r) = "set" THEN NoItem ELSE @]
    BY <2>2 DEF VisAt
  <2> QED
    BY <1>5, <1>6, <2>1, <2>3, StoreTooLarge
<1>7. CASE ~Slice!TooLarge(r)
  BY <1>5, <1>7, StoreNoMem
<1> QED
  BY <1>6, <1>7

(* The end of a command is the answer of the abstract one. *)
LEMMA RespondIs ==
    ASSUME NEW p, NEW r, NEW noreply, NEW pieces, NEW code, NEW val, NEW c, NEW stat,
           Respond(p, r, noreply, pieces, code, val, c, stat)
    PROVE  /\ Slice!Answer(r, code, val, c, stat)
           /\ now' = now /\ m_nomemfail' = m_nomemfail /\ out'.req = r /\ alive' = alive
<1>1. out'.req = r /\ out'.code = code /\ out'.val = val /\ out'.cas = c /\ out'.stat = stat
  BY DEF Respond
<1>2. now' = now /\ m_nomemfail' = m_nomemfail /\ alive' = alive
  BY DEF Respond
<1>3. Slice!Answer(r, code, val, c, stat)
  BY <1>1 DEF Slice!Answer
<1> QED
  BY <1>1, <1>2, <1>3

(* What every handler leaves alone or in order. *)
Kept == now' = now /\ m_nomemfail' = m_nomemfail /\ alive' = alive /\ ItemsOk(hash')

(* The abstract step for a request. *)
DoesStep(r) ==
    /\ out'.req = r
    /\ \/ Slice!Store(r) \/ Slice!Arith(r) \/ Slice!Delete(r)
       \/ Slice!Get(r) \/ Slice!Flush(r) \/ Slice!Control(r)

(* What the lemmas about the handlers ask of a state. *)
RInv == TimeOk /\ IsHash(hash) /\ ItemsOk(hash)

(* A handler ends its process, and the abstract database is damaged. *)
Rebuilds == Slice!Rebuild /\ now' = now /\ m_nomemfail' = m_nomemfail /\ ItemsOk(hash')

(* A store that finds the memory still full after the trim. *)
LEMMA RebuildIs ==
    ASSUME RInv, NEW p \in Procs, NEW m, rebuild(p, m), ~m_nomemfail,
           NEW S \in SUBSET Keys, m.h = Without(hash, S)
    PROVE  Rebuilds
<1>1. /\ hash' = Without(hash, S) /\ cas' = cas /\ now' = now /\ out' = out
      /\ m_nomemfail' = m_nomemfail /\ alive' = alive \ {p}
  BY DEF rebuild
<1>2. alive' # Procs
  BY <1>1
<1>3. /\ ItemsOk(hash')
      /\ VisAt(hash', now) = [j \in Keys |-> IF j \in S THEN NoItem ELSE VisAt(hash, now)[j]]
  BY <1>1, WithoutIs DEF RInv
<1>4. [k \in Keys |-> IF isExpired(hash[k]) THEN NoItem ELSE hash[k]]'
        = [j \in Keys |-> IF j \in S THEN Slice!None
                          ELSE [k \in Keys |-> IF isExpired(hash[k]) THEN NoItem ELSE hash[k]][j]]
  BY <1>1, <1>3 DEF VisAt, isExpired, NoItem, Slice!None
<1>5. Slice!Rebuild
  BY <1>1, <1>2, <1>4, Zenon DEF Slice!Rebuild, Slice!Without
<1> QED
  BY <1>1, <1>3, <1>5 DEF Rebuilds

(* set, add, replace, cas, append and prepend of the text protocol are stores. *)
LEMMA CmdUpdateIs ==
    ASSUME RInv, NEW p \in Procs, NEW r \in Requests, doCmdUpdate(p, r)
    PROVE  (Kept /\ DoesStep(r)) \/ Rebuilds
<1> DEFINE cmd  == IF r.op = "cas" THEN "replace" ELSE r.op
           grow == cmd \in {"append", "prepend"}
           len  == Len(r.val)
           asked == IF grow THEN len ELSE parmAdjLen(len)
<1>1. r.key \in Keys /\ ~r.bin /\ r.op \in Slice!StoreOps
  BY RequestsAssumption DEF doCmdUpdate, Slice!StoreOps
<1>2. PICK m \in chkMemSz(hash, r.key, asked, r.op) :
         \/ m.ret = "REBUILD" /\ rebuild(p, m)
         \/ /\ m.ret \in {"E2BIG", "ENOMEM"}
            /\ hash' = m.h
            /\ UNCHANGED cas
            /\ Respond(p, r, r.quiet, 1,
                  IF m.ret = "E2BIG" THEN "TOO_LARGE" ELSE "OUT_OF_MEMORY",
                  <<>>, 0, "none")
         \/ /\ m.ret = "SUCCESS"
            /\ \E res \in allocated(m.h, r.key,
                             CASE cmd = "set" -> Found("DONE", doSet(m.h, r.key, len))
                               [] cmd = "add" -> doHashInsert(m.h, r.key, len)
                               [] OTHER -> doHashUpdate(m.h, r.key, len, cmd,
                                                        r.op = "cas", r.cas, 0)) :
                 /\ DataUpdate(r.key, res,
                       dataItemUpdate(res.h[r.key], IF grow THEN cmd ELSE "DONE",
                                      r.val, r.exp))
                 /\ Respond(p, r, r.quiet, 1,
                       CASE res.iter -> "STORED"
                         [] r.op = "cas" /\ res.ret = "NOTFOUND" -> "NOT_FOUND"
                         [] r.op = "cas" /\ res.ret = "EEXISTS" -> "EXISTS"
                         [] OTHER -> "NOT_STORED",
                       <<>>, 0, casStat(r.op = "cas", res.ret))
  BY Zenon DEF doCmdUpdate
<1>3. Slice!Op(r) = r.op /\ cmd = CmdOf(r)
  BY <1>1 DEF Slice!Op, CmdOf
<1>4. asked = IF r.op \in {"append", "prepend"} THEN Len(r.val) ELSE Len(r.val) + HdrLen
  BY DEF parmAdjLen
<1>5. chkItemSize(asked) <=> ~Slice!TooLarge(r)
  <2> HIDE DEF asked
  <2>1. PICK n \in Nat : n = Len(r.val)
    BY OpIs
  <2>2. PICK more \in Nat : more = IF r.op \in {"append", "prepend"} THEN 0 ELSE HdrLen
    BY SizesAssumption
  <2>3. asked = n + more
    <3>1. CASE r.op \in {"append", "prepend"}
      <4>1. asked = n /\ more = 0
        BY <1>4, <2>1, <2>2, <3>1, Zenon
      <4> QED
        BY <4>1
    <3>2. CASE r.op \notin {"append", "prepend"}
      BY <1>4, <2>1, <2>2, <3>2, Zenon
    <3> QED
      BY <3>1, <3>2
  <2>4. (IF r.bin \/ r.op \in {"append", "prepend"} THEN 0 ELSE HdrLen) = more
    BY <1>1, <2>2
  <2>5. Slice!TooLarge(r) <=> (ValMax # 0 /\ ValMax < n + more)
    BY <2>1, <2>4, Zenon DEF Slice!TooLarge
  <2>6. ValMax \in Nat
    BY SizesAssumption
  <2> QED
    BY <2>3, <2>5, <2>6 DEF chkItemSize
<1> HIDE DEF asked
<1>6. RoomMade(m, r.key, asked, r.op)
  BY <1>1, <1>2, RoomIs DEF RInv
<1>7. CASE m.ret \in {"E2BIG", "ENOMEM"}
  <2>1. /\ hash' = m.h /\ cas' = cas
        /\ Respond(p, r, r.quiet, 1, IF m.ret = "E2BIG" THEN "TOO_LARGE" ELSE "OUT_OF_MEMORY",
                   <<>>, 0, "none")
    BY <1>2, <1>7
  <2>2. /\ Slice!Answer(r, IF m.ret = "E2BIG" THEN "TOO_LARGE" ELSE "OUT_OF_MEMORY", <<>>, 0, "none")
        /\ now' = now /\ m_nomemfail' = m_nomemfail /\ out'.req = r /\ alive' = alive
    BY <2>1, RespondIs
  <2>3. \/ /\ Slice!TooLarge(r)
           /\ m.h = IF Slice!Op(r) = "set" THEN eraseIterator(hash, r.key) ELSE hash
           /\ Slice!Answer(r, Slice!Code(r, "TOO_LARGE", "E2BIG"), <<>>, 0, "none")
        \/ /\ ~Slice!TooLarge(r) /\ m_nomemfail /\ m.h = hash
           /\ Slice!Answer(r, Slice!Code(r, "OUT_OF_MEMORY", "ENOMEM"), <<>>, 0, "none")
    BY <1>1, <1>3, <1>5, <1>6, <1>7, <2>2 DEF RoomMade, Slice!Code
  <2>4. Slice!Store(r) /\ ItemsOk(hash')
    BY <1>1, <1>3, <2>1, <2>2, <2>3, StoreNotBegun DEF RInv
  <2> QED
    BY <2>2, <2>4 DEF Kept, DoesStep
<1>8. CASE m.ret = "SUCCESS"
  <2>1. PICK res \in allocated(m.h, r.key, Change(m.h, r)) :
             /\ DataUpdate(r.key, res, dataItemUpdate(res.h[r.key], RetOf(r), r.val, r.exp))
             /\ Respond(p, r, r.quiet, 1,
                   CASE res.iter -> "STORED"
                     [] r.op = "cas" /\ res.ret = "NOTFOUND" -> "NOT_FOUND"
                     [] r.op = "cas" /\ res.ret = "EEXISTS" -> "EXISTS"
                     [] OTHER -> "NOT_STORED",
                   <<>>, 0, casStat(r.op = "cas", res.ret))
    BY <1>2, <1>3, <1>8 DEF Change, RetOf
  <2> DEFINE code == CASE res.iter -> "STORED"
                       [] r.op = "cas" /\ res.ret = "NOTFOUND" -> "NOT_FOUND"
                       [] r.op = "cas" /\ res.ret = "EEXISTS" -> "EXISTS"
                       [] OTHER -> "NOT_STORED"
  <2>2. PICK S \in SUBSET Keys : m.h = Without(hash, S) /\ (m_nomemfail => S = {})
    BY <1>6, <1>8 DEF RoomMade
  <2>3. ~Slice!TooLarge(r)
    BY <1>5, <1>6, <1>8 DEF RoomMade
  <2>4. Outcome(Change(m.h, r), m.h, r)
    <3>1. IsHash(m.h) /\ ItemsOk(m.h)
      BY <2>2, WithoutIs DEF RInv
    <3> QED
      BY <1>1, <1>3, <3>1, ChangeIs DEF RInv
  <2>5. \/ res.iter /\ res.ret \notin {"NOTFOUND", "EEXISTS"}
        \/ res.iter = FALSE
    BY <1>1, <2>4, AnswerOf
  <2>6. code = IF res.iter THEN "STORED" ELSE TextCode(r, res.ret)
    BY <2>5 DEF TextCode
  <2>7. casStat(r.op = "cas", res.ret) = casStat(Insists(r), res.ret)
    <3>1. r.op # "cas" => r.cas = 0
      BY <1>1, FieldsAssumption
    <3>2. Insists(r) <=> r.op = "cas"
      BY <1>3, <3>1 DEF Insists
    <3> QED
      BY <3>2 DEF casStat
  <2>8. /\ Slice!Answer(r, code, <<>>, 0, casStat(Insists(r), res.ret))
        /\ now' = now /\ m_nomemfail' = m_nomemfail /\ out'.req = r /\ alive' = alive
    <3>1. Respond(p, r, r.quiet, 1, code, <<>>, 0, casStat(Insists(r), res.ret))
      BY <2>1, <2>7
    <3> HIDE DEF code
    <3> QED
      BY <3>1, RespondIs
  <2>9. StoreAnswer(r, res)
    BY <1>1, <2>6, <2>8 DEF StoreAnswer, Slice!Code
  <2>10. PICK retcode : retcode = RetOf(r)
    OBVIOUS
  <2>11. Slice!Store(r) /\ ItemsOk(hash')
    <3>1. DataUpdate(r.key, res, dataItemUpdate(res.h[r.key], retcode, r.val, r.exp))
      BY <2>1, <2>10
    <3> QED
      BY <1>1, <1>3, <2>2, <2>3, <2>8, <2>9, <2>10, <3>1, StoreEnds DEF RInv
  <2> QED
    BY <2>8, <2>11 DEF Kept, DoesStep
<1>9. CASE m.ret = "REBUILD"
  <2>1. rebuild(p, m)
    BY <1>2, <1>9
  <2>2. PICK S \in SUBSET Keys : m.h = Without(hash, S)
    BY <1>6, <1>9 DEF RoomMade
  <2>3. ~m_nomemfail
    BY <1>6, <1>9 DEF RoomMade
  <2> QED
    BY <2>1, <2>2, <2>3, RebuildIs
<1> QED
  BY <1>2, <1>7, <1>8, <1>9

(* The stores of the binary protocol are the same. *)
LEMMA BinUpdateIs ==
    ASSUME RInv, NEW p \in Procs, NEW r \in Requests, doBinUpdate(p, r)
    PROVE  (Kept /\ DoesStep(r)) \/ Rebuilds
<1> DEFINE cmd == binCmd(r)
           len == Len(r.val)
           retOf(res) == IF cmd \in {"append", "prepend"} /\ res.ret = "NOTFOUND"
                         THEN "DONE" ELSE res.ret
           stat(res) == casStat(cmd = "replace" /\ r.cas # 0, res.ret)
<1>1. r.key \in Keys /\ r.bin /\ r.op \in {"set", "add", "replace", "append", "prepend"}
  BY RequestsAssumption DEF doBinUpdate
<1>2. PICK m \in setupBinCmd(hash, r) :
         \/ m.ret = "REBUILD" /\ rebuild(p, m)
         \/ /\ m.ret \in {"E2BIG", "ENOMEM"}
            /\ hash' = m.h
            /\ UNCHANGED cas
            /\ binErrRespond(p, r, m.ret, "none")
         \/ /\ m.ret = "SUCCESS"
            /\ \E res \in allocated(m.h, r.key,
                             CASE cmd = "set" -> Found("DONE", doSet(m.h, r.key, len))
                               [] cmd = "add" -> doHashInsert(m.h, r.key, len)
                               [] OTHER -> doHashUpdate(m.h, r.key, len, cmd, FALSE, r.cas, 0)) :
                 /\ DataUpdate(r.key, res,
                       dataItemUpdate(res.h[r.key], retOf(res), r.val, r.exp))
                 /\ IF res.iter
                    THEN Respond(p, r, r.quiet, 1, "SUCCESS", <<>>, cas + 1, stat(res))
                    ELSE binErrRespond(p, r, binUpdateStatus(retOf(res)), stat(res))
  BY Zenon DEF doBinUpdate
<1>3. /\ Slice!Op(r) = cmd /\ CmdOf(r) = cmd /\ r.op # "cas"
      /\ Slice!Op(r) \in Slice!StoreOps
  BY <1>1 DEF Slice!Op, CmdOf, Slice!StoreOps, binCmd
<1>4. chkItemSize(len) <=> ~Slice!TooLarge(r)
  <2>1. PICK n \in Nat : n = Len(r.val)
    BY OpIs
  <2>2. Slice!TooLarge(r) <=> (ValMax # 0 /\ ValMax < n + 0)
    BY <1>1, <2>1, Zenon DEF Slice!TooLarge
  <2>3. ValMax \in Nat
    BY SizesAssumption
  <2> QED
    BY <2>1, <2>2, <2>3 DEF chkItemSize
<1>5. \A q, code, s : binErrRespond(p, q, code, s) => Respond(p, q, FALSE, 2, code, <<>>, 0, s)
  BY DEF binErrRespond
<1>6. RoomMade(m, r.key, len, cmd)
  <2>1. m \in chkMemSz(hash, r.key, Len(r.val), binCmd(r))
    BY <1>2 DEF setupBinCmd
  <2> HIDE DEF cmd, len
  <2>2. RoomMade(m, r.key, Len(r.val), binCmd(r))
    BY <1>1, <2>1, RoomIs DEF RInv
  <2> QED
    BY <2>2 DEF cmd, len
<1> HIDE DEF cmd, len
<1>7. CASE m.ret \in {"E2BIG", "ENOMEM"}
  <2>1. hash' = m.h /\ cas' = cas /\ Respond(p, r, FALSE, 2, m.ret, <<>>, 0, "none")
    BY <1>2, <1>5, <1>7
  <2>2. /\ Slice!Answer(r, m.ret, <<>>, 0, "none")
        /\ now' = now /\ m_nomemfail' = m_nomemfail /\ out'.req = r /\ alive' = alive
    BY <2>1, RespondIs
  <2>3. \/ /\ Slice!TooLarge(r)
           /\ m.h = IF Slice!Op(r) = "set" THEN eraseIterator(hash, r.key) ELSE hash
           /\ Slice!Answer(r, Slice!Code(r, "TOO_LARGE", "E2BIG"), <<>>, 0, "none")
        \/ /\ ~Slice!TooLarge(r) /\ m_nomemfail /\ m.h = hash
           /\ Slice!Answer(r, Slice!Code(r, "OUT_OF_MEMORY", "ENOMEM"), <<>>, 0, "none")
    BY <1>1, <1>3, <1>4, <1>6, <1>7, <2>2 DEF RoomMade, Slice!Code
  <2>4. Slice!Store(r) /\ ItemsOk(hash')
    BY <1>1, <1>3, <2>1, <2>2, <2>3, StoreNotBegun DEF RInv
  <2> QED
    BY <2>2, <2>4 DEF Kept, DoesStep
<1>8. CASE m.ret = "SUCCESS"
  <2>1. Change(m.h, r) = CASE cmd = "set" -> Found("DONE", doSet(m.h, r.key, len))
                           [] cmd = "add" -> doHashInsert(m.h, r.key, len)
                           [] OTHER -> doHashUpdate(m.h, r.key, len, cmd, FALSE, r.cas, 0)
    <3>1. (r.op = "cas") = FALSE
      BY <1>3
    <3> QED
      BY <1>3, <3>1 DEF Change, len
  <2>2. PICK res \in allocated(m.h, r.key, Change(m.h, r)) :
             /\ DataUpdate(r.key, res, dataItemUpdate(res.h[r.key], retOf(res), r.val, r.exp))
             /\ IF res.iter
                THEN Respond(p, r, r.quiet, 1, "SUCCESS", <<>>, cas + 1, stat(res))
                ELSE Respond(p, r, FALSE, 2, binUpdateStatus(retOf(res)), <<>>, 0, stat(res))
    BY <1>2, <1>5, <1>8, <2>1
  <2>3. PICK S \in SUBSET Keys : m.h = Without(hash, S) /\ (m_nomemfail => S = {})
    BY <1>6, <1>8 DEF RoomMade
  <2>4. ~Slice!TooLarge(r)
    BY <1>4, <1>6, <1>8 DEF RoomMade
  <2>5. Outcome(Change(m.h, r), m.h, r)
    <3>1. IsHash(m.h) /\ ItemsOk(m.h)
      BY <2>3, WithoutIs DEF RInv
    <3> QED
      BY <1>1, <1>3, <3>1, ChangeIs DEF RInv
  <2>6. stat(res) = casStat(Insists(r), res.ret)
    <3>1. Insists(r) <=> (cmd = "replace" /\ r.cas # 0)
      BY <1>3, OpIs DEF Insists
    <3> QED
      BY <3>1 DEF casStat
  <2>7. binUpdateStatus(retOf(res)) = BinCode(r, res.ret)
    BY <1>3 DEF BinCode
  <2>8. \/ res.iter = TRUE /\ res.ret = RetOf(r)
        \/ res.iter = FALSE
    BY <1>1, <2>5, AnswerOf
  <2>9. PICK retcode : retcode = retOf(res)
    OBVIOUS
  <2>10. res.iter => retcode = RetOf(r)
    <3>1. RetOf(r) # "NOTFOUND"
      BY DEF RetOf
    <3> QED
      BY <2>8, <2>9, <3>1
  <2> HIDE DEF stat, retOf
  <2>11. StoreAnswer(r, res) /\ now' = now /\ m_nomemfail' = m_nomemfail /\ out'.req = r /\ alive' = alive
    <3>1. CASE res.iter
      BY <1>1, <2>2, <2>6, <3>1, RespondIs DEF StoreAnswer, Slice!Code
    <3>2. CASE ~res.iter
      BY <1>1, <2>2, <2>6, <2>7, <3>2, RespondIs DEF StoreAnswer
    <3> QED
      BY <3>1, <3>2
  <2>12. Slice!Store(r) /\ ItemsOk(hash')
    <3>1. DataUpdate(r.key, res, dataItemUpdate(res.h[r.key], retcode, r.val, r.exp))
      BY <2>2, <2>9
    <3> QED
      BY <1>1, <1>3, <2>3, <2>4, <2>10, <2>11, <3>1, StoreEnds DEF RInv
  <2> QED
    BY <2>11, <2>12 DEF Kept, DoesStep
<1>9. CASE m.ret = "REBUILD"
  <2>1. rebuild(p, m)
    BY <1>2, <1>9
  <2>2. PICK S \in SUBSET Keys : m.h = Without(hash, S)
    BY <1>6, <1>9 DEF RoomMade
  <2>3. ~m_nomemfail
    BY <1>6, <1>9 DEF RoomMade
  <2> QED
    BY <2>1, <2>2, <2>3, RebuildIs
<1> QED
  BY <1>2, <1>7, <1>8, <1>9

(* The two readings of a value agree: a number for both or for neither. *)
LEMMA NumberIs ==
    ASSUME NEW item, item.val \in Seq(Chars)
    PROVE  /\ Slice!IsNumber(item.val) =>
                 /\ mcIter2num(item) \in 0 .. ULLMod - 1
                 /\ mcIter2num(item) = Slice!ValueOf(item.val)
           /\ ~Slice!IsNumber(item.val) => mcIter2num(item) = -1
<1> DEFINE v == item.val
<1>1. v \in Seq(Chars) /\ Len(v) \in Nat /\ DOMAIN v = 1 .. Len(v) /\ v \in [1 .. Len(v) -> Chars]
  OBVIOUS
<1>2. ULL_MAXLEN \in Nat /\ ULLMod \in Nat
  BY SizesAssumption
<1>3. Slice!IsNumeral(v) <=> (Len(v) # 0 /\ \A i \in DOMAIN v : v[i] \in Digits)
  BY <1>1 DEF Slice!IsNumeral, Slice!Digits, Digits
<1>4. ASSUME Len(v) \in 1 .. ULL_MAXLEN, \A i \in DOMAIN v : v[i] \in Digits
      PROVE  strtoull(v) \in Nat /\ strtoull(v) = Slice!ValueOf(v)
  <2>1. v \in [1 .. Len(v) -> Digits]
    BY <1>1, <1>4
  <2> HIDE DEF v
  <2> QED
    BY <1>4, <2>1, NumeralsAssumption DEF NumeralsAgree
<1>5. Slice!IsNumber(v) <=> /\ Len(v) \in 1 .. ULL_MAXLEN
                            /\ \A i \in DOMAIN v : v[i] \in Digits
                            /\ Slice!ValueOf(v) < ULLMod
  <2> HIDE DEF v
  <2> QED
    BY <1>1, <1>2, <1>3 DEF Slice!IsNumber
<1>6. mcIter2num(item) = IF Len(v) \in 1 .. ULL_MAXLEN
                         THEN IF (\A i \in DOMAIN v : v[i] \in Digits) /\ strtoull(v) < ULLMod
                              THEN strtoull(v) ELSE -1
                         ELSE -1
  BY Zenon DEF mcIter2num, myStrtoull
<1> HIDE DEF v
<1>7. CASE Slice!IsNumber(v)
  <2>1. strtoull(v) \in Nat /\ strtoull(v) = Slice!ValueOf(v) /\ strtoull(v) < ULLMod
    BY <1>4, <1>5, <1>7
  <2>2. mcIter2num(item) = strtoull(v)
    BY <1>5, <1>6, <1>7, <2>1
  <2> QED
    BY <1>2, <1>7, <2>1, <2>2 DEF v
<1>8. CASE ~Slice!IsNumber(v)
  <2>1. mcIter2num(item) = -1
    BY <1>4, <1>5, <1>6, <1>8
  <2> QED
    BY <1>8, <2>1 DEF v
<1> QED
  BY <1>7, <1>8

(* What the arithmetic makes of a number is printed as the abstract numeral. *)
LEMMA PrintedIs ==
    ASSUME NEW n \in 0 .. ULLMod - 1
    PROVE  printNum(n) \in Seq(Chars) /\ printNum(n) = Slice!Numeral(n)
<1>1. printNum(n) \in Seq(Digits) /\ printNum(n) = Slice!Numeral(n)
  BY NumeralsAssumption DEF NumeralsAgree
<1>2. Digits \subseteq Chars
  BY DEF Digits, Chars
<1> HIDE DEF Digits, Chars
<1> QED
  BY <1>1, <1>2

(* incr and decr compute the same number, which fits 64 bits. *)
LEMMA SumIs ==
    ASSUME NEW r \in Requests, NEW n \in 0 .. ULLMod - 1
    PROVE  /\ newNumber(r.op, n, r.delta) = Slice!Sum(r, n)
           /\ newNumber(r.op, n, r.delta) \in 0 .. ULLMod - 1
<1>1. ULLMod \in Nat /\ ULLMod > 0 /\ r.delta \in Nat
  BY SizesAssumption, FieldsAssumption
<1>2. newNumber(r.op, n, r.delta) = Slice!Sum(r, n)
  BY DEF newNumber, Slice!Sum
<1>3. (n + r.delta) % ULLMod \in 0 .. ULLMod - 1
  BY <1>1
<1> QED
  BY <1>1, <1>2, <1>3 DEF newNumber

(* What incr and decr find. *)
ArithOutcome(res, num, r) ==
    LET item == hash[r.key]
    IN  \/ ~Alive(hash, r.key) /\ Refuses(res, hash, "NOTFOUND")
        \/ /\ Alive(hash, r.key) /\ ~Slice!CasAgrees(r, item)
           /\ res = NotFound("EEXISTS", hash)
        \/ /\ Alive(hash, r.key) /\ Slice!CasAgrees(r, item) /\ ~Slice!IsNumber(item.val)
           /\ res = NotFound("NONNUMERIC", hash)
        \/ /\ Alive(hash, r.key) /\ Slice!CasAgrees(r, item) /\ Slice!IsNumber(item.val)
           /\ res = Found("NONE", doSet(hash, r.key, Len(num)))
           /\ num \in Seq(Chars)
           /\ num = Slice!Numeral(Slice!Sum(r, Slice!ValueOf(item.val)))

(* doHashUpdate finds for incr and decr what the abstract command asks about. *)
LEMMA ArithIs ==
    ASSUME RInv, NEW r \in Requests, r.op \in {"incr", "decr"}
    PROVE  ArithOutcome(doHashUpdate(hash, r.key, 0, r.op, FALSE, r.cas, r.delta),
                        printNum(newNumber(r.op, mcIter2num(hash[r.key]), r.delta)), r)
<1> DEFINE item == hash[r.key]
           num  == mcIter2num(item)
           text == printNum(newNumber(r.op, num, r.delta))
           res  == doHashUpdate(hash, r.key, 0, r.op, FALSE, r.cas, r.delta)
<1>1. r.key \in Keys /\ IsHash(hash) /\ ItemsOk(hash) /\ item.val \in Seq(Chars)
  BY OpIs DEF RInv, ItemsOk, ItemOk
<1>2. Slice!CasAgrees(r, item) <=> ~(r.cas # 0 /\ item.cas # r.cas)
  BY DEF Slice!CasAgrees
<1>3. /\ Slice!IsNumber(item.val) => num \in 0 .. ULLMod - 1 /\ num = Slice!ValueOf(item.val)
      /\ ~Slice!IsNumber(item.val) => num = -1
  BY <1>1, NumberIs
<1>4. CASE ~Alive(hash, r.key)
  <2>1. \/ res = NotFound("NOTFOUND", hash)
        \/ res = NotFound("NOTFOUND", eraseIterator(hash, r.key))
    <3>1. CASE ~find(hash, r.key)
      BY <3>1 DEF doHashUpdate
    <3>2. CASE find(hash, r.key) /\ isExpired(hash[r.key])
      BY <3>2 DEF doHashUpdate
    <3> QED
      BY <1>4, <3>1, <3>2 DEF Alive
  <2>2. Refuses(res, hash, "NOTFOUND")
    BY <1>1, <1>4, <2>1, RefusedIs
  <2> QED
    BY <1>4, <2>2 DEF ArithOutcome
<1>5. CASE Alive(hash, r.key) /\ ~Slice!CasAgrees(r, item)
  <2>1. res = NotFound("EEXISTS", hash)
    BY <1>2, <1>5 DEF doHashUpdate, Alive
  <2> QED
    BY <1>5, <2>1 DEF ArithOutcome
<1>6. CASE Alive(hash, r.key) /\ Slice!CasAgrees(r, item) /\ ~Slice!IsNumber(item.val)
  <2>1. num = -1
    BY <1>3, <1>6
  <2>2. res = NotFound("NONNUMERIC", hash)
    BY <1>2, <1>6, <2>1 DEF doHashUpdate, Alive
  <2> QED
    BY <1>6, <2>2 DEF ArithOutcome
<1>7. CASE Alive(hash, r.key) /\ Slice!CasAgrees(r, item) /\ Slice!IsNumber(item.val)
  <2>1. num # -1 /\ num \in 0 .. ULLMod - 1 /\ num = Slice!ValueOf(item.val)
    BY <1>3, <1>7
  <2>2. res = Found("NONE", doSet(hash, r.key, Len(text)))
    BY <1>2, <1>7, <2>1 DEF doHashUpdate, Alive
  <2>3. text \in Seq(Chars) /\ text = Slice!Numeral(Slice!Sum(r, Slice!ValueOf(item.val)))
    BY <2>1, SumIs, PrintedIs
  <2> HIDE DEF res, text
  <2>4. ArithOutcome(res, text, r)
    BY <1>7, <2>2, <2>3 DEF ArithOutcome
  <2> QED
    BY <2>4 DEF res, text
<1> QED
  BY <1>4, <1>5, <1>6, <1>7

HitStat(r) == IF r.op = "incr" THEN "incr_hits" ELSE "decr_hits"
MissStat(r) == IF r.op = "incr" THEN "incr_misses" ELSE "decr_misses"

(* The element seen at the key is a number that the command may change. *)
Counts(r, x) == x # NoItem /\ Slice!CasAgrees(r, x) /\ Slice!IsNumber(x.val)

(* incr and decr of a missing key. *)
LEMMA ArithMiss ==
    ASSUME NEW r \in Requests, r.op \in {"incr", "decr"}, now' = now,
           VisAt(hash, now)[r.key] = NoItem, r.init = -1,
           VisAt(hash, now)' = VisAt(hash, now), cas' = cas,
           Slice!Answer(r, Slice!Code(r, "NOT_FOUND", "KEYENOENT"), <<>>, 0, MissStat(r))
    PROVE  Slice!Arith(r)
  BY DEF Slice!Arith, VisAt, isExpired, NoItem, Slice!None, MissStat

(* incr and decr that begin with a first value. *)
LEMMA ArithBegun ==
    ASSUME NEW r \in Requests, r.op \in {"incr", "decr"}, now' = now, r.init # -1,
           NEW x, x = VisAt(hash, now)[r.key], x = NoItem \/ Counts(r, x),
           VisAt(hash, now)' = [VisAt(hash, now) EXCEPT ![r.key] =
              Slice!Visible([val |-> Slice!Numeral(r.init), exp |-> Slice!Deadline(r.exp),
                             cas |-> cas + 1])],
           cas' = cas + 1,
           Slice!Answer(r, Slice!Code(r, "NUMBER", "SUCCESS"), Slice!Numeral(r.init),
                        IF r.bin THEN cas + 1 ELSE 0, "none")
    PROVE  Slice!Arith(r)
  BY DEF Slice!Arith, VisAt, isExpired, NoItem, Slice!None, Counts

(* incr and decr for whose first value there is no memory. *)
LEMMA ArithUnbegun ==
    ASSUME NEW r \in Requests, r.op \in {"incr", "decr"}, now' = now, r.init # -1,
           NEW x, x = VisAt(hash, now)[r.key], x = NoItem \/ Counts(r, x),
           VisAt(hash, now)' = [VisAt(hash, now) EXCEPT ![r.key] = NoItem], cas' = cas,
           Slice!Answer(r, Slice!Code(r, "SERVER_ERROR", "NOTSTORED"), <<>>, 0, "none")
    PROVE  Slice!Arith(r)
  BY DEF Slice!Arith, VisAt, isExpired, NoItem, Slice!None, Counts

(* incr and decr for whose sum there is no memory. *)
LEMMA ArithLost ==
    ASSUME NEW r \in Requests, r.op \in {"incr", "decr"}, now' = now,
           NEW x, x = VisAt(hash, now)[r.key], Counts(r, x),
           VisAt(hash, now)' = [VisAt(hash, now) EXCEPT ![r.key] = NoItem], cas' = cas,
           \/ \E code \in {Slice!Code(r, "SERVER_ERROR", "NOTSTORED"),
                           Slice!Code(r, "NON_NUMERIC", "DELTABADVAL"),
                           Slice!Code(r, "SERVER_ERROR", "KEYEEXISTS")} :
                  Slice!Answer(r, code, <<>>, 0, "none")
           \/ /\ r.init = -1
              /\ Slice!Answer(r, Slice!Code(r, "NOT_FOUND", "KEYENOENT"), <<>>, 0, MissStat(r))
    PROVE  Slice!Arith(r)
  BY DEF Slice!Arith, VisAt, isExpired, NoItem, Slice!None, Counts, MissStat

(* The old count is gone, and all else is as it was. *)
Emptied(res, r) ==
    /\ res.iter = FALSE
    /\ IsHash(res.h) /\ ItemsOk(res.h)
    /\ VisAt(res.h, now) = [VisAt(hash, now) EXCEPT ![r.key] = NoItem]

(* What is left of a count that got no memory. *)
LEMMA ArithStarved ==
    ASSUME RInv, NEW r \in Requests, NEW meant, NEW num, ArithOutcome(meant, num, r),
           NEW res, Starved(res, hash, r.key, meant)
    PROVE  /\ Emptied(res, r) /\ Counts(r, VisAt(hash, now)[r.key])
           /\ res.h = eraseIterator(hash, r.key) /\ res.ret \in RetCodes
<1>1. r.key \in Keys /\ IsHash(hash) /\ ItemsOk(hash)
  BY OpIs DEF RInv
<1>2. meant.iter
  BY DEF Starved
<1>3. /\ ~Refuses(meant, hash, "NOTFOUND")
      /\ meant # NotFound("EEXISTS", hash) /\ meant # NotFound("NONNUMERIC", hash)
  BY <1>2 DEF Refuses, NotFound
<1>4. /\ Alive(hash, r.key) /\ Slice!CasAgrees(r, hash[r.key])
      /\ Slice!IsNumber(hash[r.key].val)
      /\ meant = Found("NONE", doSet(hash, r.key, Len(num)))
  BY <1>3 DEF ArithOutcome
<1>5. meant.ret = "NONE"
  BY <1>4 DEF Found
<1>6. /\ res.iter = FALSE /\ res.h = eraseIterator(hash, r.key)
      /\ res.ret \in RetCodes
  BY <1>5 DEF Starved, RetCodes
<1>7. Counts(r, VisAt(hash, now)[r.key])
  BY <1>1, <1>4, VisAlive DEF Counts
<1>8. IsHash(res.h) /\ ItemsOk(res.h)
  <2>1. ItemOk(NoItem) /\ IsItem(NoItem)
    BY DEF ItemOk, NoItem, IsItem
  <2>2. /\ res.h = [j \in Keys |-> res.h[j]]
        /\ \A j \in Keys : res.h[j] = IF j = r.key THEN NoItem ELSE hash[j]
    BY <1>1, <1>6 DEF eraseIterator, IsHash
  <2> QED
    BY <1>1, <2>1, <2>2 DEF IsHash, ItemsOk
<1>9. VisAt(res.h, now) = [VisAt(hash, now) EXCEPT ![r.key] = NoItem]
  BY <1>1, <1>6, VisErase
<1> QED
  BY <1>6, <1>7, <1>8, <1>9 DEF Emptied

(* incr and decr of another cas number or of no number. *)
LEMMA ArithRefused ==
    ASSUME NEW r \in Requests, r.op \in {"incr", "decr"}, now' = now,
           NEW item, item = VisAt(hash, now)[r.key], item # NoItem,
           VisAt(hash, now)' = VisAt(hash, now), cas' = cas,
           \/ /\ ~Slice!CasAgrees(r, item)
              /\ Slice!Answer(r, "KEYEEXISTS", <<>>, 0, "none")
           \/ /\ Slice!CasAgrees(r, item)
              /\ ~Slice!IsNumber(item.val)
              /\ Slice!Answer(r, Slice!Code(r, "NON_NUMERIC", "DELTABADVAL"), <<>>, 0, "none")
    PROVE  Slice!Arith(r)
  BY DEF Slice!Arith, VisAt, isExpired, NoItem, Slice!None

(* incr and decr of a number. *)
LEMMA ArithDone ==
    ASSUME NEW r \in Requests, r.op \in {"incr", "decr"}, now' = now,
           NEW item, item = VisAt(hash, now)[r.key], item # NoItem,
           Slice!CasAgrees(r, item), Slice!IsNumber(item.val),
           NEW new, new = Slice!Numeral(Slice!Sum(r, Slice!ValueOf(item.val))),
           VisAt(hash, now)' = [VisAt(hash, now) EXCEPT ![r.key] =
                                  [item EXCEPT !.val = new, !.cas = cas + 1]],
           cas' = cas + 1,
           Slice!Answer(r, Slice!Code(r, "NUMBER", "SUCCESS"), new,
                        IF r.bin THEN cas + 1 ELSE 0, HitStat(r))
    PROVE  Slice!Arith(r)
  BY DEF Slice!Arith, VisAt, isExpired, NoItem, Slice!None, HitStat

(* The counted value is written where the element was. *)
LEMMA CountedIs ==
    ASSUME RInv, now' = now, NEW k \in Keys, Alive(hash, k), NEW num \in Seq(Chars),
           NEW res, res = Found("NONE", doSet(hash, k, Len(num))),
           DataUpdate(k, res, dataItemUpdate(res.h[k], "NONE", num, hash[k].exp))
    PROVE  /\ VisAt(hash, now)' = [VisAt(hash, now) EXCEPT ![k] =
                                     [hash[k] EXCEPT !.val = num, !.cas = cas + 1]]
           /\ cas' = cas + 1 /\ ItemsOk(hash')
<1> DEFINE x == [val |-> num, exp |-> hash[k].exp, cas |-> cas + 1]
<1>1. IsHash(hash) /\ ItemsOk(hash) /\ TimeOk /\ ItemOk(hash[k]) /\ IsItem(hash[k])
  BY DEF RInv, ItemsOk, IsHash
<1>2. setItemExptime(hash[k].exp) = hash[k].exp
  BY <1>1, SizesAssumption DEF setItemExptime, ItemOk
<1>3. dataItemUpdate(res.h[k], "NONE", num, hash[k].exp) = x
  BY <1>2 DEF dataItemUpdate
<1>4. x = [hash[k] EXCEPT !.val = num, !.cas = cas + 1] /\ ItemOk(x)
  <2>1. ItemOk(x)
    BY <1>1 DEF ItemOk
  <2>2. PICK v, c, e : hash[k] = [val |-> v, cas |-> c, exp |-> e]
    BY <1>1 DEF IsItem
  <2>3. hash[k].exp = e
    BY <2>2
  <2>4. PICK y : y = [hash[k] EXCEPT !.val = num, !.cas = cas + 1]
    OBVIOUS
  <2>5. DOMAIN hash[k] = {"val", "cas", "exp"} /\ DOMAIN x = {"val", "cas", "exp"}
    BY <2>2
  <2>6. y = [f \in {"val", "cas", "exp"} |-> y[f]] /\ x = [f \in {"val", "cas", "exp"} |-> x[f]]
    BY <2>4, <2>5
  <2>7. y.val = num /\ y.cas = cas + 1 /\ y.exp = hash[k].exp
    BY <2>4, <2>5
  <2>8. \A f \in {"val", "cas", "exp"} : x[f] = y[f]
    BY <2>7
  <2>9. x = y
    BY <2>6, <2>8
  <2> QED
    BY <2>1, <2>4, <2>9
<1>5. hash' = [res.h EXCEPT ![k] = x] /\ cas' = cas + 1 /\ res.h = [hash EXCEPT ![k] = Raw(Len(num))]
  BY <1>3 DEF DataUpdate, Found, doSet
<1>6. Slice!Visible(x) = x
  BY DEF Slice!Visible, Slice!Gone, Alive, isExpired
<1> HIDE DEF x
<1>7. \A j \in Keys : hash'[j] = IF j = k THEN x ELSE hash[j]
  BY <1>1, <1>5 DEF IsHash
<1>8. VisAt(hash, now)' = [VisAt(hash, now) EXCEPT ![k] = x] /\ ItemsOk(hash')
  BY <1>1, <1>4, <1>6, <1>7, WrittenIs
<1> QED
  BY <1>4, <1>5, <1>8

(* What is seen after a key is erased, or nothing is done. *)
LEMMA ErasedIs ==
    ASSUME RInv, NEW k \in Keys, now' = now,
           hash' = hash \/ hash' = eraseIterator(hash, k)
    PROVE  /\ ItemsOk(hash')
           /\ hash' = hash => VisAt(hash, now)' = VisAt(hash, now)
           /\ hash' = eraseIterator(hash, k) =>
                 VisAt(hash, now)' = [VisAt(hash, now) EXCEPT ![k] = NoItem]
           /\ ~Alive(hash, k) => VisAt(hash, now)' = VisAt(hash, now)
<1>1. IsHash(hash) /\ ItemsOk(hash)
  BY DEF RInv
<1>2. ItemOk(NoItem)
  BY DEF ItemOk, NoItem
<1>3. \A j \in Keys : hash'[j] \in {hash[j], NoItem}
  BY <1>1 DEF eraseIterator, IsHash
<1>4. ItemsOk(hash')
  BY <1>1, <1>2, <1>3 DEF ItemsOk
<1>5. VisAt(hash, now)' = VisAt(hash', now)
  BY DEF VisAt
<1> QED
  BY <1>1, <1>4, <1>5, VisErase

(* incr and decr of the text protocol. *)
LEMMA CmdArithmeticIs ==
    ASSUME RInv, NEW p \in Procs, NEW r \in Requests, doCmdArithmetic(p, r)
    PROVE  Kept /\ DoesStep(r)
<1> DEFINE meant == doHashUpdate(hash, r.key, 0, r.op, FALSE, 0, r.delta)
           num == printNum(newNumber(r.op, mcIter2num(hash[r.key]), r.delta))
           item == hash[r.key]
<1>1. r.key \in Keys /\ ~r.bin /\ r.op \in {"incr", "decr"} /\ r.cas = 0 /\ r.init = -1
  BY RequestsAssumption, FieldsAssumption DEF doCmdArithmetic
<1>2. PICK res \in allocated(hash, r.key, meant) :
         /\ DataUpdate(r.key, res, dataItemUpdate(res.h[r.key], res.ret, num, item.exp))
         /\ CASE res.iter -> Respond(p, r, r.quiet, 1, "NUMBER", num, 0, hitStat(r.op, TRUE))
              [] ~res.iter /\ res.ret = "NOTFOUND" ->
                   Respond(p, r, r.quiet, 1, "NOT_FOUND", <<>>, 0, hitStat(r.op, FALSE))
              [] OTHER ->
                   Respond(p, r, r.quiet, 1,
                           IF res.ret = "NONNUMERIC" THEN "NON_NUMERIC" ELSE "SERVER_ERROR",
                           <<>>, 0, "none")
  BY Zenon DEF doCmdArithmetic
<1>3. ArithOutcome(meant, num, r)
  BY <1>1, ArithIs
<1>14. res = meant \/ Starved(res, hash, r.key, meant)
  BY <1>1, AllocatedIs
<1>4. hitStat(r.op, TRUE) = HitStat(r) /\ hitStat(r.op, FALSE) = MissStat(r)
  BY <1>1 DEF hitStat, HitStat, MissStat
<1>5. \A text, bin : Slice!Code(r, text, bin) = text
  BY <1>1 DEF Slice!Code
<1>6. Slice!CasAgrees(r, item)
  BY <1>1 DEF Slice!CasAgrees
<1>7. /\ Alive(hash, r.key) => VisAt(hash, now)[r.key] = item /\ item # NoItem
      /\ ~Alive(hash, r.key) => VisAt(hash, now)[r.key] = NoItem
  BY <1>1, VisAlive
<1> HIDE DEF meant, num, item
<1>8. CASE ~Alive(hash, r.key) /\ Refuses(res, hash, "NOTFOUND")
  <2>1. ~res.iter /\ res.ret = "NOTFOUND" /\ VisAt(res.h, now) = VisAt(hash, now) /\ ItemsOk(res.h)
    BY <1>8 DEF Refuses
  <2>2. hash' = res.h /\ cas' = cas
        /\ Respond(p, r, r.quiet, 1, "NOT_FOUND", <<>>, 0, MissStat(r))
    BY <1>2, <1>4, <2>1 DEF DataUpdate
  <2>3. /\ Slice!Answer(r, "NOT_FOUND", <<>>, 0, MissStat(r))
        /\ now' = now /\ m_nomemfail' = m_nomemfail /\ out'.req = r /\ alive' = alive
    BY <2>2, RespondIs
  <2>4. VisAt(hash, now)' = VisAt(hash, now)
    BY <2>1, <2>2, <2>3 DEF VisAt
  <2>5. Slice!Arith(r)
    BY <1>1, <1>5, <1>7, <1>8, <2>2, <2>3, <2>4, ArithMiss
  <2> QED
    BY <2>1, <2>2, <2>3, <2>5 DEF Kept, DoesStep
<1>9. CASE /\ Alive(hash, r.key) /\ ~Slice!IsNumber(item.val)
           /\ res = NotFound("NONNUMERIC", hash)
  <2>1. ~res.iter /\ res.ret = "NONNUMERIC" /\ res.h = hash
    BY <1>9 DEF NotFound
  <2>2. hash' = hash /\ cas' = cas /\ Respond(p, r, r.quiet, 1, "NON_NUMERIC", <<>>, 0, "none")
    BY <1>2, <2>1 DEF DataUpdate
  <2>3. /\ Slice!Answer(r, "NON_NUMERIC", <<>>, 0, "none")
        /\ now' = now /\ m_nomemfail' = m_nomemfail /\ out'.req = r /\ alive' = alive
    BY <2>2, RespondIs
  <2>4. VisAt(hash, now)' = VisAt(hash, now)
    BY <2>2, <2>3 DEF VisAt
  <2>5. PICK x : x = VisAt(hash, now)[r.key]
    OBVIOUS
  <2>6. x # NoItem /\ Slice!CasAgrees(r, x) /\ ~Slice!IsNumber(x.val)
    BY <1>6, <1>7, <1>9, <2>5
  <2>7. Slice!Arith(r)
    BY <1>1, <1>5, <2>2, <2>3, <2>4, <2>5, <2>6, ArithRefused
  <2> QED
    BY <2>2, <2>3, <2>7 DEF Kept, DoesStep, RInv
<1>10. CASE /\ Alive(hash, r.key) /\ Slice!IsNumber(item.val)
            /\ res = Found("NONE", doSet(hash, r.key, Len(num)))
            /\ num \in Seq(Chars)
            /\ num = Slice!Numeral(Slice!Sum(r, Slice!ValueOf(item.val)))
  <2>1. res.iter = TRUE /\ res.ret = "NONE"
    BY <1>10 DEF Found
  <2>2. /\ DataUpdate(r.key, res, dataItemUpdate(res.h[r.key], "NONE", num, hash[r.key].exp))
        /\ Respond(p, r, r.quiet, 1, "NUMBER", num, 0, HitStat(r))
    BY <1>2, <1>4, <2>1 DEF item
  <2>3. /\ Slice!Answer(r, "NUMBER", num, 0, HitStat(r))
        /\ now' = now /\ m_nomemfail' = m_nomemfail /\ out'.req = r /\ alive' = alive
    BY <2>2, RespondIs
  <2>4. /\ VisAt(hash, now)' = [VisAt(hash, now) EXCEPT ![r.key] =
                                  [item EXCEPT !.val = num, !.cas = cas + 1]]
        /\ cas' = cas + 1 /\ ItemsOk(hash')
    BY <1>1, <1>10, <2>2, <2>3, CountedIs DEF item
  <2>5. Slice!Answer(r, Slice!Code(r, "NUMBER", "SUCCESS"), num,
                     IF r.bin THEN cas + 1 ELSE 0, HitStat(r))
    BY <1>1, <1>5, <2>3
  <2>6. Slice!Arith(r)
    BY <1>1, <1>6, <1>7, <1>10, <2>3, <2>4, <2>5, ArithDone
  <2> QED
    BY <2>3, <2>4, <2>6 DEF Kept, DoesStep
<1>11. CASE Starved(res, hash, r.key, meant)
  <2>1. /\ Emptied(res, r) /\ Counts(r, VisAt(hash, now)[r.key])
        /\ res.h = eraseIterator(hash, r.key)
    BY <1>3, <1>11, ArithStarved
  <2>2. res.iter = FALSE /\ hash' = res.h /\ cas' = cas
    BY <1>2, <2>1 DEF DataUpdate, Emptied
  <2>3. PICK code, stat :
           /\ Respond(p, r, r.quiet, 1, code, <<>>, 0, stat)
           /\ \/ code = "NOT_FOUND" /\ stat = MissStat(r)
              \/ code \in {"NON_NUMERIC", "SERVER_ERROR"} /\ stat = "none"
    BY <1>2, <1>4, <2>2
  <2>4. /\ Slice!Answer(r, code, <<>>, 0, stat)
        /\ now' = now /\ m_nomemfail' = m_nomemfail /\ out'.req = r /\ alive' = alive
    BY <2>3, RespondIs
  <2>5. VisAt(hash, now)' = [VisAt(hash, now) EXCEPT ![r.key] = NoItem] /\ ItemsOk(hash')
    BY <1>1, <2>1, <2>2, <2>4, ErasedIs
  <2>6. PICK x : x = VisAt(hash, now)[r.key]
    OBVIOUS
  <2>7. \/ \E c \in {Slice!Code(r, "SERVER_ERROR", "NOTSTORED"),
                     Slice!Code(r, "NON_NUMERIC", "DELTABADVAL"),
                     Slice!Code(r, "SERVER_ERROR", "KEYEEXISTS")} :
               Slice!Answer(r, c, <<>>, 0, "none")
        \/ /\ r.init = -1
           /\ Slice!Answer(r, Slice!Code(r, "NOT_FOUND", "KEYENOENT"), <<>>, 0, MissStat(r))
    <3>1. CASE code = "NOT_FOUND" /\ stat = MissStat(r)
      BY <1>1, <1>5, <2>4, <3>1
    <3>2. CASE code = "NON_NUMERIC" /\ stat = "none"
      <4>1. Slice!Answer(r, Slice!Code(r, "NON_NUMERIC", "DELTABADVAL"), <<>>, 0, "none")
        BY <1>5, <2>4, <3>2
      <4> QED
        BY <4>1
    <3>3. CASE code = "SERVER_ERROR" /\ stat = "none"
      <4>1. Slice!Answer(r, Slice!Code(r, "SERVER_ERROR", "NOTSTORED"), <<>>, 0, "none")
        BY <1>5, <2>4, <3>3
      <4> QED
        BY <4>1
    <3> QED
      BY <2>3, <3>1, <3>2, <3>3
  <2>8. Slice!Arith(r)
    BY <1>1, <2>1, <2>2, <2>4, <2>5, <2>6, <2>7, ArithLost
  <2> QED
    BY <2>4, <2>5, <2>8 DEF Kept, DoesStep
<1> QED
  BY <1>3, <1>6, <1>8, <1>9, <1>10, <1>11, <1>14 DEF ArithOutcome, item

(* incr and decr of the binary protocol, which may begin with a first value. *)
LEMMA BinArithmeticIs ==
    ASSUME RInv, NEW p \in Procs, NEW r \in Requests, doBinArithmetic(p, r)
    PROVE  Kept /\ DoesStep(r)
<1> DEFINE meant == doHashUpdate(hash, r.key, 0, r.op, FALSE, r.cas, r.delta)
           num  == printNum(newNumber(r.op, mcIter2num(hash[r.key]), r.delta))
           item == hash[r.key]
           init == printNum(r.init)
           first(res) == Found("NONE", doSet(res.h, r.key, Len(init)))
           code(res) == CASE res.ret = "NONNUMERIC" -> "DELTABADVAL"
                          [] res.ret = "EEXISTS" -> "KEYEEXISTS"
                          [] OTHER -> "NOTSTORED"
<1>1. /\ r.key \in Keys /\ r.bin /\ r.op \in {"incr", "decr"} /\ r.exp \in Nat
      /\ r.init \in {-1} \cup 0 .. ULLMod - 1
  BY RequestsAssumption, FieldsAssumption DEF doBinArithmetic
<1>2. PICK res \in allocated(hash, r.key, meant) :
         \/ /\ res.iter
            /\ DataUpdate(r.key, res, dataItemUpdate(res.h[r.key], "NONE", num, item.exp))
            /\ Respond(p, r, r.quiet, 2, "SUCCESS", num, cas + 1, hitStat(r.op, TRUE))
         \/ /\ ~res.iter /\ res.ret = "NOTFOUND" /\ r.init = -1
            /\ DataUpdate(r.key, res, NoItem)
            /\ binErrRespond(p, r, "KEYENOENT", hitStat(r.op, FALSE))
         \/ /\ ~res.iter /\ res.ret = "NOTFOUND" /\ r.init # -1
            /\ \E made \in allocated(res.h, r.key, first(res)) :
                 /\ DataUpdate(r.key, made,
                               dataItemUpdate(made.h[r.key], "NONE", init, r.exp))
                 /\ IF made.iter
                    THEN Respond(p, r, r.quiet, 2, "SUCCESS", init, cas + 1, "none")
                    ELSE binErrRespond(p, r, "NOTSTORED", "none")
         \/ /\ ~res.iter /\ res.ret # "NOTFOUND"
            /\ DataUpdate(r.key, res, NoItem)
            /\ binErrRespond(p, r, code(res), "none")
  BY Zenon DEF doBinArithmetic
<1>3. ArithOutcome(meant, num, r)
  BY <1>1, ArithIs
<1>14. res = meant \/ Starved(res, hash, r.key, meant)
  BY <1>1, AllocatedIs
<1>4. hitStat(r.op, TRUE) = HitStat(r) /\ hitStat(r.op, FALSE) = MissStat(r)
  BY <1>1 DEF hitStat, HitStat, MissStat
<1>5. \A text, bin : Slice!Code(r, text, bin) = bin
  BY <1>1 DEF Slice!Code
<1>6. \A err, s : binErrRespond(p, r, err, s) => Respond(p, r, FALSE, 2, err, <<>>, 0, s)
  BY DEF binErrRespond
<1>7. /\ Alive(hash, r.key) => VisAt(hash, now)[r.key] = item /\ item # NoItem
      /\ ~Alive(hash, r.key) => VisAt(hash, now)[r.key] = NoItem
  BY <1>1, VisAlive
<1> HIDE DEF meant, num, item, init
<1>8. CASE ~Alive(hash, r.key) /\ Refuses(res, hash, "NOTFOUND") /\ r.init = -1
  <2>1. ~res.iter /\ res.ret = "NOTFOUND" /\ VisAt(res.h, now) = VisAt(hash, now) /\ ItemsOk(res.h)
    BY <1>8 DEF Refuses
  <2>2. hash' = res.h /\ cas' = cas /\ Respond(p, r, FALSE, 2, "KEYENOENT", <<>>, 0, MissStat(r))
    BY <1>2, <1>4, <1>6, <1>8, <2>1 DEF DataUpdate
  <2>3. /\ Slice!Answer(r, "KEYENOENT", <<>>, 0, MissStat(r))
        /\ now' = now /\ m_nomemfail' = m_nomemfail /\ out'.req = r /\ alive' = alive
    BY <2>2, RespondIs
  <2>4. VisAt(hash, now)' = VisAt(hash, now)
    BY <2>1, <2>2, <2>3 DEF VisAt
  <2>5. Slice!Arith(r)
    BY <1>1, <1>5, <1>7, <1>8, <2>2, <2>3, <2>4, ArithMiss
  <2> QED
    BY <2>1, <2>2, <2>3, <2>5 DEF Kept, DoesStep
<1>9. ASSUME Emptied(res, r), res.ret = "NOTFOUND", r.init # -1,
             NEW old, old = VisAt(hash, now)[r.key], old = NoItem \/ Counts(r, old)
      PROVE  Kept /\ DoesStep(r)
  <2> DEFINE x == [val |-> init, exp |-> Slice!Deadline(r.exp), cas |-> cas + 1]
  <2>1. /\ res.iter = FALSE /\ ItemsOk(res.h) /\ IsHash(res.h)
        /\ VisAt(res.h, now) = [VisAt(hash, now) EXCEPT ![r.key] = NoItem]
    BY <1>9 DEF Emptied
  <2>2. init \in Seq(Chars) /\ init = Slice!Numeral(r.init)
    BY <1>1, <1>9, PrintedIs DEF init
  <2>3. /\ setItemExptime(r.exp) = Slice!Deadline(r.exp)
        /\ Slice!Deadline(r.exp) \in Nat
        /\ Slice!Deadline(r.exp) = 0 \/ Slice!Deadline(r.exp) > MaxDelta
    BY <1>1, ExptimeIs DEF RInv
  <2>4. PICK made \in allocated(res.h, r.key, first(res)) :
           /\ DataUpdate(r.key, made, dataItemUpdate(made.h[r.key], "NONE", init, r.exp))
           /\ IF made.iter
              THEN Respond(p, r, r.quiet, 2, "SUCCESS", init, cas + 1, "none")
              ELSE Respond(p, r, FALSE, 2, "NOTSTORED", <<>>, 0, "none")
    BY <1>2, <1>6, <1>9, <2>1
  <2>5. VisAt(hash, now) = [k \in Keys |-> VisAt(hash, now)[k]]
    BY DEF VisAt
  <2>6. CASE made = first(res)
    <3>1. made.iter = TRUE /\ made.h = [res.h EXCEPT ![r.key] = Raw(Len(init))]
      BY <2>6 DEF Found, doSet
    <3>2. dataItemUpdate(made.h[r.key], "NONE", init, r.exp) = x
      BY <2>3 DEF dataItemUpdate
    <3>3. hash' = [made.h EXCEPT ![r.key] = x] /\ cas' = cas + 1
      BY <2>4, <3>1, <3>2 DEF DataUpdate
    <3>4. /\ Slice!Answer(r, "SUCCESS", init, cas + 1, "none")
          /\ now' = now /\ m_nomemfail' = m_nomemfail /\ out'.req = r /\ alive' = alive
      BY <2>4, <3>1, RespondIs
    <3>5. ItemOk(x)
      BY <2>2, <2>3 DEF ItemOk
    <3> HIDE DEF x
    <3>6. \A j \in Keys : hash'[j] = IF j = r.key THEN x ELSE res.h[j]
      BY <1>1, <2>1, <3>1, <3>3 DEF IsHash
    <3>7. /\ VisAt(hash, now)' = [VisAt(res.h, now) EXCEPT ![r.key] = Slice!Visible(x)]
          /\ ItemsOk(hash')
      BY <1>1, <2>1, <3>4, <3>5, <3>6, WrittenIs
    <3>8. VisAt(hash, now)' = [VisAt(hash, now) EXCEPT ![r.key] = Slice!Visible(x)]
      <4>1. PICK f, y : f = VisAt(hash, now) /\ y = Slice!Visible(x)
        OBVIOUS
      <4>2. f = [k \in Keys |-> f[k]]
        BY <2>5, <4>1
      <4>3. [[f EXCEPT ![r.key] = NoItem] EXCEPT ![r.key] = y] = [f EXCEPT ![r.key] = y]
        BY <1>1, <4>2
      <4> QED
        BY <2>1, <3>7, <4>1, <4>3
    <3>9. Slice!Answer(r, Slice!Code(r, "NUMBER", "SUCCESS"), Slice!Numeral(r.init),
                       IF r.bin THEN cas + 1 ELSE 0, "none")
      BY <1>1, <1>5, <2>2, <3>4
    <3>10. x = [val |-> Slice!Numeral(r.init), exp |-> Slice!Deadline(r.exp), cas |-> cas + 1]
      BY <2>2 DEF x
    <3>11. Slice!Arith(r)
      BY <1>1, <1>9, <3>3, <3>4, <3>8, <3>9, <3>10, ArithBegun
    <3> QED
      BY <3>4, <3>7, <3>11 DEF Kept, DoesStep
  <2>7. CASE Starved(made, res.h, r.key, first(res))
    <3>1. first(res).ret = "NONE"
      BY DEF Found
    <3>2. made.iter = FALSE /\ made.h = eraseIterator(res.h, r.key)
      BY <2>7, <3>1 DEF Starved
    <3>3. hash' = eraseIterator(res.h, r.key) /\ cas' = cas
      BY <2>4, <3>2 DEF DataUpdate
    <3>4. /\ Slice!Answer(r, "NOTSTORED", <<>>, 0, "none")
          /\ now' = now /\ m_nomemfail' = m_nomemfail /\ out'.req = r /\ alive' = alive
      BY <2>4, <3>2, RespondIs
    <3>5. VisAt(hash', now) = [VisAt(res.h, now) EXCEPT ![r.key] = NoItem]
      BY <1>1, <2>1, <3>3, VisErase
    <3>6. VisAt(hash', now) = [VisAt(hash, now) EXCEPT ![r.key] = NoItem]
      <4>1. PICK f : f = VisAt(hash, now)
        OBVIOUS
      <4>2. f = [k \in Keys |-> f[k]]
        BY <2>5, <4>1
      <4>3. [[f EXCEPT ![r.key] = NoItem] EXCEPT ![r.key] = NoItem] = [f EXCEPT ![r.key] = NoItem]
        BY <1>1, <4>2
      <4> QED
        BY <2>1, <3>5, <4>1, <4>3
    <3>7. VisAt(hash, now)' = [VisAt(hash, now) EXCEPT ![r.key] = NoItem]
      BY <3>4, <3>6 DEF VisAt
    <3>8. ItemsOk(hash')
      <4>1. ItemOk(NoItem)
        BY DEF ItemOk, NoItem
      <4>2. \A j \in Keys : hash'[j] \in {res.h[j], NoItem}
        BY <1>1, <2>1, <3>3 DEF eraseIterator, IsHash
      <4> QED
        BY <2>1, <4>1, <4>2 DEF ItemsOk
    <3>9. Slice!Arith(r)
      BY <1>1, <1>5, <1>9, <3>3, <3>4, <3>7, ArithUnbegun
    <3> QED
      BY <3>4, <3>8, <3>9 DEF Kept, DoesStep
  <2> QED
    BY <1>1, <2>4, <2>6, <2>7, AllocatedIs
<1>10. CASE /\ Alive(hash, r.key)
            /\ \/ ~Slice!CasAgrees(r, item) /\ res = NotFound("EEXISTS", hash)
               \/ /\ Slice!CasAgrees(r, item) /\ ~Slice!IsNumber(item.val)
                  /\ res = NotFound("NONNUMERIC", hash)
  <2>1. /\ ~res.iter
        /\ \/ ~Slice!CasAgrees(r, item) /\ res.ret = "EEXISTS"
           \/ Slice!CasAgrees(r, item) /\ ~Slice!IsNumber(item.val) /\ res.ret = "NONNUMERIC"
        /\ res.h = hash
    BY <1>10 DEF NotFound
  <2>2. hash' = hash /\ cas' = cas /\ Respond(p, r, FALSE, 2, code(res), <<>>, 0, "none")
    BY <1>2, <1>6, <2>1 DEF DataUpdate
  <2>3. /\ Slice!Answer(r, code(res), <<>>, 0, "none")
        /\ now' = now /\ m_nomemfail' = m_nomemfail /\ out'.req = r /\ alive' = alive
    BY <2>2, RespondIs
  <2>4. VisAt(hash, now)' = VisAt(hash, now)
    BY <2>2, <2>3 DEF VisAt
  <2>5. PICK x : x = VisAt(hash, now)[r.key]
    OBVIOUS
  <2>6. /\ x # NoItem
        /\ \/ ~Slice!CasAgrees(r, x) /\ code(res) = "KEYEEXISTS"
           \/ Slice!CasAgrees(r, x) /\ ~Slice!IsNumber(x.val) /\ code(res) = "DELTABADVAL"
    BY <1>7, <1>10, <2>1, <2>5
  <2>7. Slice!Arith(r)
    BY <1>1, <1>5, <2>2, <2>3, <2>4, <2>5, <2>6, ArithRefused
  <2> QED
    BY <2>2, <2>3, <2>7 DEF Kept, DoesStep, RInv
<1>11. CASE /\ Alive(hash, r.key) /\ Slice!CasAgrees(r, item) /\ Slice!IsNumber(item.val)
            /\ res = Found("NONE", doSet(hash, r.key, Len(num)))
            /\ num \in Seq(Chars)
            /\ num = Slice!Numeral(Slice!Sum(r, Slice!ValueOf(item.val)))
  <2>1. res.iter = TRUE /\ res.ret = "NONE"
    BY <1>11 DEF Found
  <2>2. /\ DataUpdate(r.key, res, dataItemUpdate(res.h[r.key], "NONE", num, hash[r.key].exp))
        /\ Respond(p, r, r.quiet, 2, "SUCCESS", num, cas + 1, HitStat(r))
    BY <1>2, <1>4, <2>1 DEF item
  <2>3. /\ Slice!Answer(r, "SUCCESS", num, cas + 1, HitStat(r))
        /\ now' = now /\ m_nomemfail' = m_nomemfail /\ out'.req = r /\ alive' = alive
    BY <2>2, RespondIs
  <2>4. /\ VisAt(hash, now)' = [VisAt(hash, now) EXCEPT ![r.key] =
                                  [item EXCEPT !.val = num, !.cas = cas + 1]]
        /\ cas' = cas + 1 /\ ItemsOk(hash')
    BY <1>1, <1>11, <2>2, <2>3, CountedIs DEF item
  <2>5. Slice!Answer(r, Slice!Code(r, "NUMBER", "SUCCESS"), num,
                     IF r.bin THEN cas + 1 ELSE 0, HitStat(r))
    BY <1>1, <1>5, <2>3
  <2>6. Slice!Arith(r)
    BY <1>1, <1>7, <1>11, <2>3, <2>4, <2>5, ArithDone
  <2> QED
    BY <2>3, <2>4, <2>6 DEF Kept, DoesStep
<1>12. CASE ~Alive(hash, r.key) /\ Refuses(res, hash, "NOTFOUND") /\ r.init # -1
  <2>1. VisAt(hash, now)[r.key] = NoItem
    BY <1>7, <1>12
  <2>2. VisAt(hash, now) = [k \in Keys |-> VisAt(hash, now)[k]]
    BY DEF VisAt
  <2>3. \A f : f = [k \in Keys |-> f[k]] /\ f[r.key] = NoItem => [f EXCEPT ![r.key] = NoItem] = f
    BY <1>1
  <2>4. Emptied(res, r) /\ res.ret = "NOTFOUND"
    BY <1>12, <2>1, <2>2, <2>3 DEF Emptied, Refuses
  <2> QED
    BY <1>9, <1>12, <2>1, <2>4
<1>13. CASE Starved(res, hash, r.key, meant)
  <2>1. /\ Emptied(res, r) /\ Counts(r, VisAt(hash, now)[r.key])
        /\ res.h = eraseIterator(hash, r.key) /\ res.ret \in RetCodes
    BY <1>3, <1>13, ArithStarved
  <2>2. res.iter = FALSE
    BY <2>1 DEF Emptied
  <2>3. CASE res.ret = "NOTFOUND" /\ r.init # -1
    BY <1>9, <2>1, <2>3
  <2>4. CASE ~(res.ret = "NOTFOUND" /\ r.init # -1)
    <3>1. hash' = eraseIterator(hash, r.key) /\ cas' = cas
      BY <1>2, <2>1, <2>2, <2>4 DEF DataUpdate
    <3>2. \/ /\ r.init = -1
             /\ Respond(p, r, FALSE, 2, "KEYENOENT", <<>>, 0, MissStat(r))
          \/ Respond(p, r, FALSE, 2, code(res), <<>>, 0, "none")
      BY <1>2, <1>4, <1>6, <2>2, <2>4
    <3>3. code(res) \in {"NOTSTORED", "DELTABADVAL", "KEYEEXISTS"}
      OBVIOUS
    <3>4. /\ \/ /\ r.init = -1
                /\ Slice!Answer(r, "KEYENOENT", <<>>, 0, MissStat(r))
             \/ Slice!Answer(r, code(res), <<>>, 0, "none")
          /\ now' = now /\ m_nomemfail' = m_nomemfail /\ out'.req = r /\ alive' = alive
      <4> HIDE DEF code
      <4> QED
        BY <3>2, RespondIs
    <3>5. VisAt(hash, now)' = [VisAt(hash, now) EXCEPT ![r.key] = NoItem] /\ ItemsOk(hash')
      BY <1>1, <3>1, <3>4, ErasedIs
    <3> HIDE DEF code
    <3>6. \/ \E c \in {Slice!Code(r, "SERVER_ERROR", "NOTSTORED"),
                       Slice!Code(r, "NON_NUMERIC", "DELTABADVAL"),
                       Slice!Code(r, "SERVER_ERROR", "KEYEEXISTS")} :
                 Slice!Answer(r, c, <<>>, 0, "none")
          \/ /\ r.init = -1
             /\ Slice!Answer(r, Slice!Code(r, "NOT_FOUND", "KEYENOENT"), <<>>, 0, MissStat(r))
      BY <1>5, <3>3, <3>4
    <3>7. PICK x : x = VisAt(hash, now)[r.key]
      OBVIOUS
    <3>8. Slice!Arith(r)
      BY <1>1, <2>1, <3>1, <3>4, <3>5, <3>6, <3>7, ArithLost
    <3> QED
      BY <3>4, <3>5, <3>8 DEF Kept, DoesStep
  <2> QED
    BY <2>3, <2>4
<1> QED
  BY <1>3, <1>8, <1>10, <1>11, <1>12, <1>13, <1>14 DEF ArithOutcome, item

(* delete of either protocol. *)
LEMMA DeleteIs ==
    ASSUME NEW r \in Requests, r.op = "delete", now' = now, cas' = cas,
           NEW item, item = VisAt(hash, now)[r.key],
           \/ /\ item = NoItem /\ VisAt(hash, now)' = VisAt(hash, now)
              /\ Slice!Answer(r, Slice!Code(r, "NOT_FOUND", "KEYENOENT"), <<>>, 0, "delete_misses")
           \/ /\ item # NoItem /\ Slice!CasAgrees(r, item)
              /\ VisAt(hash, now)' = [VisAt(hash, now) EXCEPT ![r.key] = NoItem]
              /\ Slice!Answer(r, Slice!Code(r, "DELETED", "SUCCESS"), <<>>, 0, "delete_hits")
           \/ /\ item # NoItem /\ ~Slice!CasAgrees(r, item)
              /\ VisAt(hash, now)' = VisAt(hash, now)
              /\ Slice!Answer(r, "KEYEEXISTS", <<>>, 0, "none")
    PROVE  Slice!Delete(r)
  BY DEF Slice!Delete, VisAt, isExpired, NoItem, Slice!None

(* delete of the text protocol. *)
LEMMA CmdDeleteIs ==
    ASSUME RInv, NEW p \in Procs, NEW r \in Requests, doCmdDelete(p, r)
    PROVE  Kept /\ DoesStep(r)
<1> DEFINE noreply == IF r.quiet THEN TRUE ELSE m_noreply[p]
           item == VisAt(hash, now)[r.key]
<1>1. /\ r.key \in Keys /\ ~r.bin /\ r.op = "delete" /\ r.cas = 0
      /\ hash' = eraseIterator(hash, r.key) /\ cas' = cas
  BY RequestsAssumption, FieldsAssumption DEF doCmdDelete
<1>2. IF Alive(hash, r.key)
      THEN Respond(p, r, noreply, 1, "DELETED", <<>>, 0, "delete_hits")
      ELSE Respond(p, r, noreply, 1, "NOT_FOUND", <<>>, 0, "delete_misses")
  BY <1>1 DEF doCmdDelete, Alive, hitStat
<1> HIDE DEF noreply
<1>3. /\ IF Alive(hash, r.key)
         THEN Slice!Answer(r, "DELETED", <<>>, 0, "delete_hits")
         ELSE Slice!Answer(r, "NOT_FOUND", <<>>, 0, "delete_misses")
      /\ now' = now /\ m_nomemfail' = m_nomemfail /\ out'.req = r /\ alive' = alive
  BY <1>2, RespondIs
<1>4. \A text, bin : Slice!Code(r, text, bin) = text
  BY <1>1 DEF Slice!Code
<1>5. /\ Alive(hash, r.key) => item # NoItem
      /\ ~Alive(hash, r.key) => item = NoItem
  BY <1>1, VisAlive
<1>6. Slice!CasAgrees(r, item)
  BY <1>1 DEF Slice!CasAgrees
<1>7. /\ ItemsOk(hash') /\ VisAt(hash, now)' = [VisAt(hash, now) EXCEPT ![r.key] = NoItem]
      /\ ~Alive(hash, r.key) => VisAt(hash, now)' = VisAt(hash, now)
  BY <1>1, <1>3, ErasedIs
<1> HIDE DEF item
<1>8. item = VisAt(hash, now)[r.key]
  BY DEF item
<1>9. Slice!Delete(r)
  <2>1. CASE Alive(hash, r.key)
    <3>1. /\ item # NoItem
          /\ Slice!Answer(r, Slice!Code(r, "DELETED", "SUCCESS"), <<>>, 0, "delete_hits")
      BY <1>3, <1>4, <1>5, <2>1
    <3> QED
      BY <1>1, <1>3, <1>6, <1>7, <1>8, <3>1, DeleteIs
  <2>2. CASE ~Alive(hash, r.key)
    BY <1>1, <1>3, <1>4, <1>5, <1>7, <1>8, <2>2, DeleteIs
  <2> QED
    BY <2>1, <2>2
<1> QED
  BY <1>3, <1>7, <1>9 DEF Kept, DoesStep

(* delete of the binary protocol, which may insist on a cas number. *)
LEMMA BinDeleteIs ==
    ASSUME RInv, NEW p \in Procs, NEW r \in Requests, doBinDelete(p, r)
    PROVE  Kept /\ DoesStep(r)
<1> DEFINE item == VisAt(hash, now)[r.key]
<1>1. r.key \in Keys /\ r.bin /\ r.op = "delete" /\ cas' = cas
  BY RequestsAssumption DEF doBinDelete
<1>2. /\ Alive(hash, r.key) => item # NoItem /\ item = hash[r.key]
      /\ ~Alive(hash, r.key) => item = NoItem
  BY <1>1, VisAlive
<1>3. Slice!CasAgrees(r, item) <=> ~(r.cas # 0 /\ r.cas # item.cas)
  BY <1>1 DEF Slice!CasAgrees
<1>4. \A text, bin : Slice!Code(r, text, bin) = bin
  BY <1>1 DEF Slice!Code
<1> HIDE DEF item
<1>5. item = VisAt(hash, now)[r.key]
  BY DEF item
<1>6. CASE ~Alive(hash, r.key)
  <2>1. /\ hash' = eraseIterator(hash, r.key)
        /\ Respond(p, r, FALSE, 2, "KEYENOENT", <<>>, 0, "delete_misses")
    BY <1>1, <1>6 DEF doBinDelete, Alive, hitStat, binErrRespond
  <2>2. /\ Slice!Answer(r, "KEYENOENT", <<>>, 0, "delete_misses")
        /\ now' = now /\ m_nomemfail' = m_nomemfail /\ out'.req = r /\ alive' = alive
    BY <2>1, RespondIs
  <2>3. ItemsOk(hash') /\ VisAt(hash, now)' = VisAt(hash, now)
    BY <1>1, <1>6, <2>1, <2>2, ErasedIs
  <2>4. Slice!Delete(r)
    BY <1>1, <1>2, <1>4, <1>5, <1>6, <2>2, <2>3, DeleteIs
  <2> QED
    BY <2>2, <2>3, <2>4 DEF Kept, DoesStep
<1>7. CASE Alive(hash, r.key) /\ ~Slice!CasAgrees(r, item)
  <2>1. hash' = hash /\ Respond(p, r, FALSE, 2, "KEYEEXISTS", <<>>, 0, "none")
    BY <1>1, <1>2, <1>3, <1>7 DEF doBinDelete, Alive, binErrRespond
  <2>2. /\ Slice!Answer(r, "KEYEEXISTS", <<>>, 0, "none")
        /\ now' = now /\ m_nomemfail' = m_nomemfail /\ out'.req = r /\ alive' = alive
    BY <2>1, RespondIs
  <2>3. ItemsOk(hash') /\ VisAt(hash, now)' = VisAt(hash, now)
    BY <1>1, <2>1, <2>2, ErasedIs
  <2>4. Slice!Delete(r)
    BY <1>1, <1>2, <1>5, <1>7, <2>2, <2>3, DeleteIs
  <2> QED
    BY <2>2, <2>3, <2>4 DEF Kept, DoesStep
<1>8. CASE Alive(hash, r.key) /\ Slice!CasAgrees(r, item)
  <2>1. /\ hash' = eraseIterator(hash, r.key)
        /\ Respond(p, r, r.quiet, 1, "SUCCESS", <<>>, 0, "delete_hits")
    BY <1>1, <1>2, <1>3, <1>8 DEF doBinDelete, Alive, hitStat
  <2>2. /\ Slice!Answer(r, "SUCCESS", <<>>, 0, "delete_hits")
        /\ now' = now /\ m_nomemfail' = m_nomemfail /\ out'.req = r /\ alive' = alive
    BY <2>1, RespondIs
  <2>3. ItemsOk(hash') /\ VisAt(hash, now)' = [VisAt(hash, now) EXCEPT ![r.key] = NoItem]
    BY <1>1, <2>1, <2>2, ErasedIs
  <2>5. /\ item # NoItem
        /\ Slice!Answer(r, Slice!Code(r, "DELETED", "SUCCESS"), <<>>, 0, "delete_hits")
    BY <1>2, <1>4, <1>8, <2>2
  <2>4. Slice!Delete(r)
    BY <1>1, <1>5, <1>8, <2>2, <2>3, <2>5, DeleteIs
  <2> QED
    BY <2>2, <2>3, <2>4 DEF Kept, DoesStep
<1> QED
  BY <1>6, <1>7, <1>8

(* A key that is not found. *)
LEMMA GetMiss ==
    ASSUME NEW r \in Requests, r.op \in {"get", "touch", "gat"}, now' = now, cas' = cas,
           VisAt(hash, now)[r.key] = NoItem, VisAt(hash, now)' = VisAt(hash, now),
           Slice!Answer(r, Slice!Code(r, IF r.op # "get" THEN "NOT_FOUND" ELSE "MISS", "KEYENOENT"),
                        <<>>, 0, IF r.op # "get" THEN "touch_misses" ELSE "get_misses")
    PROVE  Slice!Get(r)
  BY DEF Slice!Get, VisAt, isExpired, NoItem, Slice!None

(* A key that is. *)
LEMMA GetHit ==
    ASSUME NEW r \in Requests, r.op \in {"get", "touch", "gat"}, now' = now, cas' = cas,
           NEW item, item = VisAt(hash, now)[r.key], item # NoItem,
           NEW moved, moved = (IF r.op # "get" THEN [item EXCEPT !.exp = Slice!Deadline(r.exp)]
                               ELSE item),
           VisAt(hash, now)' = [VisAt(hash, now) EXCEPT ![r.key] = Slice!Visible(moved)],
           Slice!Answer(r, Slice!Code(r, IF r.op # "get" THEN "TOUCHED" ELSE "VALUE", "SUCCESS"),
                        IF r.op = "touch" THEN <<>> ELSE item.val,
                        IF r.bin \/ r.op = "get" THEN item.cas ELSE 0,
                        IF r.op # "get" THEN "touch_hits" ELSE "get_hits")
    PROVE  Slice!Get(r)
  BY DEF Slice!Get, VisAt, isExpired, NoItem, Slice!None

(* Moving the deadline. *)
LEMMA TouchedIs ==
    ASSUME RInv, now' = now, NEW k \in Keys, Alive(hash, k), NEW e \in Nat,
           hash' = [hash EXCEPT ![k].exp = setItemExptime(e)]
    PROVE  /\ VisAt(hash, now)' = [VisAt(hash, now) EXCEPT ![k] =
                  Slice!Visible([hash[k] EXCEPT !.exp = Slice!Deadline(e)])]
           /\ ItemsOk(hash')
<1>1. IsHash(hash) /\ ItemsOk(hash) /\ ItemOk(hash[k]) /\ IsItem(hash[k]) /\ TimeOk
  BY DEF RInv, ItemsOk, IsHash
<1>2. /\ setItemExptime(e) = Slice!Deadline(e)
      /\ Slice!Deadline(e) \in Nat
      /\ Slice!Deadline(e) = 0 \/ Slice!Deadline(e) > MaxDelta
  BY <1>1, ExptimeIs
<1>3. PICK x : x = [hash[k] EXCEPT !.exp = Slice!Deadline(e)]
  OBVIOUS
<1>4. x.val = hash[k].val /\ x.exp = Slice!Deadline(e)
  BY <1>1, <1>3 DEF IsItem
<1>5. ItemOk(x)
  BY <1>1, <1>2, <1>4 DEF ItemOk
<1>6. \A j \in Keys : hash'[j] = IF j = k THEN x ELSE hash[j]
  BY <1>1, <1>2, <1>3 DEF IsHash
<1>7. VisAt(hash, now)' = [VisAt(hash, now) EXCEPT ![k] = Slice!Visible(x)] /\ ItemsOk(hash')
  BY <1>1, <1>5, <1>6, WrittenIs
<1> QED
  BY <1>3, <1>7

(* Only looking. *)
LEMMA LookedIs ==
    ASSUME RInv, now' = now, NEW k \in Keys, Alive(hash, k), hash' = hash
    PROVE  /\ VisAt(hash, now)' = [VisAt(hash, now) EXCEPT ![k] = Slice!Visible(hash[k])]
           /\ ItemsOk(hash')
<1>1. PICK x : x = hash[k]
  OBVIOUS
<1>2. \A j \in Keys : hash'[j] = IF j = k THEN x ELSE hash[j]
  BY <1>1
<1>3. ItemsOk(hash) /\ ItemOk(x)
  BY <1>1 DEF RInv, ItemsOk
<1>4. VisAt(hash, now)' = [VisAt(hash, now) EXCEPT ![k] = Slice!Visible(x)] /\ ItemsOk(hash')
  BY <1>2, <1>3, WrittenIs
<1> QED
  BY <1>1, <1>4

(* touch of the text protocol. *)
LEMMA CmdTouchIs ==
    ASSUME RInv, NEW p \in Procs, NEW r \in Requests, doCmdTouch(p, r)
    PROVE  Kept /\ DoesStep(r)
<1>1. r.key \in Keys /\ ~r.bin /\ r.op = "touch" /\ cas' = cas /\ r.exp \in Nat
  BY RequestsAssumption, FieldsAssumption DEF doCmdTouch
<1>2. /\ Alive(hash, r.key) => VisAt(hash, now)[r.key] = hash[r.key] /\ hash[r.key] # NoItem
      /\ ~Alive(hash, r.key) => VisAt(hash, now)[r.key] = NoItem
  BY <1>1, VisAlive
<1>3. \A text, bin : Slice!Code(r, text, bin) = text
  BY <1>1 DEF Slice!Code
<1>4. CASE ~Alive(hash, r.key)
  <2>1. /\ hash' = eraseIterator(hash, r.key)
        /\ Respond(p, r, r.quiet, 1, "NOT_FOUND", <<>>, 0, "touch_misses")
    BY <1>1, <1>4 DEF doCmdTouch, Alive, hitStat
  <2>2. /\ Slice!Answer(r, "NOT_FOUND", <<>>, 0, "touch_misses")
        /\ now' = now /\ m_nomemfail' = m_nomemfail /\ out'.req = r /\ alive' = alive
    BY <2>1, RespondIs
  <2>3. ItemsOk(hash') /\ VisAt(hash, now)' = VisAt(hash, now)
    BY <1>1, <1>4, <2>1, <2>2, ErasedIs
  <2>4. Slice!Get(r)
    BY <1>1, <1>2, <1>3, <1>4, <2>2, <2>3, GetMiss
  <2> QED
    BY <2>2, <2>3, <2>4 DEF Kept, DoesStep
<1>5. CASE Alive(hash, r.key)
  <2>1. /\ hash' = [hash EXCEPT ![r.key].exp = setItemExptime(r.exp)]
        /\ Respond(p, r, r.quiet, 1, "TOUCHED", <<>>, 0, "touch_hits")
    BY <1>1, <1>5 DEF doCmdTouch, Alive, hitStat
  <2>2. /\ Slice!Answer(r, "TOUCHED", <<>>, 0, "touch_hits")
        /\ now' = now /\ m_nomemfail' = m_nomemfail /\ out'.req = r /\ alive' = alive
    BY <2>1, RespondIs
  <2>3. PICK item, moved : item = hash[r.key] /\ moved = [item EXCEPT !.exp = Slice!Deadline(r.exp)]
    OBVIOUS
  <2>4. /\ VisAt(hash, now)' = [VisAt(hash, now) EXCEPT ![r.key] = Slice!Visible(moved)]
        /\ ItemsOk(hash')
    BY <1>1, <1>5, <2>1, <2>2, <2>3, TouchedIs
  <2>5. /\ item = VisAt(hash, now)[r.key] /\ item # NoItem
        /\ moved = (IF r.op # "get" THEN [item EXCEPT !.exp = Slice!Deadline(r.exp)] ELSE item)
    BY <1>1, <1>2, <1>5, <2>3
  <2>6. Slice!Answer(r, Slice!Code(r, IF r.op # "get" THEN "TOUCHED" ELSE "VALUE", "SUCCESS"),
                        IF r.op = "touch" THEN <<>> ELSE item.val,
                        IF r.bin \/ r.op = "get" THEN item.cas ELSE 0,
                        IF r.op # "get" THEN "touch_hits" ELSE "get_hits")
    BY <1>1, <1>3, <2>2
  <2>7. Slice!Get(r)
    BY <1>1, <2>2, <2>4, <2>5, <2>6, GetHit
  <2> QED
    BY <2>2, <2>4, <2>7 DEF Kept, DoesStep
<1> QED
  BY <1>4, <1>5

(* get, touch and gat of the binary protocol. *)
LEMMA BinGetIs ==
    ASSUME RInv, NEW p \in Procs, NEW r \in Requests, doBinGet(p, r)
    PROVE  Kept /\ DoesStep(r)
<1> DEFINE noreply == r.quiet /\ r.op = "gat"
           val == IF r.op = "touch" THEN <<>> ELSE hash[r.key].val
<1>1. r.key \in Keys /\ r.bin /\ r.op \in {"get", "touch", "gat"} /\ cas' = cas /\ r.exp \in Nat
  BY RequestsAssumption, FieldsAssumption DEF doBinGet
<1>2. /\ Alive(hash, r.key) => VisAt(hash, now)[r.key] = hash[r.key] /\ hash[r.key] # NoItem
      /\ ~Alive(hash, r.key) => VisAt(hash, now)[r.key] = NoItem
  BY <1>1, VisAlive
<1>3. \A text, bin : Slice!Code(r, text, bin) = bin
  BY <1>1 DEF Slice!Code
<1>4. CASE ~Alive(hash, r.key)
  <2>1. /\ hash' = eraseIterator(hash, r.key)
        /\ Respond(p, r, noreply, IF noreply THEN 0 ELSE 2, "KEYENOENT", <<>>, 0,
                   hitStat(r.op, FALSE))
    BY <1>4 DEF doBinGet, Alive
  <2>2. /\ Slice!Answer(r, "KEYENOENT", <<>>, 0, hitStat(r.op, FALSE))
        /\ now' = now /\ m_nomemfail' = m_nomemfail /\ out'.req = r /\ alive' = alive
    <3> HIDE DEF noreply
    <3> QED
      BY <2>1, RespondIs
  <2>3. ItemsOk(hash') /\ VisAt(hash, now)' = VisAt(hash, now)
    BY <1>1, <1>4, <2>1, <2>2, ErasedIs
  <2>4. hitStat(r.op, FALSE) = IF r.op # "get" THEN "touch_misses" ELSE "get_misses"
    BY <1>1 DEF hitStat
  <2>5. Slice!Answer(r, Slice!Code(r, IF r.op # "get" THEN "NOT_FOUND" ELSE "MISS", "KEYENOENT"),
                     <<>>, 0, IF r.op # "get" THEN "touch_misses" ELSE "get_misses")
    BY <1>3, <2>2, <2>4
  <2>6. Slice!Get(r)
    BY <1>1, <1>2, <1>4, <2>2, <2>3, <2>5, GetMiss
  <2> QED
    BY <2>2, <2>3, <2>6 DEF Kept, DoesStep
<1>5. CASE Alive(hash, r.key)
  <2>1. /\ hash' = IF r.op # "get" THEN [hash EXCEPT ![r.key].exp = setItemExptime(r.exp)]
                   ELSE hash
        /\ Respond(p, r, noreply, IF val = <<>> THEN 1 ELSE 2, "SUCCESS", val,
                   hash[r.key].cas, hitStat(r.op, TRUE))
    BY <1>5 DEF doBinGet, Alive
  <2>2. /\ Slice!Answer(r, "SUCCESS", val, hash[r.key].cas, hitStat(r.op, TRUE))
        /\ now' = now /\ m_nomemfail' = m_nomemfail /\ out'.req = r /\ alive' = alive
    <3> HIDE DEF noreply, val
    <3> QED
      BY <2>1, RespondIs
  <2>3. PICK item, moved :
           /\ item = hash[r.key]
           /\ moved = (IF r.op # "get" THEN [item EXCEPT !.exp = Slice!Deadline(r.exp)] ELSE item)
    OBVIOUS
  <2>4. /\ VisAt(hash, now)' = [VisAt(hash, now) EXCEPT ![r.key] = Slice!Visible(moved)]
        /\ ItemsOk(hash')
    <3>1. CASE r.op # "get"
      <4>1. /\ hash' = [hash EXCEPT ![r.key].exp = setItemExptime(r.exp)]
            /\ moved = [hash[r.key] EXCEPT !.exp = Slice!Deadline(r.exp)]
        BY <2>1, <2>3, <3>1
      <4> QED
        BY <1>1, <1>5, <2>2, <4>1, TouchedIs
    <3>2. CASE r.op = "get"
      <4>1. hash' = hash /\ moved = hash[r.key]
        BY <2>1, <2>3, <3>2
      <4> QED
        BY <1>1, <1>5, <2>2, <4>1, LookedIs
    <3> QED
      BY <3>1, <3>2
  <2>5. item = VisAt(hash, now)[r.key] /\ item # NoItem
    BY <1>2, <1>5, <2>3
  <2>6. hitStat(r.op, TRUE) = IF r.op # "get" THEN "touch_hits" ELSE "get_hits"
    BY <1>1 DEF hitStat
  <2>7. Slice!Answer(r, Slice!Code(r, IF r.op # "get" THEN "TOUCHED" ELSE "VALUE", "SUCCESS"),
                        IF r.op = "touch" THEN <<>> ELSE item.val,
                        IF r.bin \/ r.op = "get" THEN item.cas ELSE 0,
                        IF r.op # "get" THEN "touch_hits" ELSE "get_hits")
    BY <1>1, <1>3, <2>2, <2>3, <2>6
  <2>8. Slice!Get(r)
    BY <1>1, <2>2, <2>3, <2>4, <2>5, <2>7, GetHit
  <2> QED
    BY <2>2, <2>4, <2>8 DEF Kept, DoesStep
<1> QED
  BY <1>4, <1>5

(* One key of a get. *)
LEMMA GetKeyIs ==
    ASSUME RInv, NEW p \in Procs, m_keyList[p] \in Seq(Keys), getKey(p)
    PROVE  Kept /\ \E r \in Requests : DoesStep(r)
<1>1. PICK k \in Keys : k = Head(m_keyList[p])
  BY DEF getKey
<1>2. PICK r \in Requests : r = GetReq(k)
  BY GetsAssumption
<1>3. r.op = "get" /\ ~r.bin /\ r.key = k
  BY <1>2 DEF GetReq
<1>4. now' = now /\ cas' = cas /\ m_nomemfail' = m_nomemfail /\ alive' = alive
  BY DEF getKey
<1>5. /\ Alive(hash, k) => VisAt(hash, now)[k] = hash[k] /\ hash[k] # NoItem
      /\ ~Alive(hash, k) => VisAt(hash, now)[k] = NoItem
  BY <1>1, VisAlive
<1>6. \A text, bin : Slice!Code(r, text, bin) = text
  BY <1>3 DEF Slice!Code
<1>7. CASE ~Alive(hash, k)
  <2>1. /\ hash' = eraseIterator(hash, k)
        /\ out'.req = r /\ out'.code = "MISS" /\ out'.val = <<>> /\ out'.cas = 0
        /\ out'.stat = "get_misses"
    BY <1>1, <1>2, <1>7 DEF getKey, Alive, hitStat
  <2>2. Slice!Answer(r, "MISS", <<>>, 0, "get_misses")
    BY <2>1 DEF Slice!Answer
  <2>3. ItemsOk(hash') /\ VisAt(hash, now)' = VisAt(hash, now)
    BY <1>1, <1>4, <1>7, <2>1, ErasedIs
  <2>4. Slice!Get(r)
    BY <1>2, <1>3, <1>4, <1>5, <1>6, <1>7, <2>2, <2>3, GetMiss
  <2> QED
    BY <1>2, <1>4, <2>1, <2>3, <2>4 DEF Kept, DoesStep
<1>8. CASE Alive(hash, k)
  <2>1. /\ hash' = hash
        /\ out'.req = r /\ out'.code = "VALUE" /\ out'.val = hash[k].val
        /\ out'.cas = hash[k].cas /\ out'.stat = "get_hits"
    BY <1>1, <1>2, <1>8 DEF getKey, Alive, hitStat
  <2>2. PICK item : item = hash[k]
    OBVIOUS
  <2>3. Slice!Answer(r, "VALUE", item.val, item.cas, "get_hits")
    BY <2>1, <2>2 DEF Slice!Answer
  <2>4. /\ VisAt(hash, now)' = [VisAt(hash, now) EXCEPT ![r.key] = Slice!Visible(item)]
        /\ ItemsOk(hash')
    BY <1>1, <1>3, <1>4, <1>8, <2>1, <2>2, LookedIs
  <2>5. Slice!Answer(r, Slice!Code(r, IF r.op # "get" THEN "TOUCHED" ELSE "VALUE", "SUCCESS"),
                        IF r.op = "touch" THEN <<>> ELSE item.val,
                        IF r.bin \/ r.op = "get" THEN item.cas ELSE 0,
                        IF r.op # "get" THEN "touch_hits" ELSE "get_hits")
    BY <1>3, <1>6, <2>3
  <2>6. item = VisAt(hash, now)[r.key] /\ item # NoItem
    BY <1>3, <1>5, <1>8, <2>2
  <2>7. PICK moved :
           /\ moved = item
           /\ moved = (IF r.op # "get" THEN [item EXCEPT !.exp = Slice!Deadline(r.exp)] ELSE item)
    BY <1>3
  <2>8. VisAt(hash, now)' = [VisAt(hash, now) EXCEPT ![r.key] = Slice!Visible(moved)]
    BY <2>4, <2>7
  <2>9. Slice!Get(r)
    BY <1>2, <1>3, <1>4, <2>5, <2>6, <2>7, <2>8, GetHit
  <2> QED
    BY <1>2, <1>4, <2>1, <2>4, <2>9 DEF Kept, DoesStep
<1> QED
  BY <1>7, <1>8

(* flush of either protocol. *)
LEMMA FlushIs ==
    ASSUME RInv, NEW p \in Procs, NEW r \in Requests, doCmdFlush(p, r) \/ doBinFlush(p, r)
    PROVE  Kept /\ DoesStep(r)
<1>1. r.op = "flush" /\ hash' = [k \in Keys |-> NoItem] /\ cas' = cas
  BY DEF doCmdFlush, doBinFlush, clear
<1>2. PICK noreply : Respond(p, r, noreply, 1, Slice!Code(r, "OK", "SUCCESS"), <<>>, 0, "flush")
  <2>1. CASE doCmdFlush(p, r)
    <3>1. Slice!Code(r, "OK", "SUCCESS") = "OK"
      BY <2>1 DEF doCmdFlush, Slice!Code
    <3> QED
      BY <2>1, <3>1, Zenon DEF doCmdFlush
  <2>2. CASE doBinFlush(p, r)
    <3>1. Slice!Code(r, "OK", "SUCCESS") = "SUCCESS"
      BY <2>2 DEF doBinFlush, Slice!Code
    <3> QED
      BY <2>2, <3>1, Zenon DEF doBinFlush
  <2> QED
    BY <2>1, <2>2
<1>3. /\ Slice!Answer(r, Slice!Code(r, "OK", "SUCCESS"), <<>>, 0, "flush")
      /\ now' = now /\ m_nomemfail' = m_nomemfail /\ out'.req = r /\ alive' = alive
  BY <1>2, RespondIs
<1>4. ItemsOk(hash')
  <2>1. ItemOk(NoItem)
    BY DEF ItemOk, NoItem
  <2> QED
    BY <1>1, <2>1 DEF ItemsOk
<1>5. Slice!Flush(r)
  BY <1>1, <1>3 DEF Slice!Flush, isExpired, NoItem, Slice!None
<1> QED
  BY <1>3, <1>4, <1>5 DEF Kept, DoesStep

(* Commands that touch no item. *)
LEMMA ControlIs ==
    ASSUME RInv, NEW p \in Procs, NEW r \in Requests,
           \/ doCmdVersion(p, r) \/ doCmdVerbosity(p, r) \/ doCmdQuit(p, r)
           \/ doCmdMalformed(p, r) \/ doBinVersion(p, r)
           \/ doBinControl(p, r) \/ doBinMalformed(p, r)
    PROVE  Kept /\ DoesStep(r)
<1>1. hash' = hash /\ cas' = cas
  BY DEF Unchanged, doCmdVersion, doCmdVerbosity, doCmdQuit, doCmdMalformed,
         doBinVersion, doBinControl, doBinMalformed
<1>2. ItemsOk(hash')
  BY <1>1 DEF RInv
<1>3. ASSUME NEW noreply, NEW pieces, NEW code,
             Respond(p, r, noreply, pieces, code, <<>>, 0, "none"),
             \/ r.op = "version" /\ code = Slice!Code(r, "VERSION", "SUCCESS")
             \/ r.op \in {"noop", "verbosity"} /\ code = Slice!Code(r, "OK", "SUCCESS")
             \/ r.op = "quit" /\ code = Slice!Code(r, "CLOSED", "SUCCESS")
             \/ r.op = "malformed" /\ code = Slice!Code(r, "CLIENT_ERROR", "EINVAL")
      PROVE  Kept /\ DoesStep(r)
  <2>1. /\ Slice!Answer(r, code, <<>>, 0, "none")
        /\ now' = now /\ m_nomemfail' = m_nomemfail /\ out'.req = r /\ alive' = alive
    BY <1>3, RespondIs
  <2>2. Slice!Control(r)
    BY <1>1, <1>3, <2>1 DEF Slice!Control, isExpired
  <2> QED
    BY <1>2, <2>1, <2>2 DEF Kept, DoesStep
<1>4. \A text, bin : Slice!Code(r, text, bin) = IF r.bin THEN bin ELSE text
  BY DEF Slice!Code
<1>5. CASE doCmdVersion(p, r)
  BY <1>3, <1>4, <1>5 DEF doCmdVersion
<1>6. CASE doCmdVerbosity(p, r)
  BY <1>3, <1>4, <1>6 DEF doCmdVerbosity
<1>7. CASE doCmdQuit(p, r)
  BY <1>3, <1>4, <1>7 DEF doCmdQuit
<1>8. CASE doCmdMalformed(p, r)
  BY <1>3, <1>4, <1>8 DEF doCmdMalformed
<1>9. CASE doBinVersion(p, r)
  BY <1>3, <1>4, <1>9 DEF doBinVersion
<1>10. CASE doBinControl(p, r)
  BY <1>3, <1>4, <1>10 DEF doBinControl
<1>11. CASE doBinMalformed(p, r)
  BY <1>3, <1>4, <1>11 DEF doBinMalformed, binErrRespond
<1> QED
  BY <1>5, <1>6, <1>7, <1>8, <1>9, <1>10, <1>11

(* Time passes: elements that are due are no longer seen. *)
LEMMA TickIs ==
    ASSUME RInv, Tick
    PROVE  /\ TimeOk' /\ ItemsOk(hash') /\ m_nomemfail' = m_nomemfail /\ alive' = alive
           /\ Slice!Tick
<1>1. now \in Nat /\ now > MaxDelta /\ ItemsOk(hash)
  BY DEF RInv, TimeOk
<1>2. /\ now' = now + 1 /\ hash' = hash /\ cas' = cas /\ out' = out
      /\ m_nomemfail' = m_nomemfail /\ alive' = alive
  BY DEF Tick
<1>3. TimeOk'
  BY <1>1, <1>2, SizesAssumption DEF TimeOk
<1>4. \A k \in Keys : /\ hash[k].exp \in Nat
                      /\ hash[k].exp <= now => hash[k].exp <= now'
  BY <1>1, <1>2 DEF ItemsOk, ItemOk
<1>5. Slice!Tick
  BY <1>2, <1>4 DEF Slice!Tick, isExpired, NoItem, Slice!None
<1> QED
  BY <1>1, <1>2, <1>3, <1>5

(* A step for a request is a step of the slice. *)
LEMMA StepIsNext ==
    ASSUME NEW r \in Requests, DoesStep(r), m_nomemfail' = m_nomemfail, alive' = alive
    PROVE  Slice!Next
  BY DEF DoesStep, Slice!Next

(* The handlers of the requests. *)
LEMMA RequestIs ==
    ASSUME RInv, NEW p \in Procs, NEW r \in Requests,
           \/ doCmdUpdate(p, r) \/ doCmdArithmetic(p, r) \/ doCmdDelete(p, r)
           \/ doCmdTouch(p, r) \/ doCmdFlush(p, r) \/ doCmdVersion(p, r)
           \/ doCmdVerbosity(p, r) \/ doCmdQuit(p, r) \/ doCmdMalformed(p, r)
           \/ doBinUpdate(p, r) \/ doBinArithmetic(p, r) \/ doBinDelete(p, r)
           \/ doBinGet(p, r) \/ doBinFlush(p, r) \/ doBinVersion(p, r)
           \/ doBinControl(p, r) \/ doBinMalformed(p, r)
    PROVE  (Kept \/ Rebuilds) /\ Slice!Next
<1>1. (Kept /\ DoesStep(r)) \/ Rebuilds
  BY CmdUpdateIs, CmdArithmeticIs, CmdDeleteIs, CmdTouchIs, FlushIs, ControlIs,
     BinUpdateIs, BinArithmeticIs, BinDeleteIs, BinGetIs
<1>2. Rebuilds => Slice!Next
  BY DEF Rebuilds, Slice!Next
<1> QED
  BY <1>1, <1>2, StepIsNext DEF Kept

(* The databases are removed: the abstract slice starts anew. *)
LEMMA RestartIs ==
    ASSUME RInv, childSignaled
    PROVE  TimeOk' /\ ItemsOk(hash') /\ Slice!Next
<1>1. /\ alive # Procs /\ alive' = Procs /\ hash' = [k \in Keys |-> NoItem] /\ cas' = 0
      /\ now' = now /\ m_nomemfail' = m_nomemfail /\ out' = out
  BY DEF childSignaled
<1>2. ItemOk(NoItem)
  BY DEF ItemOk, NoItem
<1>3. TimeOk' /\ ItemsOk(hash')
  BY <1>1, <1>2 DEF RInv, TimeOk, ItemsOk
<1>4. [k \in Keys |-> IF isExpired(hash[k]) THEN NoItem ELSE hash[k]]' = [k \in Keys |-> Slice!None]
  BY <1>1 DEF isExpired, NoItem, Slice!None
<1>5. Slice!Restart
  BY <1>1, <1>4 DEF Slice!Restart
<1> QED
  BY <1>1, <1>3, <1>5 DEF Slice!Next

(* The invariant under which the handlers implement the slice. *)
SeenInv == TimeOk /\ ItemsOk(hash)

(* Every step keeps the invariant and is a step of the slice or none. *)
LEMMA SeenStep ==
    ASSUME IInv, ListsOk, SeenInv, [Next]_vars
    PROVE  SeenInv' /\ [Slice!Next]_Slice!specVars
<1>1. RInv
  BY DEF IInv, HashOk, SeenInv, RInv
<1>2. Kept \/ Rebuilds => SeenInv'
  BY <1>1 DEF Kept, Rebuilds, SeenInv, RInv, TimeOk
<1>3. CASE Tick
  <2>1. /\ TimeOk' /\ ItemsOk(hash') /\ m_nomemfail' = m_nomemfail /\ alive' = alive
        /\ Slice!Tick
    BY <1>1, <1>3, TickIs
  <2>2. SeenInv'
    BY <2>1 DEF SeenInv
  <2> QED
    BY <2>1, <2>2 DEF Slice!Next
<1>10. CASE childSignaled
  BY <1>1, <1>10, RestartIs DEF SeenInv
<1>4. ASSUME hash' = hash, cas' = cas, now' = now, out' = out, m_nomemfail' = m_nomemfail,
             alive' = alive
      PROVE  SeenInv' /\ [Slice!Next]_Slice!specVars
  <2>1. SeenInv'
    BY <1>4 DEF SeenInv, TimeOk
  <2>2. UNCHANGED Slice!specVars
    BY <1>4 DEF Slice!specVars, isExpired
  <2> QED
    BY <2>1, <2>2
<1>5. CASE vars' = vars
  BY <1>4, <1>5 DEF vars
<1>6. ASSUME NEW p \in Procs, NEW ks \in KeyLists, doCmdGet(p, ks)
      PROVE  SeenInv' /\ [Slice!Next]_Slice!specVars
  BY <1>4, <1>6 DEF doCmdGet
<1>7. ASSUME NEW p \in Procs, getKey(p)
      PROVE  SeenInv' /\ [Slice!Next]_Slice!specVars
  <2>1. m_keyList[p] \in Seq(Keys)
    BY DEF ListsOk
  <2>2. Kept /\ \E r \in Requests : DoesStep(r)
    BY <1>1, <1>7, <2>1, GetKeyIs
  <2> QED
    BY <1>2, <2>2, StepIsNext DEF Kept
<1>8. ASSUME NEW p \in Procs, NEW r \in Requests, doCmdUpdateNoData(p, r)
      PROVE  SeenInv' /\ [Slice!Next]_Slice!specVars
  BY <1>4, <1>8 DEF doCmdUpdateNoData
<1>9. ASSUME NEW p \in Procs, NEW r \in Requests,
             \/ doCmdUpdate(p, r) \/ doCmdArithmetic(p, r) \/ doCmdDelete(p, r)
             \/ doCmdTouch(p, r) \/ doCmdFlush(p, r) \/ doCmdVersion(p, r)
             \/ doCmdVerbosity(p, r) \/ doCmdQuit(p, r) \/ doCmdMalformed(p, r)
             \/ doBinUpdate(p, r) \/ doBinArithmetic(p, r) \/ doBinDelete(p, r)
             \/ doBinGet(p, r) \/ doBinFlush(p, r) \/ doBinVersion(p, r)
             \/ doBinControl(p, r) \/ doBinMalformed(p, r)
      PROVE  SeenInv' /\ [Slice!Next]_Slice!specVars
  BY <1>1, <1>2, <1>9, RequestIs
<1> QED
  BY <1>3, <1>5, <1>6, <1>7, <1>8, <1>9, <1>10 DEF Next

(* The slice begins empty. *)
LEMMA SeenInit == Init => SeenInv /\ Slice!Init
<1> SUFFICES ASSUME Init
             PROVE  SeenInv /\ Slice!Init
  OBVIOUS
<1>1. ItemOk(NoItem)
  BY DEF ItemOk, NoItem
<1>2. SeenInv
  BY <1>1, SizesAssumption DEF Init, SeenInv, TimeOk, ItemsOk
<1>3. NoReq = Slice!NoReq
  <2> DEFINE F == {"op", "bin", "key", "val", "exp", "cas", "delta", "init", "quiet"}
  <2>1. PICK g : g = GetReq(CHOOSE k \in Keys : TRUE)
    OBVIOUS
  <2>2. PICK x, y : x = NoReq /\ y = Slice!NoReq
    OBVIOUS
  <2>3. x = [g EXCEPT !.op = "none"]
    BY <2>1, <2>2, Zenon DEF NoReq
  <2>4. DOMAIN g = F /\ DOMAIN y = F
    BY <2>1, <2>2 DEF GetReq, Slice!NoReq
  <2>5. DOMAIN x = F /\ x.op = "none" /\ \A f \in F \ {"op"} : x[f] = g[f]
    BY <2>3, <2>4
  <2>6. /\ y.op = "none" /\ y.bin = g.bin /\ y.key = g.key /\ y.val = g.val /\ y.exp = g.exp
        /\ y.cas = g.cas /\ y.delta = g.delta /\ y.init = g.init /\ y.quiet = g.quiet
    BY <2>1, <2>2 DEF GetReq, Slice!NoReq
  <2>7. \A f \in F : x[f] = y[f]
    BY <2>5, <2>6
  <2>8. x = [f \in F |-> x[f]] /\ y = [f \in F |-> y[f]]
    BY <2>2, <2>3, <2>4, <2>5 DEF Slice!NoReq
  <2> HIDE DEF F
  <2>9. x = y
    BY <2>7, <2>8
  <2> QED
    BY <2>2, <2>9
<1>4. Slice!Init
  BY <1>3 DEF Init, Slice!Init, isExpired, NoItem, Slice!None
<1> QED
  BY <1>2, <1>4

(* For any keys, processes, requests and limits, whatever is evicted, expires, is
   refused or gets no memory: the handlers of both protocols implement the promise
   of a slice, in which a count or an item that got no memory is lost and a store
   that finds the memory full after the trim ends the database (chkMemSz, doSet).
   An expired element that is still in the hash cannot be told from a missing
   one, every answer and counter is the one the promise names, and what incr and
   decr print is the numeral of the sum.  That strtoull and snprintf agree with
   the values of numerals is NumeralsAssumption. *)
THEOREM SliceIsImplemented == Spec => Implements
  BY InitOk, StepOk, ListsStep, SeenInit, SeenStep, PTL DEF Spec, Implements, Slice!Spec
============================================================================
