---------------------------- MODULE MemcacheSpec ----------------------------
(***************************************************************************)
(* What one slice promises its clients, whatever the protocol they speak:  *)
(* a map from keys to items in which an item is gone the moment it         *)
(* expires, every change of an item gives it a fresh cas number, and a     *)
(* reply and a statistics counter go with each outcome.  Storing commands  *)
(* may evict items to make room.  A command that finds no memory for what  *)
(* it has computed loses the item it was to replace, and a database found  *)
(* damaged is thrown away with its counter.                                *)
(***************************************************************************)
EXTENDS Integers, Sequences

CONSTANTS Keys, Requests,
          ValMax, HdrLen,   \* m_iValMaxSz; bytes of LsMcDataItem before a value
          MaxDelta,         \* LSMC_MAXDELTATIME
          ULLMod,           \* 2^64: the numbers incr and decr compute with
          ULL_MAXLEN        \* longest value taken for a number

VARIABLES store, cas, now, out,
          m_nomemfail,      \* configured: fail instead of evicting
          damaged           \* the database is to be thrown away

specVars == << store, cas, now, out, m_nomemfail, damaged >>

None == [val |-> <<>>, cas |-> 0, exp |-> 0]      \* no item: cas numbers start at 1

Digits == {"0", "1"}            \* numerals are binary here, decimal in the code

IsNumeral(v) ==
    /\ v # <<>>
    /\ \A i \in DOMAIN v : v[i] \in Digits

Bit(v, i) == IF v[i] = "1" THEN 2 ^ (Len(v) - i) ELSE 0

ValueOf(v) ==
    LET sum[i \in 0 .. Len(v)] == IF i = 0 THEN 0 ELSE sum[i - 1] + Bit(v, i)
    IN sum[Len(v)]

(* The numeral of n without leading zeros. *)
Numeral(n) ==
    CHOOSE v \in UNION {[1 .. l -> Digits] : l \in 1 .. ULL_MAXLEN} :
        ValueOf(v) = n /\ (Len(v) > 1 => v[1] = "1")

Deadline(exp) == IF exp \in 1 .. MaxDelta THEN exp + now ELSE exp

Gone(item) == item.exp # 0 /\ item.exp <= now

Visible(item) == IF Gone(item) THEN None ELSE item

(* A binary set that names a cas number is a replace. *)
Op(r) == IF r.bin /\ r.op = "set" /\ r.cas # 0 THEN "replace" ELSE r.op

StoreOps == {"set", "add", "replace", "cas", "append", "prepend"}

Code(r, text, bin) == IF r.bin THEN bin ELSE text

(* A text store counts the item header against the limit, a binary one and
   append or prepend do not. *)
TooLarge(r) ==
    /\ ValMax # 0
    /\ ValMax < Len(r.val)
                + (IF r.bin \/ r.op \in {"append", "prepend"} THEN 0 ELSE HdrLen)

(* The cas number a request insists on; a binary 0 insists on nothing. *)
CasAgrees(r, item) == (r.op # "cas" /\ r.cas = 0) \/ r.cas = item.cas

(* What a storing request finds wrong with the state, or "" *)
Refusal(r, item) ==
    CASE Op(r) = "add" /\ item # None -> Code(r, "NOT_STORED", "KEYEEXISTS")
      [] Op(r) \in {"append", "prepend"} /\ item = None ->
            Code(r, "NOT_STORED", "NOTSTORED")
      [] Op(r) = "replace" /\ item = None -> Code(r, "NOT_STORED", "KEYENOENT")
      [] Op(r) = "cas" /\ item = None -> Code(r, "NOT_FOUND", "KEYENOENT")
      [] Op(r) \notin {"set", "add"} /\ item # None /\ ~CasAgrees(r, item) ->
            Code(r, "EXISTS", "KEYEEXISTS")
      [] OTHER -> ""

Stored(r, item) ==
    [val |-> CASE Op(r) = "append"  -> item.val \o r.val
               [] Op(r) = "prepend" -> r.val \o item.val
               [] OTHER            -> r.val,
     exp |-> IF Op(r) \in {"append", "prepend"} THEN item.exp ELSE Deadline(r.exp),
     cas |-> cas + 1]

CasStat(r, item) ==
    IF Op(r) # "cas" /\ (Op(r) # "replace" \/ r.cas = 0) THEN "set"
    ELSE IF item = None THEN "cas_misses"
    ELSE IF CasAgrees(r, item) THEN "cas_hits" ELSE "cas_badval"

Answer(r, code, val, c, stat) ==
    out' = [req |-> r, code |-> code, val |-> val, cas |-> c, stat |-> stat]

Without(gone) == [k \in Keys |-> IF k \in gone THEN None ELSE store[k]]

(* set, add, replace, cas, append and prepend.  gone: evicted to make room. *)
Store(r) ==
    /\ Op(r) \in StoreOps
    /\ \/ /\ TooLarge(r)
          /\ Answer(r, Code(r, "TOO_LARGE", "E2BIG"), <<>>, 0, "none")
          /\ store' = [store EXCEPT ![r.key] = IF Op(r) = "set" THEN None ELSE @]
          /\ UNCHANGED cas
       \/ /\ ~TooLarge(r)
          /\ m_nomemfail
          /\ Answer(r, Code(r, "OUT_OF_MEMORY", "ENOMEM"), <<>>, 0, "none")
          /\ UNCHANGED << store, cas >>
       \/ /\ ~TooLarge(r)
          /\ \E gone \in SUBSET Keys :
               LET left == Without(gone)
                   item == left[r.key]
                   refusal == Refusal(r, item)
               IN  /\ m_nomemfail => gone = {}
                   /\ \/ /\ refusal = ""
                         /\ store' = [left EXCEPT ![r.key] = Visible(Stored(r, item))]
                         /\ cas' = cas + 1
                         /\ Answer(r, Code(r, "STORED", "SUCCESS"), <<>>,
                                   IF r.bin THEN cas + 1 ELSE 0,
                                   CasStat(r, item))
                      \/ /\ refusal = ""           \* no memory for the new item
                         /\ store' = [left EXCEPT ![r.key] =
                               IF Op(r) \in {"append", "prepend"} THEN @ ELSE None]
                         /\ UNCHANGED cas
                         /\ Answer(r, Code(r, "NOT_STORED", "NOTSTORED"), <<>>, 0,
                                   CasStat(r, item))
                      \/ /\ refusal # ""
                         /\ store' = left
                         /\ UNCHANGED cas
                         /\ Answer(r, refusal, <<>>, 0, CasStat(r, item))
    /\ UNCHANGED now

(* incr and decr: incr wraps at 2^64, decr stops at 0.  A binary request may
   carry the value a missing key starts from.  A count for whose result there is
   no memory is lost, with an answer that is one of the errors of a count, or
   starts anew like a missing one. *)
Sum(r, n) ==
    IF r.op = "incr" THEN (n + r.delta) % ULLMod
    ELSE IF r.delta > n THEN 0 ELSE n - r.delta

IsNumber(v) == IsNumeral(v) /\ Len(v) <= ULL_MAXLEN /\ ValueOf(v) < ULLMod

Arith(r) ==
    LET item == store[r.key]
        hit  == IF r.op = "incr" THEN "incr_hits" ELSE "decr_hits"
        miss == IF r.op = "incr" THEN "incr_misses" ELSE "decr_misses"
        new  == Numeral(Sum(r, ValueOf(item.val)))
        counts == item # None /\ CasAgrees(r, item) /\ IsNumber(item.val)
        answered(v, stat) == Answer(r, Code(r, "NUMBER", "SUCCESS"), v,
                                    IF r.bin THEN cas + 1 ELSE 0, stat)
    IN  /\ r.op \in {"incr", "decr"}
        /\ UNCHANGED now
        /\ \/ /\ item = None
              /\ r.init = -1
              /\ UNCHANGED << store, cas >>
              /\ Answer(r, Code(r, "NOT_FOUND", "KEYENOENT"), <<>>, 0, miss)
           \/ /\ item = None \/ counts
              /\ r.init # -1
              /\ store' = [store EXCEPT ![r.key] =
                    Visible([val |-> Numeral(r.init), exp |-> Deadline(r.exp),
                             cas |-> cas + 1])]
              /\ cas' = cas + 1
              /\ answered(Numeral(r.init), "none")
           \/ /\ counts \/ (item = None /\ r.init # -1)
              /\ store' = [store EXCEPT ![r.key] = None]
              /\ UNCHANGED cas
              /\ \/ \E code \in {Code(r, "SERVER_ERROR", "NOTSTORED"),
                                Code(r, "NON_NUMERIC", "DELTABADVAL"),
                                Code(r, "SERVER_ERROR", "KEYEEXISTS")} :
                        /\ code = Code(r, "SERVER_ERROR", "NOTSTORED") \/ counts
                        /\ Answer(r, code, <<>>, 0, "none")
                 \/ /\ counts
                    /\ r.init = -1
                    /\ Answer(r, Code(r, "NOT_FOUND", "KEYENOENT"), <<>>, 0, miss)
           \/ /\ item # None
              /\ ~CasAgrees(r, item)
              /\ UNCHANGED << store, cas >>
              /\ Answer(r, "KEYEEXISTS", <<>>, 0, "none")
           \/ /\ item # None
              /\ CasAgrees(r, item)
              /\ ~IsNumber(item.val)
              /\ UNCHANGED << store, cas >>
              /\ Answer(r, Code(r, "NON_NUMERIC", "DELTABADVAL"), <<>>, 0, "none")
           \/ /\ counts
              /\ store' = [store EXCEPT ![r.key] =
                              [item EXCEPT !.val = new, !.cas = cas + 1]]
              /\ cas' = cas + 1
              /\ answered(new, hit)

Delete(r) ==
    LET item == store[r.key]
    IN  /\ r.op = "delete"
        /\ UNCHANGED << cas, now >>
        /\ \/ /\ item = None
              /\ UNCHANGED store
              /\ Answer(r, Code(r, "NOT_FOUND", "KEYENOENT"), <<>>, 0, "delete_misses")
           \/ /\ item # None
              /\ CasAgrees(r, item)
              /\ store' = [store EXCEPT ![r.key] = None]
              /\ Answer(r, Code(r, "DELETED", "SUCCESS"), <<>>, 0, "delete_hits")
           \/ /\ item # None
              /\ ~CasAgrees(r, item)
              /\ UNCHANGED store
              /\ Answer(r, "KEYEEXISTS", <<>>, 0, "none")

(* get, and touch and gat, which move the deadline and keep the cas number. *)
Get(r) ==
    LET item == store[r.key]
        t    == r.op # "get"
        moved == IF t THEN [item EXCEPT !.exp = Deadline(r.exp)] ELSE item
    IN  /\ r.op \in {"get", "touch", "gat"}
        /\ UNCHANGED << cas, now >>
        /\ \/ /\ item = None
              /\ UNCHANGED store
              /\ Answer(r, Code(r, IF t THEN "NOT_FOUND" ELSE "MISS", "KEYENOENT"),
                        <<>>, 0, IF t THEN "touch_misses" ELSE "get_misses")
           \/ /\ item # None
              /\ store' = [store EXCEPT ![r.key] = Visible(moved)]
              /\ Answer(r, Code(r, IF t THEN "TOUCHED" ELSE "VALUE", "SUCCESS"),
                        IF r.op = "touch" THEN <<>> ELSE item.val,
                        IF r.bin \/ r.op = "get" THEN item.cas ELSE 0,
                        IF t THEN "touch_hits" ELSE "get_hits")

Flush(r) ==
    /\ r.op = "flush"
    /\ store' = [k \in Keys |-> None]
    /\ UNCHANGED << cas, now >>
    /\ Answer(r, Code(r, "OK", "SUCCESS"), <<>>, 0, "flush")

(* Commands that touch no item. *)
Control(r) ==
    /\ UNCHANGED << store, cas, now >>
    /\ \/ /\ r.op = "version"
          /\ Answer(r, Code(r, "VERSION", "SUCCESS"), <<>>, 0, "none")
       \/ /\ r.op \in {"noop", "verbosity"}
          /\ Answer(r, Code(r, "OK", "SUCCESS"), <<>>, 0, "none")
       \/ /\ r.op = "quit"
          /\ Answer(r, Code(r, "CLOSED", "SUCCESS"), <<>>, 0, "none")
       \/ /\ r.op = "malformed"
          /\ Answer(r, Code(r, "CLIENT_ERROR", "EINVAL"), <<>>, 0, "none")

Tick ==
    /\ now' = now + 1
    /\ store' = [k \in Keys |->
                    IF store[k].exp # 0 /\ store[k].exp <= now' THEN None ELSE store[k]]
    /\ UNCHANGED << cas, out >>

(* A store finds that evicting does not help: its client gets no answer, ... *)
Rebuild ==
    /\ ~m_nomemfail
    /\ \E gone \in SUBSET Keys : store' = Without(gone)
    /\ damaged' = TRUE
    /\ UNCHANGED << cas, now, out >>

(* ... and the slice starts anew, its cas numbers too. *)
Restart ==
    /\ damaged
    /\ store' = [k \in Keys |-> None]
    /\ cas' = 0
    /\ damaged' = FALSE
    /\ UNCHANGED << now, out >>

NoReq == [op |-> "none", bin |-> FALSE, key |-> CHOOSE k \in Keys : TRUE,
          val |-> <<>>, exp |-> 0, cas |-> 0, delta |-> 0, init |-> -1, quiet |-> FALSE]

Init ==
    /\ store = [k \in Keys |-> None]
    /\ cas = 0
    /\ now = MaxDelta + 1
    /\ m_nomemfail \in BOOLEAN
    /\ out = [req |-> NoReq, code |-> "none", val |-> <<>>, cas |-> 0,
              stat |-> "none"]
    /\ damaged = FALSE

Next ==
    /\ UNCHANGED m_nomemfail
    /\ \/ Rebuild
       \/ Restart
       \/ /\ UNCHANGED damaged
          /\ \/ Tick
             \/ \E r \in Requests :
                  /\ out'.req = r
                  /\ Store(r) \/ Arith(r) \/ Delete(r) \/ Get(r) \/ Flush(r) \/ Control(r)

Spec == Init /\ [][Next]_specVars
=============================================================================
