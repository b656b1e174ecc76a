------------------------------- MODULE LsHash -------------------------------
(***************************************************************************)
(* The hash table in memory, in its two copies: GHash (lsshm's tables of   *)
(* pools and hashes) and ls_hash (the hashes of the users).  A bucket is   *)
(* the sequence of its elements, newest first; an element is known by the  *)
(* number of its allocation.  A key is a sequence of codes; a number is a  *)
(* key of one code.                                                        *)
(***************************************************************************)
EXTENDS Integers, Sequences, FiniteSets, SequencesExt, FiniteSetsExt

CONSTANTS
    HtPrimes,  \* s_prime_list
    HtKeys,    \* the keys the program uses
    HtFold,    \* [code -> code]: the case of a character folded
    HtXXH,     \* [HtKeys -> Nat]: XXH of a string (external)
    MaxHtElems \* bound of the model: allocations

ASSUME HtAssumption == \A k \in HtKeys : \A c \in DOMAIN k : k[c] \in DOMAIN HtFold

FullFactor == 2 \* m_full_factor, load_factor
GrowFactor == 2

VARIABLES ht, htWalk
htVars == <<ht, htWalk>>

-----------------------------------------------------------------------------
(* Keys. *)
hash_cistring(k) == FoldLeft(LAMBDA h, c : (h * 31) + HtFold[c], 0, k)
hashOf(t, k) == CASE t.kind = "num" -> k[1] [] t.kind = "string" -> HtXXH[k] [] OTHER -> hash_cistring(k)

folded(k) == [c \in DOMAIN k |-> HtFold[k[c]]]
comp_cistring(a, b) == folded(a) = folded(b)
(* The copy in ls_hash compares only as far as the key looked for is long. *)
ls_hash_cmpcistring(a, b) == IsPrefix(folded(a), folded(b))
same(t, a, b) ==
    IF t.kind = "cistring" THEN IF t.lib = "GHash" THEN comp_cistring(a, b) ELSE ls_hash_cmpcistring(a, b) ELSE a = b

-----------------------------------------------------------------------------
(* The table. *)
findRange(sz) ==
    LET fit == {i \in 1 .. Len(HtPrimes) - 2 : sz <= HtPrimes[i + 1]}
    IN  IF fit = {} THEN Len(HtPrimes) - 1 ELSE Min(fit)
roundUp(sz) == HtPrimes[findRange(sz) + 1]

emptyTab(cap) == [i \in 0 .. cap - 1 |-> << >>]
newTable(lib, kind, sz) ==
    [lib |-> lib, kind |-> kind, cap |-> roundUp(sz), tab |-> emptyTab(roundUp(sz)), size |-> 0]

getindex(t, h) == h % t.cap
inOrder(t) == FlattenSeq([i \in 1 .. t.cap |-> t.tab[i - 1]])
elements(t) == ToSet(inOrder(t))

NoElem == [id |-> 0, key |-> << >>, hkey |-> 0]
find(t, k) ==
    LET b == t.tab[getindex(t, hashOf(t, k))]
        hit == {i \in DOMAIN b : same(t, k, b[i].key)}
    IN  IF hit = {} THEN NoElem ELSE b[Min(hit)]

begin(t) == IF t.size = 0 \/ inOrder(t) = << >> THEN NoElem ELSE Head(inOrder(t))
(* The element after e in its bucket, or the first of a later bucket.      *)
next(t, e) ==
    LET i == getindex(t, e.hkey)
        after == [k \in 1 .. t.cap - 1 - i |-> t.tab[i + k]]
        here == {k \in DOMAIN t.tab[i] : t.tab[i][k].id = e.id}
        rest == (IF here = {} THEN << >> ELSE SubSeq(t.tab[i], Min(here) + 1, Len(t.tab[i]))) \o FlattenSeq(after)
    IN  IF rest = << >> THEN NoElem ELSE Head(rest)

(* Elements move to the front of their new bucket in the order of a walk.  *)
rehashKeepIndex(t) ==
    LET cap == HtPrimes[findRange(t.cap) + GrowFactor + 1]
    IN  [t EXCEPT !.cap = cap, !.tab = [i \in 0 .. cap - 1 |-> IF i < t.cap THEN t.tab[i] ELSE << >>]]
rehash(t) ==
    LET cap == HtPrimes[findRange(t.cap) + GrowFactor + 1]
    IN  [t EXCEPT !.cap = cap,
                  !.tab = FoldLeft(LAMBDA tab, e : [tab EXCEPT ![e.hkey % cap] = <<e>> \o @], emptyTab(cap), inOrder(t))]

mustGrow(t) == t.size * FullFactor > t.cap
(* mem: what the two allocations return, the new table's and the element's *)
insert2(t, e, mem) ==
    LET g == IF mustGrow(t) /\ mem[1] THEN rehash(t) ELSE t
    IN  IF ~mem[2] THEN g
        ELSE [g EXCEPT !.tab[getindex(g, e.hkey)] = <<e>> \o @, !.size = @ + 1]

newElem(t, k, id) == [id |-> id, key |-> k, hkey |-> hashOf(t, k)]
insert(t, k, id, mem) == IF find(t, k) # NoElem THEN t ELSE insert2(t, newElem(t, k, id), mem)

(* An update gives the element found the new key (and the data, which are  *)
(* left out).                                                              *)
update(t, k, id, mem) ==
    LET e == find(t, k)
        i == getindex(t, e.hkey)
        changed == [e EXCEPT !.key = k]
    IN  IF e = NoElem THEN insert2(t, newElem(t, k, id), mem)
        ELSE [t EXCEPT !.tab[i] = [x \in DOMAIN @ |-> IF @[x].id = e.id THEN changed ELSE @[x]]]

erase(t, e) ==
    IF e = NoElem THEN t
    ELSE [t EXCEPT !.tab[getindex(t, e.hkey)] = SelectSeq(@, LAMBDA x : x.id # e.id), !.size = @ - 1]

clear(t) == [t EXCEPT !.tab = emptyTab(t.cap), !.size = 0]

-----------------------------------------------------------------------------
(* A caller's operations; a walk fetches the element after the one whose   *)
(* turn it is before the callback runs, so the callback may erase its own. *)
place(e) == [e EXCEPT !.key = << >>]
NoWalk == [on |-> FALSE, then |-> NoElem, seen |-> << >>, due |-> {}, grown |-> FALSE]

InitHt ==
    /\ \E lib \in {"GHash", "ls_hash"}, kind \in {"num", "string", "cistring"} : ht = newTable(lib, kind, 0)
    /\ htWalk = NoWalk

freshId == Min({x \in 1 .. MaxHtElems + 1 : x \notin {e.id : e \in elements(ht)} \cup ToSet(htWalk.seen)})
usable == {k \in HtKeys : ht.kind = "num" => Len(k) = 1}

(* What is still due when the table has become t. *)
stillDue(t) == {x \in htWalk.due : \E e \in elements(t) : e.id = x}
changeTo(t) ==
    /\ ht' = t
    /\ htWalk' = IF htWalk.on THEN [htWalk EXCEPT !.due = stillDue(t), !.grown = @ \/ t.cap # ht.cap] ELSE htWalk

Insert(lib, k, mem) == ht.lib = lib /\ freshId <= MaxHtElems /\ changeTo(insert(ht, k, freshId, mem))
Update(lib, k, mem) == ht.lib = lib /\ freshId <= MaxHtElems /\ changeTo(update(ht, k, freshId, mem))
Erase(lib, k) ==
    /\ ht.lib = lib
    /\ find(ht, k) = NoElem \/ find(ht, k).id # htWalk.then.id
    /\ changeTo(erase(ht, find(ht, k)))
Clear(lib) == ht.lib = lib /\ ~htWalk.on /\ changeTo(clear(ht))

GHashOp ==
    \/ \E k \in usable, mem \in [1 .. 2 -> BOOLEAN] : Insert("GHash", k, mem) \/ Update("GHash", k, mem)
    \/ \E k \in usable : Erase("GHash", k)
    \/ Clear("GHash")
ls_hash_op ==
    \/ \E k \in usable, mem \in [1 .. 2 -> BOOLEAN] : Insert("ls_hash", k, mem) \/ Update("ls_hash", k, mem)
    \/ \E k \in usable : Erase("ls_hash", k)
    \/ Clear("ls_hash")

for_each ==
    /\ ~htWalk.on
    /\ begin(ht) # NoElem
    /\ htWalk' = [on |-> TRUE, then |-> place(next(ht, begin(ht))), seen |-> <<begin(ht).id>>,
                  due |-> {e.id : e \in elements(ht)}, grown |-> FALSE]
    /\ UNCHANGED ht
for_each_step ==
    /\ htWalk.on
    /\ htWalk' = IF htWalk.then = NoElem THEN [htWalk EXCEPT !.on = FALSE]
                 ELSE [htWalk EXCEPT !.then = place(next(ht, htWalk.then)), !.seen = Append(@, htWalk.then.id)]
    /\ UNCHANGED ht
WalkDone == ~htWalk.on /\ htWalk # NoWalk /\ htWalk' = NoWalk /\ UNCHANGED ht

NextHt == GHashOp \/ ls_hash_op \/ for_each \/ for_each_step \/ WalkDone

-----------------------------------------------------------------------------
(* A key in the table is found with its own element, however often the     *)
(* table has grown, and m_size counts the elements; ls_hash's comparison   *)
(* of keys without case, which takes a key for any key it begins, is left  *)
(* out.                                                                    *)
LookupExact ==
    /\ ht.size = Len(inOrder(ht))
    /\ ~(ht.lib = "ls_hash" /\ ht.kind = "cistring") => \A e \in elements(ht) : find(ht, e.key) = e

(* A walk in which the table does not grow visits once every element that  *)
(* stays, even when its callback erases the element it is given.           *)
WalkComplete ==
    ~htWalk.grown =>
        /\ IsInjective(htWalk.seen)
        /\ ~htWalk.on => htWalk.due \subseteq ToSet(htWalk.seen)
=============================================================================
