------------------------- MODULE LsShmNames_proofs -------------------------
(***************************************************************************)
(* Proofs about the named hashes of a shared-memory file, for any number   *)
(* of workers, users, locks and tables, and deaths at any point.           *)
(***************************************************************************)
EXTENDS LsShmNames, TLAPS

USE NamesAssumption

States == {"ended", "ghash", "reg", "value", "lock", "table", "store", "open", "idle"}
Objs == [tab : Nat, ref : Nat]
ProcRecs == [st : States, name : HashNames, lock : Nat, off : Nat,
             obj : [HashNames -> Objs], user : [NameUsers -> Nat]]
Files == [ghash : Nat, reg : [HashNames -> Int], tables : Seq(Nat), free : Seq(Nat)]
Hists == [lost : SUBSET Nat, overlap : SUBSET HashNames, deaths : Nat]

Types == names \in Files /\ nproc \in [NameProcs -> ProcRecs] /\ nameHist \in Hists

-----------------------------------------------------------------------------
(* The strengthening, part by part. *)

(* What a process may rely on: a value once in the registry stays. *)
RegRead(r, f) ==
    /\ r.st \in {"value", "lock", "table", "store", "open"} => f.reg[r.name] >= 0
    /\ r.st = "open" => f.reg[r.name] > 0
    /\ r.st = "store" => r.off \in 1 .. Len(f.tables)

(* An object is not there, or counted and of a table that was made; a user's
   pointer is to a counted object; only a process that is about to make a
   table holds a lock. *)
ObjsOk(r, f) ==
    \A n \in HashNames : \/ r.obj[n] = NoObj
                         \/ r.obj[n].ref > 0 /\ r.obj[n].tab \in 1 .. Len(f.tables)
UsersOk(r) ==
    \A u \in NameUsers :
       r.user[u] # NoOff => r.obj[u].ref > 0 /\ r.obj[u].tab = r.user[u]
LockOk(r) == r.lock # 0 <=> r.st = "table"

ProcOk(r, f) == RegRead(r, f) /\ ObjsOk(r, f) /\ UsersOk(r) /\ LockOk(r)

ProcsOk == \A p \in NameProcs : ProcOk(nproc[p], names)

RegOk == \A n \in HashNames : names.reg[n] \in -1 .. Len(names.tables)

(* Whoever knows of table t takes it for the table of name n. *)
Holds(r, t, n) == r.obj[n].tab = t \/ (r.st = "store" /\ r.off = t /\ r.name = n)
Claimed(t, n) == names.reg[n] = t \/ \E p \in NameProcs : Holds(nproc[p], t, n)

ClaimsApart ==
    \A t \in Nat \ {0}, n, m \in HashNames : Claimed(t, n) /\ Claimed(t, m) => n = m

(* Without an overlap the process that makes the table of a name is alone, and
   nobody has stored one. *)
AloneCreating ==
    \A p \in NameProcs, n \in HashNames \ nameHist.overlap :
       Creating(p, n) => /\ names.reg[n] = NoOff
                         /\ \A q \in NameProcs : Creating(q, n) => q = p

(* The locks, one statement for each place where a lock can be. *)
Elems(q) == {q[i] : i \in 1 .. Len(q)}
Once(q) == \A i, j \in 1 .. Len(q) : q[i] = q[j] => i = j
FreeSet == Elems(names.free)
TabSet == Elems(names.tables)
Held(l) == \E p \in NameProcs : nproc[p].lock = l

LocksPlaced ==
    \A l \in Nat \ {0} :
       l \in 1 .. NameLocks <=>
          l \in FreeSet \/ l = names.ghash \/ l \in TabSet \/ Held(l) \/ l \in nameHist.lost
LocksApart ==
    /\ 0 \notin FreeSet /\ 0 \notin TabSet /\ 0 \notin nameHist.lost
    /\ \A l \in Nat \ {0} :
          /\ l \in FreeSet => ~(l = names.ghash \/ l \in TabSet \/ Held(l) \/ l \in nameHist.lost)
          /\ l = names.ghash => ~(l \in TabSet \/ Held(l) \/ l \in nameHist.lost)
          /\ l \in TabSet => ~(Held(l) \/ l \in nameHist.lost)
          /\ Held(l) => l \notin nameHist.lost
    /\ Once(names.free) /\ Once(names.tables)
    /\ \A p, q \in NameProcs : nproc[p].lock = nproc[q].lock /\ nproc[p].lock # 0 => p = q

LocksInv == LocksPlaced /\ LocksApart

IInv == Types /\ ProcsOk /\ RegOk /\ ClaimsApart /\ OneTable /\ AloneCreating /\ LocksInv

-----------------------------------------------------------------------------
(* The strengthening implies the property. *)
LEMMA IInvSound == IInv => NamesSound
<1> SUFFICES ASSUME IInv PROVE NamesSound
  OBVIOUS
<1>1. OneTable
  BY DEF IInv
<1>2. TablesApart
  <2> SUFFICES ASSUME NEW p \in NameProcs, NEW q \in NameProcs,
                      NEW n \in HashNames, NEW m \in HashNames,
                      n # m, nproc[p].obj[n].ref > 0,
                      nproc[p].obj[n].tab = nproc[q].obj[m].tab
               PROVE  FALSE
    BY DEF TablesApart
  <2>1. nproc[p].obj[n].tab \in Nat \ {0}
    BY SMTT(30) DEF IInv, ProcsOk, ProcOk, ObjsOk, Types, Files, NoObj
  <2>2. Claimed(nproc[p].obj[n].tab, n) /\ Claimed(nproc[p].obj[n].tab, m)
    BY DEF Claimed, Holds
  <2> QED
    BY <2>1, <2>2 DEF IInv, ClaimsApart
<1>3. UsersReferred
  BY DEF IInv, ProcsOk, ProcOk, UsersOk, UsersReferred
<1>4. LocksCounted
  <2> DEFINE hands == [p \in NameProcs |-> LostLocks({p})]
             free == {names.free[i] : i \in DOMAIN names.free}
             top == {names.ghash} \ {0}
             tabs == {names.tables[t] : t \in DOMAIN names.tables}
             held == UNION {hands[p] : p \in NameProcs}
             sets == <<free, top, tabs, held, nameHist.lost>>
  <2>0. names.free \in Seq(Nat) /\ names.tables \in Seq(Nat) /\ names.ghash \in Nat
        /\ nameHist.lost \subseteq Nat /\ nproc \in [NameProcs -> ProcRecs]
    BY DEF IInv, Types, Files, Hists
  <2>1. DOMAIN names.free = 1 .. Len(names.free) /\ DOMAIN names.tables = 1 .. Len(names.tables)
    BY <2>0
  <2>2. \A p \in NameProcs : hands[p] = {nproc[p].lock} \ {0} /\ nproc[p].lock \in Nat
    BY <2>0 DEF LostLocks, ProcRecs
  <2>3. held = {l \in Nat \ {0} : Held(l)}
    <3>1. ASSUME NEW l \in held PROVE l \in Nat \ {0} /\ Held(l)
      <4>1. PICK p \in NameProcs : l \in hands[p]
        BY <3>1, Zenon
      <4> HIDE DEF hands
      <4> QED
        BY <4>1, <2>2 DEF Held
    <3>2. ASSUME NEW l \in Nat \ {0}, Held(l) PROVE l \in held
      <4>1. PICK p \in NameProcs : nproc[p].lock = l
        BY <3>2 DEF Held
      <4> HIDE DEF hands
      <4>2. l \in hands[p]
        BY <4>1, <2>2
      <4> QED
        BY <4>2, Zenon
    <3> HIDE DEF held
    <3> QED
      BY <3>1, <3>2
  <2>4. sets[1] = FreeSet /\ sets[2] = {names.ghash} \ {0} /\ sets[3] = TabSet
        /\ sets[4] = {l \in Nat \ {0} : Held(l)} /\ sets[5] = nameHist.lost
        /\ DOMAIN sets = 1 .. 5
    <3>1. free = FreeSet /\ tabs = TabSet
      BY <2>1 DEF FreeSet, TabSet, Elems
    <3>2. top = {names.ghash} \ {0}
      OBVIOUS
    <3> HIDE DEF free, top, tabs, held
    <3>3. sets[1] = free /\ sets[2] = top /\ sets[3] = tabs /\ sets[4] = held
          /\ sets[5] = nameHist.lost /\ DOMAIN sets = 1 .. 5
      OBVIOUS
    <3> QED
      BY <2>3, <3>1, <3>2, <3>3, Zenon
  <2> HIDE DEF sets
  <2>5. \A l : l \in UNION {sets[i] : i \in DOMAIN sets} <=>
               l \in sets[1] \/ l \in sets[2] \/ l \in sets[3] \/ l \in sets[4] \/ l \in sets[5]
    <3>1. \A i : i \in 1 .. 5 <=> i = 1 \/ i = 2 \/ i = 3 \/ i = 4 \/ i = 5
      OBVIOUS
    <3> QED
      BY <2>4, <3>1, Zenon
  <2>6. FreeSet \subseteq Nat \ {0} /\ TabSet \subseteq Nat \ {0} /\ nameHist.lost \subseteq Nat \ {0}
    BY <2>0 DEF FreeSet, TabSet, Elems, IInv, LocksInv, LocksApart
  <2>7. UNION {sets[i] : i \in DOMAIN sets} = 1 .. NameLocks
    <3>1. \A l \in Nat \ {0} : l \in UNION {sets[i] : i \in DOMAIN sets} <=> l \in 1 .. NameLocks
      BY <2>4, <2>5 DEF IInv, LocksInv, LocksPlaced
    <3>2. \A l : l \in UNION {sets[i] : i \in DOMAIN sets} => l \in Nat \ {0}
      BY <2>0, <2>4, <2>5, <2>6
    <3>3. \A l : l \in 1 .. NameLocks => l \in Nat \ {0}
      OBVIOUS
    <3> QED
      BY <3>1, <3>2, <3>3
  <2>8. \A i, j \in DOMAIN sets : i # j => sets[i] \cap sets[j] = {}
    <3>1. /\ sets[1] \cap sets[2] = {} /\ sets[1] \cap sets[3] = {} /\ sets[1] \cap sets[4] = {}
          /\ sets[1] \cap sets[5] = {} /\ sets[2] \cap sets[3] = {} /\ sets[2] \cap sets[4] = {}
          /\ sets[2] \cap sets[5] = {} /\ sets[3] \cap sets[4] = {} /\ sets[3] \cap sets[5] = {}
          /\ sets[4] \cap sets[5] = {}
      BY <2>0, <2>4, <2>6 DEF IInv, LocksInv, LocksApart
    <3>2. ASSUME NEW i \in DOMAIN sets, NEW j \in DOMAIN sets, i < j
          PROVE  sets[i] \cap sets[j] = {}
      BY <2>4, <3>1, <3>2
    <3>3. ASSUME NEW i \in DOMAIN sets, NEW j \in DOMAIN sets, i > j
          PROVE  sets[i] \cap sets[j] = {}
      BY <2>4, <3>2, <3>3
    <3> QED
      BY <2>4, <3>2, <3>3
  <2>9. \A s, t \in DOMAIN names.tables : s # t => names.tables[s] # names.tables[t]
    BY <2>1 DEF IInv, LocksInv, LocksApart, Once
  <2>10. \A p, q \in NameProcs : p # q => hands[p] \cap hands[q] = {}
    BY <2>2 DEF IInv, LocksInv, LocksApart
  <2>11. \A i, j \in DOMAIN names.free : i # j => names.free[i] # names.free[j]
    BY <2>1 DEF IInv, LocksInv, LocksApart, Once
  <2> QED
    BY <2>7, <2>8, <2>9, <2>10, <2>11 DEF LocksCounted, sets
<1> QED
  BY <1>1, <1>2, <1>3, <1>4 DEF NamesSound

-----------------------------------------------------------------------------
(* Initially nothing is opened and every lock is free. *)
LEMMA InitIInv == InitNames => IInv
<1> SUFFICES ASSUME InitNames PROVE IInv
  OBVIOUS
<1> USE DEF InitNames
<1>1. DefaultHash \in HashNames /\ Ended \in ProcRecs
  BY DEF Ended, ProcRecs, States, HashNames, NoObj, Objs, NoOff
<1>2. [i \in 1 .. NameLocks |-> i] \in Seq(Nat) /\ Len([i \in 1 .. NameLocks |-> i]) = NameLocks
  OBVIOUS
<1>3. Types
  BY <1>1, <1>2 DEF Types, Files, Hists, NoReg
<1>4. ProcsOk /\ RegOk
  BY DEF ProcsOk, ProcOk, RegOk, RegRead, ObjsOk, UsersOk, LockOk, Ended, NoReg
<1>5. ClaimsApart /\ OneTable /\ AloneCreating
  BY DEF ClaimsApart, OneTable, AloneCreating, Claimed, Holds, Creating, Ended, NoObj,
         NoReg, NoOff
<1>6. LocksInv
  <2>1. TabSet = {} /\ FreeSet = 1 .. NameLocks
    BY <1>2 DEF TabSet, FreeSet, Elems
  <2>2. \A p \in NameProcs : nproc[p].lock = 0
    BY DEF Ended
  <2> QED
    BY <1>2, <2>1, <2>2 DEF LocksInv, LocksPlaced, LocksApart, Held, Once
<1> QED
  BY <1>3, <1>4, <1>5, <1>6 DEF IInv

-----------------------------------------------------------------------------
(* A step of one process that leaves the file and the locks alone keeps the
   invariant if what the process then knows was known before. *)
LEMMA QuietStep ==
    ASSUME IInv, Types', NEW p \in NameProcs, NEW r, r = nproc'[p],
           names' = names, nameHist'.lost = nameHist.lost,
           nameHist.overlap \subseteq nameHist'.overlap,
           \A q \in NameProcs : q # p => nproc'[q] = nproc[q],
           ProcOk(r, names), r.lock = nproc[p].lock,
           \A n \in HashNames, t \in Nat \ {0} : Holds(r, t, n) => Claimed(t, n),
           \A n \in HashNames \ nameHist'.overlap :
              /\ r.obj[n].ref > 0 => r.obj[n].tab = names.reg[n]
              /\ r.name = n /\ r.st \in {"lock", "table", "store"} =>
                    /\ names.reg[n] = NoOff
                    /\ \A q \in NameProcs \ {p} : ~Creating(q, n)
    PROVE  IInv'
<1>1. ProcsOk' /\ RegOk'
  BY DEF IInv, ProcsOk, RegOk
<1>2. ClaimsApart'
  <2>1. \A n \in HashNames, t \in Nat \ {0} : Claimed(t, n)' => Claimed(t, n)
    BY DEF Claimed
  <2> QED
    BY <2>1 DEF IInv, ClaimsApart
<1>3. OneTable'
  BY DEF IInv, OneTable
<1>4. AloneCreating'
  BY DEF IInv, AloneCreating, Creating
<1>5. LocksInv'
  <2>1. \A q \in NameProcs : nproc'[q].lock = nproc[q].lock
    OBVIOUS
  <2>2. FreeSet' = FreeSet /\ TabSet' = TabSet /\ \A l : Held(l)' <=> Held(l)
    BY <2>1 DEF FreeSet, TabSet, Held
  <2> QED
    BY <2>1, <2>2 DEF IInv, LocksInv, LocksPlaced, LocksApart
<1> QED
  BY <1>1, <1>2, <1>3, <1>4, <1>5 DEF IInv

(* A process that gives up, or ends its start, knows no more than before. *)
LEMMA GiveUpFacts ==
    ASSUME IInv, NEW p \in NameProcs
    PROVE  /\ GiveUp(p) \in ProcRecs /\ ProcOk(GiveUp(p), names)
           /\ GiveUp(p).lock = 0 /\ GiveUp(p).st \in {"ended", "idle"}
           /\ \A n \in HashNames : \/ GiveUp(p).obj[n] = nproc[p].obj[n]
                                   \/ GiveUp(p).obj[n] = NoObj
<1>1. nproc[p] \in ProcRecs /\ ProcOk(nproc[p], names)
  BY DEF IInv, Types, ProcsOk
<1>2. CASE p = MainProc
  <2>1. Ended \in ProcRecs
    BY DEF Ended, ProcRecs, States, HashNames, NoObj, Objs, NoOff
  <2> QED
    BY <1>2, <2>1 DEF GiveUp, Ended, ProcOk, RegRead, ObjsOk, UsersOk, LockOk
<1>3. CASE p # MainProc
  <2>1. GiveUp(p) = [nproc[p] EXCEPT !.st = "idle", !.lock = 0, !.off = NoOff]
    BY <1>3 DEF GiveUp
  <2>2. /\ GiveUp(p) \in ProcRecs
        /\ GiveUp(p).lock = 0 /\ GiveUp(p).st = "idle"
        /\ GiveUp(p).obj = nproc[p].obj /\ GiveUp(p).user = nproc[p].user
    <3> DEFINE g == GiveUp(p)
    <3>1. g = [nproc[p] EXCEPT !.st = "idle", !.lock = 0, !.off = 0]
      BY <2>1 DEF NoOff
    <3> HIDE DEF g
    <3>2. g \in ProcRecs /\ g.lock = 0 /\ g.st = "idle" /\ g.obj = nproc[p].obj /\ g.user = nproc[p].user
      BY <1>1, <3>1 DEF ProcRecs, States
    <3> QED
      BY <3>2 DEF g
  <2> QED
    BY <1>1, <2>2 DEF ProcOk, RegRead, ObjsOk, UsersOk, LockOk
<1> QED
  BY <1>2, <1>3

-----------------------------------------------------------------------------
(* Only process p has moved. *)
Becomes(p, r) == nproc' = [nproc EXCEPT ![p] = r]

(* The pieces of QuietStep for a process whose record becomes r, with the
   objects it had or none. *)
LEMMA BecomesQuiet ==
    ASSUME IInv, NEW p \in NameProcs, NEW r \in ProcRecs, Becomes(p, r),
           names' = names, nameHist' = nameHist,
           ProcOk(r, names), r.lock = nproc[p].lock,
           r.st \notin {"lock", "table", "store"},
           \A n \in HashNames :
              \/ r.obj[n] = nproc[p].obj[n] \/ r.obj[n] = NoObj
              \/ r.obj[n].tab = nproc[p].obj[n].tab /\ nproc[p].obj[n].ref > 0
    PROVE  IInv'
<1>1. nproc'[p] = r /\ \A q \in NameProcs : q # p => nproc'[q] = nproc[q]
  BY DEF IInv, Types, Becomes
<1>2. Types'
  BY DEF IInv, Types, Becomes
<1>3. \A n \in HashNames, t \in Nat \ {0} : Holds(r, t, n) => Claimed(t, n)
  BY DEF Holds, Claimed, NoObj, NoOff
<1>4. \A n \in HashNames \ nameHist'.overlap : r.obj[n].ref > 0 => r.obj[n].tab = names.reg[n]
  BY DEF IInv, OneTable, NoObj
<1> QED
  BY <1>1, <1>2, <1>3, <1>4, QuietStep

(* The process at which a record of the state is looked at. *)
LEMMA ProcFacts ==
    ASSUME IInv, NEW p \in NameProcs
    PROVE  /\ nproc[p] \in ProcRecs /\ ProcOk(nproc[p], names)
           /\ nproc[p].name \in HashNames /\ nproc[p].lock \in Nat /\ nproc[p].off \in Nat
           /\ \A n \in HashNames : nproc[p].obj[n] \in Objs
           /\ \A n \in HashNames : nproc[p].obj[n].tab \in Nat /\ nproc[p].obj[n].ref \in Nat
BY DEF IInv, Types, ProcsOk, ProcRecs, Objs

(* A step to another state that keeps everything else. *)
LEMMA MovesFacts ==
    ASSUME IInv, NEW p \in NameProcs, NEW st \in States, Moves(p, st), NEW r,
           r = [nproc[p] EXCEPT !.st = st]
    PROVE  /\ Becomes(p, r) /\ r \in ProcRecs /\ r.st = st
           /\ r.name = nproc[p].name /\ r.lock = nproc[p].lock /\ r.off = nproc[p].off
           /\ r.obj = nproc[p].obj /\ r.user = nproc[p].user
<1>1. nproc[p] \in ProcRecs
  BY ProcFacts
<1>2. Becomes(p, r)
  BY DEF Moves, Becomes
<1> QED
  BY <1>1, <1>2 DEF ProcRecs

-----------------------------------------------------------------------------
(* The actions, one lemma each. *)

(* The first process starts. *)
LEMMA StartStep == IInv /\ hashByUserInit => IInv'
<1> SUFFICES ASSUME IInv, hashByUserInit PROVE IInv'
  OBVIOUS
<1> USE DEF hashByUserInit
<1> DEFINE r == [nproc[MainProc] EXCEPT !.st = "ghash"]
<1>1. MainProc \in NameProcs /\ nproc[MainProc] \in ProcRecs /\ ProcOk(nproc[MainProc], names)
  BY DEF IInv, Types, ProcsOk, NameProcs
<1>2. /\ r \in ProcRecs /\ r.st = "ghash" /\ nproc[MainProc].st = "ended"
      /\ r.lock = nproc[MainProc].lock
      /\ r.obj = nproc[MainProc].obj /\ r.user = nproc[MainProc].user
  BY <1>1 DEF ProcRecs, States
<1>3. nproc' = [nproc EXCEPT ![MainProc] = r]
  OBVIOUS
<1> HIDE DEF r
<1>4. nproc'[MainProc] = r /\ \A q \in NameProcs : q # MainProc => nproc'[q] = nproc[q]
  BY <1>1, <1>3 DEF IInv, Types
<1>5. Types'
  BY <1>2, <1>3 DEF IInv, Types
<1>6. ProcOk(r, names)
  BY <1>1, <1>2 DEF ProcOk, RegRead, ObjsOk, UsersOk, LockOk
<1>7. \A n \in HashNames, t \in Nat \ {0} : Holds(r, t, n) => Claimed(t, n)
  BY <1>1, <1>2 DEF Holds, Claimed
<1>8. \A n \in HashNames \ nameHist'.overlap : r.obj[n].ref > 0 => r.obj[n].tab = names.reg[n]
  BY <1>1, <1>2 DEF IInv, OneTable
<1> QED
  BY <1>1, <1>2, <1>4, <1>5, <1>6, <1>7, <1>8, QuietStep

(* A worker is forked while the first process does nothing else. *)
LEMMA ForkStep == ASSUME NEW w \in NameWorkers PROVE IInv /\ forkWorker(w) => IInv'
<1> SUFFICES ASSUME IInv, forkWorker(w) PROVE IInv'
  OBVIOUS
<1> DEFINE r == nproc[MainProc]
<1>1. MainProc \in NameProcs /\ w \in NameProcs
  BY DEF NameProcs
<1>2. r \in ProcRecs /\ ProcOk(r, names) /\ ProcOk(nproc[w], names)
  BY <1>1, ProcFacts
<1>3. Becomes(w, r) /\ names' = names /\ nameHist' = nameHist /\ r.st = "idle" /\ nproc[w].st = "ended"
  BY DEF forkWorker, Becomes
<1>4. r.lock = nproc[w].lock
  BY <1>2, <1>3 DEF ProcOk, LockOk
<1>5. nproc'[w] = r /\ \A q \in NameProcs : q # w => nproc'[q] = nproc[q]
  BY <1>1, <1>3 DEF IInv, Types, Becomes
<1>6. Types'
  BY <1>2, <1>3 DEF IInv, Types, Becomes
<1>7. \A n \in HashNames, t \in Nat \ {0} : Holds(r, t, n) => Claimed(t, n)
  BY <1>1 DEF Claimed
<1>8. \A n \in HashNames \ nameHist'.overlap : r.obj[n].ref > 0 => r.obj[n].tab = names.reg[n]
  BY <1>1, <1>3 DEF IInv, OneTable
<1> HIDE DEF r
<1> QED
  BY <1>1, <1>2, <1>3, <1>4, <1>5, <1>6, <1>7, <1>8, QuietStep

(* A process that gives up without a lock. *)
LEMMA GiveUpStep ==
    ASSUME IInv, NEW p \in NameProcs, nproc[p].st # "table", nproc' = [nproc EXCEPT ![p] = GiveUp(p)],
           names' = names, nameHist' = nameHist
    PROVE  IInv'
<1> DEFINE r == GiveUp(p)
<1>1. /\ r \in ProcRecs /\ ProcOk(r, names) /\ r.lock = 0 /\ r.st \in {"ended", "idle"}
      /\ \A n \in HashNames : r.obj[n] = nproc[p].obj[n] \/ r.obj[n] = NoObj
  BY GiveUpFacts
<1>2. nproc[p].lock = 0
  BY ProcFacts DEF ProcOk, LockOk
<1>3. Becomes(p, r)
  BY DEF Becomes
<1> HIDE DEF r
<1> QED
  BY <1>1, <1>2, <1>3, BecomesQuiet

(* w is process record r after it got object b and user pointer u for name n. *)
Got(r, w, n, b, u) ==
    /\ w \in ProcRecs /\ w.st = "idle" /\ w.lock = 0 /\ w.obj[n] = b
    /\ \A m \in HashNames : m # n => w.obj[m] = r.obj[m]
    /\ \A v \in NameUsers : w.user[v] = IF v = n THEN u ELSE r.user[v]

(* A process gets an object of a table that is known under the object's name. *)
LEMMA ObjectStep ==
    ASSUME IInv, NEW p \in NameProcs, nproc[p].st # "table",
           NEW n \in HashNames, NEW o \in Objs, NEW r, NEW v \in Nat,
           Got(nproc[p], r, n, o, v), v = 0 \/ (v = o.tab /\ o.ref > 0),
           Becomes(p, r), names' = names, nameHist' = nameHist,
           o = NoObj \/ /\ o.ref > 0 /\ o.tab \in 1 .. Len(names.tables) /\ Claimed(o.tab, n)
                        /\ n \notin nameHist.overlap => o.tab = names.reg[n]
    PROVE  IInv'
<1> USE DEF Got
<1>1. ProcOk(nproc[p], names)
  BY ProcFacts
<1>5. nproc[p].lock = r.lock
  BY <1>1 DEF ProcOk, LockOk
<1>6. nproc'[p] = r /\ \A q \in NameProcs : q # p => nproc'[q] = nproc[q]
  BY DEF IInv, Types, Becomes
<1>7. Types'
  BY DEF IInv, Types, Becomes
<1>8. ProcOk(r, names)
  <2>1. RegRead(r, names) /\ LockOk(r)
    BY DEF RegRead, LockOk
  <2>2. ObjsOk(r, names)
    BY <1>1 DEF ProcOk, ObjsOk
  <2>3. UsersOk(r)
    <3> SUFFICES ASSUME NEW u \in NameUsers, r.user[u] # 0
                 PROVE  r.obj[u].ref > 0 /\ r.obj[u].tab = r.user[u]
      BY DEF UsersOk, NoOff
    <3>1. u \in HashNames
      BY DEF HashNames
    <3> QED
      BY <1>1, <3>1 DEF ProcOk, UsersOk, NoOff
  <2> QED
    BY <2>1, <2>2, <2>3 DEF ProcOk
<1>9. \A m \in HashNames, t \in Nat \ {0} : Holds(r, t, m) => Claimed(t, m)
  <2> SUFFICES ASSUME NEW m \in HashNames, NEW t \in Nat \ {0}, r.obj[m].tab = t
               PROVE  Claimed(t, m)
    BY DEF Holds
  <2>1. CASE m = n
    BY <2>1 DEF NoObj, NoOff
  <2>2. CASE m # n
    BY <2>2 DEF Claimed, Holds
  <2> QED
    BY <2>1, <2>2
<1>10. \A m \in HashNames \ nameHist'.overlap : r.obj[m].ref > 0 => r.obj[m].tab = names.reg[m]
  BY DEF IInv, OneTable, NoObj
<1> QED
  BY <1>5, <1>6, <1>7, <1>8, <1>9, <1>10, QuietStep

WithObj(r, n, b, u) ==
    [r EXCEPT !.st = "idle", !.lock = 0, !.off = NoOff, !.obj[n] = b, !.user[n] = u]

(* The record of a process that got object b and user pointer u for name n. *)
LEMMA WithFacts ==
    ASSUME NEW r \in ProcRecs, NEW n \in NameUsers, NEW b \in Objs, NEW u \in Nat, NEW w,
           w = WithObj(r, n, b, u)
    PROVE  Got(r, w, n, b, u)
<1> DEFINE os == [r.obj EXCEPT ![n] = b]
           us == [r.user EXCEPT ![n] = u]
<1>1. r.obj \in [HashNames -> Objs] /\ r.user \in [NameUsers -> Nat] /\ n \in HashNames
  BY DEF ProcRecs, HashNames
<1>2. /\ os \in [HashNames -> Objs] /\ os[n] = b
      /\ \A m \in HashNames : m # n => os[m] = r.obj[m]
  BY <1>1
<1>3. /\ us \in [NameUsers -> Nat] /\ us[n] = u
      /\ \A v \in NameUsers : v # n => us[v] = r.user[v]
  BY <1>1
<1> DEFINE r3 == [r EXCEPT !.st = "idle", !.lock = 0, !.off = NoOff]
<1>4. w = [r3 EXCEPT !.obj[n] = b, !.user[n] = u]
  BY DEF WithObj
<1>5. /\ r3 \in ProcRecs /\ r3.st = "idle" /\ r3.lock = 0
      /\ r3.obj = r.obj /\ r3.user = r.user
  BY DEF ProcRecs, States, NoOff
<1> HIDE DEF r3
<1>6. w = [[r3 EXCEPT !.obj = os] EXCEPT !.user = us]
  <2>1. [r3 EXCEPT !.obj[n] = b] = [r3 EXCEPT !.obj = os]
    BY <1>5
  <2>2. [r3 EXCEPT !.obj = os].user = r.user
    BY <1>5 DEF ProcRecs
  <2> HIDE DEF os
  <2> QED
    BY <1>4, <2>1, <2>2
<1> HIDE DEF os, us
<1>7. w \in ProcRecs /\ w.st = "idle" /\ w.lock = 0 /\ w.obj = os /\ w.user = us
  BY <1>2, <1>3, <1>5, <1>6 DEF ProcRecs
<1> QED
  BY <1>2, <1>3, <1>7 DEF Got

(* insert_user_entry, whichever way it goes. *)
LEMMA InsertStep ==
    ASSUME IInv, NEW p \in NameProcs, nproc[p].st # "table",
           NEW n \in NameUsers, NEW o \in Objs, insert_user_entry(p, n, o),
           names' = names, nameHist' = nameHist, o.ref > 0,
           o.tab \in 1 .. Len(names.tables), Claimed(o.tab, n),
           n \notin nameHist.overlap => o.tab = names.reg[n]
    PROVE  IInv'
<1>1. n \in HashNames /\ nproc[p] \in ProcRecs /\ o.tab \in Nat
  BY ProcFacts DEF HashNames, Objs
<1>2. \/ Becomes(p, WithObj(nproc[p], n, o, o.tab)) \/ Becomes(p, WithObj(nproc[p], n, o, NoOff))
      \/ Becomes(p, WithObj(nproc[p], n, closeObj(o), NoOff))
  BY DEF insert_user_entry, Becomes, WithObj
<1>3. ASSUME NEW b \in Objs, NEW u \in Nat, Becomes(p, WithObj(nproc[p], n, b, u)),
             b = NoObj \/ (b.ref > 0 /\ b.tab = o.tab),
             u = 0 \/ (u = b.tab /\ b.ref > 0)
      PROVE  IInv'
  <2>0. PICK w : w = WithObj(nproc[p], n, b, u)
    OBVIOUS
  <2>2. Becomes(p, w)
    BY <1>3, <2>0
  <2>1. Got(nproc[p], w, n, b, u)
    BY <1>1, <2>0, WithFacts
  <2> QED
    BY <1>1, <1>3, <2>1, <2>2, ObjectStep
<1>4. closeObj(o) \in Objs /\ (closeObj(o) = NoObj \/ (closeObj(o).ref > 0 /\ closeObj(o).tab = o.tab))
  <2>1. CASE o.ref = 1
    BY <2>1 DEF closeObj, Objs, NoObj, NoOff
  <2>2. CASE o.ref # 1
    <3> DEFINE c == closeObj(o)
    <3>1. c = [o EXCEPT !.ref = @ - 1]
      BY <2>2 DEF closeObj
    <3>2. o.ref - 1 \in Nat /\ o.ref - 1 > 0
      BY <2>2 DEF Objs
    <3> HIDE DEF c
    <3>3. c \in Objs /\ c.ref > 0 /\ c.tab = o.tab
      BY <3>1, <3>2 DEF Objs
    <3> QED
      BY <3>3 DEF c
  <2> QED
    BY <2>1, <2>2
<1>5. NoOff = 0
  BY DEF NoOff
<1>6. CASE Becomes(p, WithObj(nproc[p], n, o, o.tab))
  BY <1>1, <1>3, <1>6
<1>7. CASE Becomes(p, WithObj(nproc[p], n, o, NoOff))
  BY <1>1, <1>3, <1>5, <1>7
<1>8. CASE Becomes(p, WithObj(nproc[p], n, closeObj(o), NoOff))
  BY <1>3, <1>4, <1>5, <1>8
<1> QED
  BY <1>2, <1>6, <1>7, <1>8

(* A worker serves a user for the first time. *)
LEMMA GetHashStep ==
    ASSUME NEW p \in NameProcs, NEW u \in NameUsers
    PROVE  IInv /\ getHash(p, u) => IInv'
<1> SUFFICES ASSUME IInv, getHash(p, u) PROVE IInv'
  OBVIOUS
<1> DEFINE o == nproc[p].obj[u]
<1>1. /\ names' = names /\ nameHist' = nameHist /\ nproc[p].st = "idle"
      /\ \/ o.ref > 0 /\ insert_user_entry(p, u, checkHTable(o))
         \/ o.ref = 0 /\ nproc' = [nproc EXCEPT ![p].st = "reg", ![p].name = u]
  BY DEF getHash
<1>2. u \in HashNames /\ o \in Objs /\ nproc[p] \in ProcRecs /\ ProcOk(nproc[p], names)
  BY ProcFacts DEF HashNames
<1>3. CASE o.ref > 0 /\ insert_user_entry(p, u, checkHTable(o))
  <2> DEFINE c == checkHTable(o)
  <2>1. o.tab \in 1 .. Len(names.tables) /\ o.tab = nproc[p].obj[u].tab
    BY <1>2, <1>3 DEF ProcOk, ObjsOk, NoObj
  <2>2. Claimed(o.tab, u)
    BY DEF Claimed, Holds
  <2>3. u \notin nameHist.overlap => o.tab = names.reg[u]
    BY <1>2, <1>3 DEF IInv, OneTable
  <2>5. insert_user_entry(p, u, c)
    BY <1>3
  <2> HIDE DEF o
  <2>4. c \in Objs /\ c.ref > 0 /\ c.tab = o.tab
    BY <1>2 DEF checkHTable, Objs
  <2> HIDE DEF c
  <2> QED
    BY <1>1, <2>1, <2>2, <2>3, <2>4, <2>5, InsertStep
<1>4. CASE o.ref = 0 /\ nproc' = [nproc EXCEPT ![p].st = "reg", ![p].name = u]
  <2>1. PICK r : r = [nproc[p] EXCEPT !.st = "reg", !.name = u]
    OBVIOUS
  <2>2. Becomes(p, r)
    BY <1>4, <2>1 DEF Becomes
  <2>3. /\ r \in ProcRecs /\ r.st = "reg" /\ r.lock = nproc[p].lock
        /\ r.obj = nproc[p].obj /\ r.user = nproc[p].user
    BY <1>2, <2>1 DEF ProcRecs, States
  <2>4. ProcOk(r, names)
    BY <1>1, <1>2, <2>3 DEF ProcOk, RegRead, ObjsOk, UsersOk, LockOk
  <2> QED
    BY <1>1, <2>2, <2>3, <2>4, BecomesQuiet
<1> QED
  BY <1>1, <1>3, <1>4

(* The object is made of the table the registry names. *)
LEMMA OpenStep == ASSUME NEW p \in NameProcs PROVE IInv /\ newHashByOffset(p) => IInv'
<1> SUFFICES ASSUME IInv, newHashByOffset(p) PROVE IInv'
  OBVIOUS
<1> DEFINE n == nproc[p].name
           o == initObj(names.reg[n])
<1>1. nproc[p].st = "open" /\ names' = names /\ nameHist' = nameHist
  BY DEF newHashByOffset
<1>2. n \in HashNames /\ nproc[p] \in ProcRecs /\ ProcOk(nproc[p], names)
  BY ProcFacts
<1>3. names.reg[n] \in 1 .. Len(names.tables) /\ names.tables \in Seq(Nat)
  BY <1>1, <1>2 DEF ProcOk, RegRead, IInv, RegOk, Types, Files
<1>4. o \in Objs /\ o.ref > 0 /\ o.tab = names.reg[n]
  BY <1>3 DEF initObj, Objs
<1>5. Claimed(o.tab, n)
  BY <1>4 DEF Claimed
<1>6. CASE n \in NameUsers
  <2>1. insert_user_entry(p, n, o)
    BY <1>6 DEF newHashByOffset
  <2> HIDE DEF o, n
  <2> QED
    BY <1>1, <1>3, <1>4, <1>5, <1>6, <2>1, InsertStep
<1>7. CASE n \notin NameUsers
  <2>1. PICK r : r = [nproc[p] EXCEPT !.st = "idle", !.off = NoOff, !.obj[n] = o]
    OBVIOUS
  <2>2. Becomes(p, r)
    BY <1>7, <2>1 DEF newHashByOffset, Becomes
  <2> HIDE DEF o, n
  <2>3. Got(nproc[p], r, n, o, 0)
    <3> DEFINE os == [nproc[p].obj EXCEPT ![n] = o]
    <3>1. /\ os \in [HashNames -> Objs] /\ os[n] = o
          /\ \A m \in HashNames : m # n => os[m] = nproc[p].obj[m]
      BY <1>2, <1>4 DEF ProcRecs
    <3> DEFINE r2 == [nproc[p] EXCEPT !.st = "idle", !.off = NoOff]
    <3>2. /\ r2 \in ProcRecs /\ r2.st = "idle" /\ r2.lock = nproc[p].lock
          /\ r2.obj = nproc[p].obj /\ r2.user = nproc[p].user
      BY <1>2 DEF ProcRecs, States, NoOff
    <3>3. r = [r2 EXCEPT !.obj[n] = o]
      BY <2>1
    <3> HIDE DEF r2
    <3>4. r = [r2 EXCEPT !.obj = os]
      BY <3>2, <3>3
    <3> HIDE DEF os
    <3>5. /\ r \in ProcRecs /\ r.st = "idle" /\ r.lock = nproc[p].lock
          /\ r.obj = os /\ r.user = nproc[p].user
      BY <3>1, <3>2, <3>4 DEF ProcRecs
    <3>6. nproc[p].lock = 0
      BY <1>1, <1>2 DEF ProcOk, LockOk
    <3> QED
      BY <1>7, <3>1, <3>5, <3>6 DEF Got
  <2> QED
    BY <1>1, <1>2, <1>3, <1>4, <1>5, <2>2, <2>3, ObjectStep
<1> QED
  BY <1>6, <1>7

(* The value of the registry is looked at. *)
LEMMA ReadStep == ASSUME NEW p \in NameProcs PROVE IInv /\ readValue(p) => IInv'
<1> SUFFICES ASSUME IInv, readValue(p) PROVE IInv'
  OBVIOUS
<1> DEFINE n == nproc[p].name
<1>1. nproc[p].st = "value" /\ names' = names
  BY DEF readValue
<1>2. n \in HashNames /\ nproc[p] \in ProcRecs /\ ProcOk(nproc[p], names) /\ names.reg[n] \in Int
  BY ProcFacts DEF IInv, Types, Files
<1>3. names.reg[n] >= 0
  BY <1>1, <1>2 DEF ProcOk, RegRead
<1>4. CASE names.reg[n] # NoOff
  <2>1. Moves(p, "open") /\ nameHist' = nameHist
    BY <1>4 DEF readValue
  <2>2. PICK r : r = [nproc[p] EXCEPT !.st = "open"]
    OBVIOUS
  <2>3. /\ Becomes(p, r) /\ r \in ProcRecs /\ r.st = "open" /\ r.name = n /\ r.lock = nproc[p].lock
        /\ r.obj = nproc[p].obj /\ r.user = nproc[p].user
    BY <2>1, <2>2, MovesFacts DEF States
  <2>4. ProcOk(r, names)
    BY <1>1, <1>2, <1>3, <1>4, <2>3 DEF ProcOk, RegRead, ObjsOk, UsersOk, LockOk, NoOff
  <2> QED
    BY <1>1, <2>1, <2>3, <2>4, BecomesQuiet
<1>5. CASE names.reg[n] = NoOff
  <2>1. /\ Moves(p, "lock")
        /\ nameHist' = [nameHist EXCEPT !.overlap =
               IF \E q \in NameProcs \ {p} : Creating(q, n) THEN @ \cup {n} ELSE @]
    BY <1>5 DEF readValue
  <2>2. PICK r : r = [nproc[p] EXCEPT !.st = "lock"]
    OBVIOUS
  <2>3. /\ Becomes(p, r) /\ r \in ProcRecs /\ r.st = "lock" /\ r.name = n /\ r.lock = nproc[p].lock
        /\ r.obj = nproc[p].obj /\ r.user = nproc[p].user
    BY <2>1, <2>2, MovesFacts DEF States
  <2> HIDE DEF n
  <2>4. /\ nameHist' \in Hists /\ nameHist'.lost = nameHist.lost
        /\ nameHist.overlap \subseteq nameHist'.overlap
        /\ n \notin nameHist'.overlap => \A q \in NameProcs \ {p} : ~Creating(q, n)
    <3>1. nameHist \in Hists
      BY DEF IInv, Types
    <3>2. CASE \E q \in NameProcs \ {p} : Creating(q, n)
      <4>1. nameHist' = [nameHist EXCEPT !.overlap = @ \cup {n}]
        BY <2>1, <3>2
      <4> QED
        BY <1>2, <3>1, <4>1 DEF Hists
    <3>3. CASE ~\E q \in NameProcs \ {p} : Creating(q, n)
      <4>1. nameHist' = [nameHist EXCEPT !.overlap = @]
        BY <2>1, <3>3
      <4> QED
        BY <3>1, <3>3, <4>1 DEF Hists
    <3> QED
      BY <3>2, <3>3
  <2>5. nproc'[p] = r /\ \A q \in NameProcs : q # p => nproc'[q] = nproc[q]
    BY <2>3 DEF IInv, Types, Becomes
  <2>6. Types'
    BY <1>1, <2>3, <2>4 DEF IInv, Types, Becomes
  <2>7. ProcOk(r, names)
    BY <1>1, <1>2, <1>3, <2>3 DEF ProcOk, RegRead, ObjsOk, UsersOk, LockOk
  <2>8. \A m \in HashNames, t \in Nat \ {0} : Holds(r, t, m) => Claimed(t, m)
    BY <2>3 DEF Holds, Claimed
  <2>9. \A m \in HashNames \ nameHist'.overlap : r.obj[m].ref > 0 => r.obj[m].tab = names.reg[m]
    BY <2>3, <2>4 DEF IInv, OneTable
  <2> QED
    BY <1>1, <1>5, <2>3, <2>4, <2>5, <2>6, <2>7, <2>8, <2>9, QuietStep
<1> QED
  BY <1>4, <1>5

-----------------------------------------------------------------------------
(* Lists of locks. *)

(* The first lock of the list is taken. *)
LEMMA TakeFirst ==
    ASSUME NEW q \in Seq(Nat), q # << >>, Once(q)
    PROVE  /\ Head(q) \in Elems(q) /\ Head(q) \in Nat /\ Tail(q) \in Seq(Nat)
           /\ Elems(Tail(q)) = Elems(q) \ {Head(q)} /\ Once(Tail(q))
<1>1. /\ Len(q) \in Nat /\ Len(q) >= 1 /\ Head(q) = q[1] /\ Tail(q) \in Seq(Nat)
      /\ Len(Tail(q)) = Len(q) - 1 /\ \A i \in 1 .. Len(q) - 1 : Tail(q)[i] = q[i + 1]
  OBVIOUS
<1> DEFINE t == Tail(q)
<1> HIDE DEF t
<1>2. /\ Len(q) \in Nat /\ Len(q) >= 1 /\ Head(q) = q[1] /\ t \in Seq(Nat)
      /\ Len(t) = Len(q) - 1 /\ \A i \in 1 .. Len(q) - 1 : t[i] = q[i + 1]
  BY <1>1 DEF t
<1>3. Head(q) \in Elems(q) /\ Head(q) \in Nat
  BY <1>2 DEF Elems
<1>4. \A l : l \in Elems(t) => l \in Elems(q) /\ l # Head(q)
  BY <1>2, SMTT(30) DEF Elems, Once
<1>5. \A l : l \in Elems(q) /\ l # Head(q) => l \in Elems(t)
  <2> SUFFICES ASSUME NEW i \in 1 .. Len(q), q[i] # q[1] PROVE q[i] \in Elems(t)
    BY <1>2 DEF Elems
  <2>1. i - 1 \in 1 .. Len(t) /\ t[i - 1] = q[(i - 1) + 1] /\ (i - 1) + 1 = i
    BY <1>2, SMTT(30)
  <2> QED
    BY <2>1 DEF Elems
<1>6. Once(t)
  <2> SUFFICES ASSUME NEW i \in 1 .. Len(t), NEW j \in 1 .. Len(t), t[i] = t[j] PROVE i = j
    BY DEF Once
  <2>1. i + 1 \in 1 .. Len(q) /\ j + 1 \in 1 .. Len(q) /\ q[i + 1] = q[j + 1]
    BY <1>2, SMTT(30)
  <2>2. i + 1 = j + 1
    BY <2>1 DEF Once
  <2> QED
    BY <1>2, <2>2
<1> QED
  BY <1>2, <1>3, <1>4, <1>5, <1>6 DEF t

(* A lock that is not in the list is put in front of it. *)
LEMMA PutFirst ==
    ASSUME NEW q \in Seq(Nat), NEW l \in Nat, Once(q), l \notin Elems(q), NEW u, u = <<l>> \o q
    PROVE  u \in Seq(Nat) /\ Elems(u) = Elems(q) \cup {l} /\ Once(u)
<1>1. /\ u \in Seq(Nat) /\ Len(u) = Len(q) + 1 /\ u[1] = l /\ Len(q) \in Nat
      /\ \A i \in 1 .. Len(q) : u[i + 1] = q[i]
  OBVIOUS
<1>2. \A i \in 1 .. Len(u) : i = 1 \/ (i - 1 \in 1 .. Len(q) /\ u[i] = q[i - 1])
  <2> SUFFICES ASSUME NEW i \in 1 .. Len(u), i # 1 PROVE i - 1 \in 1 .. Len(q) /\ u[i] = q[i - 1]
    OBVIOUS
  <2>1. i - 1 \in 1 .. Len(q) /\ (i - 1) + 1 = i
    BY <1>1
  <2> QED
    BY <1>1, <2>1
<1>3. \A e : e \in Elems(u) => e \in Elems(q) \/ e = l
  BY <1>1, <1>2 DEF Elems
<1>4. \A e : e \in Elems(q) \/ e = l => e \in Elems(u)
  <2>0. 1 \in 1 .. Len(u)
    BY <1>1
  <2>1. l \in Elems(u)
    BY <1>1, <2>0 DEF Elems
  <2>2. ASSUME NEW i \in 1 .. Len(q) PROVE q[i] \in Elems(u)
    <3>1. i + 1 \in 1 .. Len(u) /\ u[i + 1] = q[i]
      BY <1>1
    <3> QED
      BY <3>1 DEF Elems
  <2> QED
    BY <2>1, <2>2 DEF Elems
<1>5. Once(u)
  <2> SUFFICES ASSUME NEW i \in 1 .. Len(u), NEW j \in 1 .. Len(u), u[i] = u[j] PROVE i = j
    BY DEF Once
  <2>1. CASE i = 1 /\ j = 1
    BY <2>1
  <2>2. CASE i = 1 /\ j # 1
    BY <1>1, <1>2, <2>2 DEF Elems
  <2>3. CASE i # 1 /\ j = 1
    BY <1>1, <1>2, <2>3 DEF Elems
  <2>4. CASE i # 1 /\ j # 1
    <3>1. i - 1 \in 1 .. Len(q) /\ j - 1 \in 1 .. Len(q) /\ q[i - 1] = q[j - 1]
      BY <1>2, <2>4
    <3>2. i - 1 = j - 1
      BY <3>1 DEF Once
    <3> QED
      BY <1>1, <3>2
  <2> QED
    BY <2>1, <2>2, <2>3, <2>4
<1> QED
  BY <1>1, <1>3, <1>4, <1>5

(* A lock becomes that of a new table. *)
LEMMA PutLast ==
    ASSUME NEW q \in Seq(Nat), NEW l \in Nat, Once(q), l \notin Elems(q), NEW u, u = Append(q, l)
    PROVE  u \in Seq(Nat) /\ Len(u) = Len(q) + 1 /\ Elems(u) = Elems(q) \cup {l} /\ Once(u)
<1>1. /\ u \in Seq(Nat) /\ Len(u) = Len(q) + 1 /\ u[Len(q) + 1] = l /\ Len(q) \in Nat
      /\ \A i \in 1 .. Len(q) : u[i] = q[i]
  OBVIOUS
<1>2. \A i \in 1 .. Len(u) : i = Len(q) + 1 \/ i \in 1 .. Len(q)
  BY <1>1
<1>3. Once(u)
  BY <1>1, <1>2 DEF Once, Elems
<1>4. \A e : e \in Elems(u) <=> e \in Elems(q) \/ e = l
  <2>1. \A e : e \in Elems(u) => e \in Elems(q) \/ e = l
    BY <1>1, <1>2 DEF Elems
  <2>2. Len(q) + 1 \in 1 .. Len(u) /\ \A i \in 1 .. Len(q) : i \in 1 .. Len(u)
    BY <1>1
  <2>3. \A e : e \in Elems(q) \/ e = l => e \in Elems(u)
    BY <1>1, <2>2 DEF Elems
  <2> QED
    BY <2>1, <2>3
<1> QED
  BY <1>1, <1>3, <1>4

(* The places of the locks, in these terms. *)
LEMMA LockFacts ==
    ASSUME IInv
    PROVE  /\ names.free \in Seq(Nat) /\ names.tables \in Seq(Nat) /\ names.ghash \in Nat
           /\ nameHist.lost \subseteq Nat /\ \A p \in NameProcs : nproc[p].lock \in Nat
           /\ FreeSet = Elems(names.free) /\ TabSet = Elems(names.tables)
           /\ Once(names.free) /\ Once(names.tables) /\ LocksInv
<1>1. names \in Files /\ nproc \in [NameProcs -> ProcRecs] /\ nameHist \in Hists /\ LocksInv
  BY DEF IInv, Types
<1> QED
  BY <1>1 DEF Files, Hists, ProcRecs, FreeSet, TabSet, LocksInv, LocksApart

(* The global hash takes the first free lock. *)
LEMMA LockToTop ==
    ASSUME IInv, names.free # << >>, names.ghash = 0, names'.tables = names.tables,
           names'.ghash = Head(names.free), names'.free = Tail(names.free),
           nameHist' = nameHist, \A p \in NameProcs : nproc'[p].lock = nproc[p].lock
    PROVE  LocksInv'
<1> DEFINE l == Head(names.free)
<1>1. l \in FreeSet /\ l \in Nat /\ FreeSet' = FreeSet \ {l} /\ Once(names.free)'
  <2>1. PICK q : q = names.free
    OBVIOUS
  <2>2. names'.free = Tail(q) /\ l = Head(q)
    BY <2>1
  <2>3. q \in Seq(Nat) /\ q # << >> /\ Once(q)
    BY <2>1, LockFacts
  <2>4. l \in Elems(q) /\ l \in Nat /\ Elems(Tail(q)) = Elems(q) \ {l} /\ Once(Tail(q))
    BY <2>2, <2>3, TakeFirst
  <2> HIDE DEF l
  <2> QED
    BY <2>1, <2>2, <2>4 DEF FreeSet
<1>2. TabSet' = TabSet /\ Once(names.tables)' /\ \A k : Held(k)' <=> Held(k)
  BY LockFacts DEF TabSet, Held
<1>3. names'.ghash = l /\ l # 0
  BY <1>1, LockFacts DEF LocksInv, LocksApart
<1> HIDE DEF l
<1>4. LocksPlaced'
  BY <1>1, <1>2, <1>3, LockFacts DEF LocksInv, LocksPlaced
<1>5. LocksApart'
  BY <1>1, <1>2, <1>3, LockFacts DEF LocksInv, LocksApart
<1> QED
  BY <1>4, <1>5 DEF LocksInv

(* Process p takes the first free lock. *)
LEMMA LockToHand ==
    ASSUME IInv, NEW p \in NameProcs, nproc[p].lock = 0, names.free # << >>,
           names'.tables = names.tables, names'.ghash = names.ghash,
           names'.free = Tail(names.free), nproc'[p].lock = Head(names.free),
           nameHist' = nameHist,
           \A q \in NameProcs : q # p => nproc'[q].lock = nproc[q].lock
    PROVE  LocksInv'
<1> DEFINE l == Head(names.free)
<1>1. l \in FreeSet /\ l \in Nat /\ FreeSet' = FreeSet \ {l} /\ Once(names.free)'
  <2>1. PICK q : q = names.free
    OBVIOUS
  <2>2. names'.free = Tail(q) /\ l = Head(q)
    BY <2>1
  <2>3. q \in Seq(Nat) /\ q # << >> /\ Once(q)
    BY <2>1, LockFacts
  <2>4. l \in Elems(q) /\ l \in Nat /\ Elems(Tail(q)) = Elems(q) \ {l} /\ Once(Tail(q))
    BY <2>2, <2>3, TakeFirst
  <2> HIDE DEF l
  <2> QED
    BY <2>1, <2>2, <2>4 DEF FreeSet
<1>2. TabSet' = TabSet /\ Once(names.tables)'
  BY LockFacts DEF TabSet
<1>3. nproc'[p].lock = l /\ l # 0 /\ ~Held(l)
  BY <1>1, LockFacts DEF LocksInv, LocksApart
<1> HIDE DEF l
<1>4. \A k \in Nat \ {0} : Held(k)' <=> Held(k) \/ k = l
  BY <1>3 DEF Held
<1>5. LocksPlaced'
  BY <1>1, <1>2, <1>4, LockFacts DEF LocksInv, LocksPlaced
<1>6. LocksApart'
  <2>1. \A q, r \in NameProcs : nproc'[q].lock = nproc'[r].lock /\ nproc'[q].lock # 0 => q = r
    BY <1>3, LockFacts, SMTT(30) DEF LocksInv, LocksApart, Held
  <2> QED
    BY <1>1, <1>2, <1>3, <1>4, <2>1, LockFacts DEF LocksInv, LocksApart
<1> QED
  BY <1>5, <1>6 DEF LocksInv

(* The lock is in the hands of p no more. *)
LEMMA LockLeaves ==
    ASSUME IInv, NEW p \in NameProcs, nproc[p].lock # 0, nproc'[p].lock = 0,
           \A q \in NameProcs : q # p => nproc'[q].lock = nproc[q].lock
    PROVE  \A k \in Nat \ {0} : Held(k)' <=> Held(k) /\ k # nproc[p].lock
<1>1. \A q \in NameProcs : nproc[q].lock = nproc[p].lock => q = p
  BY DEF IInv, LocksInv, LocksApart
<1>2. ASSUME NEW k \in Nat \ {0}, Held(k)' PROVE Held(k) /\ k # nproc[p].lock
  <2>1. PICK q \in NameProcs : nproc'[q].lock = k
    BY <1>2 DEF Held
  <2>2. q # p
    BY <2>1
  <2> QED
    BY <1>1, <2>1, <2>2 DEF Held
<1>3. ASSUME NEW k \in Nat \ {0}, Held(k), k # nproc[p].lock PROVE Held(k)'
  BY <1>3 DEF Held
<1> QED
  BY <1>2, <1>3

(* The lock in the hands of p becomes that of a new table. *)
LEMMA LockToTable ==
    ASSUME IInv, NEW p \in NameProcs, nproc[p].lock # 0, names'.free = names.free,
           names'.ghash = names.ghash, names'.tables = Append(names.tables, nproc[p].lock),
           nproc'[p].lock = 0, nameHist' = nameHist,
           \A q \in NameProcs : q # p => nproc'[q].lock = nproc[q].lock
    PROVE  LocksInv' /\ Len(names'.tables) = Len(names.tables) + 1
<1> DEFINE l == nproc[p].lock
<1>1. l \in Nat \ {0} /\ Held(l) /\ l \notin TabSet
  BY LockFacts DEF LocksInv, LocksApart, Held
<1>2. /\ TabSet' = TabSet \cup {l} /\ Once(names.tables)'
      /\ Len(names'.tables) = Len(names.tables) + 1
  <2>1. PICK q : q = names.tables
    OBVIOUS
  <2>2. PICK u : u = Append(q, l)
    OBVIOUS
  <2>3. Len(u) = Len(q) + 1 /\ Elems(u) = Elems(q) \cup {l} /\ Once(u)
    BY <1>1, <2>1, <2>2, LockFacts, PutLast
  <2> QED
    BY <2>1, <2>2, <2>3 DEF TabSet
<1>3. FreeSet' = FreeSet /\ Once(names.free)'
  BY LockFacts DEF FreeSet
<1>4. \A k \in Nat \ {0} : Held(k)' <=> Held(k) /\ k # l
  BY LockLeaves
<1> HIDE DEF l
<1>5. LocksPlaced'
  BY <1>1, <1>2, <1>3, <1>4, LockFacts DEF LocksInv, LocksPlaced
<1>6. LocksApart'
  <2>1. \A q, r \in NameProcs : nproc'[q].lock = nproc'[r].lock /\ nproc'[q].lock # 0 => q = r
    BY LockFacts DEF LocksInv, LocksApart
  <2> QED
    BY <1>1, <1>2, <1>3, <1>4, <2>1, LockFacts DEF LocksInv, LocksApart
<1> QED
  BY <1>2, <1>5, <1>6 DEF LocksInv

(* The lock in the hands of p goes back to the list. *)
LEMMA LockToFree ==
    ASSUME IInv, NEW p \in NameProcs, nproc[p].lock # 0, names'.tables = names.tables,
           names'.ghash = names.ghash, names'.free = <<nproc[p].lock>> \o names.free,
           nproc'[p].lock = 0, nameHist' = nameHist,
           \A q \in NameProcs : q # p => nproc'[q].lock = nproc[q].lock
    PROVE  LocksInv'
<1> DEFINE l == nproc[p].lock
<1>1. l \in Nat \ {0} /\ Held(l) /\ l \notin FreeSet
  BY LockFacts DEF LocksInv, LocksApart, Held
<1>2. FreeSet' = FreeSet \cup {l} /\ Once(names.free)'
  <2>1. PICK q : q = names.free
    OBVIOUS
  <2>2. PICK u : u = <<l>> \o q
    OBVIOUS
  <2>3. Elems(u) = Elems(q) \cup {l} /\ Once(u)
    <3>1. q \in Seq(Nat) /\ Once(q) /\ FreeSet = Elems(q)
      BY <2>1, LockFacts
    <3>2. PICK k \in Nat : k = l
      BY <1>1
    <3>3. k \notin Elems(q) /\ u = <<k>> \o q
      BY <1>1, <2>2, <3>1, <3>2
    <3>4. Elems(u) = Elems(q) \cup {k} /\ Once(u)
      BY <3>1, <3>3, PutFirst
    <3> QED
      BY <3>2, <3>4
  <2> QED
    BY <2>1, <2>2, <2>3 DEF FreeSet
<1>3. TabSet' = TabSet /\ Once(names.tables)'
  BY LockFacts DEF TabSet
<1>4. \A k \in Nat \ {0} : Held(k)' <=> Held(k) /\ k # l
  BY LockLeaves
<1> HIDE DEF l
<1>5. LocksPlaced'
  BY <1>1, <1>2, <1>3, <1>4, LockFacts DEF LocksInv, LocksPlaced
<1>6. LocksApart'
  <2>1. \A q, r \in NameProcs : nproc'[q].lock = nproc'[r].lock /\ nproc'[q].lock # 0 => q = r
    BY LockFacts DEF LocksInv, LocksApart
  <2> QED
    BY <1>1, <1>2, <1>3, <1>4, <2>1, LockFacts DEF LocksInv, LocksApart
<1> QED
  BY <1>5, <1>6 DEF LocksInv

-----------------------------------------------------------------------------
(* The actions that change the file. *)

(* What a change of the file must keep for the processes that do not move. *)
LEMMA OthersKept ==
    ASSUME NEW r, NEW f, NEW g, ProcOk(r, f), r \in ProcRecs,
           Len(f.tables) \in Nat, Len(g.tables) \in Nat, Len(f.tables) <= Len(g.tables),
           \A n \in HashNames : f.reg[n] \in Int /\ g.reg[n] \in Int,
           \A n \in HashNames : f.reg[n] >= 0 => g.reg[n] >= 0,
           \A n \in HashNames : f.reg[n] > 0 => g.reg[n] > 0
    PROVE  ProcOk(r, g)
<1>1. RegRead(r, g)
  BY DEF ProcOk, RegRead, ProcRecs
<1>2. ObjsOk(r, g)
  <2> SUFFICES ASSUME NEW n \in HashNames, r.obj[n] # NoObj
               PROVE  r.obj[n].ref > 0 /\ r.obj[n].tab \in 1 .. Len(g.tables)
    BY DEF ObjsOk
  <2>1. r.obj[n].ref > 0 /\ r.obj[n].tab \in 1 .. Len(f.tables)
    BY DEF ProcOk, ObjsOk
  <2> QED
    BY <2>1
<1> QED
  BY <1>1, <1>2 DEF ProcOk

(* The registry's own table is made or found. *)
LEMMA GlobalStep == IInv /\ getGlobalHash => IInv'
<1> SUFFICES ASSUME IInv, getGlobalHash PROVE IInv'
  OBVIOUS
<1>1. MainProc \in NameProcs /\ nameHist' = nameHist /\ nproc[MainProc].st = "ghash"
  BY DEF NameProcs, getGlobalHash
<1>2. nproc[MainProc] \in ProcRecs /\ ProcOk(nproc[MainProc], names)
  BY <1>1, ProcFacts
<1>3. PICK r : r = [nproc[MainProc] EXCEPT !.st = "reg"]
  OBVIOUS
<1>4. /\ r \in ProcRecs /\ r.st = "reg" /\ r.lock = nproc[MainProc].lock
      /\ r.obj = nproc[MainProc].obj /\ r.user = nproc[MainProc].user
  BY <1>2, <1>3 DEF ProcRecs, States
<1>5. ProcOk(r, names)
  BY <1>1, <1>2, <1>4 DEF ProcOk, RegRead, ObjsOk, UsersOk, LockOk
<1>6. CASE Moves(MainProc, "reg") /\ names' = names
  <2>1. Becomes(MainProc, r)
    BY <1>3, <1>6 DEF Moves, Becomes
  <2> QED
    BY <1>1, <1>4, <1>5, <1>6, <2>1, BecomesQuiet
<1>7. CASE nproc' = [nproc EXCEPT ![MainProc] = Ended] /\ names' = names
  <2>1. GiveUp(MainProc) = Ended
    BY DEF GiveUp
  <2> QED
    BY <1>1, <1>7, <2>1, GiveUpStep
<1>8. CASE /\ names.ghash = 0 /\ names.free # << >> /\ Moves(MainProc, "reg")
           /\ names' = [names EXCEPT !.ghash = Head(names.free), !.free = Tail(@)]
  <2>1. nproc' = [nproc EXCEPT ![MainProc] = r]
    BY <1>3, <1>8 DEF Moves
  <2>2. nproc'[MainProc] = r /\ \A q \in NameProcs : q # MainProc => nproc'[q] = nproc[q]
    BY <1>1, <2>1 DEF IInv, Types
  <2>3. names \in Files /\ Head(names.free) \in Nat /\ Tail(names.free) \in Seq(Nat)
    BY <1>8 DEF IInv, Types, Files
  <2>4. /\ names' \in Files /\ names'.reg = names.reg /\ names'.tables = names.tables
        /\ names'.ghash = Head(names.free) /\ names'.free = Tail(names.free)
    <3>1. names' = [names EXCEPT !.ghash = Head(names.free), !.free = Tail(names.free)]
      BY <1>8, <2>3 DEF Files
    <3> QED
      BY <2>3, <3>1 DEF Files
  <2>5. Types'
    BY <1>1, <1>4, <2>1, <2>4 DEF IInv, Types
  <2>6. LocksInv'
    BY <1>1, <1>4, <1>8, <2>2, <2>4, LockToTop
  <2>7. ProcsOk'
    <3>1. \A q \in NameProcs : ProcOk(nproc'[q], names)
      BY <1>5, <2>2 DEF IInv, ProcsOk
    <3> QED
      BY <2>4, <3>1 DEF ProcsOk, ProcOk, RegRead, ObjsOk
  <2>8. RegOk' /\ OneTable'
    BY <1>1, <1>4, <2>2, <2>4 DEF IInv, RegOk, OneTable
  <2>9. ClaimsApart'
    <3>1. \A n \in HashNames, t \in Nat \ {0} : Claimed(t, n)' => Claimed(t, n)
      BY <1>1, <1>4, <2>2, <2>4 DEF Claimed, Holds
    <3> QED
      BY <3>1 DEF IInv, ClaimsApart
  <2>10. AloneCreating'
    BY <1>1, <1>4, <2>2, <2>4 DEF IInv, AloneCreating, Creating
  <2> QED
    BY <2>5, <2>6, <2>7, <2>8, <2>9, <2>10 DEF IInv
<1> QED
  BY <1>6, <1>7, <1>8 DEF getGlobalHash

(* A name is looked up in the registry, or put there without a table. *)
LEMMA RegStep == ASSUME NEW p \in NameProcs PROVE IInv /\ getReg(p) => IInv'
<1> SUFFICES ASSUME IInv, getReg(p) PROVE IInv'
  OBVIOUS
<1> DEFINE n == nproc[p].name
<1>1. nameHist' = nameHist /\ nproc[p].st = "reg"
  BY DEF getReg
<1>2. nproc[p] \in ProcRecs /\ ProcOk(nproc[p], names) /\ n \in HashNames
  BY ProcFacts
<1>3. CASE nproc' = [nproc EXCEPT ![p] = GiveUp(p)] /\ names' = names
  BY <1>1, <1>3, GiveUpStep
<1>4. CASE names' = addRegOff(names, n) /\ Moves(p, "value")
  <2>1. PICK r : r = [nproc[p] EXCEPT !.st = "value"]
    OBVIOUS
  <2>2. /\ Becomes(p, r) /\ r \in ProcRecs /\ r.st = "value" /\ r.name = n /\ r.lock = nproc[p].lock
        /\ r.obj = nproc[p].obj /\ r.user = nproc[p].user
    BY <1>4, <2>1, MovesFacts DEF States
  <2>3. nproc'[p] = r /\ \A q \in NameProcs : q # p => nproc'[q] = nproc[q]
    BY <2>2 DEF IInv, Types, Becomes
  <2> HIDE DEF n
  <2>4. names \in Files /\ names.reg \in [HashNames -> Int] /\ Len(names.tables) \in Nat
    BY DEF IInv, Types, Files
  <2>5. /\ names' \in Files /\ names'.tables = names.tables /\ names'.ghash = names.ghash
        /\ names'.free = names.free
        /\ names'.reg[n] = (IF names.reg[n] = -1 THEN 0 ELSE names.reg[n])
        /\ \A m \in HashNames : m # n => names'.reg[m] = names.reg[m]
    <3> DEFINE reg == [names.reg EXCEPT ![n] = IF names.reg[n] = -1 THEN 0 ELSE names.reg[n]]
    <3>1. /\ reg \in [HashNames -> Int]
          /\ reg[n] = (IF names.reg[n] = -1 THEN 0 ELSE names.reg[n])
          /\ \A m \in HashNames : m # n => reg[m] = names.reg[m]
      BY <1>2, <2>4
    <3>2. names' = [names EXCEPT !.reg = reg]
      BY <1>2, <1>4, <2>4 DEF addRegOff, NoReg, NoOff, Files
    <3> HIDE DEF reg
    <3> QED
      BY <2>4, <3>1, <3>2 DEF Files
  <2>6. Types'
    BY <1>1, <2>2, <2>5 DEF IInv, Types, Becomes
  <2>7. names.reg[n] \in -1 .. Len(names.tables)
    BY <1>2 DEF IInv, RegOk
  <2>8. \A m \in HashNames : /\ names.reg[m] >= 0 => names'.reg[m] = names.reg[m]
                             /\ names'.reg[m] = names.reg[m] \/ names'.reg[m] = 0
                             /\ names.reg[m] \in Int /\ names'.reg[m] \in Int
    BY <2>4, <2>5, <2>7
  <2>9. RegOk'
    BY <2>4, <2>5, <2>8 DEF IInv, RegOk
  <2>10. ProcsOk'
    <3>1. ProcOk(r, names')
      <4>1. ProcOk(nproc[p], names')
        BY <1>2, <2>4, <2>5, <2>8, OthersKept
      <4>2. RegRead(r, names')
        BY <2>2, <2>5, <2>7 DEF RegRead
      <4> QED
        BY <1>1, <2>2, <4>1, <4>2 DEF ProcOk, ObjsOk, UsersOk, LockOk
    <3>2. ASSUME NEW q \in NameProcs, q # p PROVE ProcOk(nproc[q], names')
      <4>1. nproc[q] \in ProcRecs /\ ProcOk(nproc[q], names)
        BY ProcFacts
      <4> QED
        BY <2>4, <2>5, <2>8, <4>1, OthersKept
    <3> QED
      BY <2>3, <3>1, <3>2 DEF ProcsOk
  <2>11. OneTable'
    <3> SUFFICES ASSUME NEW q \in NameProcs, NEW m \in HashNames \ nameHist.overlap, nproc[q].obj[m].ref > 0
                 PROVE  nproc[q].obj[m].tab = names'.reg[m]
      BY <1>1, <2>2, <2>3 DEF OneTable
    <3>1. nproc[q].obj[m].tab = names.reg[m]
      BY DEF IInv, OneTable
    <3>2. nproc[q].obj[m].tab \in Nat
      BY ProcFacts
    <3> QED
      BY <2>8, <3>1, <3>2
  <2>12. ClaimsApart'
    <3>1. \A m \in HashNames, t \in Nat \ {0} : Claimed(t, m)' => Claimed(t, m)
      BY <2>2, <2>3, <2>8 DEF Claimed, Holds
    <3> QED
      BY <3>1 DEF IInv, ClaimsApart
  <2>13. AloneCreating'
    BY <1>1, <2>2, <2>3, <2>8 DEF IInv, AloneCreating, Creating, NoOff
  <2>14. LocksInv'
    <3>1. FreeSet' = FreeSet /\ TabSet' = TabSet /\ \A l : Held(l)' <=> Held(l)
      BY <2>2, <2>3, <2>5 DEF FreeSet, TabSet, Held
    <3> QED
      BY <1>1, <2>2, <2>3, <2>5, <3>1 DEF IInv, LocksInv, LocksPlaced, LocksApart
  <2> QED
    BY <2>6, <2>9, <2>10, <2>11, <2>12, <2>13, <2>14 DEF IInv
<1> QED
  BY <1>3, <1>4 DEF getReg

(* The parts of the invariant that are not about locks, after a step of p that
   keeps the registry, makes no object and at most adds tables that only p
   knows of. *)
LEMMA KeepsReg ==
    ASSUME IInv, NEW p \in NameProcs, NEW r \in ProcRecs, Becomes(p, r), nameHist' = nameHist,
           names' \in Files, names'.reg = names.reg,
           Len(names.tables) <= Len(names'.tables), ProcOk(r, names'),
           \A n \in HashNames : r.obj[n] = nproc[p].obj[n] \/ r.obj[n] = NoObj,
           r.st = "store" => r.off > Len(names.tables),
           r.st \in {"lock", "table", "store"} =>
              r.name = nproc[p].name /\ nproc[p].st \in {"lock", "table"},
           LocksInv'
    PROVE  IInv'
<1>1. nproc'[p] = r /\ \A q \in NameProcs : q # p => nproc'[q] = nproc[q]
  BY DEF IInv, Types, Becomes
<1>2. Types'
  BY DEF IInv, Types, Becomes
<1>3. Len(names.tables) \in Nat /\ Len(names'.tables) \in Nat /\ \A n \in HashNames : names.reg[n] \in Int
  BY DEF IInv, Types, Files
<1>4. RegOk'
  BY <1>3 DEF IInv, RegOk
<1>5. ProcsOk'
  <2>1. ASSUME NEW q \in NameProcs, q # p PROVE ProcOk(nproc[q], names')
    <3>1. nproc[q] \in ProcRecs /\ ProcOk(nproc[q], names)
      BY ProcFacts
    <3> QED
      BY <1>3, <3>1, OthersKept
  <2> QED
    BY <1>1, <2>1 DEF ProcsOk
<1>6. OneTable'
  BY <1>1 DEF IInv, OneTable, NoObj
<1>7. AloneCreating'
  BY <1>1 DEF IInv, AloneCreating, Creating
<1>8. ClaimsApart'
  <2>1. \A n \in HashNames, t \in Nat \ {0} : Claimed(t, n) => t <= Len(names.tables)
    <3> SUFFICES ASSUME NEW n \in HashNames, NEW t \in Nat \ {0}, Claimed(t, n)
                 PROVE  t <= Len(names.tables)
      OBVIOUS
    <3>1. CASE names.reg[n] = t
      BY <1>3, <3>1 DEF IInv, RegOk
    <3>2. ASSUME NEW q \in NameProcs, Holds(nproc[q], t, n) PROVE t <= Len(names.tables)
      <4>1. ProcOk(nproc[q], names)
        BY ProcFacts
      <4> QED
        BY <1>3, <3>2, <4>1 DEF Holds, ProcOk, ObjsOk, RegRead, NoObj, NoOff
    <3> QED
      BY <3>1, <3>2 DEF Claimed
  <2>2. \A n \in HashNames, t \in Nat \ {0} :
           Claimed(t, n)' => \/ Claimed(t, n)
                             \/ t > Len(names.tables) /\ t = r.off /\ n = r.name
    <3> SUFFICES ASSUME NEW n \in HashNames, NEW t \in Nat \ {0}, Claimed(t, n)', ~Claimed(t, n)
                 PROVE  t > Len(names.tables) /\ t = r.off /\ n = r.name
      OBVIOUS
    <3>1. PICK q \in NameProcs : Holds(nproc'[q], t, n)
      BY DEF Claimed
    <3>2. q = p
      BY <1>1, <3>1 DEF Claimed
    <3>3. r.obj[n].tab # t
      BY DEF Claimed, Holds, NoObj, NoOff
    <3> QED
      BY <1>1, <3>1, <3>2, <3>3 DEF Holds
  <2> QED
    BY <1>3, <2>1, <2>2 DEF IInv, ClaimsApart
<1> QED
  BY <1>2, <1>4, <1>5, <1>6, <1>7, <1>8 DEF IInv

(* A lock is taken for the new table. *)
LEMMA LockStep == ASSUME NEW p \in NameProcs PROVE IInv /\ newHashLock(p) => IInv'
<1> SUFFICES ASSUME IInv, newHashLock(p) PROVE IInv'
  OBVIOUS
<1>1. nameHist' = nameHist /\ nproc[p].st = "lock"
  BY DEF newHashLock
<1>2. nproc[p] \in ProcRecs /\ ProcOk(nproc[p], names) /\ nproc[p].name \in HashNames
  BY ProcFacts
<1>3. CASE nproc' = [nproc EXCEPT ![p] = GiveUp(p)] /\ names' = names
  BY <1>1, <1>3, GiveUpStep
<1>4. CASE /\ names.free # << >>
           /\ nproc' = [nproc EXCEPT ![p].st = "table", ![p].lock = Head(names.free)]
           /\ names' = [names EXCEPT !.free = Tail(@)]
  <2>1. names \in Files /\ Head(names.free) \in Nat /\ Tail(names.free) \in Seq(Nat)
    BY <1>4 DEF IInv, Types, Files
  <2>2. /\ names' \in Files /\ names'.reg = names.reg /\ names'.tables = names.tables
        /\ names'.ghash = names.ghash /\ names'.free = Tail(names.free)
    BY <1>4, <2>1 DEF Files
  <2>3. PICK r : r = [nproc[p] EXCEPT !.st = "table", !.lock = Head(names.free)]
    OBVIOUS
  <2>4. Becomes(p, r)
    BY <1>4, <2>3 DEF Becomes
  <2>5. /\ r \in ProcRecs /\ r.st = "table" /\ r.lock = Head(names.free) /\ r.name = nproc[p].name
        /\ r.obj = nproc[p].obj /\ r.user = nproc[p].user
    BY <1>2, <2>1, <2>3 DEF ProcRecs, States
  <2>6. nproc'[p] = r /\ \A q \in NameProcs : q # p => nproc'[q] = nproc[q]
    BY <2>4 DEF IInv, Types, Becomes
  <2>7. nproc[p].lock = 0
    BY <1>1, <1>2 DEF ProcOk, LockOk
  <2>8. Head(names.free) # 0
    <3>1. names.free \in Seq(Nat) /\ Once(names.free) /\ 0 \notin Elems(names.free)
      BY LockFacts DEF LocksInv, LocksApart
    <3> QED
      BY <1>4, <3>1, TakeFirst
  <2>9. LocksInv'
    BY <1>1, <1>4, <2>2, <2>5, <2>6, <2>7, LockToHand
  <2>10. ProcOk(r, names')
    <3>1. RegRead(r, names') /\ LockOk(r)
      BY <1>1, <1>2, <2>2, <2>5, <2>8 DEF ProcOk, RegRead, LockOk
    <3> QED
      BY <1>2, <2>2, <2>5, <3>1 DEF ProcOk, ObjsOk, UsersOk
  <2>11. Len(names.tables) \in Nat
    BY <2>1 DEF Files
  <2> QED
    BY <1>1, <2>2, <2>4, <2>5, <2>9, <2>10, <2>11, KeepsReg
<1> QED
  BY <1>3, <1>4 DEF newHashLock

(* The table is made with its lock, or the lock is given back. *)
LEMMA TableStep == ASSUME NEW p \in NameProcs PROVE IInv /\ newHashTable(p) => IInv'
<1> SUFFICES ASSUME IInv, newHashTable(p) PROVE IInv'
  OBVIOUS
<1>1. nameHist' = nameHist /\ nproc[p].st = "table"
  BY DEF newHashTable
<1>2. nproc[p] \in ProcRecs /\ ProcOk(nproc[p], names) /\ nproc[p].lock \in Nat
  BY ProcFacts
<1>3. nproc[p].lock # 0
  BY <1>1, <1>2 DEF ProcOk, LockOk
<1>4. names \in Files /\ Len(names.tables) \in Nat
  BY DEF IInv, Types, Files
<1>5. CASE /\ names' = [names EXCEPT !.tables = Append(@, nproc[p].lock)]
           /\ nproc' = [nproc EXCEPT ![p].st = "store", ![p].lock = 0,
                                     ![p].off = Len(names.tables) + 1]
  <2>1. /\ names' \in Files /\ names'.reg = names.reg /\ names'.free = names.free
        /\ names'.ghash = names.ghash /\ names'.tables = Append(names.tables, nproc[p].lock)
    <3>1. PICK q : q = Append(names.tables, nproc[p].lock)
      OBVIOUS
    <3>2. q \in Seq(Nat)
      BY <1>2, <1>4, <3>1 DEF Files
    <3>3. names' = [names EXCEPT !.tables = q]
      BY <1>5, <3>1
    <3> QED
      BY <1>4, <3>1, <3>2, <3>3 DEF Files
  <2>a. PICK k : k = Len(names.tables) + 1
    OBVIOUS
  <2>2. PICK r : r = [nproc[p] EXCEPT !.st = "store", !.lock = 0, !.off = k]
    OBVIOUS
  <2>b. k \in Nat
    BY <1>4, <2>a
  <2>3. Becomes(p, r)
    BY <1>5, <2>a, <2>2 DEF Becomes
  <2>4. /\ r \in ProcRecs /\ r.st = "store" /\ r.lock = 0 /\ r.name = nproc[p].name
        /\ r.off = Len(names.tables) + 1 /\ r.obj = nproc[p].obj /\ r.user = nproc[p].user
    <3>1. /\ r \in ProcRecs /\ r.st = "store" /\ r.lock = 0 /\ r.name = nproc[p].name
          /\ r.off = k /\ r.obj = nproc[p].obj /\ r.user = nproc[p].user
      BY <1>2, <2>2, <2>b DEF ProcRecs, States
    <3> QED
      BY <2>a, <3>1
  <2>5. nproc'[p] = r /\ \A q \in NameProcs : q # p => nproc'[q] = nproc[q]
    BY <2>3 DEF IInv, Types, Becomes
  <2>6. LocksInv' /\ Len(names'.tables) = Len(names.tables) + 1
    BY <1>1, <1>3, <2>1, <2>4, <2>5, LockToTable
  <2>7. ProcOk(r, names')
    <3>1. RegRead(r, names') /\ LockOk(r)
      BY <1>1, <1>2, <1>4, <2>1, <2>4, <2>6 DEF ProcOk, RegRead, LockOk
    <3>2. ObjsOk(r, names')
      BY <1>2, <1>4, <2>4, <2>6 DEF ProcOk, ObjsOk
    <3> QED
      BY <1>2, <2>4, <3>1, <3>2 DEF ProcOk, UsersOk
  <2> QED
    BY <1>1, <1>4, <2>1, <2>3, <2>4, <2>6, <2>7, KeepsReg
<1>6. CASE names' = freeLock(names, nproc[p].lock) /\ nproc' = [nproc EXCEPT ![p] = GiveUp(p)]
  <2>1. /\ names' \in Files /\ names'.reg = names.reg /\ names'.tables = names.tables
        /\ names'.ghash = names.ghash /\ names'.free = <<nproc[p].lock>> \o names.free
    <3>1. <<nproc[p].lock>> \o names.free \in Seq(Nat)
      BY <1>2, <1>4 DEF Files
    <3>2. names' = [names EXCEPT !.free = <<nproc[p].lock>> \o names.free]
      BY <1>4, <1>6 DEF freeLock, Files
    <3> QED
      BY <1>4, <3>1, <3>2 DEF Files
  <2>2. PICK r : r = GiveUp(p)
    OBVIOUS
  <2>3. /\ r \in ProcRecs /\ ProcOk(r, names) /\ r.lock = 0 /\ r.st \in {"ended", "idle"}
        /\ \A n \in HashNames : r.obj[n] = nproc[p].obj[n] \/ r.obj[n] = NoObj
    BY <2>2, GiveUpFacts
  <2>4. Becomes(p, r)
    BY <1>6, <2>2 DEF Becomes
  <2>5. nproc'[p] = r /\ \A q \in NameProcs : q # p => nproc'[q] = nproc[q]
    BY <2>4 DEF IInv, Types, Becomes
  <2>6. LocksInv'
    BY <1>1, <1>3, <2>1, <2>3, <2>5, LockToFree
  <2>7. ProcOk(r, names')
    BY <2>1, <2>3 DEF ProcOk, RegRead, ObjsOk
  <2> QED
    BY <1>1, <1>4, <2>1, <2>3, <2>4, <2>6, <2>7, KeepsReg
<1> QED
  BY <1>5, <1>6 DEF newHashTable

(* The table's offset is stored in the registry. *)
LEMMA StoreStep == ASSUME NEW p \in NameProcs PROVE IInv /\ storeValue(p) => IInv'
<1> SUFFICES ASSUME IInv, storeValue(p) PROVE IInv'
  OBVIOUS
<1> DEFINE n == nproc[p].name
           off == nproc[p].off
<1>1. nameHist' = nameHist /\ nproc[p].st = "store" /\ names' = [names EXCEPT !.reg[n] = off]
      /\ Moves(p, "open")
  BY DEF storeValue
<1>2. nproc[p] \in ProcRecs /\ ProcOk(nproc[p], names) /\ n \in HashNames /\ off \in Nat
  BY ProcFacts
<1>3. names \in Files /\ Len(names.tables) \in Nat /\ names.reg \in [HashNames -> Int]
  BY DEF IInv, Types, Files
<1>4. off \in 1 .. Len(names.tables)
  BY <1>1, <1>2 DEF ProcOk, RegRead
<1>5. PICK r : r = [nproc[p] EXCEPT !.st = "open"]
  OBVIOUS
<1>6. /\ Becomes(p, r) /\ r \in ProcRecs /\ r.st = "open" /\ r.name = n /\ r.lock = nproc[p].lock
      /\ r.obj = nproc[p].obj /\ r.user = nproc[p].user
  BY <1>1, <1>5, MovesFacts DEF States
<1>7. nproc'[p] = r /\ \A q \in NameProcs : q # p => nproc'[q] = nproc[q]
  BY <1>6 DEF IInv, Types, Becomes
<1>8. Claimed(off, n) /\ Creating(p, n)
  BY <1>1 DEF Claimed, Holds, Creating
<1> HIDE DEF n, off
<1>9. /\ names' \in Files /\ names'.tables = names.tables /\ names'.ghash = names.ghash
      /\ names'.free = names.free /\ names'.reg[n] = off
      /\ \A m \in HashNames : m # n => names'.reg[m] = names.reg[m]
  <2> DEFINE reg == [names.reg EXCEPT ![n] = off]
  <2>1. /\ reg \in [HashNames -> Int] /\ reg[n] = off
        /\ \A m \in HashNames : m # n => reg[m] = names.reg[m]
    BY <1>2, <1>3
  <2>2. names' = [names EXCEPT !.reg = reg]
    BY <1>1, <1>3 DEF Files
  <2> HIDE DEF reg
  <2> QED
    BY <1>3, <2>1, <2>2 DEF Files
<1>10. Types'
  BY <1>1, <1>6, <1>9 DEF IInv, Types, Becomes
<1>11. \A m \in HashNames : names.reg[m] \in Int /\ names'.reg[m] \in Int
  BY <1>3, <1>9 DEF Files
<1>12. RegOk'
  BY <1>4, <1>9 DEF IInv, RegOk
<1>13. ProcsOk'
  <2>1. \A m \in HashNames : /\ names.reg[m] >= 0 => names'.reg[m] >= 0
                             /\ names.reg[m] > 0 => names'.reg[m] > 0
    BY <1>4, <1>9, <1>11
  <2>2. ASSUME NEW q \in NameProcs PROVE ProcOk(nproc[q], names')
    <3>1. nproc[q] \in ProcRecs /\ ProcOk(nproc[q], names)
      BY ProcFacts
    <3> QED
      BY <1>3, <1>9, <1>11, <2>1, <3>1, OthersKept
  <2>3. ProcOk(r, names')
    <3>1. ProcOk(nproc[p], names')
      BY <2>2
    <3>2. RegRead(r, names')
      BY <1>4, <1>6, <1>9 DEF RegRead
    <3> QED
      BY <1>1, <1>6, <3>1, <3>2 DEF ProcOk, ObjsOk, UsersOk, LockOk
  <2> QED
    BY <1>7, <2>2, <2>3 DEF ProcsOk
<1>14. ClaimsApart'
  <2>1. \A m \in HashNames, t \in Nat \ {0} : Claimed(t, m)' => Claimed(t, m)
    <3> SUFFICES ASSUME NEW m \in HashNames, NEW t \in Nat \ {0}, Claimed(t, m)' PROVE Claimed(t, m)
      OBVIOUS
    <3>1. CASE names'.reg[m] = t
      BY <1>8, <1>9, <3>1 DEF Claimed
    <3>2. CASE \E q \in NameProcs : Holds(nproc'[q], t, m)
      BY <1>6, <1>7, <3>2 DEF Claimed, Holds
    <3> QED
      BY <3>1, <3>2 DEF Claimed
  <2> QED
    BY <2>1 DEF IInv, ClaimsApart
<1>15. OneTable'
  <2> SUFFICES ASSUME NEW q \in NameProcs, NEW m \in HashNames \ nameHist.overlap,
                      nproc[q].obj[m].ref > 0
               PROVE  nproc[q].obj[m].tab = names'.reg[m]
    BY <1>1, <1>6, <1>7 DEF OneTable
  <2>1. nproc[q].obj[m].tab = names.reg[m]
    BY DEF IInv, OneTable
  <2>2. m # n
    <3> SUFFICES ASSUME m = n PROVE FALSE
      OBVIOUS
    <3>1. names.reg[m] = 0
      BY <1>8 DEF IInv, AloneCreating, NoOff
    <3>2. ProcOk(nproc[q], names)
      BY ProcFacts
    <3> QED
      BY <2>1, <3>1, <3>2 DEF ProcOk, ObjsOk, NoObj
  <2> QED
    BY <1>9, <2>1, <2>2
<1>16. AloneCreating'
  <2> SUFFICES ASSUME NEW q \in NameProcs, NEW m \in HashNames \ nameHist.overlap, Creating(q, m)'
               PROVE  /\ names'.reg[m] = NoOff
                      /\ \A o \in NameProcs : Creating(o, m)' => o = q
    BY <1>1 DEF AloneCreating
  <2>1. q # p /\ Creating(q, m)
    BY <1>6, <1>7 DEF Creating
  <2>2. m # n
    BY <1>8, <2>1 DEF IInv, AloneCreating
  <2>3. \A o \in NameProcs : Creating(o, m)' => Creating(o, m)
    BY <1>6, <1>7 DEF Creating
  <2> QED
    BY <1>9, <2>1, <2>2, <2>3 DEF IInv, AloneCreating
<1>17. LocksInv'
  <2>1. FreeSet' = FreeSet /\ TabSet' = TabSet /\ \A l : Held(l)' <=> Held(l)
    BY <1>6, <1>7, <1>9 DEF FreeSet, TabSet, Held
  <2> QED
    BY <1>1, <1>6, <1>7, <1>9, <2>1 DEF IInv, LocksInv, LocksPlaced, LocksApart
<1> QED
  BY <1>10, <1>12, <1>13, <1>14, <1>15, <1>16, <1>17 DEF IInv

(* Processes die; the locks in their hands are lost. *)
LEMMA DeathStep == ASSUME NEW ps \in SUBSET NameProcs PROVE IInv /\ procDies(ps) => IInv'
<1> SUFFICES ASSUME IInv, procDies(ps) PROVE IInv'
  OBVIOUS
<1>1. /\ names' = names
      /\ \A q \in NameProcs : nproc'[q] = IF q \in ps THEN Ended ELSE nproc[q]
      /\ nproc' = [q \in NameProcs |-> IF q \in ps THEN Ended ELSE nproc[q]]
  BY DEF procDies
<1>2. Ended \in ProcRecs /\ ProcOk(Ended, names)
  <2>1. Ended \in ProcRecs
    BY DEF Ended, ProcRecs, States, HashNames, NoObj, Objs, NoOff
  <2> QED
    BY <2>1 DEF Ended, ProcOk, RegRead, ObjsOk, UsersOk, LockOk
<1>3. \A l : l \in LostLocks(ps) <=> l # 0 /\ \E q \in ps : nproc[q].lock = l
  BY DEF LostLocks
<1>4. /\ nameHist' \in Hists /\ nameHist'.overlap = nameHist.overlap
      /\ nameHist'.lost = nameHist.lost \cup LostLocks(ps)
  <2>1. nameHist \in Hists /\ LostLocks(ps) \subseteq Nat
    BY <1>3, LockFacts DEF IInv, Types
  <2>2. nameHist' = [nameHist EXCEPT !.deaths = @ + 1, !.lost = @ \cup LostLocks(ps)]
    BY DEF procDies
  <2>3. PICK ls : ls = nameHist.lost \cup LostLocks(ps)
    OBVIOUS
  <2>4. PICK d : d = nameHist.deaths + 1
    OBVIOUS
  <2>5. ls \in SUBSET Nat /\ d \in Nat
    BY <2>1, <2>3, <2>4 DEF Hists
  <2>6. nameHist' = [nameHist EXCEPT !.deaths = d, !.lost = ls]
    BY <2>1, <2>2, <2>3, <2>4 DEF Hists
  <2>7. nameHist' \in Hists /\ nameHist'.overlap = nameHist.overlap /\ nameHist'.lost = ls
    BY <2>1, <2>5, <2>6 DEF Hists
  <2> QED
    BY <2>3, <2>7
<1>5. Types'
  BY <1>1, <1>2, <1>4 DEF IInv, Types
<1>6. ProcsOk' /\ RegOk'
  BY <1>1, <1>2 DEF IInv, ProcsOk, RegOk
<1>7. OneTable' /\ AloneCreating'
  BY <1>1, <1>4 DEF IInv, OneTable, AloneCreating, Creating, Ended, NoObj
<1>8. ClaimsApart'
  <2>1. \A n \in HashNames, t \in Nat \ {0} : Claimed(t, n)' => Claimed(t, n)
    BY <1>1 DEF Claimed, Holds, Ended, NoObj, NoOff
  <2> QED
    BY <2>1 DEF IInv, ClaimsApart
<1>9. LocksInv'
  <2>1. FreeSet' = FreeSet /\ TabSet' = TabSet
    BY <1>1 DEF FreeSet, TabSet
  <2>2. \A q \in NameProcs : nproc'[q].lock = IF q \in ps THEN 0 ELSE nproc[q].lock
    BY <1>1 DEF Ended
  <2>3. \A l \in Nat \ {0} : /\ Held(l) <=> Held(l)' \/ l \in LostLocks(ps)
                             /\ ~(Held(l)' /\ l \in LostLocks(ps))
    <3>1. \A q, r \in NameProcs : nproc[q].lock = nproc[r].lock /\ nproc[q].lock # 0 => q = r
      BY LockFacts DEF LocksInv, LocksApart
    <3> QED
      BY <1>3, <2>2, <3>1 DEF Held
  <2>4. LocksPlaced'
    BY <1>1, <1>4, <2>1, <2>3, LockFacts DEF LocksInv, LocksPlaced
  <2>5. 0 \notin nameHist'.lost
    BY <1>3, <1>4, LockFacts DEF LocksInv, LocksApart
  <2>6. \A q, r \in NameProcs : nproc'[q].lock = nproc'[r].lock /\ nproc'[q].lock # 0 => q = r
    BY <2>2, LockFacts DEF LocksInv, LocksApart
  <2>7. LocksApart'
    BY <1>1, <1>4, <2>1, <2>3, <2>5, <2>6, LockFacts DEF LocksInv, LocksApart
  <2> QED
    BY <2>4, <2>7 DEF LocksInv
<1> QED
  BY <1>5, <1>6, <1>7, <1>8, <1>9 DEF IInv

-----------------------------------------------------------------------------
(* LsShmPool::getNamedHash, LsMcHashByUser::getHash and LsShmLock::allocLock:
   however many processes make and open hashes of one file at once, and
   wherever they fail or die, no two names share a table, all processes use the
   table the registry names (unless two made it at the same time), a user's
   pointer is to a counted object, and every lock is in one place. *)
THEOREM NamesAreSound == SpecNames => []NamesSound
<1>1. InitNames => IInv
  BY InitIInv
<1>2. IInv /\ [NextNames]_nameVars => IInv'
  <2> SUFFICES ASSUME IInv, [NextNames]_nameVars PROVE IInv'
    OBVIOUS
  <2>1. CASE UNCHANGED nameVars
    BY <2>1 DEF nameVars, IInv, Types, ProcsOk, RegOk, ClaimsApart, Claimed, OneTable,
                AloneCreating, Creating, LocksInv, LocksPlaced, LocksApart, FreeSet, TabSet, Held
  <2>2. CASE hashByUserInit \/ getGlobalHash
    BY <2>2, StartStep, GlobalStep
  <2>3. ASSUME NEW w \in NameWorkers, forkWorker(w) \/ procDies({w}) PROVE IInv'
    BY <2>3, ForkStep, DeathStep DEF NameProcs
  <2>4. CASE procDies(NameProcs)
    BY <2>4, DeathStep
  <2>5. ASSUME NEW p \in NameProcs, NEW u \in NameUsers, getHash(p, u) PROVE IInv'
    BY <2>5, GetHashStep
  <2>6. ASSUME NEW p \in NameProcs,
               \/ getReg(p) \/ readValue(p) \/ newHashLock(p) \/ newHashTable(p)
               \/ storeValue(p) \/ newHashByOffset(p)
        PROVE  IInv'
    BY <2>6, RegStep, ReadStep, LockStep, TableStep, StoreStep, OpenStep
  <2> QED
    BY <2>1, <2>2, <2>3, <2>4, <2>5, <2>6 DEF NextNames
<1>3. IInv => NamesSound
  BY IInvSound
<1> QED
  BY <1>1, <1>2, <1>3, PTL DEF SpecNames
=============================================================================
