----------------------------- MODULE LsShmNames -----------------------------
(****************************************************************************)
(* The named hashes of one shared-memory file.  The registry in the file     *)
(* (the global hash) holds, for each name, the offset of a hash table; every *)
(* process keeps its own objects for the tables it has opened, counted by    *)
(* references.  The first process opens the default hash before it forks;    *)
(* the workers make the hash of a user when they first serve that user, so   *)
(* two of them may look for the same name at once: the registry is locked    *)
(* for a look-up or an insertion, and not between them.                      *)
(****************************************************************************)
EXTENDS Integers, FiniteSets, Sequences

CONSTANTS
    MainProc,       \* the process that opens the files and forks
    NameWorkers,    \* the workers
    NameUsers,      \* users with a hash of their own
    DefaultHash,    \* the name of the hash for everybody else
    NameLocks,      \* locks of the file, but those of the map and the pool
    MaxTables,      \* bound: tables made, what the memory is enough for
    MaxRefs,        \* bound: references to one object
    MaxNameDeaths   \* bound: processes that die at any point

ASSUME NamesAssumption ==
    /\ MainProc \notin NameWorkers /\ DefaultHash \notin NameUsers
    /\ NameLocks \in Nat /\ MaxTables \in Nat \ {0} /\ MaxNameDeaths \in Nat

NameProcs == NameWorkers \cup {MainProc}
HashNames == NameUsers \cup {DefaultHash}
NoReg == -1       \* the name is not in the registry
NoOff == 0        \* x_iValue before the table is made

VARIABLES
    names,        \* the file: registry, tables (their locks), free locks
    nproc,        \* the processes
    nameHist      \* what the properties look back to
nameVars == <<names, nproc, nameHist>>

NoObj == [tab |-> NoOff, ref |-> 0]
Ended == [st |-> "ended", name |-> DefaultHash, lock |-> 0, off |-> NoOff,
          obj |-> [n \in HashNames |-> NoObj],    \* getObjBase()
          user |-> [u \in NameUsers |-> NoOff]]   \* m_userHashes

(* A new file: every lock is free, no global hash yet.                        *)
InitNames ==
    /\ names = [ghash |-> 0, reg |-> [n \in HashNames |-> NoReg], tables |-> << >>,
                free |-> [i \in 1 .. NameLocks |-> i]]
    /\ nproc = [p \in NameProcs |-> Ended]
    /\ nameHist = [lost |-> {}, overlap |-> {}, deaths |-> 0]

-----------------------------------------------------------------------------
(* Locks of the file: a list through their own memory. *)
freeLock(f, l) == [f EXCEPT !.free = <<l>> \o @]

(* The registry: a look-up, and a look-up that inserts under the same lock.   *)
findRegOff(f, n) == f.reg[n] # NoReg
addRegOff(f, n) == [f EXCEPT !.reg[n] = IF @ = NoReg THEN NoOff ELSE @]

(* The objects of a process.  LsShmHash::init compares magic and flags, which *)
(* are the same for every hash of the program; the last close deletes.        *)
initObj(off) == [tab |-> off, ref |-> 1]
checkHTable(o) == [o EXCEPT !.ref = @ + 1]
closeObj(o) == IF o.ref = 1 THEN NoObj ELSE [o EXCEPT !.ref = @ - 1]

(* How a getNamedHash that returns NULL leaves its process: a worker answers  *)
(* with an error, the first process gives up its start.                       *)
GiveUp(p) ==
    IF p = MainProc THEN Ended
    ELSE [nproc[p] EXCEPT !.st = "idle", !.lock = 0, !.off = NoOff]

Moves(p, st) == nproc' = [nproc EXCEPT ![p].st = st]

(* LsMcHashByUser::init in the first process, for the default hash.           *)
hashByUserInit ==
    /\ \A p \in NameProcs : nproc[p].st = "ended"
    /\ nproc' = [nproc EXCEPT ![MainProc].st = "ghash"]
    /\ UNCHANGED <<names, nameHist>>

(* getGlobalHash: the registry's own table is made by the first process, and  *)
(* found by its offset later.  Memory or locks may not be enough.             *)
getGlobalHash ==
    /\ nproc[MainProc].st = "ghash"
    /\ \/ /\ names.ghash # 0
          /\ Moves(MainProc, "reg") /\ UNCHANGED names
       \/ /\ names.ghash = 0 /\ names.free # << >>
          /\ names' = [names EXCEPT !.ghash = Head(names.free), !.free = Tail(@)]
          /\ Moves(MainProc, "reg")
       \/ /\ names.ghash = 0
          /\ nproc' = [nproc EXCEPT ![MainProc] = Ended] /\ UNCHANGED names
    /\ UNCHANGED nameHist

(* fork: the objects and the tables of users are copied.                      *)
forkWorker(w) ==
    /\ nproc[MainProc].st = "idle" /\ nproc[w].st = "ended"
    /\ nproc' = [nproc EXCEPT ![w] = nproc[MainProc]]
    /\ UNCHANGED <<names, nameHist>>

(* insert_user_entry after obj was opened: the entry is made; or there is no  *)
(* memory for it, and the reference stays; or the table of users refuses it,  *)
(* and the hash is closed.                                                    *)
insert_user_entry(p, n, obj) ==
    LET With(o, u) == [nproc[p] EXCEPT !.st = "idle", !.lock = 0, !.off = NoOff,
                                       !.obj[n] = o, !.user[n] = u]
    IN  nproc' \in {[nproc EXCEPT ![p] = With(obj, obj.tab)],
                    [nproc EXCEPT ![p] = With(obj, NoOff)],
                    [nproc EXCEPT ![p] = With(closeObj(obj), NoOff)]}

(* LsMcHashByUser::getHash of a user this process has not served, and the     *)
(* start of getNamedHash: an object of that name is used again (checkHTable). *)
getHash(p, u) ==
    /\ p \in NameWorkers /\ nproc[p].st = "idle" /\ nproc[p].user[u] = NoOff
    /\ LET o == nproc[p].obj[u] IN
       \/ o.ref > 0 /\ o.ref < MaxRefs /\ insert_user_entry(p, u, checkHTable(o))
       \/ o.ref = 0 /\ nproc' = [nproc EXCEPT ![p].st = "reg", ![p].name = u]
    /\ UNCHANGED <<names, nameHist>>

(* getReg.                                                                    *)
getReg(p) ==
    /\ nproc[p].st = "reg"
    /\ LET n == nproc[p].name IN
       \/ names' = addRegOff(names, n) /\ Moves(p, "value")
       \/ /\ ~findRegOff(names, n)     \* no memory for the entry
          /\ nproc' = [nproc EXCEPT ![p] = GiveUp(p)] /\ UNCHANGED names
    /\ UNCHANGED nameHist

Creating(q, n) == nproc[q].name = n /\ nproc[q].st \in {"lock", "table", "store"}

(* getNamedHash looks at x_iValue without a lock.                             *)
readValue(p) ==
    /\ nproc[p].st = "value"
    /\ LET n == nproc[p].name IN
       IF names.reg[n] # NoOff THEN Moves(p, "open") /\ UNCHANGED nameHist
       ELSE /\ Moves(p, "lock")
            /\ nameHist' = [nameHist EXCEPT !.overlap =
                   IF \E q \in NameProcs \ {p} : Creating(q, n) THEN @ \cup {n} ELSE @]
    /\ UNCHANGED names

(* allocateNewHash: a lock first, which may be the last one.                  *)
newHashLock(p) ==
    /\ nproc[p].st = "lock"
    /\ \/ /\ names.free # << >>
          /\ nproc' = [nproc EXCEPT ![p].st = "table", ![p].lock = Head(names.free)]
          /\ names' = [names EXCEPT !.free = Tail(@)]
       \/ /\ names.free = << >>
          /\ nproc' = [nproc EXCEPT ![p] = GiveUp(p)] /\ UNCHANGED names
    /\ UNCHANGED nameHist

(* allocHTable: the table with its lock is written before the registry is;    *)
(* without memory the lock is given back.                                     *)
(* Wrong variant: the lock is kept.                                           *)
newHashTableKeep(p) ==
    /\ nproc[p].st = "table"
    /\ \/ /\ Len(names.tables) < MaxTables
          /\ names' = [names EXCEPT !.tables = Append(@, nproc[p].lock)]
          /\ nproc' = [nproc EXCEPT ![p].st = "store", ![p].lock = 0,
                                    ![p].off = Len(names.tables) + 1]
       \/ /\ nproc' = [nproc EXCEPT ![p] = GiveUp(p)] /\ UNCHANGED names
    /\ UNCHANGED nameHist

newHashTable(p) ==
    /\ nproc[p].st = "table"
    /\ \/ /\ Len(names.tables) < MaxTables
          /\ names' = [names EXCEPT !.tables = Append(@, nproc[p].lock)]
          /\ nproc' = [nproc EXCEPT ![p].st = "store", ![p].lock = 0,
                                    ![p].off = Len(names.tables) + 1]
       \/ /\ names' = freeLock(names, nproc[p].lock)
          /\ nproc' = [nproc EXCEPT ![p] = GiveUp(p)]
    /\ UNCHANGED nameHist

storeValue(p) ==
    /\ nproc[p].st = "store"
    /\ names' = [names EXCEPT !.reg[nproc[p].name] = nproc[p].off]
    /\ Moves(p, "open")
    /\ UNCHANGED nameHist

(* newHashByOffset is given x_iValue, read again.                             *)
newHashByOffset(p) ==
    /\ nproc[p].st = "open"
    /\ LET n == nproc[p].name
           o == initObj(names.reg[n])
       IN  IF n \in NameUsers THEN insert_user_entry(p, n, o)
           ELSE nproc' = [nproc EXCEPT ![p].st = "idle", ![p].off = NoOff, ![p].obj[n] = o]
    /\ UNCHANGED <<names, nameHist>>

(* The memory of the file outlives a process; the lock it was about to use is *)
(* in no list any more.                                                       *)
LostLocks(ps) == {nproc[p].lock : p \in ps} \ {0}
procDies(ps) ==
    /\ nameHist.deaths < MaxNameDeaths
    /\ \E p \in ps : nproc[p].st # "ended"
    /\ nproc' = [p \in NameProcs |-> IF p \in ps THEN Ended ELSE nproc[p]]
    /\ nameHist' = [nameHist EXCEPT !.deaths = @ + 1, !.lost = @ \cup LostLocks(ps)]
    /\ UNCHANGED names

NextNames ==
    \/ hashByUserInit \/ getGlobalHash
    \/ \E w \in NameWorkers : forkWorker(w) \/ procDies({w})
    \/ procDies(NameProcs)
    \/ \E p \in NameProcs :
          \/ \E u \in NameUsers : getHash(p, u)
          \/ getReg(p) \/ readValue(p) \/ newHashLock(p) \/ newHashTable(p)
          \/ storeValue(p) \/ newHashByOffset(p)

SpecNames == InitNames /\ [][NextNames]_nameVars

-----------------------------------------------------------------------------
(* Unless two workers were making the hash of one name at the same time, all  *)
(* processes that have a hash of that name open work on the one table the     *)
(* registry names, whatever failed or died on the way.                        *)
OneTable ==
    \A p \in NameProcs, n \in HashNames \ nameHist.overlap :
       nproc[p].obj[n].ref > 0 => nproc[p].obj[n].tab = names.reg[n]

(* No two names ever share a table, in one process or in two: a user never    *)
(* gets the data of another.                                                  *)
TablesApart ==
    \A p, q \in NameProcs, n, m \in HashNames :
       n # m /\ nproc[p].obj[n].ref > 0 => nproc[p].obj[n].tab # nproc[q].obj[m].tab

(* A pointer in the table of users is to an object that is still counted.     *)
UsersReferred ==
    \A p \in NameProcs, u \in NameUsers :
       nproc[p].user[u] # NoOff =>
          nproc[p].obj[u].ref > 0 /\ nproc[p].obj[u].tab = nproc[p].user[u]

(* Each lock is in the list, or of one table, or in the hands of the one      *)
(* process that took it: two tables never share one, and only a death loses   *)
(* one.                                                                       *)
LocksCounted ==
    LET hands == [p \in NameProcs |-> LostLocks({p})]
        sets == <<{names.free[i] : i \in DOMAIN names.free}, {names.ghash} \ {0},
                  {names.tables[t] : t \in DOMAIN names.tables},
                  UNION {hands[p] : p \in NameProcs}, nameHist.lost>>
    IN  /\ UNION {sets[i] : i \in DOMAIN sets} = 1 .. NameLocks
        /\ \A i, j \in DOMAIN sets : i # j => sets[i] \cap sets[j] = {}
        /\ \A s, t \in DOMAIN names.tables : s # t => names.tables[s] # names.tables[t]
        /\ \A p, q \in NameProcs : p # q => hands[p] \cap hands[q] = {}
        /\ \A i, j \in DOMAIN names.free : i # j => names.free[i] # names.free[j]

(* LsShmPool::getNamedHash, LsMcHashByUser::getHash and LsShmLock::allocLock  *)
(* in several processes that share a file.                                    *)
NamesSound == OneTable /\ TablesApart /\ UsersReferred /\ LocksCounted
=============================================================================
