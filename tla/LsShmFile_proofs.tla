-------------------------- MODULE LsShmFile_proofs --------------------------
(****************************************************************************)
(* FileSound for any number of locks, opens and processes.  Three invariants, *)
(* one for each variable group: what the files hold at each step of an open   *)
(* (FilesOk), and for the two locks that the owner inside is the one in the   *)
(* word and that who died inside still is (SpinOk, where no pid is small, and *)
(* FutexOk).                                                                  *)
(****************************************************************************)
EXTENDS LsShmFile, TLAPS

ShmType == [there : BOOLEAN, size : {0, 1}, magic : BOOLEAN, id : Nat, lock : Nat,
            pool : BOOLEAN, poolLock : Nat, reg : Nat]
LckType == [there : BOOLEAN, size : {0, 1}, magic : BOOLEAN, id : Nat, free : Seq(Nat)]

BeforeLocks == {"lockmagic", "lockid", "locklist"}
Creating == {"shmid", "shmlock", "shmlockset", "shmmagic"}
Opening == {"pool", "poollock", "poollockset", "hash", "hashset", "up"}
OpenerType ==
    [pc : {"down", "stat", "lockfile", "map"} \cup BeforeLocks \cup Creating \cup Opening,
     id : Nat, new : BOOLEAN, lock : Nat, fails : Nat, opens : Nat, ref : Int]

FileTypes ==
    /\ disk \in [shm : ShmType, lck : LckType]
    /\ opener \in OpenerType

(* A file without a size has no fields yet; one with a magic has its lock.    *)
ShmOk(s) ==
    /\ s.size = 0 => ~s.magic /\ s.lock = 0 /\ s.poolLock = 0 /\ s.reg = 0
    /\ s.magic => s.lock # 0

(* The locks in the free list are different ones, and none is one in use.     *)
FreeOk(free, s) ==
    /\ \A i, j \in 1..Len(free) : free[i] = free[j] => i = j
    /\ \A i \in 1..Len(free) : free[i] \notin {0, s.lock, s.poolLock, s.reg}
UsedOk(s) ==
    /\ s.lock # 0 => s.lock # s.poolLock /\ s.lock # s.reg
    /\ s.poolLock # 0 => s.poolLock # s.reg

(* A lock that was taken and not yet written is nowhere else.                 *)
TakenOk(o, free, s) ==
    o.pc \in {"shmlockset", "poollockset", "hashset"} =>
        /\ o.lock \notin {0, s.lock, s.poolLock, s.reg}
        /\ \A i \in 1..Len(free) : free[i] # o.lock

LocksOk(o, d) ==
    d.shm.size # 0 /\ d.lck.size # 0 =>
        /\ FreeOk(d.lck.free, d.shm)
        /\ UsedOk(d.shm)
        /\ TakenOk(o, d.lck.free, d.shm)

(* What is on disk at each step of an open.                                   *)
PhaseOk(o, d) ==
    /\ o.pc = "lockfile" => /\ o.new => d.shm.size = 0 /\ d.lck = NoLck
                            /\ ~o.new => d.shm.size # 0
    /\ o.pc \in BeforeLocks => o.new /\ d.shm.size = 0 /\ d.lck.size # 0
    /\ o.pc = "locklist" => d.lck.id = o.id
    /\ o.pc = "map" => /\ d.lck.size # 0
                       /\ o.new => /\ d.shm.size = 0 /\ d.lck.id = o.id
                                   /\ d.lck.free = [i \in 1..(NumLocks - 1) |-> i]
                       /\ ~o.new => d.shm.size # 0
    /\ o.pc \in Creating \cup Opening => d.shm.size # 0 /\ d.lck.size # 0
    /\ o.pc \in Creating => d.lck.id = o.id
    /\ o.pc \in {"shmlock", "shmlockset", "shmmagic"} => d.shm.id = o.id
    /\ o.pc = "shmmagic" => d.shm.lock # 0
    /\ o.pc \in Opening => d.shm.id = d.lck.id /\ d.shm.lock # 0
    /\ o.pc \in {"hash", "hashset", "up"} => d.shm.poolLock # 0
    /\ o.pc = "up" => d.shm.reg # 0

(* An open that has refused the file is followed by one that makes it anew,   *)
(* with enough free locks.                                                    *)
FailsOk(o, d) ==
    /\ o.fails <= 1
    /\ o.fails = 1 =>
         /\ o.pc # "up"
         /\ o.pc \in {"down", "stat"} => d.shm.size = 0
         /\ o.pc \notin {"down", "stat"} => o.new
         /\ o.pc \in {"shmid", "shmlock"} => Len(d.lck.free) >= 3
         /\ o.pc \in {"shmlockset", "shmmagic", "pool", "poollock"} => Len(d.lck.free) >= 2
         /\ o.pc \in {"poollockset", "hash"} => Len(d.lck.free) >= 1

FilesOk ==
    FileTypes /\ ShmOk(disk.shm) /\ LocksOk(opener, disk) /\ PhaseOk(opener, disk)
    /\ FailsOk(opener, disk)

(* The owner inside is the one in the word; one that died inside still is.    *)
SpinOk ==
    /\ spin \in [word : Procs \cup {NoProc},
                 pc : [Procs -> {"out", "wait", "steal", "in", "dead"}],
                 seen : [Procs -> Procs \cup {NoProc}], hurt : BOOLEAN, missed : BOOLEAN]
    /\ \A p \in Procs : spin.pc[p] = "in" => spin.word = p
    /\ \A p \in Procs : spin.pc[p] = "steal" =>
           spin.seen[p] \in Procs /\ spin.pc[spin.seen[p]] = "dead"
    /\ spin.hurt => spin.word \in Procs /\ spin.pc[spin.word] = "dead"
    /\ ~spin.missed

FutexWords == [pid : Procs \cup {NoProc}, more : BOOLEAN]
FutexPcs ==
    {"out", "check", "steal", "mark", "wait", "sleep", "retry", "in", "wake", "dead"}
FutexOk ==
    /\ futex \in [word : FutexWords, pc : [Procs -> FutexPcs],
                  seen : [Procs -> FutexWords], hurt : BOOLEAN, missed : BOOLEAN]
    /\ futex.word = Avail \/ futex.word.pid \in Procs
    /\ \A p \in Procs : futex.pc[p] = "in" => futex.word.pid = p
    /\ \A p \in Procs : futex.pc[p] \in {"check", "mark", "steal"} => futex.seen[p].pid \in Procs
    /\ \A p \in Procs : futex.pc[p] = "steal" => futex.pc[futex.seen[p].pid] = "dead"
    /\ futex.hurt => futex.word.pid \in Procs /\ futex.pc[futex.word.pid] = "dead"
    /\ ~futex.missed

IInv == FilesOk /\ (lowPids = {} => SpinOk) /\ FutexOk

-----------------------------------------------------------------------------
(* Whoever enters finds the word free or takes it from the dead, and is told  *)
(* when somebody died inside.                                                 *)
LEMMA SpinEnter ==
  ASSUME SpinOk, NEW p \in Procs, NEW told \in BOOLEAN, Enter(p, p, told),
         spin.pc[p] # "dead",
         \/ spin.word = NoProc
         \/ told /\ spin.word \in Procs /\ spin.pc[spin.word] = "dead"
  PROVE  SpinOk'
<1>1. ~spin.hurt \/ told
  BY FileAssumption DEF SpinOk
<1>2. /\ spin'.word = p
      /\ spin'.pc = [spin.pc EXCEPT ![p] = "in"]
      /\ spin'.seen = spin.seen
      /\ spin'.hurt = (IF told THEN FALSE ELSE spin.hurt)
      /\ spin'.missed = (spin.missed \/ (spin.hurt /\ ~told))
      /\ spin' = [word |-> spin'.word, pc |-> spin'.pc, seen |-> spin'.seen,
                  hurt |-> spin'.hurt, missed |-> spin'.missed]
  BY DEF Enter, SpinOk
<1>3. spin'.hurt = FALSE /\ spin'.missed = FALSE
  BY <1>1, <1>2, Zenon DEF SpinOk
<1>4. \A q \in Procs : spin.pc[q] # "in"
  BY FileAssumption DEF SpinOk
<1>5. spin' \in [word : Procs \cup {NoProc},
                 pc : [Procs -> {"out", "wait", "steal", "in", "dead"}],
                 seen : [Procs -> Procs \cup {NoProc}], hurt : BOOLEAN, missed : BOOLEAN]
  <2>1. /\ spin'.pc \in [Procs -> {"out", "wait", "steal", "in", "dead"}]
        /\ spin'.word \in Procs \cup {NoProc}
        /\ spin'.seen \in [Procs -> Procs \cup {NoProc}]
    BY <1>2 DEF SpinOk
  <2>2. spin'.hurt \in BOOLEAN /\ spin'.missed \in BOOLEAN
    BY <1>3, Zenon
  <2> QED
    BY <1>2, <2>1, <2>2, Zenon
<1>6. \A q \in Procs : spin'.pc[q] = "in" => spin'.word = q
  BY <1>2, <1>4 DEF SpinOk
<1>7. \A q \in Procs : spin'.pc[q] = "steal" =>
         spin'.seen[q] \in Procs /\ spin'.pc[spin'.seen[q]] = "dead"
  BY <1>2 DEF SpinOk
<1> QED
  BY <1>3, <1>5, <1>6, <1>7, Zenon DEF SpinOk

(* The spin lock, where every pid is large enough.                            *)
LEMMA SpinStep ==
  ASSUME SpinOk, NextSpin, lowPids = {}
  PROVE  SpinOk'
<1>1. PICK p \in Procs : \/ spin_pidlock(p) \/ pidspin_trylock(p) \/ pidwaitLow(p)
                         \/ pidwaitFree(p) \/ pidwaitKill(p) \/ pidwaitCas(p)
                         \/ spin_unlock(p) \/ ProcDies(p)
  BY DEF NextSpin
<1>8. ~pidwaitLow(p) /\ ~pidwaitFree(p)
  BY DEF SpinOk, pidwaitLow, pidwaitFree
<1>2. CASE spin_pidlock(p)
  <2>1. CASE spin.word = NoProc
    <3>1. Enter(p, p, FALSE) /\ spin.pc[p] # "dead"
      BY <1>2, <2>1 DEF spin_pidlock
    <3> QED
      BY <2>1, <3>1, SpinEnter
  <2>2. CASE spin.word # NoProc
    BY <1>2, <2>2 DEF SpinOk, spin_pidlock
  <2> QED
    BY <2>1, <2>2
<1>3. CASE pidspin_trylock(p)
  <2>1. Enter(p, p, FALSE) /\ spin.pc[p] # "dead" /\ spin.word = NoProc
    BY <1>3 DEF pidspin_trylock
  <2> QED
    BY <2>1, SpinEnter
<1>4. CASE pidwaitKill(p)
  BY <1>4 DEF SpinOk, pidwaitKill
<1>5. CASE pidwaitCas(p)
  <2>1. CASE spin.word = spin.seen[p]
    <3>1. Enter(p, p, TRUE) /\ spin.pc[p] # "dead"
      BY <1>5, <2>1 DEF pidwaitCas
    <3>2. spin.word \in Procs /\ spin.pc[spin.word] = "dead"
      BY <1>5, <2>1 DEF pidwaitCas, SpinOk
    <3> QED
      BY <3>1, <3>2, SpinEnter
  <2>2. CASE spin.word # spin.seen[p]
    BY <1>5, <2>2 DEF SpinOk, pidwaitCas
  <2> QED
    BY <2>1, <2>2
<1>6. CASE spin_unlock(p)
  BY <1>6 DEF SpinOk, spin_unlock
<1>7. CASE ProcDies(p)
  BY <1>7 DEF SpinOk, ProcDies
<1> QED
  BY <1>1, <1>2, <1>3, <1>4, <1>5, <1>6, <1>7, <1>8

(* The same of the futex.                                                     *)
LEMMA FutexEnter ==
  ASSUME FutexOk, NEW p \in Procs, NEW more \in BOOLEAN, NEW told \in BOOLEAN,
         EnterFutex(p, Word(p, more), told), futex.pc[p] # "dead",
         \/ futex.word = Avail
         \/ told /\ futex.word.pid \in Procs /\ futex.pc[futex.word.pid] = "dead"
  PROVE  FutexOk'
<1>1. ~futex.hurt \/ told
  BY FileAssumption DEF FutexOk, Avail, Word
<1>2. /\ futex'.word = [pid |-> p, more |-> more]
      /\ futex'.pc = [futex.pc EXCEPT ![p] = "in"]
      /\ futex'.seen = futex.seen
      /\ futex'.hurt = (IF told THEN FALSE ELSE futex.hurt)
      /\ futex'.missed = (futex.missed \/ (futex.hurt /\ ~told))
      /\ futex' = [word |-> futex'.word, pc |-> futex'.pc, seen |-> futex'.seen,
                   hurt |-> futex'.hurt, missed |-> futex'.missed]
  BY DEF EnterFutex, FutexOk, Word
<1>3. futex'.hurt = FALSE /\ futex'.missed = FALSE
  BY <1>1, <1>2, Zenon DEF FutexOk
<1>4. \A q \in Procs : futex.pc[q] # "in"
  BY FileAssumption DEF FutexOk, Avail, Word
<1>5. futex'.word \in FutexWords /\ futex'.word.pid = p
  BY <1>2 DEF FutexWords
<1>6. futex' \in [word : FutexWords, pc : [Procs -> FutexPcs],
                   seen : [Procs -> FutexWords], hurt : BOOLEAN, missed : BOOLEAN]
  <2>1. futex'.pc \in [Procs -> FutexPcs] /\ futex'.seen \in [Procs -> FutexWords]
    BY <1>2 DEF FutexOk, FutexPcs
  <2>2. futex'.hurt \in BOOLEAN /\ futex'.missed \in BOOLEAN
    BY <1>3, Zenon
  <2> QED
    BY <1>2, <1>5, <2>1, <2>2, Zenon
<1>7. \A q \in Procs : futex'.pc[q] = "in" => futex'.word.pid = q
  BY <1>2, <1>4, <1>5 DEF FutexOk
<1>8. \A q \in Procs : futex'.pc[q] \in {"check", "mark", "steal"} =>
         futex'.seen[q].pid \in Procs
  BY <1>2 DEF FutexOk
<1>9. \A q \in Procs : futex'.pc[q] = "steal" => futex'.pc[futex'.seen[q].pid] = "dead"
  BY <1>2, <1>8 DEF FutexOk
<1> QED
  BY <1>3, <1>5, <1>6, <1>7, <1>8, <1>9, Zenon DEF FutexOk

(* A process finds the word taken.                                            *)
LEMMA FutexFound ==
  ASSUME FutexOk, NEW p \in Procs, Found(p), futex.pc[p] \in {"out", "retry"},
         futex.word # Avail
  PROVE  FutexOk'
  BY DEF FutexOk, FutexPcs, Found

(* The futex.                                                                 *)
LEMMA FutexStep ==
  ASSUME FutexOk, NextFutex
  PROVE  FutexOk'
<1>1. PICK p \in Procs : \/ futex_safe_lock(p) \/ futexKill(p) \/ futexSteal(p) \/ futexMark(p)
                         \/ futex_wait(p) \/ futexTimeout(p) \/ futexRetry(p)
                         \/ futex_safe_unlock(p) \/ futex_wake(p) \/ OwnerDies(p)
  BY DEF NextFutex
<1> USE DEF FutexAt, FutexTo
<1>2. CASE futex_safe_lock(p)
  <2>1. CASE futex.word = Avail
    <3>1. EnterFutex(p, Word(p, FALSE), FALSE) /\ futex.pc[p] # "dead"
      BY <1>2, <2>1 DEF futex_safe_lock
    <3> QED
      BY <2>1, <3>1, FutexEnter
  <2>2. CASE futex.word # Avail
    BY <1>2, <2>2, FutexFound DEF futex_safe_lock
  <2> QED
    BY <2>1, <2>2
<1>3. CASE futexKill(p)
  BY <1>3 DEF FutexOk, FutexWords, FutexPcs, futexKill
<1>4. CASE futexSteal(p)
  <2>1. CASE futex.word = futex.seen[p]
    <3>1. EnterFutex(p, Word(p, TRUE), TRUE) /\ futex.pc[p] # "dead"
      BY <1>4, <2>1 DEF futexSteal
    <3>2. futex.word.pid \in Procs /\ futex.pc[futex.word.pid] = "dead"
      BY <1>4, <2>1 DEF futexSteal, FutexOk
    <3> QED
      BY <3>1, <3>2, FutexEnter
  <2>2. CASE futex.word # futex.seen[p]
    BY <1>4, <2>2 DEF FutexOk, FutexPcs, futexSteal
  <2> QED
    BY <2>1, <2>2
<1>5. CASE futexMark(p)
  <2>1. CASE futex.seen[p].more \/ futex.word # futex.seen[p]
    <3>1. PICK to \in {"wait", "retry"} : FutexTo(p, to)
      BY <1>5, <2>1 DEF futexMark
    <3> QED
      BY <1>5, <3>1 DEF FutexOk, FutexPcs, futexMark
  <2>2. CASE ~futex.seen[p].more /\ futex.word = futex.seen[p]
    <3>1. /\ futex'.word = [futex.word EXCEPT !.more = TRUE]
          /\ futex'.pc = [futex.pc EXCEPT ![p] = "wait"]
          /\ futex'.seen = futex.seen /\ futex'.hurt = futex.hurt
          /\ futex'.missed = futex.missed
          /\ futex' = [word |-> futex'.word, pc |-> futex'.pc, seen |-> futex'.seen,
                       hurt |-> futex'.hurt, missed |-> futex'.missed]
      BY <1>5, <2>2 DEF FutexOk, futexMark
    <3>2. /\ futex'.word \in FutexWords
          /\ futex'.word.pid = futex.word.pid /\ futex.word.pid \in Procs
      BY <1>5, <2>2, <3>1 DEF FutexOk, FutexWords, FutexPcs, futexMark
    <3>3. futex' \in [word : FutexWords, pc : [Procs -> FutexPcs],
                       seen : [Procs -> FutexWords], hurt : BOOLEAN, missed : BOOLEAN]
      <4>1. futex'.pc \in [Procs -> FutexPcs]
        BY <3>1 DEF FutexOk, FutexPcs
      <4> QED
        BY <3>1, <3>2, <4>1 DEF FutexOk
    <3>4. \A q \in Procs : futex'.pc[q] = "in" => futex'.word.pid = q
      BY <3>1, <3>2 DEF FutexOk
    <3>5. \A q \in Procs : futex'.pc[q] \in {"check", "mark", "steal"} =>
             futex'.seen[q].pid \in Procs
      BY <3>1 DEF FutexOk
    <3>6. \A q \in Procs : futex'.pc[q] = "steal" => futex'.pc[futex'.seen[q].pid] = "dead"
      BY <1>5, <3>1, <3>5 DEF FutexOk, futexMark
    <3>7. futex'.hurt => futex'.word.pid \in Procs /\ futex'.pc[futex'.word.pid] = "dead"
      BY <1>5, <3>1, <3>2 DEF FutexOk, futexMark
    <3> QED
      BY <3>1, <3>2, <3>3, <3>4, <3>5, <3>6, <3>7, Zenon DEF FutexOk
  <2> QED
    BY <2>1, <2>2
<1>6. CASE futex_wait(p)
  BY <1>6 DEF FutexOk, FutexWords, FutexPcs, futex_wait
<1>7. CASE futexTimeout(p)
  BY <1>7 DEF FutexOk, FutexWords, FutexPcs, futexTimeout
<1>8. CASE futexRetry(p)
  <2>1. CASE futex.word = Avail
    <3>1. EnterFutex(p, Word(p, TRUE), FALSE) /\ futex.pc[p] # "dead"
      BY <1>8, <2>1 DEF futexRetry
    <3> QED
      BY <2>1, <3>1, FutexEnter
  <2>2. CASE futex.word # Avail
    BY <1>8, <2>2, FutexFound DEF futexRetry
  <2> QED
    BY <2>1, <2>2
<1>9. CASE futex_safe_unlock(p)
  BY <1>9 DEF FutexOk, FutexWords, FutexPcs, futex_safe_unlock, Avail, Word
<1>10. CASE futex_wake(p)
  <2>1. CASE \A q \in Procs : ~FutexAt(q, "sleep")
    <3>1. FutexTo(p, "out") /\ FutexAt(p, "wake")
      BY <1>10, <2>1, Zenon DEF futex_wake
    <3> QED
      BY <3>1 DEF FutexOk, FutexWords, FutexPcs
  <2>2. CASE \E q \in Procs : FutexAt(q, "sleep")
    <3>1. PICK q \in Procs : /\ FutexAt(q, "sleep")
                             /\ futex' = [futex EXCEPT !.pc[p] = "out", !.pc[q] = "retry"]
      BY <1>10, <2>2 DEF futex_wake
    <3>2. /\ futex'.pc = [[futex.pc EXCEPT ![p] = "out"] EXCEPT ![q] = "retry"]
          /\ futex'.word = futex.word /\ futex'.seen = futex.seen
          /\ futex'.hurt = futex.hurt /\ futex'.missed = futex.missed
          /\ futex' = [word |-> futex'.word, pc |-> futex'.pc, seen |-> futex'.seen,
                       hurt |-> futex'.hurt, missed |-> futex'.missed]
      BY <3>1 DEF FutexOk
    <3>3. \A x \in Procs : /\ futex'.pc[x] \in FutexPcs
                           /\ futex'.pc[x] \in {"in", "check", "mark", "steal"} =>
                                futex'.pc[x] = futex.pc[x]
                           /\ futex.pc[x] = "dead" => futex'.pc[x] = "dead"
      BY <1>10, <3>1, <3>2 DEF FutexOk, futex_wake, FutexPcs
    <3>4. futex' \in [word : FutexWords, pc : [Procs -> FutexPcs],
                       seen : [Procs -> FutexWords], hurt : BOOLEAN, missed : BOOLEAN]
      <4>1. futex'.pc \in [Procs -> FutexPcs]
        BY <3>2, <3>3 DEF FutexOk
      <4> QED
        BY <3>2, <4>1 DEF FutexOk
    <3> QED
      BY <3>2, <3>3, <3>4 DEF FutexOk
  <2> QED
    BY <2>1, <2>2
<1>11. CASE OwnerDies(p)
  <2>1. /\ futex'.pc = [futex.pc EXCEPT ![p] = "dead"]
        /\ futex'.word = futex.word /\ futex'.seen = futex.seen
        /\ futex'.missed = futex.missed
        /\ futex' = [word |-> futex'.word, pc |-> futex'.pc, seen |-> futex'.seen,
                     hurt |-> futex'.hurt, missed |-> futex'.missed]
    BY <1>11 DEF FutexOk, OwnerDies
  <2>2. futex'.hurt = (futex.hurt \/ futex.pc[p] = "in")
    BY <1>11 DEF FutexOk, OwnerDies
  <2>3. \A x \in Procs : /\ futex'.pc[x] \in FutexPcs
                         /\ futex'.pc[x] \in {"in", "check", "mark", "steal"} =>
                              futex'.pc[x] = futex.pc[x]
                         /\ futex.pc[x] = "dead" => futex'.pc[x] = "dead"
    BY <2>1 DEF FutexOk, FutexPcs
  <2>4. futex' \in [word : FutexWords, pc : [Procs -> FutexPcs],
                    seen : [Procs -> FutexWords], hurt : BOOLEAN, missed : BOOLEAN]
    <3>1. futex'.pc \in [Procs -> FutexPcs]
      BY <2>1, <2>3 DEF FutexOk
    <3>2. futex'.hurt \in BOOLEAN
      BY <2>2
    <3> QED
      BY <2>1, <3>1, <3>2 DEF FutexOk
  <2>5. futex'.pc[p] = "dead"
    BY <2>1 DEF FutexOk
  <2>6. futex'.hurt => futex'.word.pid \in Procs /\ futex'.pc[futex'.word.pid] = "dead"
    <3>1. CASE futex.hurt
      BY <2>1, <2>3, <3>1 DEF FutexOk
    <3>2. CASE futex.pc[p] = "in"
      BY <2>1, <2>5, <3>2 DEF FutexOk
    <3> QED
      BY <2>2, <3>1, <3>2
  <2> QED
    BY <2>1, <2>3, <2>4, <2>6 DEF FutexOk
<1> QED
  BY <1>1, <1>2, <1>3, <1>4, <1>5, <1>6, <1>7, <1>8, <1>9, <1>10, <1>11

(* No file.                                                                   *)
LEMMA NoTypes == NoShm \in ShmType /\ NoLck \in LckType
<1>1. <<>> \in Seq(Nat)
  OBVIOUS
<1> QED
  BY <1>1 DEF NoShm, NoLck, ShmType, LckType

(* An open that refuses an old file removes it; it was the first to do so.    *)
LEMMA Refused ==
  ASSUME FilesOk, deleteFile, ~opener.new, opener.pc \in {"lockfile", "map"}
  PROVE  FilesOk'
<1> USE FileAssumption
<1>0. opener.fails = 0
  BY DEF FilesOk, FileTypes, FailsOk, OpenerType
<1>1. disk' \in [shm : ShmType, lck : LckType]
  BY <1>0 DEF FilesOk, FileTypes, deleteFile, ShmType, NoShm
<1>2. opener' \in OpenerType
  <2>1. opener' = [opener EXCEPT !.pc = "down", !.fails = 1]
    BY <1>0 DEF deleteFile
  <2> QED
    BY <2>1 DEF FilesOk, FileTypes, OpenerType
<1>3. ShmOk(disk'.shm)
  BY <1>0 DEF FilesOk, FileTypes, deleteFile, NoShm, ShmOk
<1>4. LocksOk(opener', disk')
  BY <1>0 DEF FilesOk, FileTypes, LocksOk, TakenOk, deleteFile, NoShm
<1>5. PhaseOk(opener', disk')
  BY <1>0 DEF FilesOk, FileTypes, deleteFile, PhaseOk, BeforeLocks, Creating, Opening
<1>6. FailsOk(opener', disk')
  BY <1>0 DEF FilesOk, FileTypes, FailsOk, deleteFile, NoShm
<1> QED
  BY <1>1, <1>2, <1>3, <1>4, <1>5, <1>6 DEF FilesOk, FileTypes

(* The first of the free locks is not free any more when it is taken.         *)
LEMMA FirstFree ==
  ASSUME NEW free \in Seq(Nat), NEW s, FreeOk(free, s), Len(free) > 0
  PROVE  /\ FreeOk(Tail(free), s)
         /\ free[1] \notin {0, s.lock, s.poolLock, s.reg}
         /\ \A i \in 1..Len(Tail(free)) : Tail(free)[i] # free[1]
<1>1. /\ Len(free) \in Nat /\ Len(Tail(free)) = Len(free) - 1
      /\ \A i \in 1..Len(Tail(free)) : Tail(free)[i] = free[i + 1]
  OBVIOUS
<1>2. \A i \in 1..Len(Tail(free)) : i \in Int /\ i + 1 \in 1..Len(free) /\ i + 1 # 1
  BY <1>1
<1>3. 1 \in 1..Len(free)
  BY <1>1
<1>4. \A i, j \in 1..Len(Tail(free)) : Tail(free)[i] = Tail(free)[j] => i = j
  <2> TAKE i, j \in 1..Len(Tail(free))
  <2> HAVE Tail(free)[i] = Tail(free)[j]
  <2>1. i + 1 = j + 1
    BY <1>1, <1>2 DEF FreeOk
  <2> QED
    BY <1>2, <2>1
<1>5. \A i \in 1..Len(Tail(free)) : Tail(free)[i] \notin {0, s.lock, s.poolLock, s.reg}
  BY <1>1, <1>2 DEF FreeOk
<1>6. free[1] \notin {0, s.lock, s.poolLock, s.reg}
  BY <1>3 DEF FreeOk
<1>7. \A i \in 1..Len(Tail(free)) : Tail(free)[i] # free[1]
  BY <1>1, <1>2, <1>3 DEF FreeOk
<1> QED
  BY <1>4, <1>5, <1>6, <1>7 DEF FreeOk

(* A lock is the first of the free ones and then in nobody else's hands; with *)
(* none the open has failed.                                                  *)
LEMMA Takes ==
  ASSUME FilesOk, NEW from, NEW to, TakeLock(from, to),
         disk.shm.size # 0, disk.lck.size # 0
  PROVE  \/ /\ Len(disk.lck.free) = 0 /\ disk' = disk
            /\ opener' = [opener EXCEPT !.pc = "down", !.lock = 0]
         \/ /\ Len(disk.lck.free) > 0
            /\ disk.lck.free[1] \in Nat \ {0}
            /\ disk' = [disk EXCEPT !.lck.free = Tail(disk.lck.free)]
            /\ opener' = [opener EXCEPT !.pc = to, !.lock = disk.lck.free[1]]
<1>1. disk.lck.free \in Seq(Nat)
  BY DEF FilesOk, FileTypes, LckType
<1>2. CASE disk.lck.free = <<>>
  BY <1>1, <1>2 DEF TakeLock, allocLock, FilesOk, FileTypes
<1>3. CASE disk.lck.free # <<>>
  <2>1. Len(disk.lck.free) > 0 /\ disk.lck.free[1] \in Nat
    BY <1>1, <1>3
  <2>2. disk.lck.free[1] # 0
    BY <2>1 DEF FilesOk, LocksOk, FreeOk
  <2> QED
    BY <1>1, <1>3, <2>1, <2>2 DEF TakeLock, allocLock, FilesOk, FileTypes
<1> QED
  BY <1>2, <1>3

(* The files: every step of an open, and what may happen in between.          *)
LEMMA FileStep ==
  ASSUME FilesOk, NextFile
  PROVE  FilesOk'
<1> USE FileAssumption DEF Step, Then
<1>1. CASE openLockShmFile
  <2>1. disk' \in [shm : ShmType, lck : LckType]
    BY <1>1 DEF FilesOk, FileTypes, openLockShmFile, ShmType, NoShm
  <2>2. opener' \in OpenerType
    <3>1. opener.fails + 1 \in Nat /\ opener.opens + 1 \in Nat /\ opener.ref + 1 \in Int
          /\ opener.ref - 1 \in Int /\ opener.id + 1 \in Nat
      BY DEF FilesOk, FileTypes, OpenerType
    <3> QED
      BY <1>1, <3>1 DEF FilesOk, FileTypes, openLockShmFile, OpenerType
  <2>3. ShmOk(disk'.shm)
    BY <1>1 DEF FilesOk, FileTypes, openLockShmFile, NoShm, ShmOk
  <2>4. LocksOk(opener', disk')
    BY <1>1 DEF FilesOk, FileTypes, LocksOk, TakenOk, openLockShmFile, NoShm
  <2>5. PhaseOk(opener', disk')
    BY <1>1
       DEF FilesOk, FileTypes, openLockShmFile, PhaseOk, BeforeLocks, Creating, Opening
  <2>6. FailsOk(opener', disk')
    BY <1>1 DEF FilesOk, FileTypes, FailsOk, openLockShmFile, NoShm
  <2> QED
    BY <2>1, <2>2, <2>3, <2>4, <2>5, <2>6 DEF FilesOk, FileTypes
<1>2. CASE statFile
  <2>1. disk' \in [shm : ShmType, lck : LckType]
    BY <1>2, NoTypes DEF FilesOk, FileTypes, statFile
  <2>2. opener' \in OpenerType
    <3>1. opener.id + 1 \in Nat
      BY DEF FilesOk, FileTypes, OpenerType
    <3>2. CASE disk.shm.size = 0
      <4>1. opener' = [opener EXCEPT !.pc = "lockfile", !.id = @ + 1, !.new = TRUE]
        BY <1>2, <3>2 DEF statFile
      <4> QED
        BY <3>1, <4>1 DEF FilesOk, FileTypes, OpenerType
    <3>3. CASE disk.shm.size # 0
      <4>1. opener' = [opener EXCEPT !.pc = "lockfile", !.new = FALSE]
        BY <1>2, <3>3 DEF statFile, FilesOk, FileTypes
      <4> QED
        BY <4>1 DEF FilesOk, FileTypes, OpenerType
    <3> QED
      BY <3>2, <3>3
  <2>3. ShmOk(disk'.shm)
    BY <1>2 DEF FilesOk, FileTypes, statFile
  <2>4. LocksOk(opener', disk')
    BY <1>2 DEF FilesOk, FileTypes, LocksOk, TakenOk, statFile
  <2>5. PhaseOk(opener', disk')
    BY <1>2
       DEF FilesOk, FileTypes, statFile, OpenerType, PhaseOk, BeforeLocks, Creating,
           Opening
  <2>6. FailsOk(opener', disk')
    BY <1>2 DEF FilesOk, FileTypes, FailsOk, statFile, OpenerType
  <2> QED
    BY <2>1, <2>2, <2>3, <2>4, <2>5, <2>6 DEF FilesOk, FileTypes
<1>3. CASE lockInit
  <2>1. CASE ~opener.new /\ deleteFile
    BY <1>3, <2>1, Refused DEF lockInit
  <2>2. CASE /\ opener.new /\ Then("lockmagic")
             /\ disk' = [disk EXCEPT !.lck = [there |-> TRUE, size |-> 1, magic |-> FALSE,
                                              id |-> 0, free |-> <<>>]]
    <3>1. disk' \in [shm : ShmType, lck : LckType]
      <4>1. <<>> \in Seq(Nat)
        OBVIOUS
      <4> QED
        BY <2>2, <4>1 DEF FilesOk, FileTypes, LckType
    <3>2. opener' \in OpenerType
      BY <1>3, <2>2 DEF FilesOk, FileTypes, lockInit, OpenerType, BeforeLocks
    <3>3. ShmOk(disk'.shm)
      BY <1>3, <2>2 DEF FilesOk, FileTypes, lockInit
    <3>4. LocksOk(opener', disk')
      BY <1>3, <2>2 DEF FilesOk, FileTypes, LocksOk, TakenOk, lockInit, PhaseOk
    <3>5. PhaseOk(opener', disk')
      BY <1>3, <2>2 DEF FilesOk, FileTypes, lockInit, PhaseOk, Creating, Opening
    <3>6. FailsOk(opener', disk')
      BY <1>3, <2>2 DEF FilesOk, FileTypes, FailsOk, lockInit
    <3> QED
      BY <3>1, <3>2, <3>3, <3>4, <3>5, <3>6 DEF FilesOk, FileTypes
  <2>3. CASE /\ opener.new /\ Then("down")
             /\ disk' = [disk EXCEPT !.lck = [there |-> TRUE, size |-> 0, magic |-> FALSE,
                                              id |-> 0, free |-> <<>>]]
    <3>1. disk' \in [shm : ShmType, lck : LckType]
      <4>1. <<>> \in Seq(Nat)
        OBVIOUS
      <4> QED
        BY <2>3, <4>1 DEF FilesOk, FileTypes, LckType
    <3>2. opener' \in OpenerType
      BY <1>3, <2>3 DEF FilesOk, FileTypes, lockInit, OpenerType
    <3>3. ShmOk(disk'.shm)
      BY <1>3, <2>3 DEF FilesOk, FileTypes, lockInit
    <3>4. LocksOk(opener', disk')
      BY <1>3, <2>3 DEF FilesOk, FileTypes, LocksOk, TakenOk, lockInit
    <3>5. PhaseOk(opener', disk')
      BY <1>3, <2>3
         DEF FilesOk, FileTypes, lockInit, PhaseOk, BeforeLocks, Creating, Opening
    <3>6. FailsOk(opener', disk')
      BY <1>3, <2>3 DEF FilesOk, FileTypes, FailsOk, lockInit, PhaseOk
    <3> QED
      BY <3>1, <3>2, <3>3, <3>4, <3>5, <3>6 DEF FilesOk, FileTypes
  <2>4. CASE ~opener.new /\ disk.lck.size # 0 /\ Then("map") /\ disk' = disk
    <3>1. disk' \in [shm : ShmType, lck : LckType]
      BY <1>3, <2>4 DEF FilesOk, FileTypes, lockInit
    <3>2. opener' \in OpenerType
      BY <1>3, <2>4 DEF FilesOk, FileTypes, lockInit, OpenerType
    <3>3. ShmOk(disk'.shm)
      BY <1>3, <2>4 DEF FilesOk, FileTypes, lockInit
    <3>4. LocksOk(opener', disk')
      BY <1>3, <2>4 DEF FilesOk, FileTypes, LocksOk, TakenOk, lockInit
    <3>5. PhaseOk(opener', disk')
      BY <1>3, <2>4
         DEF FilesOk, FileTypes, lockInit, PhaseOk, BeforeLocks, Creating, Opening
    <3>6. FailsOk(opener', disk')
      BY <1>3, <2>4 DEF FilesOk, FileTypes, FailsOk, lockInit
    <3> QED
      BY <3>1, <3>2, <3>3, <3>4, <3>5, <3>6 DEF FilesOk, FileTypes
  <2> QED
    <3>1. opener.pc = "lockfile" /\ (opener.new => disk.lck = NoLck)
      BY <1>3 DEF lockInit, FilesOk, PhaseOk
    <3>2. disk = [shm |-> disk.shm, lck |-> disk.lck]
      BY DEF FilesOk, FileTypes
    <3> QED
      BY <1>3, <2>1, <2>2, <2>3, <2>4, <3>1, <3>2 DEF lockInit, NoLck
<1>4. CASE lockMagic
  <2>1. disk' \in [shm : ShmType, lck : LckType]
    BY <1>4 DEF FilesOk, FileTypes, lockMagic, LckType
  <2>2. opener' \in OpenerType
    BY <1>4 DEF FilesOk, FileTypes, lockMagic, OpenerType, BeforeLocks
  <2>3. ShmOk(disk'.shm)
    BY <1>4 DEF FilesOk, FileTypes, lockMagic
  <2>4. LocksOk(opener', disk')
    BY <1>4 DEF FilesOk, FileTypes, LocksOk, TakenOk, lockMagic, PhaseOk, BeforeLocks
  <2>5. PhaseOk(opener', disk')
    BY <1>4
       DEF FilesOk, FileTypes, lockMagic, LckType, PhaseOk, BeforeLocks, Creating,
           Opening
  <2>6. FailsOk(opener', disk')
    BY <1>4 DEF FilesOk, FileTypes, FailsOk, lockMagic
  <2> QED
    BY <2>1, <2>2, <2>3, <2>4, <2>5, <2>6 DEF FilesOk, FileTypes
<1>5. CASE lockId
  <2>1. disk' \in [shm : ShmType, lck : LckType]
    BY <1>5 DEF FilesOk, FileTypes, lockId, LckType, OpenerType
  <2>2. opener' \in OpenerType
    BY <1>5 DEF FilesOk, FileTypes, lockId, OpenerType, BeforeLocks
  <2>3. ShmOk(disk'.shm)
    BY <1>5 DEF FilesOk, FileTypes, lockId
  <2>4. LocksOk(opener', disk')
    BY <1>5 DEF FilesOk, FileTypes, LocksOk, TakenOk, lockId, PhaseOk, BeforeLocks
  <2>5. PhaseOk(opener', disk')
    BY <1>5
       DEF FilesOk, FileTypes, lockId, LckType, PhaseOk, BeforeLocks, Creating, Opening
  <2>6. FailsOk(opener', disk')
    BY <1>5 DEF FilesOk, FileTypes, FailsOk, lockId
  <2> QED
    BY <2>1, <2>2, <2>3, <2>4, <2>5, <2>6 DEF FilesOk, FileTypes
<1>6. CASE setupFreeList
  <2>1. disk' \in [shm : ShmType, lck : LckType]
    <3>1. [i \in 1..(NumLocks - 1) |-> i] \in Seq(Nat)
      OBVIOUS
    <3> QED
      BY <1>6, <3>1 DEF FilesOk, FileTypes, setupFreeList, LckType
  <2>2. opener' \in OpenerType
    BY <1>6 DEF FilesOk, FileTypes, setupFreeList, OpenerType
  <2>3. ShmOk(disk'.shm)
    BY <1>6 DEF FilesOk, FileTypes, setupFreeList
  <2>4. LocksOk(opener', disk')
    BY <1>6
       DEF FilesOk, FileTypes, LocksOk, TakenOk, setupFreeList, PhaseOk, BeforeLocks
  <2>5. PhaseOk(opener', disk')
    BY <1>6
       DEF FilesOk, FileTypes, setupFreeList, LckType, OpenerType, PhaseOk, Creating,
           Opening
  <2>6. FailsOk(opener', disk')
    BY <1>6 DEF FilesOk, FileTypes, FailsOk, setupFreeList
  <2> QED
    BY <2>1, <2>2, <2>3, <2>4, <2>5, <2>6 DEF FilesOk, FileTypes
<1>7. CASE expandFile
  <2>1. CASE disk' = [disk EXCEPT !.shm.size = 1] /\ Then("shmid")
    <3>1. disk' \in [shm : ShmType, lck : LckType]
      BY <1>7, <2>1 DEF FilesOk, FileTypes, expandFile, ShmType
    <3>2. opener' \in OpenerType
      BY <1>7, <2>1 DEF FilesOk, FileTypes, expandFile, OpenerType, Creating
    <3>3. ShmOk(disk'.shm)
      BY <1>7, <2>1 DEF FilesOk, FileTypes, expandFile, ShmType, ShmOk
    <3>4. LocksOk(opener', disk')
      <4>1. /\ disk.shm.lock = 0 /\ disk.shm.poolLock = 0 /\ disk.shm.reg = 0
            /\ disk.lck.free = [i \in 1..(NumLocks - 1) |-> i]
        BY <1>7 DEF expandFile, FilesOk, ShmOk, PhaseOk
      <4>2. /\ disk'.shm.lock = 0 /\ disk'.shm.poolLock = 0 /\ disk'.shm.reg = 0
            /\ disk'.lck.free = [i \in 1..(NumLocks - 1) |-> i] /\ opener'.pc = "shmid"
        BY <2>1, <4>1 DEF FilesOk, FileTypes, ShmType
      <4>3. Len(disk'.lck.free) = NumLocks - 1
        BY <4>2
      <4> QED
        BY <4>2, <4>3 DEF LocksOk, TakenOk, FreeOk, UsedOk
    <3>5. PhaseOk(opener', disk')
      BY <1>7, <2>1
         DEF FilesOk, FileTypes, expandFile, ShmType, PhaseOk, BeforeLocks, Opening
    <3>6. FailsOk(opener', disk')
      BY <1>7, <2>1 DEF FilesOk, FileTypes, FailsOk, expandFile, PhaseOk
    <3> QED
      BY <3>1, <3>2, <3>3, <3>4, <3>5, <3>6 DEF FilesOk, FileTypes
  <2>2. CASE disk' = disk /\ opener' = [opener EXCEPT !.pc = "down"]
    <3>1. disk' \in [shm : ShmType, lck : LckType]
      BY <1>7, <2>2 DEF FilesOk, FileTypes, expandFile
    <3>2. opener' \in OpenerType
      BY <1>7, <2>2 DEF FilesOk, FileTypes, expandFile, OpenerType
    <3>3. ShmOk(disk'.shm)
      BY <1>7, <2>2 DEF FilesOk, FileTypes, expandFile
    <3>4. LocksOk(opener', disk')
      BY <1>7, <2>2 DEF FilesOk, FileTypes, LocksOk, TakenOk, expandFile
    <3>5. PhaseOk(opener', disk')
      BY <1>7, <2>2 DEF FilesOk, FileTypes, expandFile, PhaseOk, Creating, Opening
    <3>6. FailsOk(opener', disk')
      BY <1>7, <2>2 DEF FilesOk, FileTypes, FailsOk, expandFile, PhaseOk
    <3> QED
      BY <3>1, <3>2, <3>3, <3>4, <3>5, <3>6 DEF FilesOk, FileTypes
  <2> QED
    BY <1>7, <2>1, <2>2 DEF expandFile
<1>8. CASE newShmId
  <2>1. disk' \in [shm : ShmType, lck : LckType]
    BY <1>8 DEF FilesOk, FileTypes, newShmId, ShmType, OpenerType
  <2>2. opener' \in OpenerType
    BY <1>8 DEF FilesOk, FileTypes, newShmId, OpenerType, Creating
  <2>3. ShmOk(disk'.shm)
    BY <1>8 DEF FilesOk, FileTypes, newShmId, ShmType, ShmOk
  <2>4. LocksOk(opener', disk')
    BY <1>8, SMTT(30) DEF FilesOk, FileTypes, LocksOk, TakenOk, newShmId, ShmType, FreeOk, UsedOk
  <2>5. PhaseOk(opener', disk')
    BY <1>8
       DEF FilesOk, FileTypes, newShmId, ShmType, PhaseOk, BeforeLocks, Creating,
           Opening
  <2>6. FailsOk(opener', disk')
    BY <1>8 DEF FilesOk, FileTypes, FailsOk, newShmId
  <2> QED
    BY <2>1, <2>2, <2>3, <2>4, <2>5, <2>6 DEF FilesOk, FileTypes
<1>9. CASE newShmTake
  <2>1. /\ opener.pc = "shmlock" /\ disk.shm.size # 0 /\ disk.lck.size # 0
        /\ TakeLock("shmlock", "shmlockset")
    BY <1>9 DEF FilesOk, TakeLock, newShmTake, PhaseOk, Creating
  <2>2. CASE /\ Len(disk.lck.free) = 0 /\ disk' = disk
             /\ opener' = [opener EXCEPT !.pc = "down", !.lock = 0]
    <3>1. disk' \in [shm : ShmType, lck : LckType]
      BY <2>1, <2>2 DEF FilesOk, FileTypes
    <3>2. opener' \in OpenerType
      BY <2>1, <2>2 DEF FilesOk, FileTypes, OpenerType
    <3>3. ShmOk(disk'.shm)
      BY <2>1, <2>2 DEF FilesOk, FileTypes
    <3>4. LocksOk(opener', disk')
      BY <2>1, <2>2 DEF FilesOk, FileTypes, LocksOk, TakenOk
    <3>5. PhaseOk(opener', disk')
      BY <2>1, <2>2 DEF FilesOk, FileTypes, PhaseOk, BeforeLocks, Creating, Opening
    <3>6. FailsOk(opener', disk')
      BY <2>1, <2>2 DEF FilesOk, FileTypes, FailsOk
    <3> QED
      BY <3>1, <3>2, <3>3, <3>4, <3>5, <3>6 DEF FilesOk, FileTypes
  <2>3. CASE /\ Len(disk.lck.free) > 0
             /\ disk.lck.free[1] \in Nat \ {0}
             /\ disk' = [disk EXCEPT !.lck.free = Tail(disk.lck.free)]
             /\ opener' = [opener EXCEPT !.pc = "shmlockset", !.lock = disk.lck.free[1]]
    <3>0. /\ disk.lck.free \in Seq(Nat) /\ Tail(disk.lck.free) \in Seq(Nat)
          /\ Len(Tail(disk.lck.free)) = Len(disk.lck.free) - 1
          /\ \A i \in 1..Len(Tail(disk.lck.free)) : Tail(disk.lck.free)[i] = disk.lck.free[i + 1]
      BY <2>3 DEF FilesOk, FileTypes, LckType
    <3>1. disk' \in [shm : ShmType, lck : LckType]
      BY <2>1, <2>3, <3>0 DEF FilesOk, FileTypes, LckType
    <3>2. opener' \in OpenerType
      BY <2>1, <2>3, <3>0 DEF FilesOk, FileTypes, OpenerType, Creating
    <3>3. ShmOk(disk'.shm)
      BY <2>1, <2>3, <3>0 DEF FilesOk, FileTypes
    <3>4. LocksOk(opener', disk')
      <4> DEFINE free == disk.lck.free
                 rest == Tail(disk.lck.free)
      <4>1. /\ disk'.shm = disk.shm /\ disk'.lck.free = rest
            /\ opener'.lock = free[1] /\ opener'.pc = "shmlockset"
        BY <2>3 DEF FilesOk, FileTypes, LckType, OpenerType
      <4>2. FreeOk(free, disk.shm) /\ UsedOk(disk.shm)
        BY <2>1 DEF FilesOk, LocksOk
      <4>3. /\ FreeOk(rest, disk.shm)
            /\ free[1] \notin {0, disk.shm.lock, disk.shm.poolLock, disk.shm.reg}
            /\ \A i \in 1..Len(rest) : rest[i] # free[1]
        BY <2>3, <3>0, <4>2, FirstFree
      <4>4. TakenOk(opener', rest, disk.shm)
        BY <4>1, <4>3 DEF TakenOk
      <4> QED
        BY <4>1, <4>2, <4>3, <4>4 DEF LocksOk
    <3>5. PhaseOk(opener', disk')
      BY <2>1, <2>3, <3>0
         DEF FilesOk, FileTypes, LckType, PhaseOk, BeforeLocks, Creating, Opening
    <3>6. FailsOk(opener', disk')
      BY <2>1, <2>3, <3>0 DEF FilesOk, FileTypes, FailsOk, NoShm, NoLck, LckType
    <3> QED
      BY <3>1, <3>2, <3>3, <3>4, <3>5, <3>6 DEF FilesOk, FileTypes
  <2> QED
    BY <2>1, <2>2, <2>3, Takes
<1>10. CASE newShmLock
  <2>0. opener.lock \in Nat \ {0}
    BY <1>10
       DEF FilesOk, FileTypes, LocksOk, TakenOk, newShmLock, OpenerType, PhaseOk,
           Creating
  <2>1. disk' \in [shm : ShmType, lck : LckType]
    BY <1>10, <2>0 DEF FilesOk, FileTypes, newShmLock, ShmType
  <2>2. opener' \in OpenerType
    BY <1>10, <2>0 DEF FilesOk, FileTypes, newShmLock, OpenerType, Creating
  <2>3. ShmOk(disk'.shm)
    <3>1. disk.shm.size # 0 /\ ShmOk(disk.shm)
      BY <1>10 DEF FilesOk, newShmLock, PhaseOk, Creating
    <3>2. /\ disk'.shm.size = disk.shm.size /\ disk'.shm.magic = disk.shm.magic
          /\ disk'.shm.lock = opener.lock
      BY <1>10 DEF FilesOk, FileTypes, newShmLock, ShmType
    <3> QED
      BY <2>0, <3>1, <3>2 DEF ShmOk
  <2>4. LocksOk(opener', disk')
    BY <1>10, <2>0
       DEF FilesOk, FileTypes, LocksOk, TakenOk, newShmLock, ShmType, OpenerType,
           FreeOk, UsedOk
  <2>5. PhaseOk(opener', disk')
    BY <1>10, <2>0
       DEF FilesOk, FileTypes, newShmLock, ShmType, PhaseOk, BeforeLocks, Creating
  <2>6. FailsOk(opener', disk')
    BY <1>10, <2>0 DEF FilesOk, FileTypes, FailsOk, newShmLock
  <2> QED
    BY <2>1, <2>2, <2>3, <2>4, <2>5, <2>6 DEF FilesOk, FileTypes
<1>11. CASE newShmMagic
  <2>1. disk' \in [shm : ShmType, lck : LckType]
    BY <1>11 DEF FilesOk, FileTypes, newShmMagic, ShmType
  <2>2. opener' \in OpenerType
    BY <1>11 DEF FilesOk, FileTypes, newShmMagic, OpenerType, Opening
  <2>3. ShmOk(disk'.shm)
    BY <1>11 DEF FilesOk, FileTypes, newShmMagic, ShmType, ShmOk, PhaseOk
  <2>4. LocksOk(opener', disk')
    BY <1>11
       DEF FilesOk, FileTypes, LocksOk, TakenOk, newShmMagic, ShmType, FreeOk, UsedOk
  <2>5. PhaseOk(opener', disk')
    BY <1>11
       DEF FilesOk, FileTypes, newShmMagic, ShmType, PhaseOk, BeforeLocks, Creating
  <2>6. FailsOk(opener', disk')
    BY <1>11 DEF FilesOk, FileTypes, FailsOk, newShmMagic
  <2> QED
    BY <2>1, <2>2, <2>3, <2>4, <2>5, <2>6 DEF FilesOk, FileTypes
<1>12. CASE oldShm
  <2>1. CASE deleteFile
    BY <1>12, <2>1, Refused DEF oldShm
  <2>2. CASE disk.shm.magic /\ disk.shm.id = disk.lck.id /\ disk' = disk /\ Then("pool")
    <3>1. disk' \in [shm : ShmType, lck : LckType]
      BY <1>12, <2>2 DEF FilesOk, FileTypes, oldShm
    <3>2. opener' \in OpenerType
      BY <1>12, <2>2 DEF FilesOk, FileTypes, oldShm, OpenerType, Opening
    <3>3. ShmOk(disk'.shm)
      BY <1>12, <2>2 DEF FilesOk, FileTypes, oldShm
    <3>4. LocksOk(opener', disk')
      BY <1>12, <2>2 DEF FilesOk, FileTypes, LocksOk, TakenOk, oldShm
    <3>5. PhaseOk(opener', disk')
      BY <1>12, <2>2
         DEF FilesOk, FileTypes, oldShm, ShmOk, PhaseOk, BeforeLocks, Creating
    <3>6. FailsOk(opener', disk')
      BY <1>12, <2>2 DEF FilesOk, FileTypes, FailsOk, oldShm
    <3> QED
      BY <3>1, <3>2, <3>3, <3>4, <3>5, <3>6 DEF FilesOk, FileTypes
  <2> QED
    BY <1>12, <2>1, <2>2 DEF oldShm
<1>13. CASE createStaticData
  <2>1. disk' \in [shm : ShmType, lck : LckType]
    BY <1>13 DEF FilesOk, FileTypes, createStaticData, ShmType
  <2>2. opener' \in OpenerType
    BY <1>13 DEF FilesOk, FileTypes, createStaticData, OpenerType, Opening
  <2>3. ShmOk(disk'.shm)
    BY <1>13 DEF FilesOk, FileTypes, createStaticData, ShmType, ShmOk
  <2>4. LocksOk(opener', disk')
    BY <1>13
       DEF FilesOk, FileTypes, LocksOk, TakenOk, createStaticData, ShmType, FreeOk,
           UsedOk
  <2>5. PhaseOk(opener', disk')
    BY <1>13
       DEF FilesOk, FileTypes, createStaticData, ShmType, PhaseOk, BeforeLocks,
           Creating, Opening
  <2>6. FailsOk(opener', disk')
    BY <1>13 DEF FilesOk, FileTypes, FailsOk, createStaticData
  <2> QED
    BY <2>1, <2>2, <2>3, <2>4, <2>5, <2>6 DEF FilesOk, FileTypes
<1>14. CASE mapLockTake
  <2>1. /\ opener.pc = "poollock" /\ disk.shm.size # 0 /\ disk.lck.size # 0
        /\ TakeLock("poollock", "poollockset")
    BY <1>14 DEF FilesOk, TakeLock, mapLockTake, PhaseOk, Opening
  <2>2. CASE /\ Len(disk.lck.free) = 0 /\ disk' = disk
             /\ opener' = [opener EXCEPT !.pc = "down", !.lock = 0]
    <3>1. disk' \in [shm : ShmType, lck : LckType]
      BY <2>1, <2>2 DEF FilesOk, FileTypes
    <3>2. opener' \in OpenerType
      BY <2>1, <2>2 DEF FilesOk, FileTypes, OpenerType
    <3>3. ShmOk(disk'.shm)
      BY <2>1, <2>2 DEF FilesOk, FileTypes
    <3>4. LocksOk(opener', disk')
      BY <2>1, <2>2 DEF FilesOk, FileTypes, LocksOk, TakenOk
    <3>5. PhaseOk(opener', disk')
      BY <2>1, <2>2 DEF FilesOk, FileTypes, PhaseOk, BeforeLocks, Creating, Opening
    <3>6. FailsOk(opener', disk')
      BY <2>1, <2>2 DEF FilesOk, FileTypes, FailsOk
    <3> QED
      BY <3>1, <3>2, <3>3, <3>4, <3>5, <3>6 DEF FilesOk, FileTypes
  <2>3. CASE /\ Len(disk.lck.free) > 0
             /\ disk.lck.free[1] \in Nat \ {0}
             /\ disk' = [disk EXCEPT !.lck.free = Tail(disk.lck.free)]
             /\ opener' = [opener EXCEPT !.pc = "poollockset", !.lock = disk.lck.free[1]]
    <3>0. /\ disk.lck.free \in Seq(Nat) /\ Tail(disk.lck.free) \in Seq(Nat)
          /\ Len(Tail(disk.lck.free)) = Len(disk.lck.free) - 1
          /\ \A i \in 1..Len(Tail(disk.lck.free)) : Tail(disk.lck.free)[i] = disk.lck.free[i + 1]
      BY <2>3 DEF FilesOk, FileTypes, LckType
    <3>1. disk' \in [shm : ShmType, lck : LckType]
      BY <2>1, <2>3, <3>0 DEF FilesOk, FileTypes, LckType
    <3>2. opener' \in OpenerType
      BY <2>1, <2>3, <3>0 DEF FilesOk, FileTypes, OpenerType, Opening
    <3>3. ShmOk(disk'.shm)
      BY <2>1, <2>3, <3>0 DEF FilesOk, FileTypes
    <3>4. LocksOk(opener', disk')
      <4> DEFINE free == disk.lck.free
                 rest == Tail(disk.lck.free)
      <4>1. /\ disk'.shm = disk.shm /\ disk'.lck.free = rest
            /\ opener'.lock = free[1] /\ opener'.pc = "poollockset"
        BY <2>3 DEF FilesOk, FileTypes, LckType, OpenerType
      <4>2. FreeOk(free, disk.shm) /\ UsedOk(disk.shm)
        BY <2>1 DEF FilesOk, LocksOk
      <4>3. /\ FreeOk(rest, disk.shm)
            /\ free[1] \notin {0, disk.shm.lock, disk.shm.poolLock, disk.shm.reg}
            /\ \A i \in 1..Len(rest) : rest[i] # free[1]
        BY <2>3, <3>0, <4>2, FirstFree
      <4>4. TakenOk(opener', rest, disk.shm)
        BY <4>1, <4>3 DEF TakenOk
      <4> QED
        BY <4>1, <4>2, <4>3, <4>4 DEF LocksOk
    <3>5. PhaseOk(opener', disk')
      BY <2>1, <2>3, <3>0
         DEF FilesOk, FileTypes, LckType, PhaseOk, BeforeLocks, Creating, Opening
    <3>6. FailsOk(opener', disk')
      BY <2>1, <2>3, <3>0 DEF FilesOk, FileTypes, FailsOk, LckType
    <3> QED
      BY <3>1, <3>2, <3>3, <3>4, <3>5, <3>6 DEF FilesOk, FileTypes
  <2> QED
    BY <2>1, <2>2, <2>3, Takes
<1>15. CASE mapLock
  <2>0. opener.lock \in Nat \ {0}
    BY <1>15
       DEF FilesOk, FileTypes, LocksOk, TakenOk, mapLock, OpenerType, PhaseOk, Opening
  <2>1. disk' \in [shm : ShmType, lck : LckType]
    BY <1>15, <2>0 DEF FilesOk, FileTypes, mapLock, ShmType
  <2>2. opener' \in OpenerType
    BY <1>15, <2>0 DEF FilesOk, FileTypes, mapLock, OpenerType, Opening
  <2>3. ShmOk(disk'.shm)
    <3>1. disk.shm.size # 0 /\ ShmOk(disk.shm)
      BY <1>15 DEF FilesOk, mapLock, PhaseOk, Opening
    <3>2. /\ disk'.shm.size = disk.shm.size /\ disk'.shm.magic = disk.shm.magic
          /\ disk'.shm.lock = disk.shm.lock
      BY <1>15 DEF FilesOk, FileTypes, mapLock, ShmType
    <3> QED
      BY <2>0, <3>1, <3>2 DEF ShmOk
  <2>4. LocksOk(opener', disk')
    BY <1>15, <2>0
       DEF FilesOk, FileTypes, LocksOk, TakenOk, mapLock, NoShm, NoLck, ShmType, FreeOk,
           UsedOk
  <2>5. PhaseOk(opener', disk')
    BY <1>15, <2>0
       DEF FilesOk, FileTypes, mapLock, ShmType, PhaseOk, BeforeLocks, Creating, Opening
  <2>6. FailsOk(opener', disk')
    BY <1>15, <2>0 DEF FilesOk, FileTypes, FailsOk, mapLock
  <2> QED
    BY <2>1, <2>2, <2>3, <2>4, <2>5, <2>6 DEF FilesOk, FileTypes
<1>16. CASE mapLockHas
  <2>1. disk' \in [shm : ShmType, lck : LckType]
    BY <1>16 DEF FilesOk, FileTypes, mapLockHas
  <2>2. opener' \in OpenerType
    BY <1>16 DEF FilesOk, FileTypes, mapLockHas, OpenerType, Opening
  <2>3. ShmOk(disk'.shm)
    BY <1>16 DEF FilesOk, FileTypes, mapLockHas
  <2>4. LocksOk(opener', disk')
    BY <1>16 DEF FilesOk, FileTypes, LocksOk, TakenOk, mapLockHas
  <2>5. PhaseOk(opener', disk')
    BY <1>16 DEF FilesOk, FileTypes, mapLockHas, PhaseOk, BeforeLocks, Creating, Opening
  <2>6. FailsOk(opener', disk')
    BY <1>16 DEF FilesOk, FileTypes, FailsOk, mapLockHas
  <2> QED
    BY <2>1, <2>2, <2>3, <2>4, <2>5, <2>6 DEF FilesOk, FileTypes
<1>17. CASE newHashTake
  <2>1. /\ opener.pc = "hash" /\ disk.shm.size # 0 /\ disk.lck.size # 0
        /\ TakeLock("hash", "hashset")
    BY <1>17 DEF FilesOk, TakeLock, newHashTake, PhaseOk, Opening
  <2>2. CASE /\ Len(disk.lck.free) = 0 /\ disk' = disk
             /\ opener' = [opener EXCEPT !.pc = "down", !.lock = 0]
    <3>1. disk' \in [shm : ShmType, lck : LckType]
      BY <2>1, <2>2 DEF FilesOk, FileTypes
    <3>2. opener' \in OpenerType
      BY <2>1, <2>2 DEF FilesOk, FileTypes, OpenerType
    <3>3. ShmOk(disk'.shm)
      BY <2>1, <2>2 DEF FilesOk, FileTypes
    <3>4. LocksOk(opener', disk')
      BY <2>1, <2>2 DEF FilesOk, FileTypes, LocksOk, TakenOk
    <3>5. PhaseOk(opener', disk')
      BY <2>1, <2>2 DEF FilesOk, FileTypes, PhaseOk, BeforeLocks, Creating, Opening
    <3>6. FailsOk(opener', disk')
      BY <2>1, <2>2 DEF FilesOk, FileTypes, FailsOk
    <3> QED
      BY <3>1, <3>2, <3>3, <3>4, <3>5, <3>6 DEF FilesOk, FileTypes
  <2>3. CASE /\ Len(disk.lck.free) > 0
             /\ disk.lck.free[1] \in Nat \ {0}
             /\ disk' = [disk EXCEPT !.lck.free = Tail(disk.lck.free)]
             /\ opener' = [opener EXCEPT !.pc = "hashset", !.lock = disk.lck.free[1]]
    <3>0. /\ disk.lck.free \in Seq(Nat) /\ Tail(disk.lck.free) \in Seq(Nat)
          /\ Len(Tail(disk.lck.free)) = Len(disk.lck.free) - 1
          /\ \A i \in 1..Len(Tail(disk.lck.free)) : Tail(disk.lck.free)[i] = disk.lck.free[i + 1]
      BY <2>3 DEF FilesOk, FileTypes, LckType
    <3>1. disk' \in [shm : ShmType, lck : LckType]
      BY <2>1, <2>3, <3>0 DEF FilesOk, FileTypes, LckType
    <3>2. opener' \in OpenerType
      BY <2>1, <2>3, <3>0 DEF FilesOk, FileTypes, OpenerType, Opening
    <3>3. ShmOk(disk'.shm)
      BY <2>1, <2>3, <3>0 DEF FilesOk, FileTypes
    <3>4. LocksOk(opener', disk')
      <4> DEFINE free == disk.lck.free
                 rest == Tail(disk.lck.free)
      <4>1. /\ disk'.shm = disk.shm /\ disk'.lck.free = rest
            /\ opener'.lock = free[1] /\ opener'.pc = "hashset"
        BY <2>3 DEF FilesOk, FileTypes, LckType, OpenerType
      <4>2. FreeOk(free, disk.shm) /\ UsedOk(disk.shm)
        BY <2>1 DEF FilesOk, LocksOk
      <4>3. /\ FreeOk(rest, disk.shm)
            /\ free[1] \notin {0, disk.shm.lock, disk.shm.poolLock, disk.shm.reg}
            /\ \A i \in 1..Len(rest) : rest[i] # free[1]
        BY <2>3, <3>0, <4>2, FirstFree
      <4>4. TakenOk(opener', rest, disk.shm)
        BY <4>1, <4>3 DEF TakenOk
      <4> QED
        BY <4>1, <4>2, <4>3, <4>4 DEF LocksOk
    <3>5. PhaseOk(opener', disk')
      BY <2>1, <2>3, <3>0
         DEF FilesOk, FileTypes, LckType, PhaseOk, BeforeLocks, Creating, Opening
    <3>6. FailsOk(opener', disk')
      BY <2>1, <2>3, <3>0 DEF FilesOk, FileTypes, FailsOk
    <3> QED
      BY <3>1, <3>2, <3>3, <3>4, <3>5, <3>6 DEF FilesOk, FileTypes
  <2> QED
    BY <2>1, <2>2, <2>3, Takes
<1>18. CASE newHash
  <2>0. opener.lock \in Nat \ {0}
    BY <1>18
       DEF FilesOk, FileTypes, LocksOk, TakenOk, newHash, OpenerType, PhaseOk, Opening
  <2>1. disk' \in [shm : ShmType, lck : LckType]
    BY <1>18, <2>0 DEF FilesOk, FileTypes, newHash, Up, ShmType
  <2>2. opener' \in OpenerType
    <3>1. opener' = [opener EXCEPT !.pc = "up", !.fails = 0, !.ref = 1]
      BY <1>18 DEF newHash, Up
    <3>2. /\ opener'.pc = "up" /\ opener'.fails = 0 /\ opener'.ref = 1
          /\ opener'.id = opener.id /\ opener'.new = opener.new
          /\ opener'.lock = opener.lock /\ opener'.opens = opener.opens
          /\ opener' = [pc |-> opener'.pc, id |-> opener'.id, new |-> opener'.new,
                         lock |-> opener'.lock, fails |-> opener'.fails,
                         opens |-> opener'.opens, ref |-> opener'.ref]
      BY <3>1 DEF FilesOk, FileTypes, OpenerType
    <3>3. opener'.fails \in Nat /\ opener'.ref \in Int
      BY <3>2 DEF FilesOk, FileTypes
    <3> QED
      BY <3>2, <3>3 DEF FilesOk, FileTypes, OpenerType, Opening
  <2>3. ShmOk(disk'.shm)
    BY <1>18, <2>0 DEF FilesOk, FileTypes, newHash, Up, ShmType, ShmOk, PhaseOk
  <2>4. LocksOk(opener', disk')
    BY <1>18, <2>0
       DEF FilesOk, FileTypes, LocksOk, TakenOk, newHash, Up, ShmType, ShmOk, FreeOk,
           UsedOk
  <2>5. PhaseOk(opener', disk')
    BY <1>18, <2>0
       DEF FilesOk, FileTypes, newHash, Up, ShmType, PhaseOk, BeforeLocks, Creating,
           Opening
  <2>6. FailsOk(opener', disk')
    BY <1>18, <2>0 DEF FilesOk, FileTypes, FailsOk, newHash, Up
  <2> QED
    BY <2>1, <2>2, <2>3, <2>4, <2>5, <2>6 DEF FilesOk, FileTypes
<1>19. CASE getNamedHash
  <2>1. disk' \in [shm : ShmType, lck : LckType]
    BY <1>19 DEF FilesOk, FileTypes, getNamedHash, Up
  <2>2. opener' \in OpenerType
    <3>1. opener' = [opener EXCEPT !.pc = "up", !.fails = 0, !.ref = 1]
      BY <1>19 DEF getNamedHash, Up
    <3>2. /\ opener'.pc = "up" /\ opener'.fails = 0 /\ opener'.ref = 1
          /\ opener'.id = opener.id /\ opener'.new = opener.new
          /\ opener'.lock = opener.lock /\ opener'.opens = opener.opens
          /\ opener' = [pc |-> opener'.pc, id |-> opener'.id, new |-> opener'.new,
                         lock |-> opener'.lock, fails |-> opener'.fails,
                         opens |-> opener'.opens, ref |-> opener'.ref]
      BY <3>1 DEF FilesOk, FileTypes, OpenerType
    <3>3. opener'.fails \in Nat /\ opener'.ref \in Int
      BY <3>2 DEF FilesOk, FileTypes
    <3> QED
      BY <3>2, <3>3 DEF FilesOk, FileTypes, OpenerType, Opening
  <2>3. ShmOk(disk'.shm)
    BY <1>19 DEF FilesOk, FileTypes, getNamedHash, Up
  <2>4. LocksOk(opener', disk')
    BY <1>19 DEF FilesOk, FileTypes, LocksOk, TakenOk, getNamedHash, Up
  <2>5. PhaseOk(opener', disk')
    BY <1>19
       DEF FilesOk, FileTypes, getNamedHash, Up, PhaseOk, BeforeLocks, Creating, Opening
  <2>6. FailsOk(opener', disk')
    BY <1>19 DEF FilesOk, FileTypes, FailsOk, getNamedHash, Up
  <2> QED
    BY <2>1, <2>2, <2>3, <2>4, <2>5, <2>6 DEF FilesOk, FileTypes
<1>20. CASE getExisting
  <2>1. disk' \in [shm : ShmType, lck : LckType]
    BY <1>20 DEF FilesOk, FileTypes, getExisting
  <2>2. opener' \in OpenerType
    <3>1. opener.fails + 1 \in Nat /\ opener.opens + 1 \in Nat /\ opener.ref + 1 \in Int
          /\ opener.ref - 1 \in Int /\ opener.id + 1 \in Nat
      BY DEF FilesOk, FileTypes, OpenerType
    <3> QED
      BY <1>20, <3>1 DEF FilesOk, FileTypes, getExisting, OpenerType
  <2>3. ShmOk(disk'.shm)
    BY <1>20 DEF FilesOk, FileTypes, getExisting
  <2>4. LocksOk(opener', disk')
    BY <1>20 DEF FilesOk, FileTypes, LocksOk, TakenOk, getExisting
  <2>5. PhaseOk(opener', disk')
    BY <1>20 DEF FilesOk, FileTypes, getExisting, PhaseOk
  <2>6. FailsOk(opener', disk')
    BY <1>20 DEF FilesOk, FileTypes, FailsOk, getExisting
  <2> QED
    BY <2>1, <2>2, <2>3, <2>4, <2>5, <2>6 DEF FilesOk, FileTypes
<1>21. CASE closeShm
  <2>1. disk' \in [shm : ShmType, lck : LckType]
    BY <1>21 DEF FilesOk, FileTypes, closeShm
  <2>2. opener' \in OpenerType
    <3>1. opener.ref - 1 \in Int
      BY DEF FilesOk, FileTypes, OpenerType
    <3>2. CASE opener.ref = 1
      BY <1>21, <3>1, <3>2 DEF FilesOk, FileTypes, closeShm, OpenerType
    <3>3. CASE opener.ref # 1
      BY <1>21, <3>1, <3>3 DEF FilesOk, FileTypes, closeShm, OpenerType
    <3> QED
      BY <3>2, <3>3
  <2>3. ShmOk(disk'.shm)
    BY <1>21 DEF FilesOk, FileTypes, closeShm
  <2>4. LocksOk(opener', disk')
    BY <1>21 DEF FilesOk, FileTypes, LocksOk, TakenOk, closeShm
  <2>5. PhaseOk(opener', disk')
    BY <1>21 DEF FilesOk, FileTypes, closeShm, PhaseOk, BeforeLocks, Creating, Opening
  <2>6. FailsOk(opener', disk')
    BY <1>21 DEF FilesOk, FileTypes, FailsOk, closeShm
  <2> QED
    BY <2>1, <2>2, <2>3, <2>4, <2>5, <2>6 DEF FilesOk, FileTypes
<1>22. CASE Die
  <2>1. disk' \in [shm : ShmType, lck : LckType]
    BY <1>22 DEF FilesOk, FileTypes, Die
  <2>2. opener' \in OpenerType
    <3>1. opener' = [opener EXCEPT !.pc = "down", !.fails = 0, !.ref = 0]
      BY <1>22 DEF Die
    <3>2. /\ opener'.pc = "down" /\ opener'.fails = 0 /\ opener'.ref = 0
          /\ opener'.id = opener.id /\ opener'.new = opener.new
          /\ opener'.lock = opener.lock /\ opener'.opens = opener.opens
          /\ opener' = [pc |-> opener'.pc, id |-> opener'.id, new |-> opener'.new,
                         lock |-> opener'.lock, fails |-> opener'.fails,
                         opens |-> opener'.opens, ref |-> opener'.ref]
      BY <3>1 DEF FilesOk, FileTypes, OpenerType
    <3>3. opener'.fails \in Nat /\ opener'.ref \in Int
      BY <3>2 DEF FilesOk, FileTypes
    <3> QED
      BY <3>2, <3>3 DEF FilesOk, FileTypes, OpenerType
  <2>3. ShmOk(disk'.shm)
    BY <1>22 DEF FilesOk, FileTypes, Die
  <2>4. LocksOk(opener', disk')
    BY <1>22 DEF FilesOk, FileTypes, LocksOk, TakenOk, Die
  <2>5. PhaseOk(opener', disk')
    BY <1>22 DEF FilesOk, FileTypes, Die, PhaseOk, BeforeLocks, Creating, Opening
  <2>6. FailsOk(opener', disk')
    BY <1>22 DEF FilesOk, FileTypes, FailsOk, Die
  <2> QED
    BY <2>1, <2>2, <2>3, <2>4, <2>5, <2>6 DEF FilesOk, FileTypes
<1>23. CASE LoseLockFile
  <2>1. disk' \in [shm : ShmType, lck : LckType]
    BY <1>23, NoTypes DEF FilesOk, FileTypes, LoseLockFile
  <2>2. opener' \in OpenerType
    BY <1>23 DEF FilesOk, FileTypes, LoseLockFile
  <2>3. ShmOk(disk'.shm)
    BY <1>23 DEF FilesOk, FileTypes, LoseLockFile
  <2>4. LocksOk(opener', disk')
    BY <1>23 DEF FilesOk, FileTypes, LocksOk, TakenOk, LoseLockFile, NoLck
  <2>5. PhaseOk(opener', disk')
    BY <1>23
       DEF FilesOk, FileTypes, LoseLockFile, PhaseOk, BeforeLocks, Creating, Opening
  <2>6. FailsOk(opener', disk')
    BY <1>23 DEF FilesOk, FileTypes, FailsOk, LoseLockFile
  <2> QED
    BY <2>1, <2>2, <2>3, <2>4, <2>5, <2>6 DEF FilesOk, FileTypes
<1> QED
  BY <1>1, <1>2, <1>3, <1>4, <1>5, <1>6, <1>7, <1>8, <1>9, <1>10, <1>11, <1>12, <1>13,
     <1>14, <1>15, <1>16, <1>17, <1>18, <1>19, <1>20, <1>21, <1>22, <1>23
     DEF NextFile

(* FileSound follows from the three.                                          *)
LEMMA FilesSuffice ==
  ASSUME FilesOk, lowPids = {} => SpinOk, FutexOk
  PROVE  FileSound
<1>1. ReopenWorks
  BY DEF FilesOk, FailsOk, ReopenWorks
<1>2. LocksApart
  <2> SUFFICES ASSUME opener.pc = "up" PROVE
                 /\ disk.shm.id = disk.lck.id
                 /\ LET L == <<disk.shm.lock, disk.shm.poolLock, disk.shm.reg>> IN
                    /\ IsInjective(L) /\ 0 \notin ToSet(L)
                    /\ ToSet(L) \cap ToSet(disk.lck.free) = {}
    BY DEF LocksApart
  <2>1. /\ disk.shm.id = disk.lck.id /\ disk.shm.size # 0 /\ disk.lck.size # 0
        /\ disk.shm.lock # 0 /\ disk.shm.poolLock # 0 /\ disk.shm.reg # 0
    BY DEF FilesOk, PhaseOk, Opening
  <2>2. FreeOk(disk.lck.free, disk.shm) /\ UsedOk(disk.shm)
    BY <2>1 DEF FilesOk, LocksOk
  <2> DEFINE L == <<disk.shm.lock, disk.shm.poolLock, disk.shm.reg>>
  <2>3. DOMAIN L = 1..3 /\ Len(L) = 3
    OBVIOUS
  <2>4. IsInjective(L)
    BY <2>1, <2>2, <2>3 DEF IsInjective, UsedOk
  <2>5. ToSet(L) = {disk.shm.lock, disk.shm.poolLock, disk.shm.reg}
    BY <2>3 DEF ToSet
  <2>6. ToSet(disk.lck.free) = {disk.lck.free[i] : i \in 1..Len(disk.lck.free)}
    BY DEF ToSet, FilesOk, FileTypes
  <2> QED
    BY <2>1, <2>2, <2>4, <2>5, <2>6 DEF FreeOk
<1>3. Told(futex) /\ FutexOwner
  BY DEF FutexOk, Told, FutexOwner
<1>4. lowPids = {} => Told(spin) /\ SpinOwner
  BY DEF SpinOk, Told, SpinOwner
<1> QED
  BY <1>1, <1>2, <1>3, <1>4 DEF FileSound

(* Opening a shared-memory file and its lock file (LsShm::open, LsShmLock),   *)
(* and the two locks that hold the pid of their owner, for any number of      *)
(* opens, of locks in a file and of processes: FileSound always holds, with   *)
(* a death between any two writes, a lost lock file and a full disk; of the   *)
(* spin lock (ls_atomic_spin_pidwait) where no pid is below LS_SPIN_MIN_PID.  *)
THEOREM FilesAreSound == SpecFile => []FileSound
<1>1. InitFile => IInv
  <2> SUFFICES ASSUME InitFile PROVE IInv
    OBVIOUS
  <2>1. FilesOk
    <3>1. opener \in OpenerType
      BY DEF InitFile, OpenerType
    <3>2. disk \in [shm : ShmType, lck : LckType]
      BY NoTypes DEF InitFile
    <3>3. ShmOk(disk.shm) /\ LocksOk(opener, disk) /\ FailsOk(opener, disk)
      BY DEF InitFile, LocksOk, FailsOk, ShmOk, NoShm
    <3>4. PhaseOk(opener, disk)
      BY DEF InitFile, PhaseOk, BeforeLocks, Creating, Opening
    <3> QED
      BY <3>1, <3>2, <3>3, <3>4 DEF FilesOk, FileTypes
  <2>2. SpinOk
    BY DEF InitFile, SpinOk
  <2>3. FutexOk
    BY DEF InitFile, FutexOk, FutexWords, FutexPcs, Avail, Word
  <2> QED
    BY <2>1, <2>2, <2>3 DEF IInv
<1>2. IInv /\ [NextFiles]_fileVars => IInv'
  <2> SUFFICES ASSUME IInv, [NextFiles]_fileVars PROVE IInv'
    OBVIOUS
  <2>1. UNCHANGED <<disk, opener>> => FilesOk'
    BY DEF IInv, FilesOk, FileTypes
  <2>2. UNCHANGED <<lowPids, spin>> => (lowPids = {} => SpinOk)'
    BY DEF IInv, SpinOk
  <2>3. UNCHANGED futex => FutexOk'
    BY DEF IInv, FutexOk
  <2>4. CASE NextFile /\ UNCHANGED <<lowPids, spin, futex>>
    BY <2>2, <2>3, <2>4, FileStep DEF IInv
  <2>5. CASE NextSpin /\ UNCHANGED <<disk, opener, lowPids, futex>>
    BY <2>1, <2>3, <2>5, SpinStep DEF IInv
  <2>6. CASE NextFutex /\ UNCHANGED <<disk, opener, lowPids, spin>>
    BY <2>1, <2>2, <2>6, FutexStep DEF IInv
  <2>7. CASE UNCHANGED fileVars
    BY <2>1, <2>2, <2>3, <2>7 DEF IInv, fileVars
  <2> QED
    BY <2>4, <2>5, <2>6, <2>7 DEF NextFiles
<1>3. IInv => FileSound
  BY FilesSuffice DEF IInv
<1> QED
  BY <1>1, <1>2, <1>3, PTL DEF SpecFile
=============================================================================
