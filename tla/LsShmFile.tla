------------------------------ MODULE LsShmFile ------------------------------
(****************************************************************************)
(* Opening a shared-memory file and its lock file (LsShm, LsShmLock), by one  *)
(* starting daemon after another, each of which may die between any two       *)
(* writes; and the two locks that hold the pid of their owner, which another  *)
(* process takes over when the owner is dead: the spin lock that the build    *)
(* uses for shared memory (ls_atomic_spin_pidlock) and the one it can use in  *)
(* its place (ls_futex_safe_lock).  No pid is given out twice.                *)
(****************************************************************************)
EXTENDS Integers, SequencesExt

CONSTANTS
    MaxOpens,     \* bound: opens, and so ids, in a run
    NumLocks,     \* locks in a lock file; lock 0 is its own
    Procs,        \* the processes that share a lock
    NoProc        \* LS_LOCK_AVAIL

(* A lock file has a page of 8192 bytes at least, and 4 bytes for a lock.     *)
ASSUME FileAssumption ==
    MaxOpens \in Nat /\ NumLocks \in Nat /\ NumLocks >= 4 /\ NoProc \notin Procs

VARIABLES
    disk,         \* the two files
    opener,       \* the process that opens them
    lowPids,      \* the processes whose pid is below LS_SPIN_MIN_PID, as in a container
    spin,         \* the spin lock's word and what each process does
    futex         \* the same of the futex, and who waits for which word
fileVars == <<disk, opener, lowPids, spin, futex>>

NoShm == [there |-> FALSE, size |-> 0, magic |-> FALSE, id |-> 0, lock |-> 0,
          pool |-> FALSE, poolLock |-> 0, reg |-> 0]
NoLck == [there |-> FALSE, size |-> 0, magic |-> FALSE, id |-> 0, free |-> <<>>]

(****************************************************************************)
(* The files                                                                 *)
(****************************************************************************)
Step(p) == opener.pc = p
Then(p) == opener' = [opener EXCEPT !.pc = p]

openLockShmFile ==
    /\ Step("down") /\ opener.opens < MaxOpens
    /\ opener' = [opener EXCEPT !.pc = "stat", !.opens = @ + 1]
    /\ disk' = [disk EXCEPT !.shm = IF @.there THEN @ ELSE [NoShm EXCEPT !.there = TRUE]]

(* Wrong variant: a new file keeps the lock file of an earlier one.           *)
statFileKeepLocks ==
    /\ Step("stat") /\ UNCHANGED disk
    /\ opener' = [opener EXCEPT !.pc = "lockfile", !.id = IF disk.shm.size = 0 THEN @ + 1 ELSE @,
                                !.new = disk.shm.size = 0]

(* An empty file is new: it gets an id, and the old lock file goes.           *)
statFile ==
    /\ Step("stat")
    /\ opener' = [opener EXCEPT !.pc = "lockfile", !.id = IF disk.shm.size = 0 THEN @ + 1 ELSE @,
                                !.new = disk.shm.size = 0]
    /\ disk' = IF disk.shm.size = 0 THEN [disk EXCEPT !.lck = NoLck] ELSE disk

(* LsShm::open on BADVERSION: the file is deleted and the open has failed.    *)
deleteFile ==
    /\ opener' = [opener EXCEPT !.pc = "down", !.fails = @ + 1]
    /\ disk' = [disk EXCEPT !.shm = NoShm]

(* LsShmLock::init, up to the first write of a new lock file.                 *)
lockInit ==
    /\ Step("lockfile")
    /\ LET l == IF disk.lck.there THEN disk.lck ELSE [NoLck EXCEPT !.there = TRUE] IN
       \/ l.size = 0 /\ ~opener.new /\ deleteFile           \* missing lock file
       \/ l.size # 0 /\ ~l.magic /\ deleteFile
       \/ /\ l.size = 0 /\ opener.new
          /\ \/ disk' = [disk EXCEPT !.lck = [l EXCEPT !.size = 1]] /\ Then("lockmagic")
             \/ disk' = [disk EXCEPT !.lck = l] /\ Then("down")        \* no space
       \/ l.size # 0 /\ l.magic /\ disk' = [disk EXCEPT !.lck = l] /\ Then("map")
lockMagic ==
    Step("lockmagic") /\ disk' = [disk EXCEPT !.lck.magic = TRUE] /\ Then("lockid")
lockId ==
    Step("lockid") /\ disk' = [disk EXCEPT !.lck.id = opener.id] /\ Then("locklist")
setupFreeList ==
    /\ Step("locklist")
    /\ disk' = [disk EXCEPT !.lck.free = [i \in 1..(NumLocks - 1) |-> i]] /\ Then("map")

(* newShmMap: the file gets its size, its fields and at last its magic.       *)
expandFile ==
    /\ Step("map") /\ opener.new
    /\ \/ disk' = [disk EXCEPT !.shm.size = 1] /\ Then("shmid")
       \/ disk' = disk /\ opener' = [opener EXCEPT !.pc = "down"]      \* no space: ftruncate back
newShmId == Step("shmid") /\ disk' = [disk EXCEPT !.shm.id = opener.id] /\ Then("shmlock")

(* allocLock: the first of the free locks; when there is none the open fails. *)
allocLock(l) == IF l.free = <<>> THEN [off |-> 0, l |-> l]
                ELSE [off |-> Head(l.free), l |-> [l EXCEPT !.free = Tail(@)]]
TakeLock(from, to) ==
    /\ Step(from)
    /\ LET a == allocLock(disk.lck) IN
       /\ disk' = [disk EXCEPT !.lck = a.l]
       /\ opener' = [opener EXCEPT !.pc = IF a.off = 0 THEN "down" ELSE to, !.lock = a.off]
newShmTake == TakeLock("shmlock", "shmlockset")
newShmLock ==
    Step("shmlockset") /\ disk' = [disk EXCEPT !.shm.lock = opener.lock] /\ Then("shmmagic")
newShmMagic == Step("shmmagic") /\ disk' = [disk EXCEPT !.shm.magic = TRUE] /\ Then("pool")

(* An old file must have its magic and the id of the lock file.               *)
oldShm ==
    /\ Step("map") /\ ~opener.new
    /\ IF ~disk.shm.magic \/ disk.shm.id # disk.lck.id THEN deleteFile
       ELSE disk' = disk /\ Then("pool")

(* getGlobalPool and mapLock.                                                 *)
createStaticData == Step("pool") /\ disk' = [disk EXCEPT !.shm.pool = TRUE] /\ Then("poollock")
mapLockTake == disk.shm.poolLock = 0 /\ TakeLock("poollock", "poollockset")
mapLock ==
    Step("poollockset") /\ disk' = [disk EXCEPT !.shm.poolLock = opener.lock] /\ Then("hash")
mapLockHas == Step("poollock") /\ disk.shm.poolLock # 0 /\ disk' = disk /\ Then("hash")

(* getNamedHash: a new hash takes a lock before the registry names it.        *)
newHashTake == disk.shm.reg = 0 /\ TakeLock("hash", "hashset")
Up == [opener EXCEPT !.pc = "up", !.fails = 0, !.ref = 1]
newHash ==
    Step("hashset") /\ disk' = [disk EXCEPT !.shm.reg = opener.lock] /\ opener' = Up
getNamedHash == Step("hash") /\ disk.shm.reg # 0 /\ disk' = disk /\ opener' = Up

(* LsShm::open of a file that is open: the same object, counted.              *)
getExisting ==
    /\ Step("up") /\ opener.opens < MaxOpens
    /\ opener' = [opener EXCEPT !.opens = @ + 1, !.ref = @ + 1] /\ disk' = disk

(* LsShm::close; the last one unmaps, closes and forgets.                     *)
closeShm ==
    /\ Step("up") /\ disk' = disk
    /\ opener' = [opener EXCEPT !.ref = @ - 1, !.pc = IF opener.ref = 1 THEN "down" ELSE @]

(* The process dies; the lock file may be lost meanwhile.                     *)
Die ==
    /\ ~Step("down") /\ disk' = disk
    /\ opener' = [opener EXCEPT !.pc = "down", !.fails = 0, !.ref = 0]
LoseLockFile ==
    /\ Step("down") /\ disk.lck.there /\ disk' = [disk EXCEPT !.lck = NoLck]
    /\ opener' = opener

NextFile ==
    \/ openLockShmFile \/ statFile \/ lockInit \/ lockMagic \/ lockId \/ setupFreeList
    \/ expandFile \/ newShmId \/ newShmTake \/ newShmLock \/ newShmMagic \/ oldShm
    \/ createStaticData \/ mapLockTake \/ mapLock \/ mapLockHas
    \/ newHashTake \/ newHash \/ getNamedHash \/ getExisting \/ closeShm
    \/ Die \/ LoseLockFile

(****************************************************************************)
(* The spin lock                                                             *)
(****************************************************************************)
Enter(p, w, told) ==
    spin' = [spin EXCEPT !.word = w, !.pc[p] = "in",
                         !.hurt = IF told THEN FALSE ELSE @, !.missed = @ \/ (spin.hurt /\ ~told)]

spin_pidlock(p) ==
    /\ spin.pc[p] \in {"out", "wait"}
    /\ IF spin.word = NoProc THEN Enter(p, p, FALSE) ELSE spin' = [spin EXCEPT !.pc[p] = "wait"]

pidspin_trylock(p) ==
    /\ spin.pc[p] = "out" /\ spin.word = NoProc /\ Enter(p, p, FALSE)

(* A waiter that finds a pid below LS_SPIN_MIN_PID takes it for garbage and   *)
(* then marks the lock available, whoever holds it by then.                   *)
pidwaitLow(p) ==
    /\ spin.pc[p] = "wait" /\ spin.word \in lowPids
    /\ spin' = [spin EXCEPT !.pc[p] = "low"]
pidwaitFree(p) ==
    /\ spin.pc[p] = "low"
    /\ spin' = [spin EXCEPT !.pc[p] = "wait", !.word = NoProc]

(* kill(waitpid, 0) says the owner is dead ...                                *)
pidwaitKill(p) ==
    /\ spin.pc[p] = "wait" /\ spin.word \in Procs \ (lowPids \cup {p})
    /\ spin.pc[spin.word] = "dead"
    /\ spin' = [spin EXCEPT !.pc[p] = "steal", !.seen[p] = spin.word]

(* ... and the word still holds its pid when it is replaced.                  *)
pidwaitCas(p) ==
    /\ spin.pc[p] = "steal"
    /\ IF spin.word = spin.seen[p] THEN Enter(p, p, TRUE)
       ELSE spin' = [spin EXCEPT !.pc[p] = "wait"]

spin_unlock(p) ==
    /\ spin.pc[p] = "in" /\ spin' = [spin EXCEPT !.pc[p] = "out", !.word = NoProc]
ProcDies(p) ==
    /\ spin.pc[p] # "dead"
    /\ spin' = [spin EXCEPT !.pc[p] = "dead", !.hurt = @ \/ spin.pc[p] = "in"]

NextSpin ==
    \E p \in Procs : \/ spin_pidlock(p) \/ pidspin_trylock(p) \/ pidwaitLow(p)
                     \/ pidwaitFree(p) \/ pidwaitKill(p) \/ pidwaitCas(p)
                     \/ spin_unlock(p) \/ ProcDies(p)

(****************************************************************************)
(* The futex.  Its word is the owner's pid and a bit that says that others    *)
(* wait; seen is lockpid, what a process found in the word.                   *)
(****************************************************************************)
Word(p, more) == [pid |-> p, more |-> more]
Avail == Word(NoProc, FALSE)
EnterFutex(p, w, told) ==
    futex' = [futex EXCEPT !.word = w, !.pc[p] = "in",
                           !.hurt = IF told THEN FALSE ELSE @,
                           !.missed = @ \/ (futex.hurt /\ ~told)]
Found(p) == futex' = [futex EXCEPT !.pc[p] = "check", !.seen[p] = futex.word]
FutexAt(p, from) == futex.pc[p] = from
FutexTo(p, to) == futex' = [futex EXCEPT !.pc[p] = to]

futex_safe_lock(p) ==
    /\ FutexAt(p, "out")
    /\ IF futex.word = Avail THEN EnterFutex(p, Word(p, FALSE), FALSE) ELSE Found(p)

(* kill(lockpid, 0)                                                           *)
futexKill(p) ==
    /\ FutexAt(p, "check")
    /\ FutexTo(p, IF futex.pc[futex.seen[p].pid] = "dead" THEN "steal" ELSE "mark")

(* Who takes the lock over cannot know whether others wait.                   *)
futexSteal(p) ==
    /\ FutexAt(p, "steal")
    /\ IF futex.word = futex.seen[p] THEN EnterFutex(p, Word(p, TRUE), TRUE)
       ELSE FutexTo(p, "mark")

futexMark(p) ==
    /\ FutexAt(p, "mark")
    /\ IF futex.seen[p].more THEN FutexTo(p, "wait")
       ELSE IF futex.word = futex.seen[p]
       THEN futex' = [futex EXCEPT !.word.more = TRUE, !.pc[p] = "wait"]
       ELSE FutexTo(p, "retry")

(* The kernel compares the word before it puts the process to sleep.          *)
futex_wait(p) ==
    /\ FutexAt(p, "wait")
    /\ FutexTo(p, IF futex.word = Word(futex.seen[p].pid, TRUE) THEN "sleep" ELSE "retry")
futexTimeout(p) == FutexAt(p, "sleep") /\ FutexTo(p, "retry")

futexRetry(p) ==
    /\ FutexAt(p, "retry")
    /\ IF futex.word = Avail THEN EnterFutex(p, Word(p, TRUE), FALSE) ELSE Found(p)

futex_safe_unlock(p) ==
    /\ FutexAt(p, "in")
    /\ futex' = [futex EXCEPT !.word = Avail,
                              !.pc[p] = IF futex.word.more THEN "wake" ELSE "out"]

(* One of those that sleep, if any still does.                                *)
futex_wake(p) ==
    /\ FutexAt(p, "wake")
    /\ \/ \E q \in Procs : /\ FutexAt(q, "sleep")
                           /\ futex' = [futex EXCEPT !.pc[p] = "out", !.pc[q] = "retry"]
       \/ (\A q \in Procs : ~FutexAt(q, "sleep")) /\ FutexTo(p, "out")
OwnerDies(p) ==
    /\ ~FutexAt(p, "dead")
    /\ futex' = [futex EXCEPT !.pc[p] = "dead", !.hurt = @ \/ futex.pc[p] = "in"]

NextFutex ==
    \E p \in Procs : \/ futex_safe_lock(p) \/ futexKill(p) \/ futexSteal(p) \/ futexMark(p)
                     \/ futex_wait(p) \/ futexTimeout(p) \/ futexRetry(p)
                     \/ futex_safe_unlock(p) \/ futex_wake(p) \/ OwnerDies(p)

InitFile ==
    /\ disk = [shm |-> NoShm, lck |-> NoLck]
    /\ opener = [pc |-> "down", id |-> 0, new |-> FALSE, lock |-> 0, fails |-> 0, opens |-> 0,
                 ref |-> 0]
    /\ lowPids \in SUBSET Procs
    /\ spin = [word |-> NoProc, pc |-> [p \in Procs |-> "out"],
               seen |-> [p \in Procs |-> NoProc], hurt |-> FALSE, missed |-> FALSE]
    /\ futex = [word |-> Avail, pc |-> [p \in Procs |-> "out"],
                seen |-> [p \in Procs |-> Avail], hurt |-> FALSE, missed |-> FALSE]

NextFiles ==
    \/ NextFile /\ UNCHANGED <<lowPids, spin, futex>>
    \/ NextSpin /\ UNCHANGED <<disk, opener, lowPids, futex>>
    \/ NextFutex /\ UNCHANGED <<disk, opener, lowPids, spin>>
SpecFile == InitFile /\ [][NextFiles]_fileVars

(****************************************************************************)
(* Properties                                                                 *)
(****************************************************************************)
(* Whatever writes a dying process or a lost lock file left out, an open that *)
(* refuses the file removes it, so that the next open succeeds.               *)
ReopenWorks == opener.fails <= 1

(* An opened file and its lock file belong together, and the locks of the     *)
(* file, of its pool and of its hash are three that nobody else can get.      *)
LocksApart ==
    opener.pc = "up" =>
        /\ disk.shm.id = disk.lck.id
        /\ LET L == <<disk.shm.lock, disk.shm.poolLock, disk.shm.reg>> IN
           /\ IsInjective(L) /\ 0 \notin ToSet(L)
           /\ ToSet(L) \cap ToSet(disk.lck.free) = {}

(* One live process at most is inside, and when one died inside the next one  *)
(* to enter is told so (a negative result), which is what makes the hash      *)
(* finish a rehash.                                                           *)
Told(lock) ==
    /\ \A p, q \in Procs : lock.pc[p] = "in" /\ lock.pc[q] = "in" => p = q
    /\ ~lock.missed

(* What ls_atomic_spin_pidunlock and ls_futex_safe_unlock assert.             *)
SpinOwner == \A p \in Procs : spin.pc[p] = "in" => spin.word = p
FutexOwner == \A p \in Procs : futex.pc[p] = "in" => futex.word.pid = p

(* LsShm::open after any crash, loss of the lock file or lack of space, and   *)
(* ls_shmlock_lock and ls_futex_safe_lock after the death of the owner: a     *)
(* refused file is removed, an opened one has locks of its own, and a lock    *)
(* taken from a dead process is reported as such, held by one process and     *)
(* released by it.  The spin lock does this only where no process that shares *)
(* it has a pid below LS_SPIN_MIN_PID: elsewhere (in a container) a waiter    *)
(* frees the lock of a live owner and two are inside.                         *)
FileSound ==
    /\ ReopenWorks /\ LocksApart
    /\ Told(futex) /\ FutexOwner
    /\ lowPids = {} => Told(spin) /\ SpinOwner
==============================================================================
