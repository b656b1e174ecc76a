# Verification of lsmcd

lsmcd is a memcached server that keeps its data in memory-mapped files and
replicates it between nodes. This directory models it in TLA+: the commands and
their store, the shared memory below, replication and election, the processes
and their event loops, and the libraries they are built on. TLC checks the
models on small instances; TLAPS proves, for every size, the central properties
of the transaction-id table, its replication, the roles, files and locks, named
hashes and the crash guard, and that the command handlers implement the promise of a
slice. Paths are relative to `src/src/` of the repository.

## 1. Inventory

| Part | State | Operations | Correct when |
|---|---|---|---|
| Tid manager `shm/lsshmtidmgr` | last tid, last tid before a clear, chain of 1024-entry blocks, block index; a link word in each element | link, unlink, replace, clear, grow, look up, walk | entries and elements refer to each other; a tid is never reused |
| Hash `shm/lsshmhash` | buckets, bitmap, elements, LRU list, size counters | find, insert, set, grow, erase, trim, rehash, check | every element is found, also after a crash in a rehash; the LRU list is in order of use |
| Pool, files, locks `shm/lsshmpool`, `lsshm`, `lsshmlock`, `lsr/ls_lock.c` | free runs, buckets, chunk; mapped sizes; lock words with owner | allocate, release, open, expand, remap, lock, take over | nothing handed out twice or lost; what is used is mapped; a dead owner's lock is taken over and its work redone |
| Commands `memcache/lsmemcache` | current command, cas counter, statistics | every storage command of both protocols; pack and apply replication packets | an abstract key-value store, each request answered once, memory bounded |
| Connections `memcache/memcacheconn` | input, output, flags, link to the master, wait queue | read, cut, execute, answer, forward, close | answers come once and in order to who asked |
| Slices and users `memcache/lsmchashmulti`, `lsmchashbyuser`, `lsmcsasl` | open slices and hashes, headers, users | start, authenticate, choose slice and hash, flush and statistics over slices | a user finds what it stored; a flush reaches all slices |
| Slice replication `lcrepl/replshmhelper`, `lcreplsender`, `lcreplreceiver` | node infos, trackers | broadcast, full sync, apply | equal tids mean equal data; changes arrive |
| Roles `lcrepl/lcreplgroup`, `lcnodeinfo` | role, priority, tid of each node | monitor, elect, flip, tell workers | one master, which stays |
| Worker socket `lcrepl/usock*` | connections of workers, messages in part | notify, tell roles, pass descriptors | each worker is told of each change, in order |
| Links `repl/sockconn`, `replconn`, `util/loopbuf` | sockets, ring buffers | connect, send, receive, close, reconnect | packets arrive whole, in order, and from one socket only |
| Peers and audit `repl/` (generic) | node infos, unacknowledged changes, time slots | acknowledge, audit, transfer in bulk | every difference is sent, none forgotten |
| Event loop `edio/` | reactors by descriptor, interest masks, callback queue | add, remove, wait, hand out | an event reaches the registration it was for |
| Daemon `lsmcd`, `util/crashguard`, `util/pidfile` | children, slots, signals | fork, restart, stop | what is told to stop stops; one daemon, but for the race of section 5 |
| Libraries `util/`, `lsr/`, `log4cxx/` | | | each against its reference definition |

Worker ("cached") processes map the slice files and execute commands under the
lock of the slice. Each change appends to the tid table and sends a one-way
notification to the `repld` process of the node, which maps the same files, walks
the table from the tid in its tracker and sends what it finds to the other
nodes. A node that joins reports its tids in a ping and gets a full sync. The
receiving repld applies the packets to its own slice files. Where another node is
master, a worker forwards commands to a worker of that node. The crash guard forks
workers and repld and replaces the ones that die.

What is hard here: processes die with a lock in hand or between two writes to
shared memory; the lock is released between batches; two connections carry parts of
one history; reads and writes are cut anywhere; handlers close and reuse
descriptors that are still in the batch of events; and several calculations turn on
the boundary of a block. `PROJECT.json` lists the hazards at their lines with the
properties that cover them.

## 2. Modules

| Module | Models |
|---|---|
| `LsShmTidMgr`, `TidSlice` | the tid table as operators on a slice record; one master slice, one action for each way a command changes it |
| `LsMemcacheTid`, `TidRepl`, `MCTidRepl` | packing the table into batches and applying one; workers, master repld, connections and slave repld for one slice |
| `LcReplGroup`, `MCLcReplGroup` | roles and election of one slice, with the connections, pings and flips |
| `MemcacheSpec`, `LsMemcache`, `MCLsMemcache` | the abstract store; the storage and control commands of both protocols, and what their parsers refuse, in several workers, shown to implement it |
| `McConn`, `McForward`, `McSlices` | a client connection; forwarding to the master; slices, users and SASL |
| `LsShmPool`, `LsShmHash`, `LsShmFile`, `LsShmMap`, `LsShmNames`, `MCLsShm` (with `McSlices`) | allocator; hash with rehash and LRU; opening and closing files and taking over locks of both kinds (spinning and futex); growth under other processes and the maps of addresses; hashes made and found by name in several processes |
| `Epoll`, `PollfdReactor` | the two event loops; the callback queue is in `Epoll` |
| `ReplLink`, `ReplWire`, `Usock`, `ReplNodes`, `ReplAudit`, `HttpFetch` | ring buffer and link; what is written into packets and read back; worker socket; peers and their status; audit and bulk replication; HTTP client |
| `MCNet` | the modules from `Epoll` on with `McConn`, side by side |
| `Daemon` | crash guard, children, signals |
| `LogFiles`, `GPath`, `LsmcdConf`, `AccessControl`, `LsHash`, `LsPool`, `VMemBuf`, `StringTool` | the pid file and log files; paths; configuration; access rules; hash tables; the session pool; block buffers whose mapping may fail; text, dates and the multi-pattern search |
| `MCLib` | those, side by side |
| `LsShmTidMgr_proofs`, `TidSlice_proofs`, `TidRepl_proofs`, `LcReplGroup_proofs`, `LsMemcache_proofs`, `LsShmFile_proofs`, `LsShmNames_proofs`, `Daemon_proofs` | the theorems about the module they are named for, section 4; the first holds the lemmas about the table that the next two share |

In `MCNet`, `MCLib` and `MCLsShm` the parts do not interact. A variable `part` chooses
one for the whole behaviour, so the run is the union of the parts' state spaces and
one property speaks of the part chosen.

Correspondence with the code, where it is not one to one:

- **Slice record.** `tid`, `preClear` are `x_tid`, `x_lastTidPreClear`; `blks` is the
  chain of blocks, which is also the index, since both grow and go together; `live`
  is the set of offsets in the hash; `key`, `val`, `link` are what memory holds at an
  offset, released or not. Which offset an allocation returns, whether it fails,
  whether a value fits in place and which element is trimmed are choices. The role
  flag is a parameter: it belongs to a process, not to the shared memory.
- **Commands** hold the slice lock from lookup to update, so one is one step; a get of
  several keys takes the lock for each. In `LsMemcache` an expired item stays until a
  command finds it; the refinement maps it to absent. `m_noreply` belongs to the process.
- **Memory of a slice** (`LsMemcache`). `m_iHashInUse` is `other` (table, index, bitmap, header, tid
  blocks) and the lengths `x_iLen` of the elements. `other` starts at `TableLen + HeadLen`, grows by
  `BlkLen` up to `OtherMax` at any command (a rehash or a tid block: `grown`), and shrinks with a
  flush. Every allocation may fail. A trim may stop short for want of a tid block. When the second
  test of `chkMemSz` fails the process ends itself (`rebuild`), its command unanswered, and the guard
  deletes the databases and starts all processes again (`childSignaled`, one step, since what happens
  in between is that of `Daemon`).
- **`TidRepl`.** Each turn of `bcastNewTidData`'s loop is one step, as it is one hold
  of the lock. The two TCP connections are in order each. A disconnect loses what is in
  flight. `ReplRole` is the role set in the applying process. The two loops of
  `LsMemcacheTid` are functions from the number of turns to the state of the loop.
- **`LcReplGroup`.** Accepted connections are keyed by address and port, so an old one
  may close after its successor is up; node infos are keyed by address.
- **`LsShmHash`, `LsShmFile`, `LsShmMap`, `LogFiles`**: each write to shared memory or
  call of the kernel that another process can see is a step, so a process can die between
  any two.
- **`Epoll`, `PollfdReactor`**: the batch of events is state, and handlers add and remove
  reactors while it is handed out. The kernel gives the lowest free descriptor.
- **`LsShmHash`**: `insertPtr`, `getPtr`, `setPtr` and `updatePtr` are the four callers of `doInsert`,
  `doGet`, `doSet` and `doUpdate`; walks of the LRU list start at either end and follow the links.
- **`ReplWire`**: a packet is the sequence of its bytes (modulo `ByteMod`, so that a number takes more
  than one), next to the value it was made from; the reader takes what the lengths in it say.
- **`VMemBuf`**: every system call may fail and leaves what the code leaves then; blocks behind the
  cursors are unmapped or in the pool that all buffers share, of which `PoolKeep` are kept. A
  `seekWritePos` that leaves the read cursor in an old mapping or list puts the buffer in the state
  "adrift", which `seekRwOff` and `close` alone leave.
- **Undefined behaviour** (a read of a released element, an uninitialised priority) is a
  choice of outcomes, or a flag (`usockUb`, `fetchEnd`, `cbHist.raced`, the state "adrift" of `VMemBuf`) that a property excludes.

Operators marked "wrong variant", or named as one, are plausible mistakes. `PROJECT.json`
pairs each with the property that detects it; no specification uses them.

## 3. Model checking

Deadlock is not checked: every model stops at the bound of its commands or of its faults.

| Run | Question | Bounds that matter |
|---|---|---|
| `tid_slice` | do table and elements refer to each other, is history append-only | blocks of 3, tids to 7: flush, update (two tids) and insert meet every position in a block; stale link words |
| `repl_faults` | what a slave has agrees with the master tid by tid, whatever breaks | a joining slave, one disconnect, worker exit or full slave, blocks of 2, batches of 2 |
| `repl_live` | equal tids mean equal data; what is announced arrives | connections stay up, tids to 3, batches of 2 split an update |
| `group_converge` | does election end, with one master | two nodes that start in any order |
| `group_faults` | is nobody believed further than it is; do settled roles stay | one restart or timeout with late closes |
| `mc_store` | do the handlers implement the store | two workers, two keys, three requests, time 0..3, numbers modulo 4; `MemMax` holds tables that have grown (`OtherMax`) and one item but not two long ones, so that eviction, a trim that does not suffice and the restart after it all occur |
| `shm` | allocator, hash, LRU, files, both pid locks, mapping, names, slices and users | pages of 4 units in large pages of 16, two crashes, three processes, four locks for hashes, cas on at this start and either before; rehash cut at each write |
| `net` | event loops, connections, links and the contents of packets, workers, peers, audit, fetch | two or three descriptors with reuse, streams cut at every byte, ring buffers that wrap; packets for up to two slices, with one bound (`MaxPacketSize`) that a batch can reach |
| `lib` | the libraries | all short inputs, command lines and numbers in every base among them, or two or three processes; block buffers of two to four blocks through every sequence of `MaxVmOps` calls, each of which may fail to map |
| `daemon` | guard and children | two workers, two signals at any instant, two deaths |
| `forward_answer`, `shm_lru` | disagreements, section 5 | |

Symmetry: the keys and workers in `repl_faults` (no key is a prefix of another there) and the processes
in `mc_store`, where nothing tells them apart; neither run checks liveness.

"Aligned" in a property's name means that the i-th block is the i-th after the block of
`preClear`, which `tid2tblBlk` assumes and nothing enforces (section 5). The other
properties are stated under it, so that they do not repeat that failure.

Fairness is weak everywhere and only of what an event loop or a timer does:

- `repl_live`: repld handles what has arrived, connections stay up. Clients are not
  fair. A notification's backlog fits in `MaxLoop` batches; the code sends at most ten
  batches of 64000 bytes for one.
- `group_converge`: one-second timers fire and arrived packets are handled. No faults occur.
- `daemon`: guard and children keep running, so a pending signal is handled.
- `forward_answer`: both workers handle what has arrived; the link stays up.

`Converges`, `FlipEnds`, `AllEnd`, `AnnouncedReachesSlave` are the liveness properties.
`Implements` is the refinement `LsMemcache => MemcacheSpec`, with a mapping that hides
expired items and internal numbers.

## 4. Proofs

Every theorem holds for all values of the constants under the assumptions its module names
(`ASSUME`): numbers are natural numbers and positive where the code has a size, the placeholders for
"none" are not among what they stand for, and requests are ones the parsers can make. Bounds of the
models (`MaxTid`, `MaxFaults`, ...) are arbitrary.

| Theorem | States |
|---|---|
| `TidSlice_proofs`: `TypeCorrect`, `EntriesAreLive`, `HistoryAppendOnly` | `TypeOK`, `EntriesLiveIfAligned`, `HistoryIsAppendOnly` |
| `TidSlice_proofs`: `ElemsAreTracked` | `ElemsTrackedIfAligned`, if the pool has blocks for the tids handed out (`MaxTid + 1 < MaxBlks * BlkSz`): a block that cannot be allocated does leave an element without entry |
| `TidRepl_proofs`: `ReplTypeCorrect`, `SlaveEntriesAreLive`, `HistoryOfBothNodes` | `TypeOK`, `SlaveEntriesLive`; on both nodes tids and history only grow |
| `TidRepl_proofs`: `SameTransactions` | `SameTransaction`, if the applying process holds the slice as a slave (`ReplRole = "slave"`; section 5 says what happens otherwise) |
| `TidRepl_proofs`: `SlaveInSync` | `InSyncIfAligned` in every state in which the master's table has room for one more transaction (`RoomLeft`), if the first full sync is over (`Joined = "yes"`), nothing fails between the nodes (`Faults = {}`), the slice is held as a slave, no key is the beginning of another (`KeyPrefixes = {}`) and the pool of the slave has an element for every key |
| `LcReplGroup_proofs`: `KnownTidIsReached` | `KnownTidReached` |
| `LcReplGroup_proofs`: `SettledRolesStay` | `SettledStays`, for two nodes with different priorities (`TwoNodes`) |
| `LsMemcache_proofs`: `CasIsUnique`, `CommandsAreAnswered` | `CasUnique`, `Answered` |
| `LsMemcache_proofs`: `SliceIsImplemented` | `Implements`: the handlers refine `MemcacheSpec`, whichever allocations fail, through eviction, rebuild and restart |
| `LsShmFile_proofs`: `FilesAreSound` | `FileSound`; its part on the spin lock where no process that shares it has a pid below `LS_SPIN_MIN_PID` (`lowPids = {}`), as the property says |
| `LsShmNames_proofs`: `NamesAreSound` | `NamesSound` |
| `Daemon_proofs`: `GuardIsSound` | `GuardSound` |

**The tid table.** `EntriesLiveIfAligned` is not inductive. `Good` adds `Struct` (bases are multiples
of the block size, the last block does not start beyond the next tid) and, while the index is
aligned, `EntriesOk`: an element entry determines its element, which is in the hash and linked to
that very tid. The index then finds, from the link of an element, the entry that refers to it, so
that clearing it leaves no other (`LookupFinds`). Every operation takes a `Good` slice to one that
continues it. `Continues` is the conjunction of three relations: `Follows` (good, tid not smaller,
history kept), `Carries` (the element of an entry that is left keeps key and value) and
`KeepsBehind` (no entry appears ahead of the last tid). It is transitive, so that a command is the
sequence of its calls, and the same lemmas serve the commands of the master, the packets of the
slave and the erasure of expired elements during a broadcast. `ElemsTrackedIfAligned` is the
converse and needs more: `Tracks` adds that every element but the one being worked on has an entry,
that no entry is ahead of the last tid, and that there is room for the block of the next one.

**Replication.** The loops over packets and over table entries are recursive functions. That such a
function exists and has a property for every number of turns is shown with the least element of a
set of numbers (`WFMin` over the naturals; lemmas `Least`, `UpTo`, `SetTurns`, `GetTurns`), which
replaces induction. The invariant behind `SameTransaction` is `Agreement`: every packet in flight,
on either connection, is `Sent` by the master as it is now (its tid was handed out, and if its entry
is still there, the entry says what the packet says), and the slave is `Behind` it (its last tid is
not ahead, it has no entry ahead of that, and under equal tids both tables say the same). When the
master moves on, what it adds has a tid that no packet and no slave has; when the slave takes a
packet it adds one entry, the packet's. What was lost, repeated or overtaken does not matter, since
each packet agrees by itself.

That the slave has all of it (`SlaveInSync`) needs that what is in flight is complete, not only
right. Section 5 says what goes wrong with a connection that breaks, a full sync that overlaps a
broadcast, a key that begins another, the other role, or memory that runs out; the constants of run
`repl_live` meet every hypothesis of the theorem.

The proof is about sets of packets. `Log(s)` are the packets that the table of a slice
stands for; the elements of the slice are the ones that add (`ContentsLog`). With L the log of the
master, P the packets in flight, n the tid of the slave, c the tid up to which the broadcasts went and
R the log of the slave, the inductive invariant `Steady` says:

- `MasterSide(L, ..., P, n, c)`: what L has between n and c is in P (`SentAll`), a store in P is still
  in L or is doomed (`Useful`), no packet of P or L harms an element of L (`Harmless`), and what is
  deleted after the last flush was stored after it (`Recent`);
- `SlaveSide(L, P, n, R)`: the elements of L up to n are in R, and an element of R is in L or doomed.

An element is `Doomed` when the slave has yet to get what makes it go: its deletion, a flush, or a
store of the same key. A worker's command changes L by a deletion, a store or a flush (`SideErase`,
...), a broadcast copies what it finds in L to P and may erase expired elements while it walks,
and the slave takes the first packet of P (`TakeAdd`, `TakeDel`, `TakeFlush`). A deletion that the slave skips,
because the next packet of the batch stores the same key (`ReplacedByNext`), leaves a doomed element.
When the tids are equal nothing is in flight and nothing is doomed, so that L and R have the same
elements.

**Roles.** In `KnownTidReached` the invariant types every queue and buffer by the tid of the node it
comes from: nothing known, under way or waiting to be sent claims a tid its sender has not reached.
Tids only grow, so what is typed stays typed.

`SettledStays` needs `FlipInv`: whatever breaks or restarts, a request to flip, its answer and its end
are only ever under way between a node and one of higher priority, and only the node of higher
priority announces itself, since a node that elects itself knows its peer. With three nodes the
property fails: the end of a flip between two of them can be read after the third has settled as
master.

**Commands.** Uniqueness of cas numbers rests on the counter: no element carries a number above it,
and every change of a value takes the next one. `Answered` is inductive together with the type of
the flag `m_noreply`, which outlives its command.

For the refinement the abstract store is `VisAt(hash, now)`, the hash without what has expired.
Two facts join the invariant (`SeenInv`): the clock is past `MaxDelta`, so that no relative deadline
can be taken for an absolute one, and every value in the hash is text with a deadline that is 0 or absolute
(`ItemsOk`). There is one lemma for each handler (`CmdUpdateIs`, `BinArithmeticIs`, ...): whatever
its lookup found, missing, expired or live, whatever was evicted to make room and wherever it refused,
its effect is `DoesStep`, the step the promise has for that request. `AllocatedIs` says what an
allocation may leave (the change, or the loss of the old element: `Starved`), and the lemmas of the
storing handlers go through both; the promise has it that a store without memory may lose its key. A
rebuild is a step that loses any elements and marks the store damaged, a restart one that empties a
damaged store (`RebuildIs`, `RestartIs`). The promise does not depend on what `chkMemSz` counts, so
that the theorem holds for every `TableLen`, `HeadLen`, `BlkLen` and `MemMax`. A get of several keys and the line
of a command whose data has not come are stuttering steps. What `strtoull` reads and `snprintf` prints
is compared with the value of a numeral by `NumeralsAgree`; that is recursion over text, so it is an
assumption of the proof (`NumeralsAssumption`), which TLC evaluates for every text of the run's bounds.

**Files and locks.** `FilesOk` says for each step of an open what the two files hold, which locks
are free, in use or taken and not yet written; a death leaves one of these states, and each is
either opened or refused and removed. `SpinOk` (while `lowPids` is empty) and `FutexOk` say that the process inside is the one
in the word, that who died inside still is, and, for the futex, that who sleeps is marked as waiting.

**Names.** The invariant relates what each process knows (`ProcOk`), the registry (`RegOk`), that two
names never claim one table (`ClaimsApart`), that a process alone in making a table finds no other
(`AloneCreating`), and where each lock is (`LocksPlaced`, `LocksApart`).

**Crash guard.** `Slotted` and `Used` are inverse to each other: a child that was forked and not
reaped is in the slot of its number, a slot in use names such a child; `Stopping` and `Killing` say
the same of the loop that ends the children.

Only model-checked:

- Liveness (`AnnouncedReachesSlave`, `Converges`, `FlipEnds`, `AllEnd`, `TransferMovesOn`) and what follows from
  fairness: out of the prover's reach.
- `SizeBounded` of `LsMemcache`: a sum over a set, hence induction over data. That the numerals
  agree (`NumeralsAgree`), for the same reason, is checked by TLC where the refinement assumes it.
- The parts of `MCLsShm`, `MCNet` and `MCLib` not named above. Several use recursive operators, which
  the prover does not accept (`AccessControl`, `LsPool`, `LsShmHash`, `LsShmMap`, `PollfdReactor`, `ReplAudit`,
  `StringTool`, `VMemBuf`), and what these compute is compared with reference definitions on bounded
  inputs.

## 5. Known disagreements

Two have a run that ends in a counterexample, with a finding in `PROJECT.json`:

- `forward_answer`: the answer to a forwarded command starts with the high byte of its
  length, so `processIncoming` takes the link for a text connection and the client
  waits for good.
- `shm_lru`: `set_linkNext` and `set_linkPrev` write nothing when the new link is 0, so
  erasing an end of the LRU list leaves its neighbour linked to a released element.

The others show when a constant or a guard of the model is changed as said, or were met
while translating the code and are kept out of the instances by a guard.

**Tids and replication.**
- A `flush_all` at the last tid of a block, or a slave sent nothing of a whole block, shifts
  the index: drop the condition `Aligned` and `EntriesLiveIfAligned` fails. A block that
  cannot be allocated (`MaxBlks = 2`) leaves elements untracked.
- What was sent while a connection was down is never sent again, and the tids become
  equal: `InSyncIfAligned` fails with "disconnect" in `Faults`, with "worker_exit" (the
  tracker is deleted with the worker's connection), and with `Joined = "no"` (full sync and
  broadcast overlap at different boundaries).
- The delete of a key before a store to a longer key with that prefix is skipped on
  the slave: `KeyPrefixes <- FirstPrefixesSecond`.
- Under the crash guard the applying process hands out tids of its own: `ReplRole = "master"`.
- A store that finds no memory leaves an entry with no element, which no broadcast gets past.
- The cas counter is not replicated; a set refused with E2BIG erases without a notification.

**Roles.** A lost flip request leaves a node flipping until the next election
(`lcreplgroup.cpp:167-185`); a late close of an old connection drops the new one's node; with
equal priorities every node takes itself for the smallest (`:423`); the assertion in
`replshmtidcontainer.cpp:22` fails when a node with a higher tid joins a master.

**Memory of a slice.** `chkMemSz` compares `m_iHashInUse`, tables included, with the limit: when the
tables alone exceed it no trim helps, and the store ends the process (`lsmemcache.cpp:1995`,
`lsshmhash.cpp:843`). Its second test does not take `x_iSize` off as the first does (`:1974`), so a trim
that satisfied the first may fail it. The client whose command it was gets no answer (`Answered`
speaks of commands that ended), and every slice of every user is lost: `childSignaled` deletes all
databases. The cas counter then starts at 0 again, and a number read before may match another value.
A `doSet` that finds no memory has erased the old item (`lsshmhash.cpp:1094`); incr and decr then
decide by an `m_iRetcode` that nothing set, so that a binary one may start from its initial value.
`SizeBounded` allows what the code allows: the limit plus the larger of `x_iSize` and the element
stored, plus what the tables take after the tests, plus an item header for a binary store.

**Commands and connections.** Binary incr and decr are answered twice; a quiet get-and-touch
sends half an answer; `m_noreply` outlives a command that never answers; a binary incr with an
initial value, and append, check less than the length they store; a get of several keys is not
atomic. A line that ends in "\n" alone loses its last character (`lsmemcache.cpp:836`); `SendBuff`
counts a broken connection as connected (`memcacheconn.cpp:538`); quit drops answers still
buffered; `memcachelistener.cpp:100-104` uses a connection that is NULL; statistics over slices
answer the last slice's `flush_cmds` (`lsmemcache.cpp:2392`).

**Shared memory.** Two workers that first serve a user at the same time make two tables for it
(`lsshmpool.cpp:339`): each goes on with its own, and later workers with the one stored last (without the
set `overlap`, `OneTable` fails). A crash in the windows `Unsafe` of a rehash loses elements; trimming two or more leaves
`linkLast` at a released one; `alloc2` drops a piece that crosses a large page (`lsshmpool.cpp:500-510`);
a pid that is used again keeps a dead owner's lock (`ls_lock.c:73-105`);
a waiter frees the spin lock of a live owner whose pid is below 10, as pids in a container are
(`ls_lock.c:85-90`): with `lowPids` not empty mutual exclusion fails, and `FileSound` claims it only
otherwise; `linkMvTopTime` takes a time ahead of the clock (`lsshmhash.cpp:1978`, where `linkSetTopTime` refuses one),
and what is used later then lies above it with an earlier time, so that trim stops at it (`h.ahead`); `ls_futex_trylock` stores 1 and
not the pid, so that the assertion of `ls_futex_safe_unlock` would fail (`ls_lock.h:288`, `:308`); what is left of
a global bucket's block is dropped (`lsshmpool.cpp:948`) and `mergeDeadPool` loses the dead pool's chunk; the size is corrected
while another process expands (`lsshm.cpp:705`); `initShm` ignores a pool that could not be opened.

**Processes.** One `waitpid` for each SIGCHLD: of two children that die together one is not replaced
(`crashguard.cpp:242`); SIGTERM before `init_signals` is swallowed; `sEvents` is read and cleared in two
steps (`lsmcd.cpp:667-669`); the core-dump rule deletes files in use; the replicator process never runs
(`lsmcd.cpp:781`). Two processes that roll one log overwrite an archive (`logrotate.cpp:115`), and an archive may be rolled
into the name of one that a child is still compressing, for which nobody waits. `lockPidFile` does not look
whether the file it has locked still has its name (`pidfile.cpp:120-139`): of two daemons that start
while one ends, both may run. `OneDaemon` and `PidTold` except that case (`Stale`).

**Sockets and events.** Double delete of a worker's connection (`usocklistener.cpp:109`, `usockmcd.cpp:283`);
every accept of a worker replaces the table of masters that all connections share by one filled with
0xFF (`usockconn.cpp:17`, `usockdata.cpp:15`), so that the next announcement, of any slice, tells all
workers that 255.255.255.255 is master of the others, and the end of a connection deletes the table
(`usockconn.cpp:20-26`), so that an announcement then uses NULL; a worker is not told roles and
connections when it connects (`WorkersTold` excepts all three); `EvtcbQue::recycle` clears a node and
returns it to the pool without the lock under which other threads take nodes from it
(`evtcbque.cpp:220-225`), after which a node may be handed out twice (`CallbacksRun` claims nothing of
the list from there on); an answer that is read before the HTTP request is sent makes `recvResp` loop for
ever (`httpfetch.cpp:499`), and a header line cut between two reads is read from two buffers, or,
if it is the status line, fails the request (`:418-464`, `FetchSound` claims nothing after the former);
`SendEx` of the worker socket drops what is not taken; a replication link's buffer is used after
`closeConnection` deleted its connection (`replconn.cpp:240-249`); a slot's pointer is written after a handler
may have grown the array (`pollfdreactor.h:146`); the digest of a time slot covers its keys and not
their values (`lruhashreplbridge.cpp:145`).

**Libraries.** Prefix comparison in `ls_hash_cmpcistring` (`ls_hash.c:187-191`), a table that grows during a
walk, the end of the list of primes (`ghash.cpp:143`); every year divisible by four is a leap year
(`datetime.cpp:193`, wrong from 2100), and the cached log time ignores GMT (`:231`); "\*?\*" (`stringtool.cpp:341`) and
`memNextArg` (`:417`); `ac_search` passes over the character at which the fail links ran out, so that it misses "ab" in "aab"
(`aho.cpp:413-419`), and its loop over first characters may read the byte behind the text; a month is told by one
to three of its letters, so that "Abc" is August (`datetime.cpp:163-191`); `setROffset` at the end of a full last block, or after a mapping that failed, does not end
(`vmembuf.cpp:602`), a failed write returns a short count, a conversion that fails half-way loses the list of blocks, `seekWritePos` maps its block again, or lets the list move,
without the read cursor (`:625`, `:628`), after which `writeBufSize`, `empty` and `getReadBuffer` are wrong until `seekRwOff`,
and `exactSize` keeps more than was written when the write cursor is not in the last block (`:880-882`); an IPv6 subnet added
after a narrower one that holds its address becomes a child of it (`accesscontrol.cpp:344-381`): it decides inside the
narrower one and nowhere else (`AccessSound` excepts addresses in such a subnet); two processes that make one path (`gpath.cpp:608`); of the configuration, priorities that
are not initialised (`lcreplconf.cpp:203-213`), addresses after an invalid one (`replconf.cpp:61-65`), and with one of the first two invalid replication is off without
a word; the listener is compared with the list by its host only, and an IPv6 one by "[" only, which every IPv6
address has (`repldef.cpp:10`); nodes whose lists or lookups differ disagree about the group and nothing notices; a
16-bit slice count (`lcreplconf.cpp:119-121`).

## 6. Not modelled

Formatting and wording of answers, status files and log messages; compression; checksums and
hash functions (arithmetic on bytes); XML, regular expressions, e-mail and system
information; event loops of other systems and the streams lsmcd does not build on;
per-process pools (`destroy`, `addFreeList`), which lsmcd never opens; the listener's accept
loop; how a file gets corrupt; limits, users and command line;
several slaves of one slice in `TidRepl`, more than two nodes in the election runs;
`Pool` of `util/` and `ls_pool`, which are built to call malloc only (`ls_pooldef.h:49`, `:114`);
netmasks with a 0 before a 1 and addresses of Unix sockets in the list of peers.

## 7. Plan

Left for proof, in this order: that `LsShmPool` keeps the file partitioned (`PoolSound`); exclusion by
the pid file in `LogFiles`, outside the race of section 5.
