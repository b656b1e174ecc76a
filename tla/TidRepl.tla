------------------------------ MODULE TidRepl ------------------------------
(***************************************************************************)
(* Replication of one slice from its master node to one slave node.        *)
(*                                                                         *)
(*  cached workers (master)   commit commands to the shared-memory slice   *)
(*        |  UXUP_CACHED_DATA_UPD over a UNIX socket                       *)
(*  repld (master)            bcastNewTidData, from the tid in TidTracker  *)
(*        |  RT_DATA_UPDATE over two TCP connections: broadcasts on the    *)
(*        |  one it opened, the full sync on the one the slave opened      *)
(*  repld (slave)             tidSetItems on its copy of the slice         *)
(*                                                                         *)
(* repld is single-threaded, but bcastNewTidData takes and releases the    *)
(* slice lock for each batch, so commands come in between.                 *)
(***************************************************************************)
EXTENDS LsMemcacheTid

CONSTANTS
    MaxTid,     \* bound of the model: no command starts beyond this tid
    MaxLoop,    \* batches of one bcastNewTidData (10)
    MaxPings,   \* bound of the model: pings and their answers in flight
    MaxFaults,  \* bound of the model: disconnects and worker exits
    Workers,    \* cached worker processes of the master node
    ReplRole,   \* role set for the slice in the process that applies packets
    Joined,     \* "yes": the first full sync was over before the first command
    Faults,     \* which of the faults below can happen
    NoTracker

FaultKinds == {"disconnect", "worker_exit", "master_full", "slave_full"}

ASSUME MaxLoopAssumption == MaxLoop \in Nat \ {0}
ASSUME MaxFaultsAssumption == MaxFaults \in Nat
ASSUME ReplRoleAssumption == ReplRole \in {"master", "slave"}
ASSUME JoinedAssumption == Joined \in {"yes", "no"}
ASSUME FaultsAssumption == Faults \subseteq FaultKinds
ASSUME NoTrackerAssumption == NoTracker \notin Nat

VARIABLES
    master,     \* the slice on the master node
    slave,      \* the slice on the slave node
    notifyRepld,\* UsockClnt::m_bNotifyRepld of each worker
    connMsgs,   \* UXDW_REPLD_CONN_UPD on their way to each worker
    notes,      \* number of UXUP_CACHED_DATA_UPD repld has not read, by worker
    tracker,    \* TidTracker: last tid broadcast, or NoTracker (NULL)
    bcast,      \* the call of bcastNewTidData in progress
    linkUp,     \* the connections between the two nodes
    updates,    \* batches on the connection that the master's repld opened
    fsync,      \* batches and BOTHDONE on the connection the slave opened
    pings,      \* RT_REPL_PING from the slave
    didFsync,   \* LcNodeInfo::m_pFsync of the slave
    faults      \* number of disconnects and worker exits so far

vars == << master, slave, notifyRepld, connMsgs, notes, tracker, bcast, linkUp,
           updates, fsync, pings, didFsync, faults >>

Worker == INSTANCE TidSlice WITH slice <- master

Idle == [caller |-> "none", tid |-> 0, loop |-> 0]
BothDone == << >>   \* RT_C2M_FRPEL_BOTHDONE; a batch is never empty

Init ==
    /\ \E k \in Keys, v \in Vals :
          master = InitSlice(k, v) /\ slave = InitSlice(k, v)
    /\ notifyRepld = [w \in Workers |-> TRUE] /\ linkUp = TRUE
    /\ connMsgs = [w \in Workers |-> << >>] /\ notes = [w \in Workers |-> 0]
    /\ updates = << >> /\ fsync = << >> /\ pings = << >>
    /\ tracker = 0 /\ bcast = Idle /\ faults = 0
    /\ didFsync = (Joined = "yes")

-----------------------------------------------------------------------------
(* Workers of the master node. *)

cachedNotifyData(w) ==
    notes' = IF notifyRepld[w] THEN [notes EXCEPT ![w] = @ + 1] ELSE notes

WorkerUnchanged ==
    UNCHANGED << slave, notifyRepld, connMsgs, tracker, bcast, linkUp, updates,
                 fsync, pings, didFsync, faults >>

(* set, add, replace, cas, incr, append...: doDataUpdate calls notifyChange when
   the item was stored, and not when there was no memory for it. *)
Stored(k) == find2(master', k) # {} /\ master'.tid > master.tid

StoreCmd(w) ==
    /\ \E k \in Keys :
          /\ \E v \in Vals : \/ Worker!CmdInsert(k, v)
                              \/ Worker!CmdUpdateInPlace(k, v)
                              \/ Worker!CmdUpdateRealloc(k, v)
                              \/ Worker!CmdGrow(k, v)
          /\ \/ Stored(k) /\ cachedNotifyData(w)
             \/ ~Stored(k) /\ "master_full" \in Faults /\ UNCHANGED notes
    /\ WorkerUnchanged

(* delete, touch and flush_all. *)
OtherCmd(w) ==
    /\ \/ \E k \in Keys : Worker!CmdErase(k) \/ Worker!CmdTouch(k)
       \/ Worker!CmdFlush
    /\ cachedNotifyData(w)
    /\ WorkerUnchanged

(* A get or touch that finds its key expired, and trimsize, erase the element
   and do not call notifyChange. *)
SilentErase ==
    /\ \/ \E k \in Keys : Worker!CmdErase(k)
       \/ \E off \in Offs : Worker!TrimRound(off)
    /\ UNCHANGED notes
    /\ WorkerUnchanged

recvConnChange(w) ==
    /\ connMsgs[w] # << >>
    /\ notifyRepld' = [notifyRepld EXCEPT ![w] = Head(connMsgs[w])]
    /\ connMsgs' = [connMsgs EXCEPT ![w] = Tail(@)]
    /\ UNCHANGED << master, slave, notes, tracker, bcast, linkUp, updates,
                    fsync, pings, didFsync, faults >>

-----------------------------------------------------------------------------
(* repld of the master node. *)

(* Wrong variant: the broadcast starts at the last tid, not at the tracker. *)
recvCachedNotifyFromLast(w) ==
    /\ bcast = Idle /\ notes[w] > 0
    /\ notes' = [notes EXCEPT ![w] = @ - 1]
    /\ bcast' = [caller |-> "notify", tid |-> master.tid, loop |-> 0]
    /\ UNCHANGED << master, slave, notifyRepld, connMsgs, tracker, linkUp,
                    updates, fsync, pings, didFsync, faults >>

recvCachedNotify(w) ==
    /\ bcast = Idle /\ notes[w] > 0
    /\ notes' = [notes EXCEPT ![w] = @ - 1]
    /\ bcast' = IF tracker = NoTracker THEN Idle
                ELSE [caller |-> "notify", tid |-> tracker, loop |-> 0]
    /\ UNCHANGED << master, slave, notifyRepld, connMsgs, tracker, linkUp,
                    updates, fsync, pings, didFsync, faults >>

(* The slave's status: a full sync is due when it reports none so far; as the
   slave's tid is at most its own, isFullReplNeeded is then true on the master. *)
isFullReplNeeded(ping) == ~ping.didFsync /\ master.tid >= ping.tid

svrHandleClientPingStatus ==
    /\ bcast = Idle /\ pings # << >>
    /\ pings' = Tail(pings)
    /\ bcast' = IF isFullReplNeeded(Head(pings))
                THEN [caller |-> "ping", tid |-> Head(pings).tid, loop |-> 0]
                ELSE Idle
    /\ UNCHANGED << master, slave, notifyRepld, connMsgs, notes, tracker,
                    linkUp, updates, fsync, didFsync, faults >>

(* One batch: sendPacket does nothing on a connection that is closed. *)
bcastBatch(expired) ==
    LET r == tidGetNxtItems(master, bcast.tid, expired)
        msgs == IF linkUp /\ r.pkts # << >> THEN << r.pkts >> ELSE << >>
        last == r.pkts = << >> /\ r.stop = "end"
    IN  /\ bcast.caller # "none" /\ bcast.loop < MaxLoop
        /\ master' = r.s
        /\ updates' = IF bcast.caller = "notify" THEN updates \o msgs ELSE updates
        /\ fsync' = IF bcast.caller = "ping" THEN fsync \o msgs ELSE fsync
        /\ bcast' = [bcast EXCEPT !.tid = r.last,
                                  !.loop = IF last THEN MaxLoop ELSE @ + 1]
        /\ UNCHANGED << slave, notifyRepld, connMsgs, notes, tracker, linkUp,
                        pings, didFsync, faults >>

(* The call returns: the tracker follows, or the slave is told that the full
   sync is done. *)
bcastReturn ==
    /\ bcast.caller # "none" /\ bcast.loop = MaxLoop
    /\ bcast' = Idle
    /\ tracker' = IF bcast.caller = "notify" THEN bcast.tid ELSE tracker
    /\ fsync' = IF bcast.caller = "ping" /\ linkUp
                THEN Append(fsync, BothDone) ELSE fsync
    /\ UNCHANGED << master, slave, notifyRepld, connMsgs, notes, linkUp,
                    updates, pings, didFsync, faults >>

-----------------------------------------------------------------------------
(* repld of the slave node. *)

(* The status ping after joining, and again whenever the heartbeat is due. *)
sockClientPingSvrStatus ==
    /\ linkUp /\ Len(pings) + Len(fsync) < MaxPings
    /\ ~didFsync    \* a ping that reports the full sync done changes nothing
    /\ pings' = Append(pings, [tid |-> slave.tid, didFsync |-> didFsync])
    /\ UNCHANGED << master, slave, notifyRepld, connMsgs, notes, tracker, bcast,
                    linkUp, updates, fsync, didFsync, faults >>

Apply(batch) ==
    \E how \in [1 .. Len(batch) -> IF "slave_full" \in Faults THEN Stores
                                   ELSE Stores \ {"full"}] :
        slave' = tidSetItems(slave, batch, how, ReplRole)

handleUpdate ==
    /\ updates # << >>
    /\ Apply(Head(updates))
    /\ updates' = Tail(updates)
    /\ UNCHANGED << master, notifyRepld, connMsgs, notes, tracker, bcast,
                    linkUp, fsync, pings, didFsync, faults >>

handleFsync ==
    /\ fsync # << >>
    /\ \/ Head(fsync) # BothDone /\ Apply(Head(fsync)) /\ UNCHANGED didFsync
       \/ Head(fsync) = BothDone /\ didFsync' = TRUE /\ UNCHANGED slave
    /\ fsync' = Tail(fsync)
    /\ UNCHANGED << master, notifyRepld, connMsgs, notes, tracker, bcast,
                    linkUp, updates, pings, faults >>

-----------------------------------------------------------------------------
(* Faults. *)

repldNotifyConn(up) == [w \in Workers |-> Append(connMsgs[w], up)]

(* The connections break, with what is in them; repld learns of it, and tells
   the workers how many connections there are. *)
Disconnect ==
    /\ "disconnect" \in Faults /\ faults < MaxFaults /\ linkUp
    /\ linkUp' = FALSE /\ faults' = faults + 1
    /\ updates' = << >> /\ fsync' = << >> /\ pings' = << >>
    /\ connMsgs' = repldNotifyConn(FALSE)
    /\ UNCHANGED << master, slave, notifyRepld, notes, tracker, bcast, didFsync >>

(* connAllListenSvr on its timer, and the answer to the join request. *)
Reconnect ==
    /\ ~linkUp
    /\ linkUp' = TRUE
    /\ connMsgs' = repldNotifyConn(TRUE)
    /\ UNCHANGED << master, slave, notifyRepld, notes, tracker, bcast, updates,
                    fsync, pings, didFsync, faults >>

(* A worker exits: repld deletes its UsockSvr, and the TidTracker of all.  The
   worker that replaces it does not know of any connection yet. *)
UsockSvrRecycle(w) ==
    /\ "worker_exit" \in Faults /\ faults < MaxFaults
    /\ bcast = Idle /\ tracker # NoTracker
    /\ tracker' = NoTracker /\ faults' = faults + 1
    /\ notifyRepld' = [notifyRepld EXCEPT ![w] = FALSE]
    /\ notes' = [notes EXCEPT ![w] = 0]
    /\ connMsgs' = [connMsgs EXCEPT ![w] = << >>]
    /\ UNCHANGED << master, slave, bcast, linkUp, updates, fsync, pings, didFsync >>

(* The new worker connects: initTidTracker. *)
UsockAccept ==
    /\ bcast = Idle /\ tracker = NoTracker
    /\ tracker' = master.tid
    /\ UNCHANGED << master, slave, notifyRepld, connMsgs, notes, bcast, linkUp,
                    updates, fsync, pings, didFsync, faults >>

-----------------------------------------------------------------------------
Next ==
    \/ \E w \in Workers :
          \/ StoreCmd(w) \/ OtherCmd(w) \/ recvConnChange(w)
          \/ recvCachedNotify(w) \/ UsockSvrRecycle(w)
    \/ SilentErase
    \/ svrHandleClientPingStatus
    \/ \E expired \in SUBSET master.live : bcastBatch(expired)
    \/ bcastReturn
    \/ sockClientPingSvrStatus \/ handleUpdate \/ handleFsync
    \/ Disconnect \/ Reconnect \/ UsockAccept

Spec == Init /\ [][Next]_vars

(* The event loops of the two repld processes keep running and the kernel keeps
   delivering; nothing is assumed of the clients, nor of faults.  For the two
   actions that compute batches the definition of WF is written out with their
   guards, which TLC evaluates faster than ENABLED. *)
BatchDue == bcast.caller # "none" /\ bcast.loop < MaxLoop

Fairness ==
    /\ \A w \in Workers : WF_vars(recvCachedNotify(w))
    /\ WF_vars(bcastReturn)
    /\ []<>(~BatchDue) \/ []<><<\E expired \in SUBSET master.live :
                                  bcastBatch(expired)>>_vars
    /\ []<>(updates = << >>) \/ []<><<handleUpdate>>_vars

LiveSpec == Spec /\ Fairness

-----------------------------------------------------------------------------
(* Properties. *)

Batches == {b \in Seq(Packets) : Len(b) \in 1 .. BatchMax}

(* Types, and that a batch fits its buffer. *)
TypeOK ==
    /\ master \in Slices /\ slave \in Slices
    /\ notifyRepld \in [Workers -> BOOLEAN] /\ notes \in [Workers -> Nat]
    /\ linkUp \in BOOLEAN /\ didFsync \in BOOLEAN /\ faults \in 0 .. MaxFaults
    /\ tracker \in Nat \cup {NoTracker}
    /\ bcast \in [caller : {"none", "notify", "ping"}, tid : Nat,
                  loop : 0 .. MaxLoop]
    /\ updates \in Seq(Batches) /\ fsync \in Seq(Batches \cup {BothDone})
    /\ pings \in Seq([tid : Nat, didFsync : BOOLEAN])
    /\ connMsgs \in [Workers -> Seq(BOOLEAN)]

(* What a table entry records: a stored item, the deletion of one, a flush. *)
Transaction(s, b, i) ==
    LET v == EntryAt(s, b, i)
    IN  IF isTidValIterOff(v) /\ v.arg # 0
        THEN << "iter", s.key[v.arg], s.val[v.arg] >>
        ELSE << v.kind, v.arg >>

(* A tid names the same transaction on both nodes, whatever was lost, repeated
   or overtaken on the way: what the slave has under a tid is what the master
   has there, unless one of them has cleared it since. *)
SameTransaction ==
    Aligned(master) /\ Aligned(slave) =>
        \A b \in 1 .. Len(master.blks), c \in 1 .. Len(slave.blks),
           i \in 0 .. BlkSz - 1 :
            /\ master.blks[b].base = slave.blks[c].base
            /\ EntryAt(master, b, i) # NoVal /\ EntryAt(slave, c, i) # NoVal
            => Transaction(master, b, i) = Transaction(slave, c, i)

(* Replaying packets never leaves an entry of the slave's table on an element
   that was released, so that a slave that becomes master can broadcast it. *)
SlaveEntriesLive == Aligned(slave) => EntriesLive(slave)

Contents(s) == {<< s.key[o], s.val[o], s.link[o] >> : o \in s.live}

(* isAllClientSync: when the slave reports the tid of the master it has the
   data of the master, so that the roles can be flipped without a loss. *)
InSync == slave.tid = master.tid => Contents(slave) = Contents(master)

(* The same while the block indices of both nodes are aligned. *)
InSyncIfAligned == Aligned(master) /\ Aligned(slave) => InSync

(* What a worker has announced reaches the slave: once a notification is on its
   way, the slave gets to the tid that the master has now.  No further command
   is needed for it. *)
AnnouncedReachesSlave ==
    \A t \in 1 .. MaxTid :
        (master.tid >= t /\ \E w \in Workers : notes[w] > 0)
            ~> (slave.tid >= t \/ ~Aligned(master))

=============================================================================
