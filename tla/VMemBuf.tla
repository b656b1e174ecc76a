------------------------------ MODULE VMemBuf ------------------------------
(***************************************************************************)
(* A growing buffer of blocks, in malloc'ed or anonymous memory or mapped  *)
(* from a file, with a cursor that writes and one that reads.  Blocks of   *)
(* the file are unmapped behind the cursors and mapped again when one      *)
(* comes back; blocks of anonymous memory go to a pool that all buffers    *)
(* share.  Any system call can fail.  A call that failed half way leaves   *)
(* the buffer to reinit or close, and one that loses the list of blocks to *)
(* close alone.  After a seekWritePos the read cursor may be adrift, and    *)
(* only seekRwOff or close are then safe.  What the methods leave to their *)
(* callers is in the guards: no write cursor before the read cursor,       *)
(* offsets within what was written.                                        *)
(***************************************************************************)
EXTENDS Integers, Sequences, SequencesExt, FiniteSetsExt

CONSTANTS
    BlkSize,     \* s_iBlockSize (8192)
    MaxAnon,     \* s_iMaxAnonMapBlocks
    PoolKeep,    \* blocks that releaseAnonPool leaves in the pool (20)
    BigTarget,   \* the size from which a buffer is a file (1024 * 1024)
    MaxBlks,     \* bound of the model: blocks
    MaxVmOps     \* bound of the model: calls

VARIABLE vm
vmVars == <<vm>>

NoCursor == [at |-> 0, off |-> 0, end |-> 0]   \* m_pCur?Block, m_pCur?Pos, m_cur?BlkPos
FirstBlock == [at |-> 1, off |-> 0, end |-> BlkSize]
Zeros == [i \in 1 .. BlkSize |-> 0]
Left == [i \in 1 .. BlkSize |-> -1]            \* what a block of the pool happens to hold
Enough == 2 * MaxBlks                          \* system calls an operation makes at most

(* A step of a method that returns at the first failure.  q system calls   *)
(* succeed before one fails.                                               *)
Failed(v) == [v EXCEPT !.ret = -1]
Then(v, Op(_)) == IF v.ret = 0 THEN Op(v) ELSE v
SysCall(v) == IF v.q = 0 THEN Failed(v) ELSE [v EXCEPT !.q = @ - 1]

-----------------------------------------------------------------------------
(* Blocks. *)

appendBlock(v, data) == [v EXCEPT !.blks = Append(@, [data |-> data, mapped |-> TRUE])]
releaseBlock(v, b) == [v EXCEPT !.blks[b].mapped = FALSE]
remapBlock(v, b) == Then(SysCall(v), LAMBDA w : [w EXCEPT !.blks[b].mapped = TRUE])
Mapped(v, b) == IF v.blks[b].mapped THEN v ELSE remapBlock(v, b)

(* From the pool, with what it holds, or new.                              *)
getAnonMapBlock(v) ==
    IF v.pool > 0 THEN [appendBlock(v, Left) EXCEPT !.pool = @ - 1, !.anon = @ + 1]
    ELSE Then(SysCall(v), LAMBDA w : [appendBlock(w, Zeros) EXCEPT !.anon = @ + 1])

(* recycle, of the n last blocks.                                          *)
recycle(v, n) ==
    [v EXCEPT !.blks = SubSeq(@, 1, Len(@) - n),
              !.anon = IF v.type = "ANON" THEN @ - n ELSE @,
              !.pool = IF v.type = "ANON" /\ ~v.noRecycle THEN @ + n ELSE @]

(* What is counted goes back by the size, not by the list.                 *)
releaseBlocks(v) ==
    [recycle(v, Len(v.blks)) EXCEPT
        !.anon = IF v.type = "ANON" THEN v.anon - v.total \div BlkSize ELSE @,
        !.w = NoCursor, !.r = NoCursor, !.total = 0]

deallocate(v) == releaseBlocks([v EXCEPT !.fd = @ /\ v.type # "FILE"])

(* close, with reset: a buffer of no memory that does not grow.            *)
vmClosed(v) ==
    [releaseBlocks(v) EXCEPT !.type = "MALLOC", !.fd = FALSE, !.fsize = 0, !.autoGrow = FALSE,
                             !.noRecycle = FALSE]

(* set(type, size), with the size of a block: a file starts with none.     *)
WithBlock(v) == [v EXCEPT !.total = BlkSize, !.w = FirstBlock, !.r = FirstBlock]
vmSet(v, type) ==
    LET t == [v EXCEPT !.type = type, !.autoGrow = @ \/ type # "MALLOC"]
    IN  CASE type = "MALLOC" -> Then(SysCall(t), LAMBDA w : WithBlock(appendBlock(w, Zeros)))
          [] type = "ANON"   -> Then(getAnonMapBlock(t), WithBlock)
          [] type = "FILE"   -> Then(SysCall(t), LAMBDA w : [w EXCEPT !.fd = TRUE, !.fsize = 0])

vmGrow(v) ==
    LET more(w) == [w EXCEPT !.total = @ + BlkSize]
        new(w) == more(appendBlock(w, Zeros))
    IN  CASE v.type = "MALLOC" -> Then(SysCall(v), new)
          [] v.type = "ANON"   -> Then(getAnonMapBlock(v), more)
          [] v.type = "FILE"   ->
                LET longer(w) == [w EXCEPT !.fsize = w.total + BlkSize]
                IN  IF ~v.fd THEN Failed(v)
                    ELSE Then(SysCall(v), LAMBDA w : Then(SysCall(longer(w)), new))

-----------------------------------------------------------------------------
(* The cursors from block to block. *)

(* Of a file, the block behind is unmapped, unless the reader is in it.    *)
leaveWBlockAlways(v) == IF v.type = "FILE" /\ v.w.at # 0 THEN releaseBlock(v, v.w.at) ELSE v
leaveWBlock(v) ==
    IF v.type = "FILE" /\ v.w.at # 0 /\ v.w.at # v.r.at THEN releaseBlock(v, v.w.at) ELSE v

mapNextWBlock(v) ==
    LET file == v.type = "FILE"
        grown == IF v.w.at # 0 /\ v.w.at < Len(v.blks) THEN v
                 ELSE IF v.autoGrow THEN vmGrow(v) ELSE Failed(v)
        there(g) == IF file THEN Mapped(g, g.w.at + 1) ELSE g
        moved(g) == [g EXCEPT !.w = [at |-> @.at + 1, off |-> 0, end |-> @.at * BlkSize + BlkSize],
                              !.r = IF v.w.at = 0 THEN FirstBlock ELSE @]
    IN  Then(Then(grown, there), LAMBDA g : moved(leaveWBlock(g)))

(* The cursor moves before the block is mapped.                            *)
mapNextRBlock(v) ==
    LET rel == IF v.r.at # 0 /\ v.type = "FILE" /\ v.w.at # v.r.at THEN releaseBlock(v, v.r.at) ELSE v
    IN  IF v.r.end >= v.w.end THEN Failed(v)
        ELSE Then(Mapped([rel EXCEPT !.r.at = @ + 1], v.r.at + 1),
                  LAMBDA n : [n EXCEPT !.r.off = 0, !.r.end = @ + BlkSize])

rewoundR(v) ==
    LET rel(m) == IF v.r.at \notin {0, 1, v.w.at} THEN releaseBlock(m, v.r.at) ELSE m
        first(m) == [m EXCEPT !.r = FirstBlock]
    IN  IF v.type = "FILE" THEN Then(Mapped(v, 1), LAMBDA m : first(rel(m))) ELSE first(v)

getCurROffset(v) == IF v.r.at = 0 THEN 0 ELSE v.r.end - (BlkSize - v.r.off)
getCurWOffset(v) == IF v.w.at = 0 THEN 0 ELSE v.w.end - (BlkSize - v.w.off)

(* Bytes between the cursors, and whether there are any.                   *)
writeBufSize(v) ==
    IF v.w.at = v.r.at THEN v.w.off - v.r.off ELSE (v.w.end - v.r.end) + v.w.off - v.r.off
vmEmpty(v) == v.r.end >= v.w.end /\ (v.w.at = 0 \/ v.r.off >= v.w.off)

-----------------------------------------------------------------------------
(* Operations.  state: "good", "failed" (a call did not do what it should),*)
(* "lost" (the list of blocks is not what the cursors say), "hung",        *)
(* "adrift" (the read cursor points where its block was).                  *)
Unread(v) == Len(v.written) - v.read
Start(v, q) == [v EXCEPT !.q = q, !.ret = 0, !.ops = @ + 1]
Ended(v, bad) == [v EXCEPT !.q = Enough, !.ret = 0, !.state = IF v.ret = 0 THEN @ ELSE bad]
(* VMemBuf: reset, a buffer without memory, next to buffers that hold      *)
(* others anonymous blocks.                                                *)
NewVm(others) ==
    [type |-> "MALLOC", blks |-> << >>, total |-> 0, w |-> NoCursor, r |-> NoCursor,
     fd |-> FALSE, fsize |-> 0, autoGrow |-> FALSE, noRecycle |-> FALSE, pool |-> 0,
     max |-> MaxAnon, anon |-> others, others |-> others,
     q |-> Enough, ret |-> 0, state |-> "good",
     written |-> << >>,     \* bytes between the start and the write cursor
     read |-> 0,            \* how many of them the read cursor has passed
     sound |-> TRUE,        \* every byte handed out was the one written
     ops |-> 0]

(* MMapVMemBuf: a file when anonymous memory is low or the target large.   *)
RoomOfAnon(v) == v.max - v.anon
lowOnAnonMem(v) == RoomOfAnon(v) < v.max \div 4
MMapVMemBuf(v, target) ==
    vmSet(v, IF \/ lowOnAnonMem(v)
                \/ target > BigTarget
                \/ target >= RoomOfAnon(v) * BlkSize
             THEN "FILE" ELSE "ANON")

Targets == {-1, BlkSize, BigTarget, BigTarget + 1}
InitVm ==
    \E others \in {0, MaxAnon - 1} :
       \/ vm = NewVm(others)
       \/ \E target \in Targets : vm = MMapVMemBuf(NewVm(others), target)

Usable == vm.ops < MaxVmOps /\ vm.state = "good"
Calls == 0 .. 2 \cup {Enough}
RoomFor(n) == Len(vm.written) + n <= MaxBlks * BlkSize

(* The rest of the block, then block after block.  The position moves only *)
(* with the last piece: a write that fails reports more than it advanced.  *)
Filled(v, s) ==
    [v EXCEPT !.blks[v.w.at].data = [i \in 1 .. BlkSize |->
                 IF i > v.w.off /\ i <= v.w.off + Len(s) THEN s[i - v.w.off] ELSE @[i]]]
RECURSIVE writeBlocks(_, _)
writeBlocks(v, s) ==
    LET room == BlkSize - v.w.off
        put(m) == IF Len(s) <= room THEN [Filled(m, s) EXCEPT !.w.off = @ + Len(s)]
                  ELSE Then(mapNextWBlock(Filled(m, SubSeq(s, 1, room))),
                            LAMBDA n : writeBlocks(n, SubSeq(s, room + 1, Len(s))))
    IN  put(v)
vmWrite(s, q) ==
    /\ Usable /\ RoomFor(Len(s))
    /\ LET v == Start(vm, q)
           done == IF v.w.at = 0 THEN Then(mapNextWBlock(v), LAMBDA n : writeBlocks(n, s))
                   ELSE writeBlocks(v, s)
       IN  vm' = [Ended(done, "failed") EXCEPT !.written = SubSeq(@ \o s, 1, getCurWOffset(done))]

(* write of a part of another buffer: what its getReadBuffer returns is    *)
(* written piece by piece.  The other buffer here is one in memory with    *)
(* the bytes n, n - 1 .. 1 in blocks of BlkSize.                           *)
SourceLen == 2 * BlkSize
SourceByte(i) == SourceLen - i
RECURSIVE writePieces(_, _, _)
writePieces(v, offset, n) ==
    LET len == Min({n, BlkSize - (offset % BlkSize), SourceLen - offset})
        piece == [i \in 1 .. len |-> SourceByte(offset + i - 1)]
        put == IF v.w.at = 0 THEN Then(mapNextWBlock(v), LAMBDA m : writeBlocks(m, piece))
               ELSE writeBlocks(v, piece)
    IN  IF len <= 0 THEN v ELSE Then(put, LAMBDA m : writePieces(m, offset + len, n - len))
vmWriteFrom(offset, n, q) ==
    /\ Usable /\ RoomFor(n) /\ offset + n <= SourceLen
    /\ LET done == writePieces(Start(vm, q), offset, n)
           all == vm.written \o [i \in 1 .. n |-> SourceByte(offset + i - 1)]
       IN  vm' = [Ended(done, "failed") EXCEPT !.written = SubSeq(all, 1, getCurWOffset(done))]

(* A full block makes room for the next one.                               *)
getWriteBuffer(q) ==
    /\ Usable /\ RoomFor(1) /\ (vm.w.at = 0 \/ vm.w.off >= BlkSize)
    /\ vm' = Ended(mapNextWBlock(Start(vm, q)), "good")

(* Takes back the last n bytes, none of which has been read.               *)
RECURSIVE rewound(_, _)
rewound(v, n) ==
    IF v.w.off >= n THEN [v EXCEPT !.w.off = @ - n]
    ELSE IF v.w.at <= 1 THEN [v EXCEPT !.w.off = 0]
    ELSE Then(Mapped([v EXCEPT !.w = [at |-> @.at - 1, off |-> BlkSize, end |-> @.end - BlkSize]],
                     v.w.at - 1),
              LAMBDA m : rewound(m, n - v.w.off))
rewindWOff(n, q) ==
    /\ Usable /\ vm.w.at # 0 /\ n <= Unread(vm)
    /\ vm' = [Ended(rewound(Start(vm, q), n), "lost") EXCEPT !.written = SubSeq(@, 1, Len(@) - n)]

(* Forgets what has not been read.                                         *)
rewindWriteBuf ==
    /\ Usable
    /\ vm' = IF vm.r.at # 0
             THEN [Start(vm, Enough) EXCEPT !.w = vm.r, !.written = SubSeq(@, 1, vm.read)]
             ELSE [Start(vm, Enough) EXCEPT !.r = vm.w, !.read = Len(vm.written)]

(* seekWritePos: the list grows to the size of the file, which may have    *)
(* grown when a block could not be mapped, and the file to hold the offset.*)
(* At the start of a block that is not there the list is read past its end.*)
(* The block is mapped again even when it is mapped: a read cursor in it   *)
(* stays in the old mapping.  A list that grows may move, and m_pCurRBlock *)
(* is not moved with it.  Both leave the reader adrift.                    *)
Byte(v, i) == v.blks[(i \div BlkSize) + 1].data[(i % BlkSize) + 1]
sought(v, offset) ==
    LET size == ((offset + BlkSize - 1) \div BlkSize) * BlkSize
        b == (offset \div BlkSize) + 1
        more(n) == [i \in 1 .. (n \div BlkSize) - Len(v.blks) |-> [data |-> Zeros, mapped |-> FALSE]]
        sized(w, n) == [w EXCEPT !.total = n, !.fsize = n, !.blks = @ \o more(n)]
        grown == IF size <= v.fsize THEN sized(v, v.fsize)
                 ELSE Then(SysCall([v EXCEPT !.total = v.fsize]), LAMBDA w : sized(w, size))
        to(w) == IF b > Len(w.blks) THEN [Failed(w) EXCEPT !.w.at = b]
                 ELSE Then(remapBlock([w EXCEPT !.w.at = b], b), LAMBDA m :
                           [m EXCEPT !.w = [at |-> b, off |-> offset % BlkSize, end |-> b * BlkSize],
                                     !.written = [i \in 1 .. offset |->
                                         IF i <= Len(@) THEN @[i] ELSE Byte(m, i - 1)]])
    IN  Then(grown, to)
Adrift(v, to, moved) == v.r.at = to.w.at \/ (v.r.at # 0 /\ moved /\ Len(to.blks) > Len(v.blks))
seekWritePos(offset, moved, q) ==
    /\ Usable /\ vm.type = "FILE" /\ vm.fd /\ offset >= vm.read /\ offset < MaxBlks * BlkSize
    /\ LET v == Ended(sought(Start(vm, q), offset), "lost")
       IN  vm' = IF v.state = "good" /\ Adrift(vm, v, moved) THEN [v EXCEPT !.state = "adrift"] ELSE v
seekRwOff(offset, q) ==
    /\ vm.ops < MaxVmOps /\ vm.state \in {"good", "adrift"}
    /\ vm.type = "FILE" /\ vm.fd /\ offset < MaxBlks * BlkSize
    /\ LET v == sought([Start(vm, q) EXCEPT !.state = "good"], offset)
       IN  vm' = Ended([v EXCEPT !.r = v.w, !.read = offset], "lost")

(* getReadBuffer, and use of n of its bytes.                               *)
vmRead(n, q) ==
    LET s == Start(vm, q)
        v == IF s.r.at = 0 \/ s.r.off >= BlkSize THEN mapNextRBlock(s) ELSE s
        size == IF v.r.end = v.w.end THEN v.w.off - v.r.off ELSE BlkSize - v.r.off
    IN  /\ Usable
        /\ IF v.ret # 0 THEN vm.r.end < vm.w.end /\ vm' = Ended(v, "failed")
           ELSE /\ n <= size
                /\ vm' = [Ended(v, "good") EXCEPT
                     !.r.off = @ + n, !.read = @ + n,
                     !.sound = @ /\ v.blks[v.r.at].mapped
                                 /\ SubSeq(v.blks[v.r.at].data, v.r.off + 1, v.r.off + n)
                                      = SubSeq(vm.written, vm.read + 1, vm.read + n)]

rewindReadBuf(q) ==
    /\ Usable /\ vm.blks # << >>
    /\ vm' = [Ended(rewoundR(Start(vm, q)), "failed") EXCEPT !.read = 0]

(* The loop over blocks ends when the block of the offset is reached; when *)
(* there is none, or one cannot be mapped, it does not.  A rewind that      *)
(* fails is not noticed: the position is then before the block.            *)
RECURSIVE stepped(_, _)
stepped(v, offset) ==
    IF offset < v.r.end THEN [v EXCEPT !.r.off = offset - (v.r.end - BlkSize)]
    ELSE Then(mapNextRBlock(v), LAMBDA m : stepped(m, offset))
setROffset(offset, q) ==
    /\ Usable /\ offset <= vm.total /\ offset <= Len(vm.written)
    /\ LET v == Start(vm, q)
           a == IF offset < getCurROffset(v) THEN rewoundR(v) ELSE v
       IN  vm' = [(IF a.ret # 0 THEN Ended(a, "failed") ELSE Ended(stepped(a, offset), "hung"))
                     EXCEPT !.read = offset]

(* Copies of n bytes, as many as the blocks have, piece by piece: to the   *)
(* end of the request or of a block of the source.  A block is mapped only *)
(* for the copy, which fails when that does and leaves the buffer as it is.*)
bytesFrom(v, offset, n) ==
    [i \in 1 .. Min({n, Len(v.blks) * BlkSize - offset}) |-> Byte(v, offset + i - 1)]
SameAsWritten(v, offset, bytes) ==
    \A i \in DOMAIN bytes : offset + i <= Len(v.written) => bytes[i] = v.written[offset + i]
copyPiece(v, c) ==
    LET sz == Min({c.len, BlkSize - c.off})
    IN  [blk |-> c.blk + 1, off |-> 0, len |-> c.len - sz,
         out |-> c.out \o SubSeq(v.blks[c.blk].data, c.off + 1, c.off + sz)]
copyToBuf(offset, n, q) ==
    LET blk == (offset \div BlkSize) + 1
        piece(c, b) == IF c.len = 0 THEN c ELSE copyPiece(vm, c)
        done == FoldLeft(piece, [blk |-> blk, off |-> offset % BlkSize, len |-> n, out |-> << >>],
                         [b \in 1 .. Len(vm.blks) - blk + 1 |-> b])
    IN  /\ Usable /\ blk <= Len(vm.blks)
        /\ vm' = [Start(vm, Enough) EXCEPT
                     !.sound = @ /\ (q > 0 => /\ done.out = bytesFrom(vm, offset, n)
                                             /\ SameAsWritten(vm, offset, done.out))]

(* mapTmpBlock: a piece also ends with the mapped block of the destination,*)
(* and the next one is mapped at the place the copy has come to.           *)
copyFilePiece(v, c) ==
    LET sz == Min({c.len, BlkSize - c.off, BlkSize - (c.dst % BlkSize)})
        full == c.off + sz = BlkSize
    IN  [c EXCEPT !.blk = IF full THEN @ + 1 ELSE @, !.off = IF full THEN 0 ELSE @ + sz,
                  !.dst = @ + sz, !.len = @ - sz,
                  !.out = [i \in DOMAIN @ |-> IF i > c.dst /\ i <= c.dst + sz
                                              THEN v.blks[c.blk].data[c.off + i - c.dst] ELSE @[i]]]
copyToFile(offset, n, dest, q) ==
    LET blk == (offset \div BlkSize) + 1
        piece(c, i) == IF c.len = 0 \/ c.blk > Len(vm.blks) THEN c ELSE copyFilePiece(vm, c)
        done == FoldLeft(piece, [blk |-> blk, off |-> offset % BlkSize, dst |-> dest, len |-> n,
                                 out |-> [i \in 1 .. dest + n |-> 0]],     \* ftruncate
                         [i \in 1 .. 2 * n |-> i])
        bytes == bytesFrom(vm, offset, n)
    IN  /\ Usable /\ blk <= Len(vm.blks)
        /\ vm' = [Start(vm, Enough) EXCEPT
                     !.sound = @ /\ (q > 0 => /\ \A i \in 1 .. dest : done.out[i] = 0
                                             /\ SubSeq(done.out, dest + 1, dest + Len(bytes)) = bytes
                                             /\ SameAsWritten(vm, offset, bytes))]

(* exactSize: the file is cut, the last thing done to it before it is      *)
(* closed, by what the write cursor's block has left: behind the cursor    *)
(* when that is the last block; otherwise more is kept than was written.   *)
exactSize(v) == IF v.w.at = 0 THEN v.total ELSE v.total - (BlkSize - v.w.off)
vmFinish ==
    /\ Usable /\ vm.fd
    /\ vm' = [Start(vm, Enough) EXCEPT
                 !.state = "failed",
                 !.sound = @ /\ exactSize(vm) >= Len(vm.written)
                             /\ (vm.w.at = Len(vm.blks) => exactSize(vm) = Len(vm.written))]

-----------------------------------------------------------------------------
(* A new use of the buffer. *)

(* shrinkBuf: the cursors point at the first block but keep their          *)
(* positions, so that reinit must follow; with no block left they dangle.  *)
shrinkBuf(size) ==
    LET keep == Min({Len(vm.blks), Max({0, size}) \div BlkSize})
        v == recycle(Start(vm, Enough), Len(vm.blks) - keep)
        first(c) == IF keep = 0 THEN c ELSE [c EXCEPT !.at = 1]
    IN  /\ vm.ops < MaxVmOps /\ vm.state \in {"good", "failed"}
        /\ vm' = [v EXCEPT !.total = keep * BlkSize,
                           !.fsize = IF vm.type = "FILE" /\ vm.fd /\ vm.total > size
                                     THEN keep * BlkSize ELSE @,
                           !.w = first(@), !.r = first(@),
                           !.state = IF vm.blks = << >> THEN @ ELSE IF keep = 0 THEN "lost" ELSE "failed"]

(* reinit: kept, or changed between memory and file as memory allows.      *)
kind(v, target) ==
    CASE v.type = "ANON" /\ (target >= RoomOfAnon(v) * BlkSize \/ target > BigTarget) -> "FILE"
      [] v.type = "FILE" /\ target < BigTarget /\ RoomOfAnon(v) > v.max \div 5
                         /\ target < RoomOfAnon(v) * BlkSize -> "ANON"
      [] OTHER -> v.type
reinited(v, target) ==
    LET to == kind(v, target)
        other == IF to = v.type THEN v
                 ELSE vmSet(IF to = "FILE" THEN releaseBlocks(v) ELSE deallocate(v), to)
        rel(m) == [m EXCEPT !.blks = [b \in DOMAIN @ |->
                      IF b # 1 /\ b \in {m.w.at, m.r.at} THEN [@[b] EXCEPT !.mapped = FALSE] ELSE @[b]]]
        tidy(m) == IF v.type = "FILE" /\ m.blks # << >> THEN Then(Mapped(m, 1), rel) ELSE m
        first(m) == IF m.blks = << >> THEN m ELSE [m EXCEPT !.w = FirstBlock, !.r = FirstBlock]
    IN  Then(Then(other, tidy), first)
reinit(target, q) ==
    /\ vm.ops < MaxVmOps /\ vm.state \in {"good", "failed"}
    /\ vm' = [Ended([reinited(Start(vm, q), target) EXCEPT !.state = "good"], "failed")
                 EXCEPT !.written = << >>, !.read = 0]

(* The write cursor stands at the start of the last block: the others are  *)
(* mapped for good, and the last is replaced by anonymous memory.          *)
convertFileBackedToInMemory(q) ==
    LET s == Start(vm, q)
        rest == [s EXCEPT !.blks = Front(@), !.noRecycle = @ \/ Len(vm.blks) > 1,
                          !.anon = @ + Len(vm.blks) - 1]
        all == FoldLeft(LAMBDA v, b : Then(v, LAMBDA w : Mapped(w, b)), rest,
                        [b \in 1 .. Len(rest.blks) |-> b])
        anon(v) == getAnonMapBlock([v EXCEPT !.fd = FALSE, !.type = "ANON"])
    IN  /\ Usable /\ vm.type = "FILE"
        /\ vm.w.at # 0 /\ vm.w.off = 0 /\ vm.w.at = Len(vm.blks)
        /\ vm' = Ended(Then(all, anon), "lost")

(* close, and a buffer set up again.                                       *)
vmClose ==
    /\ vm.ops < MaxVmOps /\ vm.state # "hung"
    /\ vm' = [vmClosed(Start(vm, Enough)) EXCEPT
                 !.state = IF vm.state = "lost" THEN @ ELSE "good", !.written = << >>, !.read = 0]
vmReset(type, q) ==
    /\ Usable /\ vm.type = "MALLOC" /\ vm.blks = << >>
    /\ vm' = Ended(vmSet(Start(vm, q), type), "failed")

(* set with a block of the caller's, which does not grow.                  *)
vmSetBlock ==
    /\ Usable /\ vm.type = "MALLOC" /\ vm.blks = << >>
    /\ vm' = WithBlock(appendBlock(Start(vm, Enough), Zeros))

(* set with the name of a file, opened empty, and setfd with an empty one. *)
OnFile(v) == [v EXCEPT !.type = "FILE", !.autoGrow = TRUE]
vmSetFile(q) ==
    /\ Usable /\ vm.type = "MALLOC" /\ vm.blks = << >>
    /\ vm' = Ended(Then(SysCall(OnFile(Start(vm, q))),
                        LAMBDA w : [w EXCEPT !.fd = TRUE, !.fsize = 0]), "failed")
vmSetfd ==
    /\ Usable /\ vm.type = "MALLOC" /\ vm.blks = << >>
    /\ vm' = [OnFile(Start(vm, Enough)) EXCEPT !.fd = TRUE, !.fsize = 0]

releaseAnonPool ==
    /\ vm.ops < MaxVmOps /\ vm.pool > PoolKeep
    /\ vm' = [Start(vm, Enough) EXCEPT !.pool = PoolKeep]

setMaxAnonMapSize(sz) ==
    /\ vm.ops < MaxVmOps /\ sz >= 0
    /\ vm' = [Start(vm, Enough) EXCEPT !.max = sz \div BlkSize]

Offsets == 0 .. MaxBlks * BlkSize
NextVm ==
    \/ \E n \in {1, BlkSize + 1}, q \in Calls : vmWrite([i \in 1 .. n |-> vm.ops + 1], q)
    \/ \E q \in Calls : getWriteBuffer(q) \/ rewindReadBuf(q) \/ convertFileBackedToInMemory(q)
    \/ \E n \in {1, BlkSize + 1}, q \in {0, Enough} : rewindWOff(n, q)
    \/ \E n \in 1 .. BlkSize, q \in {0, Enough} : vmRead(n, q)
    \/ \E o \in Offsets, q \in {0, 1, Enough} : setROffset(o, q)
    \/ \E o \in Offsets, q \in Calls : seekRwOff(o, q) \/ \E moved \in BOOLEAN : seekWritePos(o, moved, q)
    \/ \E o \in 0 .. 1, q \in {0, Enough} : vmWriteFrom(o, BlkSize, q)
    \/ \E o \in Offsets, q \in {0, Enough} : copyToBuf(o, BlkSize, q)
    \/ \E o, n \in 1 .. BlkSize + 1, dest \in 0 .. 1, q \in {0, Enough} : copyToFile(o, n, dest, q)
    \/ \E target \in Targets, q \in Calls : reinit(target, q)
    \/ \E n \in 0 .. 2 : shrinkBuf(n * BlkSize)
    \/ setMaxAnonMapSize(BlkSize)
    \/ \E type \in {"MALLOC", "ANON", "FILE"}, q \in {0, Enough} : vmReset(type, q)
    \/ \E q \in {0, Enough} : vmSetFile(q)
    \/ vmSetBlock \/ vmSetfd
    \/ rewindWriteBuf \/ vmFinish \/ vmClose \/ releaseAnonPool

-----------------------------------------------------------------------------
(* Whatever order writes, reads, seeks, rewinds and copies come in, however *)
(* often blocks were unmapped in between and the buffer was set up anew     *)
(* after a failure, a byte read is the byte written at that place, and the  *)
(* file is never cut before the last byte written.                          *)
ReadBack == vm.sound

(* While no call failed and the reader is not adrift, both cursors stand in *)
(* blocks that are mapped, their block positions agree with the block they  *)
(* stand in, and the bytes between them are as many as writeBufSize says.   *)
CursorsMapped ==
    vm.state = "good" =>
       /\ \A c \in {vm.w, vm.r} :
             c.at # 0 => vm.blks[c.at].mapped /\ c.end = c.at * BlkSize
       /\ vm.total = Len(vm.blks) * BlkSize
       /\ vm.r.at # 0 \/ vm.w.at = 0 => writeBufSize(vm) = Unread(vm)
       /\ vmEmpty(vm) => Unread(vm) = 0

(* The count of anonymous blocks, which decides when buffers go to files,   *)
(* is the number of anonymous blocks held, unless a conversion to memory    *)
(* failed half way.                                                         *)
AnonCounted ==
    vm.state # "lost" => vm.anon = vm.others + (IF vm.type = "ANON" THEN Len(vm.blks) ELSE 0)
=============================================================================
