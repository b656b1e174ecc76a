------------------------------ MODULE ReplLink ------------------------------
(***************************************************************************)
(* A replication connection: the client object that reconnects, one server *)
(* object for each accepted socket, the ring buffers of both, and a stream *)
(* between them that takes only so many bytes at a time.  Packets are      *)
(* header bytes and payload bytes; the receiver finds their borders by the *)
(* headers alone.                                                          *)
(***************************************************************************)
EXTENDS Integers, Sequences, SequencesExt

(***************************************************************************)
(* The ring buffer behind every replication connection.  A buffer is its   *)
(* memory, a capacity and two positions; one byte stays free so that an    *)
(* empty and a full buffer differ.                                         *)
(***************************************************************************)

CONSTANTS
    LoopBufUnit,   \* LOOPBUFUNIT (64)
    NoByte         \* memory never written

Smaller(a, b) == IF a < b THEN a ELSE b

(* What the bytes between the two positions are. *)
lbSize(b) == (b.end - b.head + b.cap) % b.cap
lbBytes(b) == [i \in 1 .. lbSize(b) |-> b.mem[(b.head + i - 1) % b.cap]]

lbAvailable(b) ==
    IF b.head > b.end THEN b.head - b.end - 1 ELSE b.head + b.cap - b.end - 1

(* Bytes from the head to the end of memory or of the data.                *)
lbBlockSize(b) == IF b.head > b.end THEN b.cap - b.head ELSE b.end - b.head

(* What begin() points at: bytes past the end of memory are not the data's. *)
lbBlock(b, n) ==
    [i \in 1 .. n |-> IF b.head + i - 1 < b.cap THEN b.mem[b.head + i - 1] ELSE NoByte]

(* Room from the end on without wrapping. *)
lbContiguous(b) ==
    IF b.head > b.end THEN b.head - b.end - 1
    ELSE IF b.head = 0 THEN b.cap - b.end - 1 ELSE b.cap - b.end

lbClear(b) == [b EXCEPT !.head = 0, !.end = 0]

(* Rounds up to the next unit, and moves the bytes to new memory. *)
lbAllocate(b, n) ==
    LET size == ((n + LoopBufUnit) \div LoopBufUnit) * LoopBufUnit
        bytes == IF b.cap = 0 THEN << >> ELSE lbBytes(b)
    IN IF size <= b.cap THEN b
       ELSE [ mem |-> [i \in 0 .. size - 1 |->
                          IF i < Len(bytes) THEN bytes[i + 1] ELSE NoByte],
              cap |-> size, head |-> 0, end |-> Len(bytes) ]

lbNew(n) == lbAllocate([mem |-> << >>, cap |-> 0, head |-> 0, end |-> 0], n)

lbGuarantee(b, n) ==
    IF n <= lbAvailable(b) THEN b ELSE lbAllocate(b, n + lbSize(b) + 1)

lbUsed(b, n) == [b EXCEPT !.end = (b.end + n) % b.cap]

(* Copies up to the end of memory, and the rest to its start. *)
lbAppend(b, s) ==
    LET Copied(g, len) ==
            [g EXCEPT !.mem = [i \in 0 .. g.cap - 1 |->
                IF i >= g.end /\ i < g.end + len THEN s[i - g.end + 1]
                ELSE IF i < Len(s) - len THEN s[len + i + 1]
                ELSE g.mem[i]]]
        Grown(g) == lbUsed(Copied(g, Smaller(lbContiguous(g), Len(s))), Len(s))
    IN IF s = << >> THEN b ELSE Grown(lbGuarantee(b, Len(s)))

lbPopFront(b, n) ==
    IF n >= lbSize(b) THEN lbClear(b)
    ELSE [b EXCEPT !.head = (b.head + n) % b.cap]

(* The first block starts at the head and, when the data wraps, the second  *)
(* one at the start of memory.                                              *)
lbMoved(b, n) == SubSeq(lbBytes(b), 1, Smaller(n, lbSize(b)))

(* A buffer whose data wraps is taken out and put back in one block. *)
lbStraight(b) ==
    IF lbBlockSize(b) = lbSize(b) THEN b
    ELSE lbAppend(lbPopFront(b, lbSize(b)), lbMoved(b, lbSize(b)))
-----------------------------------------------------------------------------

CONSTANTS
    ConnBufSize,   \* 4096, the size a connection's buffers start with
    ReadSize,      \* 4096, of the buffer in onRead
    SockRoom,      \* bytes a socket takes before write would block
    HdrLen, PackLen,   \* sizeof(ReplPacketHeader), and of a whole packet
    MaxSockets,    \* bound of the model: connections of the client
    MaxPacks       \* bound of the model: packets per direction and socket

Sockets == 1 .. MaxSockets
Packet(n) == [i \in 1 .. PackLen |-> [pack |-> n, at |-> i]]

VARIABLE rl
linkVars == <<rl>>

NewConn(st) == [st |-> st, out |-> lbNew(ConnBufSize), in |-> lbNew(ConnBufSize), wr |-> FALSE]
NewSocket == [c2s |-> << >>, s2c |-> << >>, shut |-> FALSE]

InitLink == \E d \in {"c2s", "s2c"} :
    rl = [ dir  |-> d,      \* the end that sends: the directions are apart
           cl   |-> NewConn("DISCONNECTED"),
           sv   |-> [k \in Sockets |-> NewConn("NONE")],
           sock |-> [k \in Sockets |-> NewSocket],
           cur  |-> 0,
           broken |-> FALSE,   \* some end has closed for a bad header
           sent |-> [k \in Sockets |-> [c2s |-> 0, s2c |-> 0]],
           got  |-> [k \in Sockets |-> [c2s |-> << >>, s2c |-> << >>]] ]

-----------------------------------------------------------------------------
(* Both ends are handled by the same functions of ReplConn.  x is          *)
(* [conn, wire]: the object and the bytes on their way to the peer.        *)

Room(x) == SockRoom - Len(x.wire)

(* SendEx of the first n bytes, and pop_front of what was taken. *)
SendEx(x, n) ==
    LET sent == Smaller(n, Room(x)) IN
    IF x.conn.st # "CONNECTED" \/ sent = 0 THEN x
    ELSE [ conn |-> [x.conn EXCEPT !.out = lbPopFront(@, sent)],
           wire |-> x.wire \o lbBlock(x.conn.out, sent) ]

(* The first block of the ring: what begin() and getBlockSize name.        *)
SendBlock(x) == SendEx(x, lbBlockSize(x.conn.out))

continueWrite(x) == [x EXCEPT !.conn.wr = TRUE]

(* Sends the first block of the ring only. *)
(* Wrong variant: waits for room only when nothing could be sent. *)
sendBuffOnce(x, s) ==
    LET Sent(a, b) == IF lbSize(b.conn.out) = lbSize(a.conn.out) THEN continueWrite(b) ELSE b
        Queued(a) == Sent(a, SendBlock(a))
    IN Queued([x EXCEPT !.conn.out = lbAppend(@, s)])

sendBuff(x, s) ==
    LET Sent(b) == IF lbSize(b.conn.out) > 0 THEN continueWrite(b) ELSE b
    IN Sent(SendBlock([x EXCEPT !.conn.out = lbAppend(@, s)]))

(* All blocks; the server's connection then stops waiting for room. *)
Flush(x, server) ==
    LET Sent(b) == IF lbSize(b.conn.out) > 0 THEN continueWrite(b)
                   ELSE IF server THEN [b EXCEPT !.conn.wr = FALSE] ELSE b
    IN IF x.conn.st # "CONNECTED" THEN x ELSE Sent(SendBlock(SendBlock(x)))

(* onWrite and onWriteSuccess. *)
onWrite(x, server) ==
    LET Done(b) == IF ~server /\ lbSize(b.conn.out) = 0 THEN [b EXCEPT !.conn.wr = FALSE] ELSE b
    IN Done(IF lbSize(x.conn.out) > 0 THEN Flush(x, server) ELSE x)

(* ReplPacketHeader::unpack: > 0 a whole packet, < 0 bytes missing, 0 not a  *)
(* header.                                                                   *)
unpack(bytes) ==
    IF Len(bytes) < HdrLen THEN Len(bytes) - HdrLen
    ELSE IF \E i \in 1 .. HdrLen : bytes[i] # [pack |-> bytes[1].pack, at |-> i] THEN 0
    ELSE IF Len(bytes) < PackLen THEN Len(bytes) - PackLen
    ELSE PackLen

(* processIncoming: the packets taken, what is left, and whether the stream *)
(* is broken.                                                               *)
Unpacked(b, bytes) ==
    LET Start(n) == SubSeq(bytes, (n - 1) * PackLen + 1, Len(bytes))
        Pack(j) == SubSeq(bytes, (j - 1) * PackLen + 1, j * PackLen)
        Whole(p) == IF p = Packet(p[1].pack) THEN p[1].pack ELSE 0
        Taken(n) == [ packs |-> [j \in 1 .. n |-> Whole(Pack(j))],
                      in |-> lbPopFront(b, n * PackLen),
                      bad |-> unpack(Start(n + 1)) = 0 ]
    IN Taken(CHOOSE m \in 0 .. Len(bytes) \div PackLen :
                /\ \A j \in 1 .. m : unpack(Start(j)) > 0
                /\ unpack(Start(m + 1)) <= 0)

processIncoming(in, more) ==
    LET Straight(b) == Unpacked(b, lbBytes(b))
    IN Straight(lbStraight(lbAppend(in, more)))

-----------------------------------------------------------------------------
(* The client object.  A new socket needs the old one closed. *)

ClientEnd == [conn |-> rl.cl, wire |-> rl.sock[rl.cur].c2s]
SetClient(x) == [rl EXCEPT !.cl = x.conn, !.sock[rl.cur].c2s = x.wire]

clearConnection(c) ==
    [c EXCEPT !.st = "DISCONNECTED", !.out = lbClear(@), !.in = lbClear(@), !.wr = FALSE]

connectTo ==
    /\ rl.cl.st = "DISCONNECTED" /\ rl.cur < MaxSockets
    /\ rl' = [rl EXCEPT !.cur = @ + 1, !.cl.st = "CONNECTING", !.cl.wr = TRUE]

onInitConnected ==
    /\ rl.cl.st = "CONNECTING" /\ rl.cl.wr
    /\ \/ rl' = SetClient(onWrite([ClientEnd EXCEPT !.conn.st = "CONNECTED"], FALSE))
       \/ rl' = [rl EXCEPT !.cl = clearConnection(@), !.sock[rl.cur].shut = TRUE]

clientSendPacket ==
    /\ rl.dir = "c2s" /\ rl.cl.st \in {"CONNECTED", "CONNECTING"}
    /\ rl.sent[rl.cur].c2s < MaxPacks
    /\ LET n == rl.sent[rl.cur].c2s + 1 IN
       rl' = [SetClient(sendBuff(ClientEnd, Packet(n))) EXCEPT !.sent[rl.cur].c2s = n]

clientOnWrite ==
    /\ rl.cl.st = "CONNECTED" /\ rl.cl.wr /\ Room(ClientEnd) > 0
    /\ rl' = SetClient(onWrite(ClientEnd, FALSE))

clientOnRead(n) ==
    /\ rl.cl.st = "CONNECTED" /\ n \in 1 .. Smaller(ReadSize, Len(rl.sock[rl.cur].s2c))
    /\ LET wire == rl.sock[rl.cur].s2c IN
       \E r \in {processIncoming(rl.cl.in, SubSeq(wire, 1, n))} :
          LET c == [rl.cl EXCEPT !.in = r.in] IN
          rl' = [(IF r.bad THEN [rl EXCEPT !.cl = clearConnection(c),
                                           !.sock[rl.cur].shut = TRUE]
                  ELSE SetClient(Flush([ClientEnd EXCEPT !.conn = c], FALSE))) EXCEPT
                    !.sock[rl.cur].s2c = SubSeq(wire, n + 1, Len(wire)),
                    !.got[rl.cur].s2c = @ \o r.packs, !.broken = @ \/ r.bad]

(* The heartbeat timed out, or the socket reports the end. *)
clientClose ==
    /\ rl.cl.st \in {"CONNECTED", "CONNECTING"}
    /\ rl' = [rl EXCEPT !.cl = clearConnection(@), !.sock[rl.cur].shut = TRUE]

-----------------------------------------------------------------------------
(* The server's objects, one per accepted socket. *)

ServerEnd(k) == [conn |-> rl.sv[k], wire |-> rl.sock[k].s2c]
SetServer(k, x) == [rl EXCEPT !.sv[k] = x.conn, !.sock[k].s2c = x.wire]

(* ReplListener::handleEvents and svrInitConn. *)
Accept(k) ==
    /\ k <= rl.cur /\ rl.sv[k].st = "NONE"
    /\ rl' = [rl EXCEPT !.sv[k] = NewConn("CONNECTED")]

serverSendPacket(k) ==
    /\ rl.dir = "s2c" /\ rl.sv[k].st = "CONNECTED" /\ rl.sent[k].s2c < MaxPacks
    /\ LET n == rl.sent[k].s2c + 1 IN
       rl' = [SetServer(k, sendBuff(ServerEnd(k), Packet(n))) EXCEPT !.sent[k].s2c = n]

serverOnWrite(k) ==
    /\ rl.sv[k].st = "CONNECTED" /\ rl.sv[k].wr /\ Room(ServerEnd(k)) > 0
    /\ rl' = SetServer(k, onWrite(ServerEnd(k), TRUE))

serverOnRead(k, n) ==
    /\ rl.sv[k].st = "CONNECTED" /\ n \in 1 .. Smaller(ReadSize, Len(rl.sock[k].c2s))
    /\ LET wire == rl.sock[k].c2s
           Read(x) == IF lbSize(x.conn.out) > 0 THEN Flush(x, TRUE) ELSE x
       IN
       \E r \in {processIncoming(rl.sv[k].in, SubSeq(wire, 1, n))} :
          rl' = [(IF r.bad THEN [rl EXCEPT !.sv[k] = NewConn("DELETED"),
                                           !.sock[k].shut = TRUE]
                  ELSE SetServer(k, Read([ServerEnd(k) EXCEPT !.conn.in = r.in]))) EXCEPT
                    !.sock[k].c2s = SubSeq(wire, n + 1, Len(wire)),
                    !.got[k].c2s = @ \o r.packs, !.broken = @ \/ r.bad]

(* handleSockCloseEvent: the end of the stream, or an error at any time. *)
serverClose(k) ==
    /\ rl.sv[k].st = "CONNECTED"
    /\ rl' = [rl EXCEPT !.sv[k] = NewConn("DELETED"), !.sock[k].shut = TRUE]

NextLink ==
    \/ connectTo \/ onInitConnected \/ clientSendPacket \/ clientOnWrite \/ clientClose
    \/ \E n \in 1 .. ReadSize : clientOnRead(n)
    \/ \E k \in Sockets :
          \/ Accept(k) \/ serverSendPacket(k) \/ serverOnWrite(k) \/ serverClose(k)
          \/ \E n \in 1 .. ReadSize : serverOnRead(k, n)

-----------------------------------------------------------------------------
(* On every socket each end takes the peer's packets in order, none lost    *)
(* between two others, none twice and none damaged, however the ring        *)
(* buffers wrap and grow and the stream cuts the bytes.                     *)
PacketsInOrder ==
    \A k \in Sockets, d \in {"c2s", "s2c"} :
       /\ Len(rl.got[k][d]) <= rl.sent[k][d]
       /\ \A i \in DOMAIN rl.got[k][d] : rl.got[k][d][i] = i

(* No end ever takes what it reads for a broken header and closes, whatever *)
(* packet an earlier socket of the same object was cut off in.              *)
HeadersSound == ~rl.broken

(* A connected end with bytes left to send waits for the socket to take     *)
(* them: nothing stays in the ring for want of an event.                    *)
WriteWatched ==
    /\ rl.cl.st = "CONNECTED" /\ lbSize(rl.cl.out) > 0 => rl.cl.wr
    /\ \A k \in Sockets :
          rl.sv[k].st = "CONNECTED" /\ lbSize(rl.sv[k].out) > 0 => rl.sv[k].wr
=============================================================================
