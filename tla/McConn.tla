------------------------------- MODULE McConn -------------------------------
(***************************************************************************)
(* A client connection of a worker: what the client sends arrives in       *)
(* pieces of any size, commands are cut out of what has arrived, answers   *)
(* go to the socket while it takes them and into a buffer when it is full. *)
(* A byte is the number of its command and what it is; an answer is a      *)
(* sequence of units numbered by the command it answers.  Also the table   *)
(* of text commands and the switch that looks a name up in it.             *)
(***************************************************************************)
EXTENDS Integers, Sequences, FiniteSets, SequencesExt, FiniteSetsExt

CONSTANTS
    CnRoom,     \* units the socket takes before the client reads
    CnOutLimit, \* units of m_bufOutgoing before appendOutput flushes
    MaxCnCmds   \* bound of the model: commands the client sends

VARIABLES
    cn,     \* the connection: state, buffers, write interest, socket
    cnSrc,  \* the client: bytes not yet sent, commands of each number
    cnGot,  \* what the client has received
    cnDone, \* the commands executed, in order
    probe   \* a name looked up, and what was found
cnVars == <<cn, cnSrc, cnGot, cnDone, probe>>

-----------------------------------------------------------------------------
(* Sending.  The connection is a record, so that what a handler does is    *)
(* one change of it.                                                       *)
connContinueWrite(c) == [c EXCEPT !.pollout = TRUE]
suspendWrite(c) == [c EXCEPT !.pollout = FALSE]

(* How much one write takes; an error closes, once events are handled. *)
taken(c, msg) == IF c.broken THEN 0 ELSE Min({Len(msg), CnRoom - Len(c.wire)})
connSendEx(c, msg) ==
    [c EXCEPT !.wire = @ \o SubSeq(msg, 1, taken(c, msg)), !.state = IF c.broken THEN "closing" ELSE @]

(* What the socket does not take is buffered, and the connection counts    *)
(* as connected again, even after an error.                                *)
SendBuffAll(c, msg) ==
    LET sent == connSendEx(c, msg)
        n == taken(c, msg)
    IN  IF n = Len(msg) THEN [sent EXCEPT !.state = "connected"]
        ELSE connContinueWrite([sent EXCEPT !.out = @ \o SubSeq(msg, n + 1, Len(msg)), !.state = "connected"])
SendBuff(c, msg) ==
    LET sent == IF c.out = << >> THEN connSendEx(c, msg) ELSE c
        n == IF c.out = << >> THEN taken(c, msg) ELSE 0
        rest == [sent EXCEPT !.out = @ \o SubSeq(msg, n + 1, Len(msg)), !.state = "connected"]
    IN  IF n = Len(msg) THEN rest ELSE connContinueWrite(rest)

connFlush(c) ==
    LET n == taken(c, c.out)
        sent == [connSendEx(c, c.out) EXCEPT !.out = SubSeq(@, n + 1, Len(@))]
    IN  CASE ~c.open -> c
          [] c.open /\ c.out = << >> -> suspendWrite(c)
          [] c.open /\ c.out # << >> /\ n = Len(c.out) -> suspendWrite(sent)
          [] OTHER -> connContinueWrite(sent)

appendOutput(c, msg) ==
    LET f == IF Len(c.out) > CnOutLimit THEN connFlush(c) ELSE c
    IN  IF Len(c.out) > CnOutLimit /\ f.out = << >> /\ Len(msg) > 1 THEN SendBuff(f, msg)
        ELSE [f EXCEPT !.out = @ \o msg]

CloseConnection(c) ==
    IF c.state = "disconnected" THEN c
    ELSE [c EXCEPT !.state = "disconnected", !.open = FALSE, !.in = << >>, !.out = << >>, !.pollout = FALSE]

-----------------------------------------------------------------------------
(* Commands: a line, then data for a store.  "r" and "n" end a line; the   *)
(* first of them becomes a null byte for good, the second is put back when *)
(* the data have not arrived.                                              *)
CmdLine(i, what) == <<[cmd |-> i, ch |-> what], [cmd |-> i, ch |-> "r"], [cmd |-> i, ch |-> "n"]>>
Bytes(i, what) == IF what = "store" THEN CmdLine(i, what) \o <<[cmd |-> i, ch |-> "d"], [cmd |-> i, ch |-> "d"]>> ELSE CmdLine(i, what)
DataLen == 2

(* Retrieval appends its answer and a text command ends with a flush; a    *)
(* store answers at once.                                                  *)
unitsOf(i, what) == IF what = "get" THEN <<i, i>> ELSE <<i>>
execute(c, i, what) ==
    connFlush(IF what = "get" THEN appendOutput(c, unitsOf(i, what)) ELSE SendBuff(c, unitsOf(i, what)))

newline(b) == {k \in DOMAIN b : b[k].ch = "n"}

(* consumed: -1 for more data, 0 to close. *)
processTextCmd(c) ==
    LET b == c.in
        e == Min(newline(b))
        data == IF b[1].ch = "store" THEN DataLen ELSE 0
        cut == [c EXCEPT !.in[e - 1].ch = "0"]
    IN  CASE newline(b) = {} -> [consumed |-> -1, conn |-> c, done |-> << >>]
          [] newline(b) # {} /\ b[1].ch = "quit" -> [consumed |-> 0, conn |-> cut, done |-> <<b[1].cmd>>]
          [] newline(b) # {} /\ b[1].ch # "quit" /\ Len(b) - e < data -> [consumed |-> -1, conn |-> cut, done |-> << >>]
          [] OTHER -> [consumed |-> e + data, conn |-> execute(cut, b[1].cmd, b[1].ch), done |-> <<b[1].cmd>>]

(* One turn of connProcessIncoming's loop. *)
turn(x) ==
    LET p == processTextCmd(x.conn)
    IN  IF ~x.go \/ x.conn.in = << >> THEN [x EXCEPT !.go = FALSE]
        ELSE [conn |-> IF p.consumed = 0 THEN CloseConnection(p.conn)
                       ELSE [p.conn EXCEPT !.in = SubSeq(@, Max({p.consumed, 0}) + 1, Len(@))],
              done |-> x.done \o p.done, go |-> p.consumed > 0]

connProcessIncoming(c, done) ==
    LET end == FoldLeft(LAMBDA x, k : turn(x), [conn |-> c, done |-> done, go |-> TRUE], [k \in 1 .. MaxCnCmds + 1 |-> k])
    IN  [conn |-> IF end.conn.out # << >> THEN connFlush(end.conn) ELSE end.conn, done |-> end.done]

-----------------------------------------------------------------------------
(* Events. *)
NoProbe == [name |-> << >>, found |-> -1]
InitCn ==
    /\ cn = [state |-> "connected", open |-> TRUE, in |-> << >>, out |-> << >>, pollout |-> TRUE, wire |-> << >>, broken |-> FALSE]
    /\ \E n \in 1 .. MaxCnCmds : \E what \in [1 .. n -> {"get", "store", "quit"}] :
          cnSrc = [left |-> FlattenSeq([i \in 1 .. n |-> Bytes(i, what[i])]), what |-> what, arrived |-> << >>]
    /\ cnGot = << >> /\ cnDone = << >> /\ probe = NoProbe

ClientWrites(k) ==
    /\ cn.open /\ ~cn.broken /\ Len(cnSrc.arrived) + k <= 6 /\ k <= Len(cnSrc.left)
    /\ cnSrc' = [cnSrc EXCEPT !.left = SubSeq(@, k + 1, Len(@)), !.arrived = @ \o SubSeq(cnSrc.left, 1, k)]
    /\ UNCHANGED <<cn, cnGot, cnDone, probe>>

ClientReads ==
    /\ cn.wire # << >>
    /\ cnGot' = Append(cnGot, Head(cn.wire))
    /\ cn' = [cn EXCEPT !.wire = Tail(@)]
    /\ UNCHANGED <<cnSrc, cnDone, probe>>

ClientGone == cn.open /\ ~cn.broken /\ cn' = [cn EXCEPT !.broken = TRUE] /\ UNCHANGED <<cnSrc, cnGot, cnDone, probe>>

(* onRead: what has arrived, or the end of the stream. *)
onRead(c, bytes) == connProcessIncoming([c EXCEPT !.in = @ \o bytes], cnDone)
Read(c, bytes) ==
    IF bytes = << >> THEN [conn |-> [c EXCEPT !.state = IF c.broken THEN "closing" ELSE @], done |-> cnDone]
    ELSE onRead(c, bytes)

connOnWrite(c) == IF c.out = << >> THEN suspendWrite(c) ELSE connFlush(c)

(* handleEvents: reading, writing, then closing when either asked for it.  *)
handleConnEvents(in, out, hup) ==
    /\ cn.open /\ (in \/ out \/ hup)
    /\ in => cnSrc.arrived # << >> \/ cn.broken
    /\ out => cn.pollout /\ (Len(cn.wire) < CnRoom \/ cn.broken)
    /\ hup => cn.broken
    /\ LET r == IF in THEN Read(cn, cnSrc.arrived) ELSE [conn |-> cn, done |-> cnDone]
           w == IF out THEN connOnWrite(r.conn) ELSE r.conn
           h == IF hup THEN [w EXCEPT !.state = "closing"] ELSE w
       IN  /\ cn' = IF h.state = "closing" THEN CloseConnection(h) ELSE h
           /\ cnDone' = r.done
           /\ cnSrc' = IF in THEN [cnSrc EXCEPT !.arrived = << >>] ELSE cnSrc
    /\ UNCHANGED <<cnGot, probe>>

-----------------------------------------------------------------------------
(* The command table, and the switch over the first characters.            *)
s_LsMcCmdFuncs == <<
    <<"t", "e", "s", "t", "1">>,
    <<"t", "e", "s", "t", "2">>,
    <<"p", "r", "i", "n", "t", "t", "i", "d", "s">>,
    <<"g", "e", "t">>,
    <<"b", "g", "e", "t">>,
    <<"g", "e", "t", "s">>,
    <<"a", "d", "d">>,
    <<"s", "e", "t">>,
    <<"r", "e", "p", "l", "a", "c", "e">>,
    <<"a", "p", "p", "e", "n", "d">>,
    <<"p", "r", "e", "p", "e", "n", "d">>,
    <<"c", "a", "s">>,
    <<"i", "n", "c", "r">>,
    <<"d", "e", "c", "r">>,
    <<"d", "e", "l", "e", "t", "e">>,
    <<"t", "o", "u", "c", "h">>,
    <<"s", "t", "a", "t", "s">>,
    <<"f", "l", "u", "s", "h", "_", "a", "l", "l">>,
    <<"v", "e", "r", "s", "i", "o", "n">>,
    <<"q", "u", "i", "t">>,
    <<"s", "h", "u", "t", "d", "o", "w", "n">>,
    <<"v", "e", "r", "b", "o", "s", "i", "t", "y">>,
    <<"c", "l", "e", "a", "r">>>>

CmdNames == ToSet(s_LsMcCmdFuncs)
CmdChars == {"a", "e", "s", "t", "1", "_"}

Position(p, name, offset) ==
    IF /\ Len(name) = Len(s_LsMcCmdFuncs[p + 1])
       /\ \A k \in offset + 1 .. Len(name) : name[k] = s_LsMcCmdFuncs[p + 1][k]
    THEN p ELSE -1
Possible(c1, c2, c3) ==
    CASE c1 = "b" -> <<4, 1>>
      [] c1 = "f" -> <<17, 1>>
      [] c1 = "i" -> <<12, 1>>
      [] c1 = "q" -> <<19, 1>>
      [] c1 = "r" -> <<8, 1>>
      [] c1 = "a" -> IF c2 = "d" THEN <<6, 2>> ELSE IF c2 = "p" THEN <<9, 2>> ELSE <<-1, 0>>
      [] c1 = "c" -> IF c2 = "a" THEN <<11, 2>> ELSE IF c2 = "l" THEN <<22, 2>> ELSE <<-1, 0>>
      [] c1 = "d" -> IF c2 = "e" /\ c3 = "c" THEN <<13, 3>> ELSE IF c2 = "e" /\ c3 = "l" THEN <<14, 3>> ELSE <<-1, 0>>
      [] c1 = "p" -> IF c2 = "r" /\ c3 = "i" THEN <<2, 3>> ELSE IF c2 = "r" /\ c3 = "e" THEN <<10, 3>> ELSE <<-1, 0>>
      [] c1 = "s" -> IF c2 = "e" THEN <<7, 2>> ELSE IF c2 = "t" THEN <<16, 2>> ELSE IF c2 = "h" THEN <<20, 2>> ELSE <<-1, 0>>
      [] OTHER -> <<-1, 0>>

getCmdFunction(name) ==
    LET n == Len(name)
        p == Possible(name[1], name[2], name[3])
        er == n >= 7 /\ SubSeq(name, 2, 3) = <<"e", "r">>
        est == n = 5 /\ SubSeq(name, 2, 4) = <<"e", "s", "t">>
        et == SubSeq(name, 2, 3) = <<"e", "t">>
    IN  CASE n < 3 -> -1
          [] n >= 3 /\ name[1] = "v" ->
                IF er /\ name[4] = "s" THEN Position(18, name, 4) ELSE IF er /\ name[4] = "b" THEN Position(21, name, 4) ELSE -1
          [] n >= 3 /\ name[1] = "t" ->
                IF name[2] = "o" THEN Position(15, name, 2)
                ELSE IF est /\ name[5] = "1" THEN 0 ELSE IF est /\ name[5] = "2" THEN 1 ELSE -1
          [] n >= 3 /\ name[1] = "g" -> IF et /\ n = 3 THEN 3 ELSE IF et /\ n = 4 /\ name[4] = "s" THEN 5 ELSE -1
          [] OTHER -> IF p[1] = -1 THEN -1 ELSE Position(p[1], name, p[2])

(* Names that are commands, or nearly. *)
Near(s) ==
    {s, Front(s), Tail(s)} \cup {Append(s, c) : c \in CmdChars}
        \cup {[s EXCEPT ![k] = c] : k \in DOMAIN s, c \in CmdChars}
LookUp ==
    /\ probe = NoProbe /\ cn.in = << >> /\ cnDone = << >> /\ cnSrc.left = Bytes(1, "quit") /\ cn.pollout
    /\ \E s \in UNION {Near(t) : t \in CmdNames} : probe' = [name |-> s, found |-> getCmdFunction(s)]
    /\ UNCHANGED <<cn, cnSrc, cnGot, cnDone>>

NextCn ==
    \/ LookUp
    \/ /\ probe = NoProbe
       /\ \/ \E k \in 1 .. 6 : ClientWrites(k)
          \/ ClientReads
          \/ ClientGone
          \/ \E in, out, hup \in BOOLEAN : handleConnEvents(in, out, hup)

-----------------------------------------------------------------------------
(* Answers reach the client whole, once and in the order of its commands:  *)
(* what it has received, what the socket holds and what m_bufOutgoing      *)
(* holds are together the answers of the commands executed, as long as the *)
(* connection is open, however SendBuff, appendOutput and Flush divide     *)
(* them.                                                                   *)
AnswersOf(done) == FlattenSeq([k \in 1 .. Len(done) |-> IF cnSrc.what[done[k]] = "quit" THEN << >> ELSE unitsOf(done[k], cnSrc.what[done[k]])])
AnswersInOrder == cn.open => cnGot \o cn.wire \o cn.out = AnswersOf(cnDone)

(* An answer that waits in m_bufOutgoing is sent once the socket takes it: *)
(* between events its write interest is on.                                *)
WriteKept == cn.open /\ cn.out # << >> => cn.pollout

(* A command is executed when all of it has arrived, once, in order, and   *)
(* never before, whatever pieces it arrives in: between events, what is    *)
(* left in m_bufIncoming is the beginning of the next command.             *)
CmdsWhole ==
    LET n == Len(cnDone)
    IN  /\ \A k \in 1 .. n : cnDone[k] = k
        /\ cn.open /\ n < Len(cnSrc.what) =>
              /\ Len(cn.in) < Len(Bytes(n + 1, cnSrc.what[n + 1]))
              /\ \A k \in DOMAIN cn.in : cn.in[k].cmd = n + 1

(* getCmdFunction finds a command for its name in s_LsMcCmdFuncs, and      *)
(* nothing for any other name.                                             *)
TableExact ==
    probe # NoProbe =>
        IF probe.name \in CmdNames THEN probe.found # -1 /\ s_LsMcCmdFuncs[probe.found + 1] = probe.name
        ELSE probe.found = -1
=============================================================================
