----------------------------- MODULE McForward -----------------------------
(***************************************************************************)
(* A worker process on a node that is not the master of a slice: its       *)
(* client connections, the one connection m_pConnSlaveToMaster over which  *)
(* it forwards commands, and the worker of the master at the other end.    *)
(* A connection is an event handler; processIncoming runs its loop to the  *)
(* end before the next event, one iteration per action here.  Messages     *)
(* are whole: a command line with its data, or an answer that respond has  *)
(* put behind a two-byte length because the connection is internal.        *)
(***************************************************************************)
EXTENDS Integers, Sequences

CONSTANTS Clients, Link,  \* Link is not one of the Clients
          MaxReqs       \* bound of the model: requests a client sends

VARIABLES _Protocol, _ConnFlags, m_bufIncoming,  \* per connection of the slave
          _pLink,       \* of the link: the client whose command is out
          m_pWaitQ,     \* connections waiting to process their commands
          running,      \* connections processIncoming has been called for, in order
          toMaster, toSlave,    \* the two directions of the link
          mastProto, mastFlags, \* the master's end of it
          sent, answers         \* per client: requests sent, answers received

vars == << _Protocol, _ConnFlags, m_bufIncoming, _pLink, m_pWaitQ, running,
           toMaster, toSlave, mastProto, mastFlags, sent, answers >>

wires == << toMaster, toSlave, mastProto, mastFlags >>

Conns == Clients \cup {Link}

NoConn == "none"

(* Messages, told apart by what processIncoming and processCmd look at: the
   first byte (0x8f, 0x80, a printable character, or the high byte of a length,
   0) and whether there is a newline. *)
TextOps == {"set", "get", "flush_all", "set_noreply"}
BinOps == {"bin_set", "bin_get"}
Ops == TextOps \cup BinOps

FirstByte(m) == CASE m = "internal_req" -> 143
                  [] m \in {"frame", "ack"} -> 0
                  [] m \in BinOps -> 128
                  [] OTHER -> 100

HasNewline(m) == m \notin {"ack", "internal_req"} \cup BinOps

-----------------------------------------------------------------------------
(* The protocol of a connection, looked at again before each batch. *)
redetects(proto, first) ==
    \/ proto = "UNKNOWN"
    \/ first = 143
    \/ first = 128 /\ proto # "BINARY"
    \/ first <= 128 /\ proto # "ASCII"

detected(proto, first) ==
    IF ~redetects(proto, first) THEN proto
    ELSE IF first = 128 THEN "BINARY" ELSE "ASCII"

(* putWaitQ *)
putWaitQ(c) ==
    IF "CMDWAIT" \in _ConnFlags[c]
    THEN UNCHANGED << m_pWaitQ, _ConnFlags >>
    ELSE /\ m_pWaitQ' = Append(m_pWaitQ, c)
         /\ _ConnFlags' = [_ConnFlags EXCEPT ![c] = @ \cup {"CMDWAIT"}]

(* SendBuff to the client itself *)
Answer(c) == answers' = [answers EXCEPT ![c] = @ + 1]

fwdCommand(c, m) ==
    /\ toMaster' = Append(toMaster, m)
    /\ _pLink' = c
    /\ _ConnFlags' = [_ConnFlags EXCEPT ![c] = @ \cup {"RESPWAIT"},
                                        ![Link] = @ \cup {"REMBUSY"}]

(* Not while another command is out. *)
canProcessNow == "REMBUSY" \notin _ConnFlags[Link]

(* A set or a flush goes to the master, of the binary commands the eligible   *)
(* ones.                                                                      *)
fwdToRemote(m) == m \in TextOps \ {"get"}
isRemoteEligible(m) == m = "bin_set"
fwdBinToRemote(m) == m \in BinOps /\ isRemoteEligible(m)

Consume(c) == m_bufIncoming' = [m_bufIncoming EXCEPT ![c] = Tail(@)]

(* The end of a run of processIncoming for the connection at the head: an
   internal connection then runs everything that waits. *)
processWaitQ ==
    /\ running' = Tail(running) \o m_pWaitQ
    /\ m_pWaitQ' = <<>>
    /\ _ConnFlags' = [c \in Conns |-> _ConnFlags[c] \ {"CMDWAIT"}]

-----------------------------------------------------------------------------
(* Events *)

(* A client keeps to one protocol. *)
ClientSend(c, m) ==
    /\ sent[c] < MaxReqs
    /\ _Protocol[c] # "UNKNOWN" => (m \in BinOps <=> _Protocol[c] = "BINARY")
    /\ running = <<>>
    /\ sent' = [sent EXCEPT ![c] = @ + 1]
    /\ m_bufIncoming' = [m_bufIncoming EXCEPT ![c] = Append(@, m)]
    /\ running' = << c >>
    /\ _Protocol' = [_Protocol EXCEPT ![c] = detected(@, FirstByte(Append(m_bufIncoming[c], m)[1]))]
    /\ UNCHANGED << _ConnFlags, _pLink, m_pWaitQ, answers, wires >>

(* onRead of the link *)
LinkRead ==
    /\ running = <<>>
    /\ toSlave # <<>>
    /\ toSlave' = Tail(toSlave)
    /\ m_bufIncoming' = [m_bufIncoming EXCEPT ![Link] = Append(@, Head(toSlave))]
    /\ running' = << Link >>
    /\ _Protocol' = [_Protocol EXCEPT ![Link] =
                        detected(@, FirstByte(Append(m_bufIncoming[Link], Head(toSlave))[1]))]
    /\ UNCHANGED << _ConnFlags, _pLink, m_pWaitQ, toMaster, mastProto, mastFlags,
                    sent, answers >>

Cur == Head(running)

(* The loop ends: nothing left, or the command must wait. *)
Finish ==
    /\ running # <<>>
    /\ m_bufIncoming[Cur] = <<>>
    /\ IF _Protocol[Cur] = "INTERNAL" THEN processWaitQ
       ELSE running' = Tail(running) /\ UNCHANGED << m_pWaitQ, _ConnFlags >>
    /\ UNCHANGED << _Protocol, m_bufIncoming, _pLink, sent, answers, wires >>

(* One command of a client connection. *)
ClientCmd ==
    /\ running # <<>>
    /\ Cur \in Clients
    /\ m_bufIncoming[Cur] # <<>>
    /\ UNCHANGED << _Protocol, sent, toSlave, mastProto, mastFlags >>
    /\ LET c == Cur
           m == Head(m_bufIncoming[c])
       IN  \/ /\ "RESPWAIT" \in _ConnFlags[c]          \* waiting for remote response
              /\ putWaitQ(c)
              /\ running' = Tail(running)
              /\ UNCHANGED << m_bufIncoming, _pLink, toMaster, answers >>
           \/ /\ "RESPWAIT" \notin _ConnFlags[c]
              /\ m \in {"get", "bin_get"}              \* answered from the replica
              /\ Answer(c)
              /\ Consume(c)
              /\ UNCHANGED << _ConnFlags, _pLink, m_pWaitQ, running, toMaster >>
           \/ /\ "RESPWAIT" \notin _ConnFlags[c]
              /\ m \in {"set", "set_noreply"} \/ isRemoteEligible(m)
              /\ ~canProcessNow
              /\ putWaitQ(c)
              /\ running' = Tail(running)
              /\ UNCHANGED << m_bufIncoming, _pLink, toMaster, answers >>
           \/ /\ "RESPWAIT" \notin _ConnFlags[c]
              /\ m = "flush_all" \/ ((fwdToRemote(m) \/ fwdBinToRemote(m)) /\ canProcessNow)
              /\ fwdCommand(c, m)
              /\ Consume(c)
              /\ UNCHANGED << m_pWaitQ, running, answers >>

(* What the link has received while its protocol is internal. *)
processInternal ==
    /\ running # <<>>
    /\ Cur = Link
    /\ _Protocol[Link] = "INTERNAL"
    /\ m_bufIncoming[Link] # <<>>
    /\ LET m == Head(m_bufIncoming[Link])
       IN  /\ answers' = IF m = "frame" THEN [answers EXCEPT ![_pLink] = @ + 1]
                         ELSE answers
           /\ _ConnFlags' = [_ConnFlags EXCEPT ![_pLink] = @ \ {"RESPWAIT"},
                                               ![Link] = @ \ {"REMBUSY"}]
    /\ Consume(Link)
    /\ UNCHANGED << _Protocol, _pLink, m_pWaitQ, running, sent, wires >>

(* What it has received while its protocol is text: processCmd takes the bytes
   up to a newline for a command, finds none of that name and answers ERROR. *)
linkCmd ==
    LET b == m_bufIncoming[Link]
        ends == {i \in 1 .. Len(b) : HasNewline(b[i])}
    IN  /\ running # <<>>
        /\ Cur = Link
        /\ _Protocol[Link] = "ASCII"
        /\ b # <<>>
        /\ \/ /\ ends = {}                              \* need more data
              /\ running' = Tail(running)
              /\ UNCHANGED << m_bufIncoming, toMaster >>
           \/ /\ ends # {}
              /\ LET e == CHOOSE i \in ends : \A j \in ends : i <= j
                 IN m_bufIncoming' = [m_bufIncoming EXCEPT ![Link] = SubSeq(b, e + 1, Len(b))]
              /\ toMaster' = Append(toMaster, "error")
              /\ UNCHANGED running
        /\ UNCHANGED << _Protocol, _ConnFlags, _pLink, m_pWaitQ, toSlave, mastProto,
                        mastFlags, sent, answers >>

(* The master's worker: it knows the connection as internal by its first byte,
   answers every command with a length in front and a quiet one with a bare
   length; what is not a command gets an ERROR. *)
MasterRead ==
    LET m == Head(toMaster)
    IN  /\ toMaster # <<>>
        /\ toMaster' = Tail(toMaster)
        /\ mastFlags' = IF m = "internal_req" THEN mastFlags \cup {"INTERNAL"} ELSE mastFlags
        /\ mastProto' = IF m = "internal_req" THEN mastProto
                        ELSE detected(mastProto, FirstByte(m))
        /\ toSlave' = CASE m = "internal_req" -> toSlave
                        [] m = "set_noreply"  -> Append(toSlave, "ack")
                        [] OTHER              -> Append(toSlave, "frame")
        /\ UNCHANGED << _Protocol, _ConnFlags, m_bufIncoming, _pLink, m_pWaitQ, running,
                        sent, answers >>

-----------------------------------------------------------------------------
(* After setSliceDst: the link is connected, SetConnInternal has been called
   and the byte that makes it internal at the other end is on its way. *)
Init ==
    /\ _Protocol = [c \in Conns |-> IF c = Link THEN "INTERNAL" ELSE "UNKNOWN"]
    /\ _ConnFlags = [c \in Conns |-> {}]
    /\ m_bufIncoming = [c \in Conns |-> <<>>]
    /\ _pLink = NoConn
    /\ m_pWaitQ = <<>>
    /\ running = <<>>
    /\ toMaster = << "internal_req" >>
    /\ toSlave = <<>>
    /\ mastProto = "UNKNOWN"
    /\ mastFlags = {}
    /\ sent = [c \in Clients |-> 0]
    /\ answers = [c \in Clients |-> 0]

Next ==
    \/ \E c \in Clients, m \in Ops : ClientSend(c, m)
    \/ LinkRead
    \/ Finish
    \/ ClientCmd
    \/ processInternal
    \/ linkCmd
    \/ MasterRead

Spec == Init /\ [][Next]_vars

(* The event loops of both workers keep handling what has arrived; clients need
   not send anything. *)
Fairness ==
    /\ WF_vars(LinkRead)
    /\ WF_vars(Finish \/ ClientCmd \/ processInternal \/ linkCmd)
    /\ WF_vars(MasterRead)

FairSpec == Spec /\ Fairness

-----------------------------------------------------------------------------
(* A connection that is waiting for a remote response (CS_RESPWAIT, set by
   fwdCommand) stops waiting: with both nodes up and the link whole, the answer
   comes and processInternal clears the flag. *)
RespWaitEnds ==
    \A c \in Clients : ("RESPWAIT" \in _ConnFlags[c]) ~> ("RESPWAIT" \notin _ConnFlags[c])
=============================================================================
