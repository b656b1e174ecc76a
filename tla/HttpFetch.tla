----------------------------- MODULE HttpFetch -----------------------------
(***************************************************************************)
(* The HTTP client of the util library: one request at a time, sent and    *)
(* answered in pieces of any size, driven by the event loop or by a        *)
(* blocking caller.  The request is a number of units of header and of     *)
(* body; each line of the answer is two units, the second with its end.    *)
(* The server may answer at any time after the connect.  Two things end a  *)
(* behaviour: an answer read before the request is sent makes recvResp     *)
(* loop for ever (fetchEnd is "spin"), and a line of the header that two   *)
(* reads cut leaves getLine's pointers in two buffers ("split").           *)
(***************************************************************************)
EXTENDS Integers, Sequences, SequencesExt

CONSTANTS
    ReqHeader,       \* m_reqHeaderLen, units
    ReqBodies,       \* values of m_reqBodyLen
    MaxBody,         \* bound of the model: units of body of an answer
    MaxFetches       \* bound of the model: requests of one object

VARIABLES
    fetch,      \* the HttpFetch
    wire,       \* the connection: what the server got, what is on its way back
    fetchEnd    \* what ended the behaviour: "no", "spin" or "split"
fetchVars == <<fetch, wire, fetchEnd>>

(* m_respBodyLen has no initial value; -1 stands for no length given. *)
NewFetch(len) ==
    [st |-> 0, fd |-> FALSE, sent |-> 0, bodyLen |-> 0, status |-> 0, respLen |-> len, part |-> 0,
     body |-> 0, cb |-> 0, early |-> FALSE, timeout |-> FALSE, inited |-> FALSE, n |-> 0]
NoWire == [st |-> "none", got |-> << >>, back |-> << >>, answer |-> << >>, eof |-> FALSE]

InitFetch == fetch \in {NewFetch(len) : len \in {-1, 0}} /\ wire = NoWire /\ fetchEnd = "no"

(* Units of the request, and the answers of a server. *)
HeaderUnits == [i \in 1 .. ReqHeader |-> <<"head", i>>]
BodyUnits(n) == [i \in 1 .. n |-> <<"body", i>>]
Line(what) == <<[what |-> what, end |-> FALSE], [what |-> what, end |-> TRUE]>>
Data(n) == [i \in 1 .. n |-> [what |-> "data", end |-> FALSE]]
Answers ==
    {Line("status") \o Line("blank") \o Data(n) : n \in 0 .. MaxBody}
    \cup {Line("status") \o Line("length") \o Line("blank") \o Data(MaxBody)}
    \cup {Line("status") \o Line(len) \o Line("blank") : len \in {"zero", "negative"}}
    \cup {Line("junk"), << >>}

-----------------------------------------------------------------------------
(* The end of a request, and the connection. *)
closeConnection(f) == [f EXCEPT !.fd = FALSE]
endReq(f, res) ==
    closeConnection([f EXCEPT !.st = IF res = 0 THEN 7 ELSE 8, !.cb = @ + 1,
                              !.status = IF res = 0 THEN @ ELSE -1])

(* nio_write of a part of rest units of s from position at + 1 on: k are taken. *)
Written(w, s, at, k) == [w EXCEPT !.got = @ \o SubSeq(s, at + 1, at + k)]

(* sendReq falls from one case into the next: the connect is looked at,    *)
(* the header written, then the body.  k1 and k2 are what the two writes   *)
(* took, -1 for an error, 0 for EAGAIN.                                    *)
enterBodyKeep(f) == [f EXCEPT !.st = 3]
enterBody(f) == [f EXCEPT !.st = 3, !.sent = 0]

sendHeader(f, w, k) ==
    IF f.st # 2 THEN [f |-> f, w |-> w]
    ELSE LET g == [f EXCEPT !.sent = @ + (IF k > 0 THEN k ELSE 0)]
         IN  CASE k = -1 -> [f |-> endReq(f, -1), w |-> w]
               [] k >= 0 -> [f |-> IF g.sent >= ReqHeader THEN enterBody(g) ELSE g,
                             w |-> Written(w, HeaderUnits, f.sent, k)]

sendBody(f, w, k) ==
    IF f.st # 3 THEN [f |-> f, w |-> w]
    ELSE LET left == f.bodyLen - f.sent
             g == [f EXCEPT !.sent = @ + k]
             done == [g EXCEPT !.st = 4, !.part = 0]
         IN  CASE left <= 0 -> [f |-> [f EXCEPT !.st = 4, !.part = 0], w |-> w]
               [] left > 0 /\ k = -1 -> [f |-> endReq(f, -1), w |-> w]
               [] left > 0 /\ k >= 0 -> [f |-> IF g.sent < g.bodyLen THEN g ELSE done,
                                         w |-> Written(w, BodyUnits(f.bodyLen), f.sent, k)]

sendReq(f, w, k1, k2) ==
    IF f.st = 1 /\ w.st # "open" THEN [f |-> endReq(f, -1), w |-> w]
    ELSE LET r == sendHeader(IF f.st = 1 THEN [f EXCEPT !.st = 2] ELSE f, w, k1)
         IN  sendBody(r.f, r.w, k2)

(* What the writes can take: a broken connection takes nothing. *)
Takes(left) == IF wire.st = "open" THEN (-1) .. left ELSE {-1}

-----------------------------------------------------------------------------
(* The answer. *)
Field(f, what) ==
    CASE f.st = 4 /\ what # "status" -> endReq(f, -1)
      [] f.st = 4 /\ what = "status" -> [f EXCEPT !.st = 5, !.status = 200, !.respLen = -1]
      [] f.st = 5 /\ what = "length" -> [f EXCEPT !.respLen = MaxBody]
      [] f.st = 5 /\ what = "zero" -> [f EXCEPT !.respLen = 0]
      [] f.st = 5 /\ what = "negative" -> [f EXCEPT !.respLen = -2]
      [] f.st = 5 /\ what = "blank" ->
            LET g == [f EXCEPT !.st = 6, !.body = 0]
            IN  IF f.respLen = 0 \/ f.respLen < -1 THEN endReq(g, 0) ELSE g
      [] OTHER -> f

bodyUnit(f) ==
    LET g == [f EXCEPT !.body = @ + 1] IN IF f.respLen > 0 /\ g.body >= f.respLen THEN endReq(g, 0) ELSE g

(* recvResp's parse of the units of one read.  A line ends with its second *)
(* unit; of one that began in an earlier read only the rest is looked at,  *)
(* which is no status line.                                                *)
getLine(r, u) ==
    CASE r.f.st > 6 \/ r.end # "no" -> r
      [] r.f.st < 4 -> [r EXCEPT !.end = "spin"]
      [] r.f.st = 6 -> [r EXCEPT !.f = bodyUnit(r.f)]
      [] r.f.st \in 4 .. 5 /\ ~u.end -> [r EXCEPT !.f.part = 1, !.fresh = TRUE]
      [] r.f.st \in 4 .. 5 /\ u.end /\ r.fresh ->
            [r EXCEPT !.f = Field([r.f EXCEPT !.part = 0], u.what)]
      [] r.f.st = 4 /\ u.end /\ ~r.fresh -> [r EXCEPT !.f = Field([r.f EXCEPT !.part = 0], "rest")]
      [] OTHER -> [r EXCEPT !.end = "split"]

recvResp(f, units) == FoldLeft(getLine, [f |-> f, fresh |-> FALSE, end |-> "no"], units)

(* The peer closed: the end of the body if no length was given. *)
recvEof(f) ==
    LET g == [f EXCEPT !.early = f.st < 6] IN IF f.respLen = -1 THEN endReq(g, 0) ELSE endReq(g, -1)

-----------------------------------------------------------------------------
(* Actions. *)

(* startReq, with intiReq: the connect succeeds at once, is in progress or fails. *)
startReq(b, w) ==
    /\ ~fetch.inited /\ fetch.n < MaxFetches /\ w \in {"none", "open", "pending"}
    /\ LET f == [fetch EXCEPT !.inited = TRUE, !.bodyLen = b, !.sent = 0, !.n = @ + 1, !.fd = w # "none",
                              !.st = CASE w = "open" -> 2 [] w = "pending" -> 1 [] OTHER -> 0,
                              !.cb = 0, !.early = FALSE, !.timeout = TRUE]
       IN  IF w = "open"
           THEN \E k1 \in (-1) .. ReqHeader, k2 \in (-1) .. b :
                   LET r == sendReq(f, [NoWire EXCEPT !.st = w], k1, k2)
                   IN  fetch' = r.f /\ wire' = r.w
           ELSE fetch' = f /\ wire' = [NoWire EXCEPT !.st = w]
    /\ UNCHANGED fetchEnd

(* HttpFetchDriver::handleEvents, or the loop of process(): the write side. *)
EventOut ==
    /\ fetch.fd /\ fetch.st \in 1 .. 3
    /\ \E k1 \in Takes(IF fetch.st < 3 THEN ReqHeader - fetch.sent ELSE 0),
          k2 \in Takes(fetch.bodyLen - (IF fetch.st = 3 THEN fetch.sent ELSE 0)) :
          LET r == sendReq(fetch, wire, k1, k2) IN fetch' = r.f /\ wire' = r.w
    /\ UNCHANGED fetchEnd

(* The read side, in any state: the driver polls for both from the start.  *)
(* A read takes some of what came.                                         *)
EventIn ==
    /\ fetch.fd
    /\ \/ \E k \in 1 .. Len(wire.back) :
             LET r == recvResp(fetch, SubSeq(wire.back, 1, k))
             IN  /\ fetch' = r.f /\ fetchEnd' = r.end
                 /\ wire' = [wire EXCEPT !.back = SubSeq(@, k + 1, Len(@))]
       \/ wire.back = << >> /\ wire.eof /\ fetch' = recvEof(fetch) /\ UNCHANGED <<wire, fetchEnd>>

(* POLLERR, after the two others. *)
EventErr ==
    /\ fetch.fd /\ wire.st = "broken" /\ fetch' = endReq(fetch, -1) /\ UNCHANGED <<wire, fetchEnd>>

(* The driver's timer closes the connection; the callback is not called. *)
onTimer ==
    /\ fetch.fd /\ fetch.timeout /\ fetch' = closeConnection([fetch EXCEPT !.timeout = FALSE])
    /\ UNCHANGED <<wire, fetchEnd>>

cancel == fetch.fd /\ fetch' = endReq(fetch, -1) /\ UNCHANGED <<wire, fetchEnd>>

(* reset keeps m_respBodyLen and m_reqState. *)
reset ==
    /\ fetch.inited /\ ~fetch.fd
    /\ fetch' = [fetch EXCEPT !.inited = FALSE, !.status = 0, !.sent = 0, !.bodyLen = 0]
    /\ wire' = NoWire /\ UNCHANGED fetchEnd

(* The server. *)
Establish == wire.st = "pending" /\ wire' = [wire EXCEPT !.st = "open"] /\ UNCHANGED <<fetch, fetchEnd>>
Break == wire.st \in {"pending", "open"} /\ wire' = [wire EXCEPT !.st = "broken"] /\ UNCHANGED <<fetch, fetchEnd>>
Reply ==
    /\ wire.st = "open" /\ ~wire.eof /\ wire.answer = << >> /\ fetch.fd
    /\ \E a \in Answers : wire' = [wire EXCEPT !.back = a, !.answer = a, !.eof = TRUE]
    /\ UNCHANGED <<fetch, fetchEnd>>

NextFetch ==
    /\ fetchEnd = "no"
    /\ \/ \E b \in ReqBodies, w \in {"none", "open", "pending"} : startReq(b, w)
       \/ EventOut \/ EventIn \/ EventErr \/ onTimer \/ cancel \/ reset \/ Establish \/ Break \/ Reply

-----------------------------------------------------------------------------
(* Properties. *)

(* The server gets the request once and in order, and all of it before an  *)
(* answer is waited for: however the writes are cut, and wherever the body *)
(* starts (sendReq, whose cases fall through and share m_reqSent).         *)
RequestWhole ==
    LET whole == HeaderUnits \o BodyUnits(fetch.bodyLen)
    IN  fetch.fd => /\ IsPrefix(wire.got, whole)
                    /\ fetch.st \in 4 .. 6 => wire.got = whole

(* A request that succeeded was sent whole and has its status, and the     *)
(* body: all the units the length announced, or all that came before the   *)
(* end; unless the server closed before the header was complete and a      *)
(* length left from earlier says there is none (recvResp, endReq; reset    *)
(* keeps m_respBodyLen, and the constructor does not set it).  Nothing is  *)
(* claimed once a header line after the first was cut between two reads;   *)
(* a status line that was cut fails the request.                           *)
FetchWhole ==
    (fetch.inited /\ fetch.st = 7 /\ ~fetch.early /\ fetchEnd # "split") =>
        /\ wire.got = HeaderUnits \o BodyUnits(fetch.bodyLen)
        /\ fetch.status = 200
        /\ fetch.body = Len(SelectSeq(wire.answer, LAMBDA u : u.what = "data"))
=============================================================================
