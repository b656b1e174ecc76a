------------------------------ MODULE McSlices ------------------------------
(***************************************************************************)
(* The slices of a worker: the shared-memory files opened at the start,    *)
(* their headers, one hash per user in each of them, and what SASL         *)
(* authentication, the choice of slice and hash, flush_all and stats do    *)
(* with them.  The files outlive the process; a start may find the headers *)
(* of an earlier one.  Either users have hashes of their own or slices are *)
(* replicated, never both.                                                 *)
(***************************************************************************)
EXTENDS Integers, Sequences, FiniteSets, FiniteSetsExt

CONSTANTS
    McConns,     \* client connections
    McUsers,     \* user names with the realm
    NoUser,      \* NULL
    McKeys,
    SliceCnt,    \* m_iCnt
    HashOf,      \* hashXXH32, of keys and of user names
    Pwdb,        \* the password file: a sequence of [user, pass]
    CasOptions,  \* the values of usecas the program is started with
    MaxMcCmds    \* bound of the model: commands after a start

Accounts == McUsers \cup {NoUser}
SliceIds == 0 .. SliceCnt - 1
Configs == [usesasl : BOOLEAN, byUser : BOOLEAN, anonymous : BOOLEAN,
            repl : BOOLEAN, usecas : BOOLEAN]
NoHdr == [cas |-> FALSE, sasl |-> FALSE, off |-> FALSE]
NewHdr(c) == [cas |-> c.usecas, sasl |-> c.usesasl, off |-> TRUE]
NoStats == [set_cmds |-> 0, flush_cmds |-> 0, auth_cmds |-> 0, auth_errors |-> 0]
MultiUser(c) == c.usesasl /\ c.byUser    \* setConfigMultiUser

VARIABLE mc
mcVars == <<mc>>

ClosedConn == [open |-> FALSE, user |-> NoUser, saslUser |-> NoUser, auth |-> FALSE]

InitMc ==
    \E conf \in {c \in Configs : c.usecas \in CasOptions}, before \in Configs \cup {NoHdr} :
       mc = [ conf  |-> conf,
              up    |-> "down",
              shm   |-> {},                       \* slices whose hashes are open
              hdr   |-> [s \in SliceIds |->       \* LsMcHdr of the default hash
                            IF before = NoHdr THEN NoHdr ELSE NewHdr(before)],
              role  |-> [s \in SliceIds |-> "master"],
              fwd   |-> {},                       \* slices sent a clear command
              data  |-> [s \in SliceIds |-> [u \in Accounts |-> {}]],
              stats |-> [s \in SliceIds |-> NoStats],
              conn  |-> [c \in McConns |-> ClosedConn],
              cmds  |-> 0,
              reply |-> [kind |-> "none"],
              own   |-> [u \in Accounts |-> {}],  \* what each account has stored
              sets  |-> [s \in SliceIds |-> 0],   \* set commands since the reset
              sess  |-> [c \in McConns |-> NoUser] ] \* last accepted user

-----------------------------------------------------------------------------
(* Start. *)

(* LsMcHashMulti::init: opens slice after slice; when slice k cannot be      *)
(* opened it closes the ones before it.                                      *)
initMulti(k) ==
    LET opened == {s \in SliceIds : s < k} IN
    IF k = SliceCnt THEN opened ELSE opened \ {s \in SliceIds : s <= k - 1}

(* multiInitFunc: makes the header of a new file, or compares the old one. *)
HdrMatches(h, conf) == h.cas = conf.usecas /\ h.sasl = conf.usesasl
multiInitFunc(h, conf) ==
    IF h.off THEN [hdr |-> h, ok |-> HdrMatches(h, conf)]
    ELSE [hdr |-> NewHdr(conf), ok |-> TRUE]

(* foreach stops at the first slice whose function fails. *)
foreach(failing) ==
    {s \in SliceIds : \A t \in 0 .. s - 1 : t \notin failing}

(* initMcShm.  The shared memory is the process's own from here. *)
initMcShm(k, saslOk) ==
    /\ mc.up = "down" /\ k \in 0 .. SliceCnt
    /\ LET conf == mc.conf
           bad == MultiUser(conf) /\ conf.repl
           ok == ~bad /\ k = SliceCnt /\ (conf.usesasl => saslOk)
       IN mc' = [mc EXCEPT !.shm = IF bad THEN {}
                                   ELSE IF k = SliceCnt /\ conf.usesasl /\ ~saslOk THEN {}
                                   ELSE initMulti(k),
                           !.up = IF ok THEN "opened" ELSE "failed"]

(* initMcEvents: one connection to the master, then the header, per slice. *)
initMcEvents ==
    /\ mc.up = "opened"
    /\ LET r == [s \in SliceIds |-> multiInitFunc(mc.hdr[s], mc.conf)]
           reached == foreach({s \in SliceIds : ~r[s].ok})
           ok == \A s \in SliceIds : r[s].ok
       IN \E roles \in [SliceIds -> {"master", "remote", "unlinked"}] :
             /\ ~mc.conf.repl => roles = mc.role
             /\ mc' = [mc EXCEPT
                   !.hdr = [s \in SliceIds |-> IF s \in reached THEN r[s].hdr ELSE @[s]],
                   !.role = roles,
                   !.shm = IF ok THEN @ ELSE {},    \* the process exits
                   !.up = IF ok THEN "up" ELSE "failed"]

-----------------------------------------------------------------------------
(* SASL. *)

(* chkSaslPwdb: the first line of the user decides. *)
chkSaslPwdb(u, p) ==
    LET lines == {i \in DOMAIN Pwdb : Pwdb[i].user = u} IN
    lines # {} /\ Pwdb[Min(lines)].pass = p

(* rebuildAuth: either name may be missing; the two must agree. *)
rebuildAuth(u1, u2) ==
    LET a == IF u1 = NoUser THEN u2 ELSE u1
        b == IF u2 = NoUser THEN a ELSE u2
    IN IF a # NoUser /\ a = b THEN a ELSE NoUser

(* chkAuth: 0 when accepted; otherwise the LsMcSasl stays as it is. *)
chkAuth(u1, u2, p) ==
    LET u == rebuildAuth(u1, u2) IN u # NoUser /\ chkSaslPwdb(u, p)

(* MemcacheConn::setUser.  Wrong variant: the first user stays. *)
setUserOnce(old, u) == IF old # NoUser /\ u # NoUser THEN old ELSE u
setUser(old, u) == u

-----------------------------------------------------------------------------
(* Slice and hash of a command. *)

key2hashNum(c, k) ==
    IF MultiUser(mc.conf) /\ mc.conn[c].user # NoUser
    THEN HashOf[mc.conn[c].user] % SliceCnt
    ELSE HashOf[k] % SliceCnt

(* setSlice: [slice, account of the hash]. *)
setSlice(c, k) ==
    [ idx |-> key2hashNum(c, k),
      user |-> IF mc.conf.usesasl /\ mc.conn[c].auth THEN mc.conn[c].user ELSE NoUser ]

(* statsAggregate: all slices, or only the one of the user. *)
statsAggregate(c) ==
    SliceCnt > 1 /\ (~MultiUser(mc.conf) \/ ~mc.conn[c].auth)

isAuthenticated(c) == mc.conn[c].auth

(* What a command needs: the connection and, with SASL, a user. *)
Allowed(c) ==
    /\ mc.up = "up" /\ mc.conn[c].open /\ mc.cmds < MaxMcCmds
    /\ mc.conf.usesasl /\ ~isAuthenticated(c) =>
          mc.conf.anonymous \/ mc.conn[c].saslUser # NoUser

Account(c) == IF MultiUser(mc.conf) THEN mc.sess[c] ELSE NoUser

-----------------------------------------------------------------------------
(* Commands. *)

mcInitConn(c) ==
    /\ mc.up = "up" /\ ~mc.conn[c].open /\ mc.cmds < MaxMcCmds
    /\ mc' = [mc EXCEPT !.conn[c] = [ClosedConn EXCEPT !.open = TRUE],
                        !.sess[c] = NoUser, !.reply = [kind |-> "none"]]

(* quit, a command without the authentication it needs, or the peer closing. *)
mcCloseConnection(c) ==
    /\ mc.conn[c].open
    /\ mc' = [mc EXCEPT !.conn[c] = ClosedConn, !.reply = [kind |-> "none"]]

(* The mechanism is the key of the request, and chooses the slice whose *)
(* statistics count it.                                                 *)
doBinSaslAuth(c, mech, u1, u2, p) ==
    /\ mc.up = "up" /\ mc.conn[c].open /\ mc.cmds < MaxMcCmds
    /\ LET s == setSlice(c, mech).idx
           u == rebuildAuth(u1, u2)
           ok == chkAuth(u1, u2, p)
       IN IF ~mc.conf.usesasl
          THEN mc' = [mc EXCEPT !.cmds = @ + 1, !.reply = [kind |-> "UNKNOWNCMD"],
                                !.conn[c].user = setUser(@, NoUser)]
          ELSE mc' = [mc EXCEPT
                  !.cmds = @ + 1,
                  !.reply = [kind |-> IF ok THEN "OK" ELSE "AUTHERROR"],
                  !.stats[s].auth_cmds = @ + 1,
                  !.stats[s].auth_errors = IF ok THEN @ ELSE @ + 1,
                  !.conn[c] = IF ~ok THEN @
                              ELSE [@ EXCEPT !.auth = TRUE, !.saslUser = u,
                                             !.user = IF MultiUser(mc.conf)
                                                      THEN setUser(@, u) ELSE @],
                  !.sess[c] = IF ok THEN u ELSE @]

(* A slice another node is master of is forwarded: see McForward. *)
mcSet(c, k) ==
    /\ Allowed(c)
    /\ LET at == setSlice(c, k) IN
       /\ mc.role[at.idx] = "master"
       /\ mc' = [mc EXCEPT !.cmds = @ + 1, !.reply = [kind |-> "STORED"],
                           !.data[at.idx][at.user] = @ \cup {k},
                           !.stats[at.idx].set_cmds = @ + 1,
                           !.sets[at.idx] = @ + 1,
                           !.own[Account(c)] = @ \cup {k}]

mcGet(c, k) ==
    /\ Allowed(c)
    /\ LET at == setSlice(c, k) IN
       mc' = [mc EXCEPT !.cmds = @ + 1,
                        !.reply = [kind |-> "VALUE", account |-> Account(c), key |-> k,
                                   local |-> mc.role[at.idx] = "master",
                                   hit |-> k \in mc.data[at.idx][at.user]]]

(* multiFlushFunc on one slice. *)
FlushFails(s) == mc.role[s] = "unlinked"

flushAll ==
    [ok |-> \A s \in SliceIds : ~FlushFails(s),
     reached |-> foreach({s \in SliceIds : FlushFails(s)})
                 \ {s \in SliceIds : FlushFails(s)}]

(* flush_all of either protocol. *)
mcFlush(c) ==
    /\ Allowed(c)
    /\ LET at == setSlice(c, NoUser)       \* no key: the empty one
           all == flushAll
           idx == IF MultiUser(mc.conf) THEN at.idx ELSE 0
           done == {s \in all.reached : mc.role[s] = "master"}
       IN IF statsAggregate(c)
          THEN mc' = [mc EXCEPT
                  !.cmds = @ + 1,
                  !.reply = [kind |-> IF all.ok THEN "FLUSHED" ELSE "REMOTEERROR"],
                  !.fwd = {s \in all.reached : mc.role[s] = "remote"},
                  !.data = [s \in SliceIds |->
                               IF s \in done THEN [@[s] EXCEPT ![NoUser] = {}] ELSE @[s]],
                  !.stats = [s \in SliceIds |->
                               IF s \in done
                               THEN [@[s] EXCEPT !.flush_cmds = @ + 1] ELSE @[s]],
                  !.own[NoUser] = {k \in @ : HashOf[k] % SliceCnt \notin done}]
          ELSE /\ mc.role[idx] = "master"
               /\ mc' = [mc EXCEPT
                     !.cmds = @ + 1, !.fwd = {},
                     !.reply = [kind |-> "OK"],
                     !.data[at.idx][at.user] = {},
                     !.stats[at.idx].flush_cmds = @ + 1,
                     !.own[Account(c)] = {}]

(* A "clear" from another node's flush. *)
doCmdClear(s) ==
    /\ mc.up = "up" /\ mc.conf.repl /\ mc.cmds < MaxMcCmds /\ mc.role[s] = "master"
    /\ mc' = [mc EXCEPT !.cmds = @ + 1, !.reply = [kind |-> "none"],
                        !.data[s][NoUser] = {}, !.stats[s].flush_cmds = @ + 1,
                        !.own[NoUser] = {k \in @ : HashOf[k] % SliceCnt # s}]

(* multiStatFunc adds up the counters of the slices, except flush_cmds: *)
(* that one is assigned, so the last slice's is answered.               *)
multiStatFunc(f) ==
    MapThenSumSet(LAMBDA s : mc.stats[s][f], SliceIds)

statReply(c) ==
    LET at == setSlice(c, NoUser) IN
    [kind |-> "STAT", all |-> statsAggregate(c), idx |-> at.idx,
     set_cmds |-> IF statsAggregate(c) THEN multiStatFunc("set_cmds")
                  ELSE mc.stats[at.idx].set_cmds,
     flush_cmds |-> mc.stats[IF statsAggregate(c) THEN SliceCnt - 1
                             ELSE at.idx].flush_cmds]

(* multiStatResetFunc, or the one slice of the user. *)
statReset(c) ==
    LET gone == IF statsAggregate(c) THEN SliceIds ELSE {setSlice(c, NoUser).idx} IN
    mc' = [mc EXCEPT
       !.cmds = @ + 1, !.reply = [kind |-> "RESET"],
       !.stats = [s \in SliceIds |-> IF s \in gone THEN NoStats ELSE @[s]],
       !.sets = [s \in SliceIds |-> IF s \in gone THEN 0 ELSE @[s]]]

(* Text commands are refused when users must authenticate. *)
doCmdStats(c, reset) ==
    /\ Allowed(c) /\ (mc.conf.usesasl => mc.conf.anonymous)
    /\ IF reset THEN statReset(c)
       ELSE mc' = [mc EXCEPT !.cmds = @ + 1, !.reply = statReply(c)]

doBinStats(c, reset) ==
    /\ Allowed(c)
    /\ IF reset THEN statReset(c)
       ELSE mc' = [mc EXCEPT !.cmds = @ + 1, !.reply = statReply(c)]

Passwords == {Pwdb[i].pass : i \in DOMAIN Pwdb}

NextMc ==
    \/ \E k \in 0 .. SliceCnt, b \in BOOLEAN : initMcShm(k, b)
    \/ initMcEvents
    \/ \E s \in SliceIds : doCmdClear(s)
    \/ \E c \in McConns :
          \/ mcInitConn(c) \/ mcCloseConnection(c)
          \/ mcFlush(c)
          \/ \E reset \in BOOLEAN : doCmdStats(c, reset) \/ doBinStats(c, reset)
          \/ \E k \in McKeys : mcSet(c, k) \/ mcGet(c, k)
          \/ \E u1, u2 \in Accounts, p \in Passwords : doBinSaslAuth(c, NoUser, u1, u2, p)

-----------------------------------------------------------------------------
(* A worker runs only with all its slices open and their headers made for   *)
(* its configuration; a start that fails on a later slice leaves none open. *)
StartSound ==
    /\ mc.up \in {"opened", "up"} => mc.shm = SliceIds
    /\ mc.up = "failed" => mc.shm = {}
    /\ mc.up = "up" => \A s \in SliceIds : HdrMatches(mc.hdr[s], mc.conf)

(* A get answered here finds exactly the keys that connections of the same  *)
(* account stored since that account's last flush, whatever slice and hash  *)
(* placement, new connections and further authentications, accepted or not, *)
(* lie between.                                                             *)
OwnData ==
    (mc.reply.kind = "VALUE" /\ mc.reply.local) =>
        (mc.reply.hit <=> mc.reply.key \in mc.own[mc.reply.account])

(* A flush over all slices that is answered OK has emptied every slice of   *)
(* this node and told the master of every other one.                        *)
FlushTold ==
    mc.reply.kind = "FLUSHED" =>
        \A s \in SliceIds : IF mc.role[s] = "master" THEN mc.data[s][NoUser] = {}
                            ELSE s \in mc.fwd

(* The statistics over all slices count each set command since the last    *)
(* reset once.                                                              *)
StatsSum ==
    mc.reply.kind = "STAT" =>
        mc.reply.set_cmds = IF mc.reply.all THEN MapThenSumSet(LAMBDA s : mc.sets[s], SliceIds)
                            ELSE mc.sets[mc.reply.idx]
=============================================================================
