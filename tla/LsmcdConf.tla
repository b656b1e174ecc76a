----------------------------- MODULE LsmcdConf -----------------------------
(***************************************************************************)
(* Starting the nodes of a cluster: each reads its configuration file,     *)
(* checks it, opens its listeners and makes the list of peers it will      *)
(* connect to.  A line of a file is an option (a key, and a value that is  *)
(* a list of addresses or a number) or one of the lines read() refuses.    *)
(* Also, at every start, which core dumps are kept.                        *)
(***************************************************************************)
EXTENDS Integers, Sequences, FiniteSets, SequencesExt, FiniteSetsExt, TLC

CONSTANTS
    ConfNodes,      \* the nodes that are started
    SlipNode,       \* the one whose file has a mistake
    LbLists,        \* the values of REPL.LBADDRS to try
    ListenAddrs,    \* the values of REPL.LISTENSVRADDR to try, of each node
    Slips,          \* the mistakes made in the file of SlipNode
    CoreDirs        \* modification times of the core dumps found, in order

VARIABLES
    cfNode,     \* per node: phase, lines, the options, the settings
    cores       \* core dumps of the working directory, in readdir's order
cfVars == <<cfNode, cores>>

-----------------------------------------------------------------------------
(* Addresses.  An address as written: the scheme before "://", the host    *)
(* and the port, -1 when there is none.  The configuration is read with no *)
(* tag set, so that a name without brackets is not looked up; one in       *)
(* brackets is, whether or not the node (dns) then finds an address.       *)
V6Hosts == {"[::]", "[::1]", "[fe80::2]", "[fe80::9]", "[*]", "[ANY]", "[ALL]", "[localhost]", "[name]"}
NoAddr == [family |-> "none", host |-> "", port |-> 0]

parseURL(a) ==
    CASE a.scheme \in {"TCP6", "UDP6"} -> "inet6"
      [] a.scheme \in {"", "TCP", "UDP"} -> IF a.host \in V6Hosts THEN "inet6" ELSE "inet"
      [] a.scheme \in {"UDS", "UDD"} -> "unix"
      [] OTHER -> "none"

hostOf(family, host, dns) ==
    CASE family = "inet" /\ host \in {"*", "ANY", "ALL"} -> "0.0.0.0"
      [] family = "inet" /\ host = "localhost" -> "127.0.0.1"
      [] family = "inet" /\ host = "name" -> ""
      [] family = "inet6" /\ host \notin V6Hosts -> ""
      [] family = "inet6" /\ host \in {"[*]", "[ANY]", "[ALL]"} -> "[::]"
      [] family = "inet6" /\ host = "[localhost]" -> "[::1]"
      [] family = "inet6" /\ host = "[name]" -> IF dns THEN "[fe80::9]" ELSE ""
      [] OTHER -> host

setAddr(a, dns) ==
    LET family == parseURL(a)
        host == hostOf(family, a.host, dns)
    IN  CASE family = "unix" -> [family |-> family, host |-> a.host, port |-> 0]
          [] family \in {"inet", "inet6"} /\ a.port \in 1 .. 65535 /\ host # "" ->
                [family |-> family, host |-> host, port |-> a.port]
          [] OTHER -> NoAddr

toString(s) == [scheme |-> "", host |-> s.host, port |-> s.port]

(* Up to the first colon: of an IPv6 address its bracket only; of one with *)
(* a scheme, the scheme.                                                   *)
getIpOfAddr(a) == IF a.scheme # "" THEN a.scheme ELSE IF a.host \in V6Hosts THEN "[" ELSE a.host

(* "*:" at the start of the text. *)
startsAny(a) == a.scheme = "" /\ a.host = "*" /\ a.port # -1

-----------------------------------------------------------------------------
(* The file.  Keys are upper-cased when they are stored and when they are  *)
(* looked up; a line that is refused is left out, and the reading goes on, *)
(* for onConfigError never says stop.                                      *)
Option(key, val) == [kind |-> "option", key |-> key, upper |-> TRUE, val |-> val]
Addrs(s) == [addrs |-> s, num |-> 0]
Num(n) == [addrs |-> << >>, num |-> n]
One(a) == Addrs(<<a>>)
NoVal == [addrs |-> << >>, num |-> -1]

isValidline(l) == l.kind \notin {"comment", "blank"}

setConfig(options, key, val) == (key :> val) @@ options

getConfig(options, key) == IF key \in DOMAIN options THEN options[key] ELSE NoVal

(* One line: no delimiter and an empty key are errors. *)
read(options, l) ==
    IF isValidline(l) /\ l.kind = "option" THEN setConfig(options, l.key, l.val) ELSE options

-----------------------------------------------------------------------------
(* The settings. *)
EmptyConf == [slices |-> 1, procs |-> 1, listen |-> NoAddr, listenIp |-> "", peers |-> << >>, legal |-> {}, repl |-> FALSE]

(* The addresses up to the first that is not one; nobody looks at the      *)
(* result.                                                                 *)
split(val) == val.addrs
setLBAddrs(val, dns) ==
    LET bad == {i \in DOMAIN split(val) : startsAny(split(val)[i]) \/ setAddr(split(val)[i], dns) = NoAddr}
        good == IF bad = {} THEN Len(split(val)) ELSE Min(bad) - 1
    IN  [i \in 1 .. good |-> setAddr(split(val)[i], dns)]

isAllowedIP(conf, ip) == ip \in conf.legal

(* The listener of the replication; a leading "*:" is refused. *)
setLisenSvrAddr(val, dns) ==
    IF val = NoVal \/ val.addrs = << >> THEN NoAddr
    ELSE IF startsAny(val.addrs[1]) THEN NoAddr ELSE setAddr(val.addrs[1], dns)

given(o, key) == getConfig(o, key) # NoVal
address(o, key, dns) == given(o, key) /\ getConfig(o, key).addrs # << >> /\ setAddr(getConfig(o, key).addrs[1], dns) # NoAddr
numFrom(o, key, least, default) ==
    IF given(o, key) /\ getConfig(o, key).num >= least THEN getConfig(o, key).num ELSE default

(* What a node that does not replicate needs; the counts are 16 bits wide. *)
parseCached(o) ==
    [EmptyConf EXCEPT !.slices = numFrom(o, "CACHED.SLICES", 1, 1) % 65536,
                      !.procs = numFrom(o, "CACHEDPROCCNT", 0, 1) % 65536]

parseRepl(o, dns) ==
    LET peers == setLBAddrs(getConfig(o, "REPL.LBADDRS"), dns)
    IN  [parseCached(o) EXCEPT
            !.peers = peers,
            !.legal = {getIpOfAddr(toString(peers[i])) : i \in DOMAIN peers},
            !.repl = Len(peers) >= 2,
            !.listen = setLisenSvrAddr(getConfig(o, "REPL.LISTENSVRADDR"), dns),
            !.listenIp = IF given(o, "REPL.LISTENSVRADDR") THEN getIpOfAddr(getConfig(o, "REPL.LISTENSVRADDR").addrs[1]) ELSE ""]

(* Whether the file is accepted.  The listener is compared by its host     *)
(* alone, and as it is written.                                            *)
parse(o, dns) ==
    LET conf == parseRepl(o, dns)
    IN  /\ address(o, "CACHED.ADDR", dns)
        /\ conf.repl => /\ address(o, "CACHED.PRIADDR", dns) /\ given(o, "CACHEDSOCKPATH")
                        /\ conf.listen # NoAddr /\ isAllowedIP(conf, conf.listenIp)
                        /\ address(o, "REPL.DISPATCHADDR", dns)

-----------------------------------------------------------------------------
(* A file: the options a cluster needs, in an order, with one slip; "list" *)
(* is a list of addresses that is not the one of the other nodes.          *)
Plain4(h) == [scheme |-> "", host |-> h, port |-> 1]
FileOf(lb, listen, slip) ==
    LET junk(k) == [Option("", NoVal) EXCEPT !.kind = k]
        listens == CASE slip = "dup" -> <<Option("REPL.LISTENSVRADDR", One(Plain4("10.0.0.9"))), Option("REPL.LISTENSVRADDR", One(listen))>>
                     [] slip = "nolisten" -> << >>
                     [] OTHER -> <<Option("REPL.LISTENSVRADDR", One(listen))>>
    IN  <<Option("CACHED.ADDR", One(IF slip = "badaddr" THEN Plain4("name") ELSE Plain4("*")))>>
        \o (IF slip = "nodelim" THEN <<junk("nodelim")>> ELSE << >>)
        \o <<Option("REPL.LBADDRS", Addrs(IF slip = "list" THEN Tail(lb) ELSE lb))>>
        \o (IF slip = "nokey" THEN <<junk("nokey"), junk("comment")>> ELSE << >>)
        \o listens
        \o (IF slip = "nosock" THEN << >> ELSE <<Option("CACHEDSOCKPATH", Num(0))>>)
        \o <<Option("CACHED.PRIADDR", One(Plain4("localhost"))), Option("REPL.DISPATCHADDR", One(Plain4("localhost")))>>
        \o (IF slip = "counts" THEN <<Option("CACHED.SLICES", Num(65537)), Option("CACHEDPROCCNT", Num(0))>> ELSE << >>)

InitConf ==
    /\ \E lb \in LbLists, f \in [ConfNodes -> ListenAddrs], slip \in Slips, found \in SUBSET ConfNodes :
          /\ (\A i \in DOMAIN lb : lb[i].host # "[name]") => found = ConfNodes
          /\ cfNode = [m \in ConfNodes |->
              [phase |-> "read", lines |-> FileOf(lb, f[m], IF m = SlipNode THEN slip ELSE "none"),
               options |-> << >>, conf |-> EmptyConf, peers |-> << >>, bound |-> {}, dns |-> m \in found]]
    /\ cores \in CoreDirs

loadConfig(n) ==
    LET c == cfNode[n]
    IN  /\ c.phase = "read"
        /\ cfNode' = [cfNode EXCEPT ![n].phase = "parse", ![n].options = FoldLeft(read, @, c.lines)]
        /\ UNCHANGED cores

(* ParseOpt: parse, and give up when it fails.  Then enableCoreDump, which *)
(* deletes core dumps when their names have pids in them.                  *)
olderFirst(kept, t) == IF kept = << >> \/ t < kept[1] THEN <<t>> ELSE kept
doDeleteCoredumps(cs) == FoldLeft(olderFirst, << >>, cs)

ParseOpt(n) ==
    LET c == cfNode[n]
    IN  /\ c.phase = "parse"
        /\ cfNode' = [cfNode EXCEPT ![n].phase = IF parse(c.options, c.dns) THEN "listen" ELSE "failed",
                                    ![n].conf = parseRepl(c.options, c.dns)]
        /\ \/ cores' = IF parse(c.options, c.dns) THEN doDeleteCoredumps(cores) ELSE cores
           \/ UNCHANGED cores

(* The peers: the addresses of the list that are not the node's own. *)
initReplConnAll(conf) == conf.peers
initReplConn(conf) == SelectSeq(conf.peers, LAMBDA a : a # conf.listen)

(* PreEventLoop opens the listeners one after the other and gives up at    *)
(* the first that cannot be bound; the process then ends.                  *)
Listeners(conf) ==
    IF conf.repl THEN <<"repl", "memcache", "usock", "fdpass">> ELSE <<"memcache">>

PreEventLoop(n) ==
    LET c == cfNode[n]
    IN  /\ c.phase = "listen"
        /\ \/ cfNode' = [cfNode EXCEPT ![n].phase = "up", ![n].bound = ToSet(Listeners(c.conf)),
                                       ![n].peers = IF c.conf.repl THEN initReplConn(c.conf) ELSE << >>]
           \/ cfNode' = [cfNode EXCEPT ![n].phase = "failed"]
        /\ UNCHANGED cores

NextConf == \E n \in ConfNodes : loadConfig(n) \/ ParseOpt(n) \/ PreEventLoop(n)

-----------------------------------------------------------------------------
(* Nodes whose files give the same REPL.LBADDRS, whose lookups agree and   *)
(* that start, know each other: a node that listens at an address of its   *)
(* list connects to every other such node, is accepted by it (isAllowedIP) *)
(* and never connects to itself; so it is even when an address of the list *)
(* is invalid, which cuts the list short.  Nodes with different lists, or  *)
(* of which one finds the name on the list and the other does not, may     *)
(* disagree about the members, and nothing notices.                        *)
listText(n) == getConfig(cfNode[n].options, "REPL.LBADDRS")
Listed(n) == \E i \in DOMAIN cfNode[n].conf.peers : cfNode[n].conf.peers[i] = cfNode[n].conf.listen
MeshFull ==
    \A n, m \in {k \in ConfNodes : cfNode[k].phase = "up" /\ cfNode[k].conf.repl /\ Listed(k)} :
        LET other == cfNode[m].conf.listen
            known == \E i \in DOMAIN cfNode[n].peers : cfNode[n].peers[i] = other
        IN  listText(n) = listText(m) /\ cfNode[n].dns = cfNode[m].dns =>
                /\ known <=> other # cfNode[n].conf.listen
                /\ isAllowedIP(cfNode[m].conf, getIpOfAddr(toString(cfNode[n].conf.listen)))

(* A node that starts and replicates has all its listeners open, and its   *)
(* IPv4 listener is at a host of its own list: no listener, a name, a      *)
(* wildcard, a scheme, an address after an invalid one or one that is not  *)
(* listed stop it.  The port is not compared, and of an IPv6 listener only *)
(* that some address of the list is IPv6.                                  *)
HostListed ==
    \A n \in ConfNodes :
        LET conf == cfNode[n].conf
        IN  cfNode[n].phase = "up" /\ conf.repl =>
                /\ conf.listen # NoAddr /\ Cardinality(cfNode[n].bound) = 4
                /\ \E i \in DOMAIN conf.peers :
                      IF conf.listen.family = "inet" THEN conf.peers[i].host = conf.listen.host
                      ELSE conf.peers[i].family = "inet6"

(* An option holds the value of its last line in the file, wherever the    *)
(* lines that read() refuses stand.                                        *)
LastLine ==
    \A n \in ConfNodes :
        LET seen == SelectSeq(cfNode[n].lines, LAMBDA l : l.kind = "option")
        IN  cfNode[n].phase # "read" => \A i \in DOMAIN seen :
                (\A j \in i + 1 .. Len(seen) : seen[j].key # seen[i].key) =>
                    getConfig(cfNode[n].options, seen[i].key) = seen[i].val

(* "Only the oldest coredump will be preserved": deleting while the        *)
(* directory is read never deletes the oldest of those there were.         *)
OldestKept == cores \in CoreDirs \/ \E d \in CoreDirs : cores = <<Min(ToSet(d))>>
=============================================================================
