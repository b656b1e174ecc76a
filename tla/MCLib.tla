------------------------------- MODULE MCLib -------------------------------
(* The parts of the util and lsr libraries side by side: a behaviour is one   *)
(* of them, chosen at the start.                                              *)
EXTENDS LogFiles, GPath, LsmcdConf, AccessControl, LsHash, LsPool,
        VMemBuf, StringTool

(* REPL.LBADDRS with invalid addresses in it, and where a node listens.       *)
Addr(h, p) == [scheme |-> "", host |-> h, port |-> p]
MCLbLists ==
    {<<Addr("10.0.0.1", 1), Addr("10.0.0.2", 1)>>,
     <<Addr("10.0.0.1", 1), Addr("name", 1), Addr("10.0.0.2", 1)>>,
     <<Addr("10.0.0.1", 1), Addr("10.0.0.2", 1), Addr("*", 1), Addr("10.0.0.3", 1)>>,
     <<Addr("10.0.0.2", 1), Addr("localhost", 1), Addr("10.0.0.1", 1)>>,
     <<Addr("10.0.0.1", 1), Addr("10.0.0.2", 70000)>>,
     <<Addr("ANY", 1), Addr("10.0.0.1", 1), [Addr("*", 1) EXCEPT !.scheme = "TCP"], Addr("10.0.0.3", 1)>>,
     <<Addr("10.0.0.1", 1), Addr("[::1]", 1), Addr("[name]", 1), Addr("10.0.0.3", 1)>>}
MCListenAddrs ==
    {Addr(h, 1) : h \in {"10.0.0.1", "10.0.0.2", "10.0.0.3", "localhost", "*", "ANY", "0.0.0.0", "name", "[fe80::9]", "[localhost]"}}
    \cup {Addr("10.0.0.2", 2), Addr("10.0.0.1", -1), [Addr("10.0.0.1", 1) EXCEPT !.scheme = "TCP"]}
MCSlips == {"none", "dup", "nolisten", "badaddr", "nodelim", "nokey", "nosock", "counts", "list"}
MCCoreDirs == {<<2, 1, 3>>, <<1, 3, 1>>}

(* Keys as sequences of characters; 11 is 1 in the other case.                *)
MCHtPrimes == <<2, 3, 4, 5, 6, 7>>
MCHtKeys == {<<1>>, <<2>>, <<11>>, <<1, 2>>}
MCHtFold == [ch \in {1, 2, 11} |-> IF ch = 11 THEN 1 ELSE ch]
MCHtXXH == [k \in MCHtKeys |-> IF Len(k) = 2 THEN 4 ELSE k[1]]

MCDtClocks == {<<0, 0, 0>>, <<23, 59, 59>>}
MCDtOffsets == {-720, -210, -30, 0, 330, 840}

VARIABLE part     \* the part this behaviour is of

Off == "off"      \* the variables of the other parts

Init ==
    \E p \in {"pid", "log", "path", "conf", "acl", "hash", "xpool", "vmem", "aho", "string", "date"} :
       /\ part = p
       /\ IF p = "pid" THEN InitPid
          ELSE /\ starter = Off /\ inode = Off
               /\ pidPath = Off
       /\ IF p = "log" THEN InitLog
          ELSE /\ dir = Off /\ files = Off /\ fd = Off /\ roll = Off
               /\ gz = Off /\ lines = Off /\ today = Off /\ how = Off
       /\ IF p = "path" THEN InitGp ELSE gp = Off
       /\ IF p = "conf" THEN InitConf
          ELSE cfNode = Off /\ cores = Off
       /\ IF p = "acl" THEN InitAcl ELSE acl = Off /\ aclHist = Off
       /\ IF p = "hash" THEN InitHt ELSE ht = Off /\ htWalk = Off
       /\ IF p = "xpool" THEN InitXpool
          ELSE /\ supers = Off /\ xlists = Off /\ xfree = Off /\ bigs = Off
               /\ bigHead = Off /\ xlive = Off /\ xgone = Off /\ xops = Off
       /\ IF p = "vmem" THEN InitVm ELSE vm = Off
       /\ IF p = "aho" THEN InitAho ELSE ac = Off /\ acPats = Off /\ acRun = Off
       /\ IF p = "string" THEN InitSt ELSE st = Off
       /\ IF p = "date" THEN InitDt ELSE dt = Off /\ lg = Off

Others(p) ==
    /\ UNCHANGED part
    /\ IF p = "pid" THEN TRUE ELSE UNCHANGED pidVars
    /\ IF p = "log" THEN TRUE ELSE UNCHANGED logVars
    /\ IF p = "path" THEN TRUE ELSE UNCHANGED gpVars
    /\ IF p = "conf" THEN TRUE ELSE UNCHANGED cfVars
    /\ IF p = "acl" THEN TRUE ELSE UNCHANGED aclVars
    /\ IF p = "hash" THEN TRUE ELSE UNCHANGED htVars
    /\ IF p = "xpool" THEN TRUE ELSE UNCHANGED xpoolVars
    /\ IF p = "vmem" THEN TRUE ELSE UNCHANGED vmVars
    /\ IF p = "aho" THEN TRUE ELSE UNCHANGED ahoVars
    /\ IF p = "string" THEN TRUE ELSE UNCHANGED stVars
    /\ IF p = "date" THEN TRUE ELSE UNCHANGED dtVars

PidFileStep == part = "pid" /\ NextPid /\ Others("pid")
LogFilesStep == part = "log" /\ NextLog /\ Others("log")
GPathStep == part = "path" /\ NextGp /\ Others("path")
LsmcdConfStep == part = "conf" /\ NextConf /\ Others("conf")
AccessControlStep == part = "acl" /\ NextAcl /\ Others("acl")
LsHashStep == part = "hash" /\ NextHt /\ Others("hash")
LsXpoolStep == part = "xpool" /\ NextXpool /\ Others("xpool")
VMemBufStep == part = "vmem" /\ NextVm /\ Others("vmem")
AhoStep == part = "aho" /\ NextAho /\ Others("aho")
StringToolStep == part = "string" /\ NextSt /\ Others("string")
DateTimeStep == part = "date" /\ NextDt /\ Others("date")

Next ==
    \/ PidFileStep \/ LogFilesStep \/ GPathStep \/ LsmcdConfStep
    \/ AccessControlStep \/ LsHashStep \/ LsXpoolStep
    \/ VMemBufStep \/ AhoStep \/ StringToolStep \/ DateTimeStep

allVars == <<part, pidVars, logVars, gpVars, cfVars, aclVars, htVars,
             xpoolVars, vmVars, ahoVars, stVars, dtVars>>
Spec == Init /\ [][Next]_allVars

-----------------------------------------------------------------------------
(* Files that processes share: however starts and ends interleave, PidFile    *)
(* lets one daemon run and names it, except where a process locks a file that *)
(* lost its name since the process opened it (lockPidFile does not look       *)
(* again, and two daemons then run); and however rolls and compressions       *)
(* interleave, the lines of the log stay in a named file while the roller     *)
(* moves on to the new one.                                                   *)
OneDaemonLogs ==
    /\ part = "pid" => OneDaemon /\ PidTold
    /\ part = "log" => LinesStay /\ RollerFollows

(* GPath: a path is cleaned to its normal form, resolved to what the kernel   *)
(* resolves it to with the owners of its links checked, and a path reported   *)
(* as created is there though another process creates it too.                 *)
PathsSound ==
    part = "path" => CleanNormal /\ ResolvedReal /\ OwnersChecked /\ DirsThere

(* The configuration: nodes with the same list of addresses and the same      *)
(* lookups know and admit each other and never connect to themselves, a node  *)
(* that replicates listens at a host of its list (IPv4; ports are not         *)
(* compared), an option has the value of its last line, and deleting core     *)
(* dumps keeps the oldest.                                                    *)
ConfSound ==
    part = "conf" => MeshFull /\ HostListed /\ LastLine /\ OldestKept

(* AccessControl: the most specific rule decides.  For IPv4 in whatever order *)
(* the rules were added and however the tree was rearranged; for IPv6 outside *)
(* the subnets added after a narrower one that holds their address, which the *)
(* code puts under the narrower one.                                          *)
AccessSound ==
    part = "acl" => MostSpecific /\ MostSpecific6

(* GHash and ls_hash: a key is found with its own element after any growth,   *)
(* and a walk visits every element that stays, also when its function erases. *)
TablesSound ==
    part = "hash" => LookupExact /\ WalkComplete

(* The session pool and the buffer of blocks: ls_xpool hands out no unit      *)
(* twice and loses none, ls_xpool_reset frees the big blocks in use, and      *)
(* VMemBuf reads back what was written through unmapped and mapped blocks;    *)
(* after a seekWritePos that left the read cursor behind, only once seekRwOff *)
(* or close has set it again.                                                 *)
MemorySound ==
    /\ part = "xpool" => XTiled /\ BigsLinked
    /\ part = "vmem" => ReadBack /\ CursorsMapped /\ AnonCounted

(* Texts against a reference definition: what ac_search finds is a pattern    *)
(* (it may miss one further on, once it has fallen back), strmatch matches    *)
(* what the pattern means, RegSub substitutes whole, and a date is parsed to  *)
(* the second it names.                                                       *)
TextExact ==
    /\ part = "aho" => MatchReal /\ StartFound
    /\ part = "string" => (GlobExact /\ FirstFound /\ SubstWhole /\ TokensWhole
                          /\ SubStringFound /\ RegWhole /\ NumberTold /\ LineRead /\ BracketCloses /\ HexBack)
    /\ part = "date" => ParsedRight /\ ZoneRight

=============================================================================
