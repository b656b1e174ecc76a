------------------------------ MODULE MCLsShm ------------------------------
(* The parts of the shared-memory library, and the slices and hashes that a   *)
(* worker opens on it, side by side: a behaviour is one of them, chosen at    *)
(* the start.                                                                 *)
EXTENDS LsShmPool, LsShmHash, LsShmFile, LsShmMap, McSlices, LsShmNames

MCHashKey == [k \in Keys |-> k]
MCPrimes == <<1, 2, 3, 5, 7>>
MCRound(n) == Min({x \in {5, 7, 11, 23, 47, 97} : x >= n})

MCHashOf ==
    [x \in McUsers \cup McKeys \cup {NoUser} |-> CASE x = "u1" -> 1 [] x = "k1" -> 3 [] OTHER -> 4]
MCPwdb == <<[user |-> "u1", pass |-> "p1"], [user |-> "u2", pass |-> "p2"],
            [user |-> "u1", pass |-> "p2"]>>

VARIABLE part
shmVars == <<poolVars, hashVars, fileVars, mapVars, addrVars, mcVars, nameVars, part>>

Init ==
    /\ part \in {"pool", "hash", "file", "spin", "futex", "map", "addr", "slices", "names"}
    /\ InitPool /\ InitHash /\ InitFile /\ InitMap /\ InitAddr /\ InitNames
    /\ part # "spin" => lowPids = {}
    /\ IF part = "slices" THEN InitMc ELSE mc = "off"

PoolStep ==
    part = "pool" /\ NextPool /\ UNCHANGED <<hashVars, fileVars, mapVars, addrVars, mcVars, nameVars, part>>
HashStep ==
    part = "hash" /\ NextHash /\ UNCHANGED <<poolVars, fileVars, mapVars, addrVars, mcVars, nameVars, part>>
FileStep ==
    /\ part = "file" /\ NextFile
    /\ UNCHANGED <<poolVars, hashVars, lowPids, spin, futex, mapVars, addrVars, mcVars, nameVars, part>>
SpinStep ==
    /\ part = "spin" /\ NextSpin
    /\ UNCHANGED <<poolVars, hashVars, disk, opener, lowPids, futex, mapVars, addrVars, mcVars, nameVars, part>>
FutexStep ==
    /\ part = "futex" /\ NextFutex
    /\ UNCHANGED <<poolVars, hashVars, disk, opener, lowPids, spin, mapVars, addrVars, mcVars, nameVars, part>>
MapStep ==
    part = "map" /\ NextMap /\ UNCHANGED <<poolVars, hashVars, fileVars, addrVars, mcVars, nameVars, part>>
AddrStep ==
    part = "addr" /\ NextAddr /\ UNCHANGED <<poolVars, hashVars, fileVars, mapVars, mcVars, nameVars, part>>
SlicesStep ==
    /\ part = "slices" /\ NextMc
    /\ UNCHANGED <<poolVars, hashVars, fileVars, mapVars, addrVars, nameVars, part>>
NamesStep ==
    /\ part = "names" /\ NextNames
    /\ UNCHANGED <<poolVars, hashVars, fileVars, mapVars, addrVars, mcVars, part>>

Next ==
    \/ PoolStep \/ HashStep \/ FileStep \/ SpinStep \/ FutexStep \/ MapStep \/ AddrStep
    \/ SlicesStep \/ NamesStep
Spec == Init /\ [][Next]_shmVars

(* What a worker sees of the shared memory: LsShm::expand maps the old size    *)
(* elsewhere and what is used is mapped, an address is translated back to its  *)
(* offset; after a start that failed half way, further authentications,        *)
(* flushes and statistics over several slices, a connection sees the data of   *)
(* its account and no other, a flush has reached every slice, and a sum counts *)
(* each command once.                                                          *)
ViewsSound ==
    /\ MappedWhenUsed /\ Translates
    /\ part = "slices" => StartSound /\ OwnData /\ FlushTold /\ StatsSum
=============================================================================
