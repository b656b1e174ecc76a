---------------------------- MODULE MCLsMemcache ----------------------------
EXTENDS LsMemcache, TLC

CONSTANTS k1, k2

Base == GetReq(k1)

V1 == << "1" >>
VX == << "x" >>
V11 == << "1", "1" >>

(* Commands on the first key; the second one is only stored, read, counted and
   deleted, to compete for memory and for cas numbers. *)
TextRequests ==
    {[Base EXCEPT !.op = "cas", !.val = V1, !.cas = 1]}
    \cup {[Base EXCEPT !.op = o, !.val = v] :
            o \in {"append", "prepend"}, v \in {VX, V11}}
    \cup {[Base EXCEPT !.op = "add", !.val = V11], [Base EXCEPT !.op = "replace", !.val = VX]}
    \cup {[Base EXCEPT !.op = "set", !.val = v, !.exp = e] : v \in {V1, V11 \o VX}, e \in {0, 1}}
    \cup {[Base EXCEPT !.op = "set", !.val = V11, !.key = k2, !.exp = 1, !.quiet = TRUE]}
    \cup {[Base EXCEPT !.op = o, !.delta = 2] : o \in {"incr", "decr"}}
    \cup {[Base EXCEPT !.op = "delete"], [Base EXCEPT !.op = "touch", !.exp = 1],
          [Base EXCEPT !.op = "flush"], [Base EXCEPT !.op = "version"],
          [Base EXCEPT !.op = "quit"], [Base EXCEPT !.op = "malformed"],
          [Base EXCEPT !.op = "verbosity", !.quiet = TRUE]}

BinBase == [Base EXCEPT !.bin = TRUE]

BinRequests ==
    {[BinBase EXCEPT !.op = o, !.val = V1 \o VX, !.cas = c, !.quiet = (c = 0)] :
        o \in {"set", "replace", "append", "prepend"}, c \in {0, 1}}
    \cup {[BinBase EXCEPT !.op = "add", !.val = V11 \o VX, !.key = k2]}
    \cup {[BinBase EXCEPT !.op = o, !.delta = 1, !.init = i, !.cas = IF i = 3 THEN 0 ELSE 1] :
            o \in {"incr", "decr"}, i \in {-1, 3}}
    \cup {[BinBase EXCEPT !.op = "delete", !.cas = c] : c \in {0, 1}}
    \cup {[BinBase EXCEPT !.op = o, !.exp = 1, !.quiet = (o = "gat")] :
            o \in {"get", "touch", "gat"}}
    \cup {[BinBase EXCEPT !.op = o, !.quiet = TRUE] : o \in {"flush", "quit"}}
    \cup {[BinBase EXCEPT !.op = o] : o \in {"noop", "version", "malformed"}}

ProcSymmetry == Permutations(Procs)

MCRequests == TextRequests \cup BinRequests \cup {GetReq(k) : k \in Keys}
=============================================================================
