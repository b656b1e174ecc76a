------------------------------- MODULE LsPool -------------------------------
(***************************************************************************)
(* The session pool of the lsr library: blocks are carved from the end of  *)
(* superblocks, and superblocks and big blocks go back together when the   *)
(* pool is reset.  The unit of memory is LS_XPOOL_FLINTERVAL bytes; sizes  *)
(* include the header, and superblock k has the addresses of row k.        *)
(***************************************************************************)
EXTENDS Integers, Sequences, SequencesExt, FiniteSetsExt

CONSTANTS
    FlMax,           \* LS_XPOOL_FLMAXBYTES, and LS_XPOOL_NUMFREELISTS
    SmBlkMax,        \* LS_XPOOL_MAXSMBLK_SIZE
    SupBlk,          \* LS_XPOOL_SUPBLK_SIZE
    GetTrys,         \* xpool_maxgetablk_trys
    BlkTrys,         \* xpool_maxblk_trys
    MaxSupBlks,      \* bound of the model: superblocks taken
    MaxXOps          \* bound of the model: calls

VARIABLES
    supers,     \* psuperblk, number of superblocks taken since the reset
    xlists,     \* smblk and lgblk: sequences of blocks, first is ptr
    xfree,      \* pfreelists by size, and whether they were set up
    bigs,       \* big blocks by id: prev, next (0 for NULL), size
    bigHead,    \* pbigblk
    xlive,      \* the blocks in use: address (0 for a big one), size, id
    xgone,      \* blocks dropped after too many failures
    xops
xpoolVars == <<supers, xlists, xfree, bigs, bigHead, xlive, xgone, xops>>

XBlk(a, n) == [a |-> a, n |-> n, fails |-> 0]
NoXFree == [set |-> FALSE, at |-> [n \in 1 .. FlMax |-> << >>]]
NoLists == [sm |-> << >>, lg |-> << >>]

InitXpool ==
    /\ supers = 0 /\ xlists = NoLists /\ xfree = NoXFree /\ bigs = << >>
    /\ bigHead = 0 /\ xlive = {} /\ xgone = {} /\ xops = 0

-----------------------------------------------------------------------------
(* Blocks.  A rest that is too small to be kept goes with the block. *)
MinRest == FlMax + 1
ListOf(n) == IF n <= SmBlkMax THEN "sm" ELSE "lg"
xpool_blkput(ls, which, b) == [ls EXCEPT ![which] = <<[b EXCEPT !.fails = 0]>> \o @]
xpool_blkremove(ls, which, i) == [ls EXCEPT ![which] = RemoveAt(@, i)]

(* carve: n units from the end of block b. *)
xpool_blkcarve(b, n) ==
    LET rest == b.n - n IN IF rest < MinRest THEN XBlk(b.a, b.n) ELSE XBlk(b.a + rest, n)

(* xpool_getablk: the first of a few blocks of the list that is large      *)
(* enough; one that fails too often leaves the list, and a large block     *)
(* that becomes small changes lists.                                       *)
RECURSIVE xpool_getablk(_, _, _, _, _, _)
xpool_getablk(ls, which, n, i, trys, gone) ==
    IF i > Len(ls[which]) \/ trys < 0 THEN [ls |-> ls, b |-> XBlk(0, 0), gone |-> gone]
    ELSE LET b == ls[which][i]
             rest == b.n - n
             kept == [b EXCEPT !.n = rest]
             f == [b EXCEPT !.fails = @ + 1]
         IN  CASE rest >= 0 ->
                    [b |-> xpool_blkcarve(b, n), gone |-> gone,
                     ls |-> CASE rest < MinRest -> xpool_blkremove(ls, which, i)
                              [] rest >= MinRest /\ which = "lg" /\ rest <= SmBlkMax ->
                                    xpool_blkput(xpool_blkremove(ls, which, i), "sm", kept)
                              [] OTHER -> [ls EXCEPT ![which][i] = kept]]
               [] rest < 0 /\ f.fails >= BlkTrys ->
                    LET out == xpool_blkremove(ls, which, i)
                    IN  xpool_getablk(IF which = "lg" THEN xpool_blkput(out, "sm", f) ELSE out,
                                      which, n, i, trys - 1, IF which = "lg" THEN gone ELSE gone \cup {f})
               [] OTHER -> xpool_getablk([ls EXCEPT ![which][i] = f], which, n, i + 1, trys - 1, gone)

getablk(ls, which, n, gone) == xpool_getablk(ls, which, n, 1, GetTrys, gone)

(* A new superblock from the global pool. *)
ls_xpool_getsuperblk(p) == XBlk(p.sup * SupBlk + 1, SupBlk)

(* The pool, as a record that the calls below take and return. *)
Xpool == [ls |-> xlists, fr |-> xfree, gone |-> xgone, sup |-> supers, live |-> xlive]
Using(p, b) == [p EXCEPT !.live = @ \cup {[a |-> b.a, n |-> b.n, id |-> 0]}]

xpool_blkget(p, n) ==
    LET s == IF n <= SmBlkMax THEN getablk(p.ls, "sm", n, p.gone)
             ELSE [ls |-> p.ls, b |-> XBlk(0, 0), gone |-> p.gone]
        l == getablk(s.ls, "lg", n, s.gone)
        sup == ls_xpool_getsuperblk(p)
        rest == SupBlk - n
        found == IF s.b.n # 0 THEN s ELSE l
    IN  IF found.b.n # 0 THEN Using([p EXCEPT !.ls = found.ls, !.gone = found.gone], found.b)
        ELSE Using([p EXCEPT !.gone = l.gone, !.sup = @ + 1,
                             !.ls = IF rest < MinRest THEN l.ls
                                    ELSE xpool_blkput(l.ls, ListOf(rest), XBlk(sup.a, rest))],
                   xpool_blkcarve(sup, n))

-----------------------------------------------------------------------------
(* Calls. *)
XCall == xops < MaxXOps /\ xops' = xops + 1
Apply(p) ==
    /\ p.sup <= MaxSupBlks /\ supers' = p.sup /\ xlive' = p.live
    /\ xlists' = p.ls /\ xfree' = p.fr /\ xgone' = p.gone
    /\ UNCHANGED <<bigs, bigHead>>

smallAlloc(p, n) ==
    IF n <= FlMax /\ p.fr.set /\ p.fr.at[n] # << >>
    THEN Using([p EXCEPT !.fr.at[n] = Tail(@)], XBlk(Head(p.fr.at[n]), n))
    ELSE xpool_blkget(p, n)

(* The first small block freed sets the free lists up, in a block of the pool. *)
xpool_freelistinit(p) == IF p.fr.set THEN p ELSE [smallAlloc(p, 1) EXCEPT !.fr.set = TRUE]

smallFree(p, b) ==
    LET q == [p EXCEPT !.live = @ \ {b}]
    IN  IF b.n <= FlMax THEN [xpool_freelistinit(q) EXCEPT !.fr.at[b.n] = <<b.a>> \o @]
        ELSE [q EXCEPT !.ls = xpool_blkput(@, ListOf(b.n), XBlk(b.a, b.n))]

ls_xpool_alloc(n) == XCall /\ n <= SupBlk /\ Apply(smallAlloc(Xpool, n))
ls_xpool_free(b) == XCall /\ b.id = 0 /\ Apply(smallFree(Xpool, b))

(* Big blocks are linked both ways. *)
ls_xpool_bblkalloc(n) ==
    /\ XCall /\ n > SupBlk
    /\ LET id == Len(bigs) + 1
       IN  /\ bigs' = Append(IF bigHead = 0 THEN bigs ELSE [bigs EXCEPT ![bigHead].prev = id],
                             [prev |-> 0, next |-> bigHead, n |-> n])
           /\ bigHead' = id /\ xlive' = xlive \cup {[a |-> 0, n |-> n, id |-> id]}
    /\ UNCHANGED <<supers, xlists, xfree, xgone>>

unlink(f, id) ==
    [i \in DOMAIN f |-> CASE i = f[id].next -> [f[i] EXCEPT !.prev = f[id].prev]
                          [] i = f[id].prev -> [f[i] EXCEPT !.next = f[id].next]
                          [] OTHER -> f[i]]

bblkfree(b) ==
    /\ XCall /\ b.id # 0
    /\ bigs' = unlink(bigs, b.id)
    /\ bigHead' = IF bigs[b.id].prev = 0 THEN bigs[b.id].next ELSE bigHead
    /\ xlive' = xlive \ {b}
    /\ UNCHANGED <<supers, xlists, xfree, xgone>>

(* ls_xpool_realloc of a small block: in place when it is large enough.    *)
(* (To or from a big block it is one of the calls above, then another.)    *)
ls_xpool_realloc(b, n) ==
    /\ XCall /\ b.id = 0 /\ n <= SupBlk
    /\ Apply(IF b.n >= n THEN Xpool ELSE smallFree(smallAlloc(Xpool, n), b))

(* ls_xpool_reset frees the superblocks, and the big blocks that pbigblk links. *)
RECURSIVE linkedBigs(_)
linkedBigs(id) == IF id = 0 THEN {} ELSE {id} \cup linkedBigs(bigs[id].next)
ls_xpool_reset ==
    /\ XCall
    /\ supers' = 0 /\ xlists' = NoLists /\ xfree' = NoXFree /\ bigHead' = 0 /\ xgone' = {}
    /\ bigs' = << >> /\ xlive' = {}

XSizes == 1 .. SupBlk + 1
NextXpool ==
    \/ \E n \in XSizes : ls_xpool_alloc(n) \/ ls_xpool_bblkalloc(n)
    \/ \E b \in xlive : ls_xpool_free(b) \/ bblkfree(b) \/ \E n \in XSizes : ls_xpool_realloc(b, n)
    \/ ls_xpool_reset

-----------------------------------------------------------------------------
(* Properties. *)
XPieces ==
    {<<"live", b.a, b.n>> : b \in {b \in xlive : b.id = 0}}
    \cup {<<"sm", xlists.sm[i].a, xlists.sm[i].n>> : i \in DOMAIN xlists.sm}
    \cup {<<"lg", xlists.lg[i].a, xlists.lg[i].n>> : i \in DOMAIN xlists.lg}
    \cup {<<"gone", b.a, b.n>> : b \in xgone}
    \cup UNION {{<<"free", xfree.at[n][i], n>> : i \in DOMAIN xfree.at[n]} : n \in 1 .. FlMax}

(* The superblocks are cut up without overlap and without loss: every unit *)
(* of them is in exactly one block in use, in a list, in a free list or in *)
(* a block given up after too many failures; whatever was allocated, freed *)
(* or moved between the lists (xpool_blkget, xpool_getablk's rests that go *)
(* with the block, its moves from lgblk to smblk, ls_xpool_free by the     *)
(* size in the header).                                                    *)
XTiled ==
    /\ \A p, q \in XPieces : p # q => (p[2] .. p[2] + p[3] - 1) \cap (q[2] .. q[2] + q[3] - 1) = {}
    /\ UNION {p[2] .. p[2] + p[3] - 1 : p \in XPieces} = 1 .. supers * SupBlk

(* A reset gives back each big block in use, and none that was freed: the  *)
(* blocks that pbigblk leads to are those in use (ls_xpool_unlink of the   *)
(* first, a middle and the last block).                                    *)
BigsLinked == linkedBigs(bigHead) = {b.id : b \in xlive} \ {0}
=============================================================================
