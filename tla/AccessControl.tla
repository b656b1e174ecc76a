--------------------------- MODULE AccessControl ---------------------------
(***************************************************************************)
(* Access by address: rules for single addresses in hash tables, rules for *)
(* subnets in a tree whose nodes hold the subnets inside theirs.  An       *)
(* address is a sequence of bits, an IPv4 octet one bit of it; an IPv6     *)
(* address has one bit more in front, set in the IPv4-mapped ones.  The    *)
(* access a rule gives is the number of the rule, 0 the default.           *)
(***************************************************************************)
EXTENDS Integers, Sequences, SequencesExt, FiniteSetsExt, TLC

CONSTANTS
    AclBits,     \* width of an IPv4 address
    MaxRules4,   \* bound of the model: rules when they are IPv4 ones
    MaxRules6    \* bound of the model: rules when they are IPv6 ones

VARIABLES
    acl,       \* the AccessControl
    aclHist    \* the rules in force by what they say, prefix -> access; crossed: the
               \* IPv6 subnets added after a narrower one that holds their address
aclVars == <<acl, aclHist>>

BitSeqs(w) == [1 .. w -> {0, 1}]
Prefix(n, w) == [i \in 1 .. w |-> IF i <= n THEN 1 ELSE 0]
andMask(a, m) == [i \in DOMAIN a |-> a[i] * m[i]]
IsMapped(a) == a[1] = 1
Low(a) == SubSeq(a, 2, Len(a))

Subnet(id, mask, access) == [id |-> id, mask |-> mask, access |-> access, kids |-> << >>]
Root(w) == Subnet(Prefix(0, w), Prefix(0, w), 0)

(* The rules are IPv4 or IPv6 ones throughout. *)
InitAcl ==
    \E fam \in {4, 6} :
        /\ acl = [fam |-> fam, root |-> Root(AclBits), root6 |-> Root(AclBits + 1), ip |-> << >>, ip6 |-> << >>]
        /\ aclHist = [n |-> 0, crossed |-> {}, r4 |-> (<< >> :> 0), r6 |-> (<< >> :> 0)]

-----------------------------------------------------------------------------
(* GPointerList::erase: the last one takes the place. *)
eraseAt(s, i) == IF i = Len(s) THEN Front(s) ELSE [Front(s) EXCEPT ![i] = Last(s)]

(* SubNetNode::insertChild at child i of t: n is that child again, holds   *)
(* it, is inside it, or has nothing to do with it.                         *)
RECURSIVE insertChildAdopt(_, _, _)
insertChildAdopt(t, n, i) ==
    IF i > Len(t.kids) THEN [t EXCEPT !.kids = Append(@, n)]
    ELSE LET c == t.kids[i]
         IN  CASE andMask(c.id, n.mask) = n.id /\ andMask(c.mask, n.mask) = n.mask ->
                     insertChildAdopt([t EXCEPT !.kids = eraseAt(@, i)], [n EXCEPT !.kids = Append(@, c)], i)
               [] andMask(n.id, c.mask) = c.id -> [t EXCEPT !.kids[i] = insertChildAdopt(c, n, 1)]
               [] OTHER -> insertChildAdopt(t, n, i + 1)

RECURSIVE insertChild(_, _, _)
insertChild(t, n, i) ==
    IF i > Len(t.kids) THEN [t EXCEPT !.kids = Append(@, n)]
    ELSE LET c == t.kids[i]
             inside == andMask(c.id, n.mask) = n.id
         IN  CASE inside /\ c.mask = n.mask -> [t EXCEPT !.kids[i].access = n.access]
               [] inside /\ c.mask # n.mask /\ andMask(c.mask, n.mask) = n.mask ->
                     insertChild([t EXCEPT !.kids = eraseAt(@, i)], [n EXCEPT !.kids = Append(@, c)], i)
               [] inside /\ c.mask # n.mask /\ andMask(c.mask, n.mask) # n.mask ->
                     [t EXCEPT !.kids[i] = insertChild(c, n, 1)]
               [] ~inside /\ andMask(n.id, c.mask) = c.id -> [t EXCEPT !.kids[i] = insertChild(c, n, 1)]
               [] OTHER -> insertChild(t, n, i + 1)

(* SubNet6Node::insertChild takes in every child whose address is inside, *)
(* without a look at its mask.                                             *)
RECURSIVE insertChild6(_, _, _)
insertChild6(t, n, i) ==
    IF i > Len(t.kids) THEN [t EXCEPT !.kids = Append(@, n)]
    ELSE LET c == t.kids[i]
             inside == andMask(c.id, n.mask) = n.id
         IN  CASE inside /\ c.mask = n.mask -> [t EXCEPT !.kids[i].access = n.access]
               [] inside /\ c.mask # n.mask ->
                     insertChild6([t EXCEPT !.kids = eraseAt(@, i)], [n EXCEPT !.kids = Append(@, c)], i)
               [] ~inside /\ andMask(n.id, c.mask) = c.id -> [t EXCEPT !.kids[i] = insertChild6(c, n, 1)]
               [] OTHER -> insertChild6(t, n, i + 1)

(* The first child that holds the address, 0 for none. *)
matchNode(t, a) == SelectInSeq(t.kids, LAMBDA c : andMask(a, c.mask) = c.id)

insSubNetControl(t, a, mask, access) == insertChild(t, Subnet(andMask(a, mask), mask, access), 1)

(* For IPv6 the tree is first walked down to the last node that holds the  *)
(* subnet's address.                                                       *)
RECURSIVE insSubNetControl6(_, _, _, _)
insSubNetControl6(t, a, mask, access) ==
    LET i == matchNode(t, a)
    IN  CASE i = 0 -> insertChild6(t, Subnet(andMask(a, mask), mask, access), 1)
          [] i > 0 /\ t.kids[i].mask = mask -> [t EXCEPT !.kids[i].access = access]
          [] i > 0 /\ t.kids[i].mask # mask ->
                [t EXCEPT !.kids[i] = insSubNetControl6(t.kids[i], a, mask, access)]

RECURSIVE descend(_, _)
descend(t, a) == LET i == matchNode(t, a) IN IF i = 0 THEN t.access ELSE descend(t.kids[i], a)

getAccessConf(a) == IF a \in DOMAIN acl.ip THEN acl.ip[a] ELSE descend(acl.root, a)
getAccessConf6(a) == IF a \in DOMAIN acl.ip6 THEN acl.ip6[a] ELSE descend(acl.root6, a)

-----------------------------------------------------------------------------
(* The rules; h is the history with the rule's meaning added. *)
Meaning(a, n) == SubSeq(a, 1, n)
Says4(h, a, n) == [h EXCEPT !.r4 = (Meaning(a, n) :> h.n) @@ @]
Says6(h, a, n) == [h EXCEPT !.r6 = (Meaning(a, n) :> h.n) @@ @]

addIPControl(s, h, a) ==
    [s |-> [s EXCEPT !.ip = (a :> h.n) @@ @], h |-> Says4(h, a, AclBits)]

addSubNet(s, h, a, n) ==
    CASE n = AclBits -> addIPControl(s, h, a)
      [] n = 0 -> [s |-> [s EXCEPT !.root.access = h.n], h |-> Says4(h, a, 0)]
      [] OTHER -> [s |-> [s EXCEPT !.root = insSubNetControl(@, a, Prefix(n, AclBits), h.n)],
                   h |-> Says4(h, a, n)]

addIPControl6(s, h, a) ==
    CASE IsMapped(a) -> addIPControl(s, h, Low(a))
      [] ~IsMapped(a) /\ a = Prefix(0, Len(a)) -> [s |-> [s EXCEPT !.root6.access = h.n], h |-> Says6(h, a, 0)]
      [] OTHER -> [s |-> [s EXCEPT !.ip6 = (a :> h.n) @@ @], h |-> Says6(h, a, Len(a))]

addSubNet6(s, h, a, n) ==
    CASE IsMapped(a) /\ n > 1 -> addSubNet(s, h, Low(a), n - 1)
      [] IsMapped(a) /\ n <= 1 -> [s |-> s, h |-> h]
      [] ~IsMapped(a) /\ n = 0 -> [s |-> [s EXCEPT !.root6.access = h.n], h |-> Says6(h, a, 0)]
      [] OTHER -> [s |-> [s EXCEPT !.root6 = insSubNetControl6(@, a, Prefix(n, Len(a)), h.n)],
                   h |-> [Says6(h, a, n) EXCEPT !.crossed =
                             IF \E p \in DOMAIN h.r6 : Len(p) > n /\ Len(p) < Len(a) /\ IsPrefix(p, a)
                             THEN @ \cup {Meaning(a, n)} ELSE @]]

(* A length of all the bits is refused; a dotted netmask is for IPv4 only, *)
(* and may have all the bits.  Netmasks with a 0 before a 1 are not tried. *)
parseNetmask(form, n, w) == IF form = "slash" THEN n < w ELSE w = AclBits

(* The forms of addSubNetControl(string): address/length, address/netmask, *)
(* as many octets as are written (addIPv4), "*", and an IPv6 address.  The *)
(* address may have bits beyond the mask.                                  *)
Forms == {"slash", "dotted", "octets", "all"}
addSubNetControl(s, h, form, a, n) ==
    CASE form \in {"slash", "dotted"} /\ ~parseNetmask(form, n, Len(a)) -> [s |-> s, h |-> h]
      [] form \in {"slash", "dotted"} /\ parseNetmask(form, n, Len(a)) ->
            IF s.fam = 4 THEN addSubNet(s, h, a, n) ELSE addSubNet6(s, h, a, n)
      [] form = "octets" /\ s.fam = 4 -> addSubNet(s, h, a, n)
      [] form = "octets" /\ s.fam = 6 -> addIPControl6(s, h, a)
      [] form = "all" -> [s |-> [s EXCEPT !.root.access = h.n, !.root6.access = h.n],
                          h |-> Says6(Says4(h, a, 0), a, 0)]

-----------------------------------------------------------------------------
(* Actions. *)
Width == IF acl.fam = 4 THEN AclBits ELSE AclBits + 1
MoreRules == aclHist.n < (IF acl.fam = 4 THEN MaxRules4 ELSE MaxRules6)

(* One entry of addList. *)
addList ==
    /\ MoreRules
    /\ \E form \in Forms, n \in 0 .. Width, a \in BitSeqs(Width) :
          /\ form = "octets" => n > 0 /\ (acl.fam = 6 => n = Width)
          /\ form = "all" => n = 0 /\ a = Prefix(0, Width)
          /\ LET r == addSubNetControl(acl, [aclHist EXCEPT !.n = @ + 1], form, a, n)
             IN  acl' = r.s /\ aclHist' = r.h

without(f, k) == [x \in DOMAIN f \ {k} |-> f[x]]

removeIPControl ==
    /\ MoreRules
    /\ \E a \in (IF acl.fam = 4 THEN DOMAIN acl.ip ELSE DOMAIN acl.ip6 \cup {<<1>> \o x : x \in DOMAIN acl.ip}) :
          IF acl.fam = 4 \/ IsMapped(a)
          THEN LET k == IF acl.fam = 4 THEN a ELSE Low(a)
               IN  /\ acl' = [acl EXCEPT !.ip = without(@, k)]
                   /\ aclHist' = [aclHist EXCEPT !.r4 = without(@, k), !.n = @ + 1]
          ELSE /\ acl' = [acl EXCEPT !.ip6 = without(@, a)]
               /\ aclHist' = [aclHist EXCEPT !.r6 = without(@, a), !.n = @ + 1]

(* The rules for single IPv6 addresses and the defaults survive a clear. *)
clearAcl ==
    /\ MoreRules /\ aclHist.n > 0
    /\ acl' = [acl EXCEPT !.root.kids = << >>, !.root6.kids = << >>, !.ip = << >>]
    /\ aclHist' = [n |-> aclHist.n + 1, crossed |-> {}, r4 |-> [x \in {<< >>} |-> aclHist.r4[x]],
                   r6 |-> [x \in {<< >>} \cup DOMAIN acl.ip6 |-> aclHist.r6[x]]]

NextAcl == addList \/ removeIPControl \/ clearAcl

-----------------------------------------------------------------------------
(* Properties. *)

(* The rule with the longest prefix of the address. *)
Longest(r, a) == r[CHOOSE p \in DOMAIN r : IsPrefix(p, a) /\ \A q \in DOMAIN r : IsPrefix(q, a) => Len(q) <= Len(p)]

(* The access of an IPv4 address is what the most specific rule that holds *)
(* it says, and of two rules for the same subnet the later one, in         *)
(* whatever order wide and narrow rules were added (insertChild moves      *)
(* siblings into the new node; matchNode takes the first match).           *)
MostSpecific == \A a \in BitSeqs(AclBits) : getAccessConf(a) = Longest(aclHist.r4, a)

(* The same for IPv6, whose tree is built another way (the child's mask is *)
(* not compared, the tree is walked down by the address as written),       *)
(* except inside a subnet that was added after a narrower one that holds   *)
(* its address: the wider becomes a child of the narrower, decides there,  *)
(* and is never reached from elsewhere.  Outside such subnets the rules    *)
(* still decide as they should.                                            *)
MostSpecific6 ==
    \A a \in BitSeqs(AclBits + 1) :
        (\A p \in aclHist.crossed : ~IsPrefix(p, a)) => getAccessConf6(a) = Longest(aclHist.r6, a)
=============================================================================
