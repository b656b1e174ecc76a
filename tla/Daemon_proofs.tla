--------------------------- MODULE Daemon_proofs ---------------------------
(***************************************************************************)
(* Proofs about the crash guard, for any number of children, forks,        *)
(* signals and deaths.                                                     *)
(***************************************************************************)
EXTENDS Daemon, TLAPS
LOCAL INSTANCE WellFoundedInduction

USE DaemonAssumption

GuardStates == {"top", "usr1", "child", "wait", "term", "kill", "gone", "abort", "lost"}
ProcStates == {"none", "boot", "loop", "read", "dead", "reaped"}
EventFlags == {"HS_ALARM", "HS_STOP", "HS_HUP"}
Causes == {"exit", "SIGKILL", "core", "SIGUSR2"}

GuardRecs ==
    [pc : GuardStates, running : BOOLEAN, sigchld : BOOLEAN, usr1 : BOOLEAN, at : Nat,
     slots : [ProcSlots -> GuardPids \cup {0}], root : BOOLEAN, map : Nat]
ProcRecs ==
    [st : ProcStates, slot : Nat, cause : Causes \cup {"none"}, ev : SUBSET EventFlags,
     event : SUBSET EventFlags, armed : BOOLEAN, lost : BOOLEAN, map : Nat]

Types == guard \in GuardRecs /\ proc \in [GuardPids -> ProcRecs] /\ file \in Nat

-----------------------------------------------------------------------------
(* The strengthening. *)

(* A child of a guard that is there is in its slot until it is reaped. *)
InSlot(g, p, r) ==
    r.st \in {"boot", "loop", "read", "dead"} => r.slot \in ProcSlots /\ g.slots[r.slot] = p
Slotted == ~Orphan => \A p \in GuardPids : InSlot(guard, p, proc[p])

(* A slot in use names a child of that number that has not been reaped. *)
SlotUsed(g, f, s) ==
    g.slots[s] # 0 => /\ f[g.slots[s]].st \in {"boot", "loop", "read", "dead"}
                      /\ f[g.slots[s]].slot = s
Used == ~Orphan => \A s \in ProcSlots : SlotUsed(guard, proc, s)

(* A dead child has a cause the guard knows. *)
CauseKnown == \A p \in GuardPids : proc[p].st = "dead" => proc[p].cause \in Causes

(* While it stops its children, those in the slots behind it are dead. *)
Stopping ==
    guard.pc \in {"term", "kill"} =>
       /\ guard.at >= 1
       /\ \A s \in ProcSlots :
             s < guard.at /\ guard.slots[s] # 0 => proc[guard.slots[s]].st = "dead"
Killing == guard.pc = "kill" => guard.at \in ProcSlots /\ guard.slots[guard.at] # 0

(* Children have the guard's databases. *)
Mapped == \A p \in GuardPids : Live(p) => proc[p].map = guard.map

IInv == Types /\ Slotted /\ Used /\ CauseKnown /\ Stopping /\ Killing /\ Mapped

-----------------------------------------------------------------------------
(* The smallest free slot, and the smallest free pid, exist. *)
LEMMA MinIn ==
  ASSUME NEW S, S \subseteq Nat, S # {}
  PROVE  Min(S) \in S
<1> DEFINE R == {ss \in Nat \X Nat : ss[1] < ss[2]}
<1>1. IsWellFoundedOn(R, Nat)
  BY NatLessThanWellFounded, Zenon DEF OpToRel
<1>2. PICK x \in S : \A y \in S : ~(<<y, x>> \in R)
  <2> HIDE DEF R
  <2> QED BY <1>1, WFMin, Zenon
<1>3. ASSUME NEW y \in S
      PROVE  x <= y
  <2>1. x \in Nat /\ y \in Nat
    OBVIOUS
  <2>2. y < x => <<y, x>> \in R
    BY <2>1
  <2>3. ~(y < x)
    BY <1>2, <2>2, Zenon
  <2> QED
    BY <2>1, <2>3
<1> QED
  BY <1>3 DEF Min

(* NoProc and what is made of it. *)
LEMMA ProcTyped ==
  /\ NoProc \in ProcRecs /\ Reaped \in ProcRecs
  /\ \A s \in Nat, c \in Causes :
        [NoProc EXCEPT !.st = "dead", !.slot = s, !.cause = c] \in ProcRecs
<1>1. NoProc \in ProcRecs
  BY DEF NoProc, ProcRecs, ProcStates
<1>2. Reaped \in ProcRecs
  BY <1>1 DEF Reaped, ProcRecs, ProcStates
<1>3. \A s \in Nat, c \in Causes :
        [NoProc EXCEPT !.st = "dead", !.slot = s, !.cause = c] \in ProcRecs
  BY <1>1 DEF ProcRecs, ProcStates
<1> QED
  BY <1>1, <1>2, <1>3

(* What a guard starts with: its record is typed and no slot is taken. *)
LEMMA FreshTyped ==
  ASSUME NEW root \in BOOLEAN, NEW gen \in Nat
  PROVE  /\ FreshGuard(root, gen) \in GuardRecs
         /\ FreshGuard(root, gen).pc = "top"
         /\ \A s \in ProcSlots : FreshGuard(root, gen).slots[s] = 0
BY DEF FreshGuard, GuardRecs, GuardStates

(* A guard that starts has no child. *)
LEMMA InitIInv == InitDaemon => IInv
<1> SUFFICES ASSUME InitDaemon PROVE IInv
  OBVIOUS
<1>1. PICK root \in BOOLEAN : guard = FreshGuard(root, 1)
  BY DEF InitDaemon
<1>2. guard \in GuardRecs /\ guard.pc = "top" /\ \A s \in ProcSlots : guard.slots[s] = 0
  BY <1>1, FreshTyped
<1>3. Types
  BY <1>2, ProcTyped DEF InitDaemon, Types
<1>4. \A p \in GuardPids : proc[p].st = "none"
  BY DEF InitDaemon, NoProc
<1>5. Slotted /\ CauseKnown /\ Mapped
  BY <1>4 DEF Slotted, InSlot, CauseKnown, Mapped, Live
<1>6. Used /\ Stopping /\ Killing
  BY <1>2 DEF Used, SlotUsed, Stopping, Killing
<1> QED
  BY <1>3, <1>5, <1>6 DEF IInv

-----------------------------------------------------------------------------
(* Nobody is forked, killed or reaped. *)
SameProc(old, new) ==
    new.st = old.st /\ new.slot = old.slot /\ new.cause = old.cause /\ new.map = old.map

(* A step that changes flags only, of the guard or of processes, keeps the invariant. *)
LEMMA FlagsOnly ==
  ASSUME IInv, guard' \in GuardRecs, proc' \in [GuardPids -> ProcRecs], UNCHANGED file, ~Orphan,
         \A p \in GuardPids : SameProc(proc[p], proc'[p]),
         guard'.slots = guard.slots, guard'.map = guard.map, Stopping', Killing'
  PROVE  IInv'
<1>1. Types'
  BY DEF IInv, Types
<1>2. Slotted'
  <2> SUFFICES ASSUME NEW q \in GuardPids PROVE InSlot(guard', q, proc'[q])
    BY DEF Slotted
  <2>1. InSlot(guard, q, proc[q]) /\ SameProc(proc[q], proc'[q])
    BY DEF IInv, Slotted
  <2> QED
    BY <2>1 DEF InSlot, SameProc
<1>3. Used'
  <2> SUFFICES ASSUME NEW o \in ProcSlots PROVE SlotUsed(guard', proc', o)
    BY DEF Used
  <2>1. SlotUsed(guard, proc, o) /\ guard.slots[o] \in GuardPids \cup {0}
    BY DEF IInv, Used, Types, GuardRecs
  <2> QED
    BY <2>1 DEF SlotUsed, SameProc
<1>4. CauseKnown' /\ Mapped'
  BY DEF IInv, CauseKnown, Mapped, Live, SameProc
<1> QED
  BY <1>1, <1>2, <1>3, <1>4 DEF IInv

(* The same for a step of the guard that leaves every process alone. *)
LEMMA GuardOnly ==
  ASSUME IInv, guard' \in GuardRecs, UNCHANGED <<proc, file>>, ~Orphan,
         guard'.slots = guard.slots, guard'.map = guard.map, Stopping', Killing'
  PROVE  IInv'
<1>1. proc' \in [GuardPids -> ProcRecs] /\ \A p \in GuardPids : SameProc(proc[p], proc'[p])
  BY DEF IInv, Types, SameProc
<1> QED
  BY <1>1, FlagsOnly

SameGuard == guard'.pc = guard.pc /\ guard'.at = guard.at /\ guard'.slots = guard.slots
                /\ guard'.map = guard.map

(* A child that runs on, dies and becomes a zombie, or dies an orphan. *)
Goes(old, new) ==
    \/ new.st \in {"boot", "loop", "read"} /\ new.slot = old.slot /\ new.map = old.map
    \/ new.st = "dead" /\ new.slot = old.slot /\ new.cause \in Causes
    \/ Orphan /\ new.st = "reaped"

(* A live child moves on by itself; the guard only learns of it. *)
LEMMA ChildOnly ==
  ASSUME IInv, NEW p \in GuardPids, Live(p), NEW r \in ProcRecs, Goes(proc[p], r),
         proc' = [proc EXCEPT ![p] = r], guard' \in GuardRecs, SameGuard, UNCHANGED file
  PROVE  IInv'
<1>1. proc \in [GuardPids -> ProcRecs] /\ proc' \in [GuardPids -> ProcRecs]
  BY DEF IInv, Types
<1>2. proc'[p] = r /\ \A q \in GuardPids : q # p => proc'[q] = proc[q]
  BY <1>1
<1>3. proc[p].st \in {"boot", "loop", "read"}
  BY DEF Live
<1>4. Types'
  BY <1>1 DEF IInv, Types
<1>5. Slotted'
  <2> SUFFICES ASSUME ~Orphan, NEW q \in GuardPids PROVE InSlot(guard, q, proc'[q])
    BY DEF Slotted, SameGuard, Orphan, InSlot
  <2>1. InSlot(guard, q, proc[q])
    BY DEF IInv, Slotted
  <2> QED
    BY <1>2, <1>3, <2>1 DEF InSlot, Goes
<1>6. Used'
  <2> SUFFICES ASSUME ~Orphan, NEW s \in ProcSlots PROVE SlotUsed(guard, proc', s)
    BY DEF Used, SameGuard, Orphan, SlotUsed
  <2>1. SlotUsed(guard, proc, s)
    BY DEF IInv, Used
  <2>2. guard.slots[s] \in GuardPids \cup {0}
    BY DEF IInv, Types, GuardRecs
  <2> QED
    BY <1>2, <1>3, <2>1, <2>2 DEF SlotUsed, Goes
<1>7. CauseKnown'
  BY <1>2 DEF IInv, CauseKnown, Goes
<1>8. Stopping'
  <2> SUFFICES ASSUME guard.pc \in {"term", "kill"}, NEW s \in ProcSlots, s < guard.at,
                      guard.slots[s] # 0
               PROVE  proc'[guard.slots[s]].st = "dead"
    BY DEF Stopping, SameGuard, IInv
  <2>1. proc[guard.slots[s]].st = "dead"
    BY DEF IInv, Stopping
  <2>2. guard.slots[s] \in GuardPids
    BY DEF IInv, Types, GuardRecs
  <2> QED
    BY <1>2, <1>3, <2>1, <2>2
<1>9. Killing'
  BY DEF IInv, Killing, SameGuard
<1>10. Mapped'
  BY <1>2 DEF IInv, Mapped, Live, Goes, SameGuard
<1> QED
  BY <1>4, <1>5, <1>6, <1>7, <1>8, <1>9, <1>10 DEF IInv

(* Exits, faults: a zombie of the guard, or reaped by init. *)
LEMMA DiesStep ==
  ASSUME IInv, NEW p \in GuardPids, Live(p), NEW c \in Causes, Dies(p, c), UNCHANGED file
  PROVE  IInv'
<1>1. PICK r : r = IF Orphan THEN Reaped
                   ELSE [NoProc EXCEPT !.st = "dead", !.slot = proc[p].slot, !.cause = c]
  OBVIOUS
<1>2. proc' = [proc EXCEPT ![p] = r]
  BY <1>1 DEF Dies
<1>3. proc[p] \in ProcRecs /\ proc[p].slot \in Nat
  BY DEF IInv, Types, ProcRecs
<1>4. r \in ProcRecs
  BY <1>1, <1>3, ProcTyped
<1>5. Goes(proc[p], r)
  <2>1. CASE Orphan
    BY <1>1, <2>1 DEF Goes, Reaped, NoProc
  <2>2. CASE ~Orphan
    BY <1>1, <2>2 DEF Goes, NoProc
  <2> QED BY <2>1, <2>2
<1>6. guard' \in GuardRecs /\ SameGuard
  <2>1. guard \in GuardRecs
    BY DEF IInv, Types
  <2>2. (guard.sigchld \/ ~Orphan) \in BOOLEAN
    OBVIOUS
  <2>3. guard' = [guard EXCEPT !.sigchld = guard.sigchld \/ ~Orphan]
    BY DEF Dies
  <2> QED
    BY <2>1, <2>2, <2>3 DEF SameGuard, GuardRecs
<1> QED
  BY <1>2, <1>4, <1>5, <1>6, ChildOnly

(* The child's own steps. *)
LEMMA ChildIInv ==
  ASSUME IInv, NEW p \in GuardPids, ChildStep(p)
  PROVE  IInv'
<1>1. guard \in GuardRecs /\ proc[p] \in ProcRecs
  BY DEF IInv, Types
<1>2. ASSUME NEW r \in ProcRecs, Live(p), r.st \in {"boot", "loop", "read"},
             r.slot = proc[p].slot, r.map = proc[p].map, proc' = [proc EXCEPT ![p] = r],
             UNCHANGED <<guard, file>>
      PROVE  IInv'
  <2>1. Goes(proc[p], r)
    BY <1>2 DEF Goes
  <2>2. SameGuard /\ guard' \in GuardRecs
    BY <1>1, <1>2 DEF SameGuard
  <2> QED
    BY <1>2, <2>1, <2>2, ChildOnly
<1>3. CASE workerBoot(p)
  <2>1. PICK r : r = [proc[p] EXCEPT !.st = "loop", !.armed = TRUE]
    OBVIOUS
  <2>2. r \in ProcRecs /\ r.st = "loop" /\ r.slot = proc[p].slot /\ r.map = proc[p].map
    BY <1>1, <2>1 DEF ProcRecs, ProcStates
  <2>3. proc' = [proc EXCEPT ![p] = r]
    BY <1>3, <2>1 DEF workerBoot, IInv, Types
  <2> QED
    BY <1>2, <1>3, <2>2, <2>3 DEF workerBoot, Live
<1>4. CASE sig_alarm(p)
  <2>0. PICK e : e = proc[p].ev \cup {"HS_ALARM"}
    OBVIOUS
  <2>a. e \in SUBSET EventFlags
    <3>1. proc[p].ev \in SUBSET EventFlags
      BY <1>1 DEF ProcRecs
    <3>2. "HS_ALARM" \in EventFlags
      BY DEF EventFlags
    <3> QED
      BY <2>0, <3>1, <3>2, Zenon
  <2>b. PICK r1 : r1 = [proc[p] EXCEPT !.armed = FALSE]
    OBVIOUS
  <2>c. r1 \in ProcRecs /\ r1.st = proc[p].st /\ r1.slot = proc[p].slot /\ r1.map = proc[p].map
    BY <1>1, <2>b DEF ProcRecs
  <2>1. PICK r : r = [r1 EXCEPT !.ev = e]
    OBVIOUS
  <2>2. r \in ProcRecs /\ r.st = proc[p].st /\ r.slot = proc[p].slot /\ r.map = proc[p].map
    BY <2>a, <2>c, <2>1 DEF ProcRecs
  <2>3. proc' = [proc EXCEPT ![p] = r]
    BY <1>4, <2>0, <2>b, <2>1 DEF sig_alarm, IInv, Types
  <2> QED
    BY <1>2, <1>4, <2>2, <2>3 DEF sig_alarm, Live
<1>5. CASE EventLoopRead(p)
  <2>1. PICK r : r = [proc[p] EXCEPT !.st = "read", !.event = proc[p].ev]
    OBVIOUS
  <2>2. r \in ProcRecs /\ r.st = "read" /\ r.slot = proc[p].slot /\ r.map = proc[p].map
    BY <1>1, <2>1 DEF ProcRecs, ProcStates
  <2>3. proc' = [proc EXCEPT ![p] = r]
    BY <1>5, <2>1 DEF EventLoopRead, IInv, Types
  <2> QED
    BY <1>2, <1>5, <2>2, <2>3 DEF EventLoopRead, Live
<1>6. CASE EventLoopAct(p)
  <2>1. CASE Dies(p, "exit")
    BY <1>6, <2>1, DiesStep DEF EventLoopAct, Live, Causes
  <2>2. CASE ~Dies(p, "exit")
    <3>1. PICK a \in BOOLEAN, l \in BOOLEAN :
             proc' = [proc EXCEPT ![p].st = "loop", ![p].ev = {}, ![p].event = {},
                                  ![p].lost = l, ![p].armed = a]
      <4>1. (proc[p].armed \/ "HS_ALARM" \in proc[p].event) \in BOOLEAN
        OBVIOUS
      <4>2. (proc[p].lost \/ "HS_ALARM" \in proc[p].ev \ proc[p].event) \in BOOLEAN
        OBVIOUS
      <4> QED
        BY <1>6, <2>2, <4>1, <4>2, Zenon DEF EventLoopAct
    <3>2. PICK r : r = [proc[p] EXCEPT !.st = "loop", !.ev = {}, !.event = {}, !.lost = l,
                                       !.armed = a]
      OBVIOUS
    <3>3. r \in ProcRecs /\ r.st = "loop" /\ r.slot = proc[p].slot /\ r.map = proc[p].map
      BY <1>1, <3>2 DEF ProcRecs, ProcStates
    <3>4. proc' = [proc EXCEPT ![p] = r]
      BY <3>1, <3>2 DEF IInv, Types
    <3> QED
      BY <1>2, <1>6, <2>2, <3>3, <3>4 DEF EventLoopAct, Live
  <2> QED
    BY <2>1, <2>2
<1> QED
  BY <1>3, <1>4, <1>5, <1>6 DEF ChildStep

(* Signals set flags. *)
LEMMA SignalledSame ==
  ASSUME IInv, NEW p \in GuardPids, NEW flag \in EventFlags, proc' = signalled(p, flag)
  PROVE  proc' \in [GuardPids -> ProcRecs] /\ \A q \in GuardPids : SameProc(proc[q], proc'[q])
<1>1. proc \in [GuardPids -> ProcRecs] /\ proc[p] \in ProcRecs
  BY DEF IInv, Types
<1>2. PICK e : e = proc[p].ev \cup {flag}
  OBVIOUS
<1>3. e \in SUBSET EventFlags
  <2>1. proc[p].ev \in SUBSET EventFlags
    BY <1>1 DEF ProcRecs
  <2> QED
    BY <1>2, <2>1, Zenon
<1>4. PICK r : r = [proc[p] EXCEPT !.ev = e]
  OBVIOUS
<1>5. r \in ProcRecs /\ SameProc(proc[p], r)
  BY <1>1, <1>3, <1>4 DEF ProcRecs, SameProc
<1>6. proc' = [proc EXCEPT ![p] = r] \/ proc' = proc
  BY <1>1, <1>2, <1>4 DEF signalled
<1>7. \A q \in GuardPids : SameProc(proc[q], proc[q])
  BY DEF SameProc
<1> QED
  BY <1>1, <1>5, <1>6, <1>7

-----------------------------------------------------------------------------
(* The guard's steps. *)

(* A child is forked into the smallest free slot, with the next pid. *)
LEMMA ForkStep ==
  ASSUME IInv, guard.pc = "top", NEW p \in FreePids, NEW s \in FreeSlots,
         guard' = [guard EXCEPT !.pc = "usr1", !.slots[s] = p],
         proc' = [proc EXCEPT ![p] = forked(s)], UNCHANGED file
  PROVE  IInv'
<1>1. p \in GuardPids /\ proc[p].st = "none" /\ p # 0 /\ s \in ProcSlots /\ guard.slots[s] = 0
  BY DEF FreePids, FreeSlots, GuardPids
<1>2. guard \in GuardRecs /\ proc \in [GuardPids -> ProcRecs] /\ file \in Nat
  BY DEF IInv, Types
<1>3. PICK r : r = forked(s)
  OBVIOUS
<1>4. r \in ProcRecs /\ r.st = "boot" /\ r.slot = s /\ r.map = guard.map
  <2>1. s \in Nat /\ guard.map \in Nat
    BY <1>1, <1>2 DEF GuardRecs, ProcSlots
  <2>2. NoProc \in ProcRecs
    BY ProcTyped
  <2> QED
    BY <1>3, <2>1, <2>2 DEF forked, ProcRecs, ProcStates
<1>5. proc' \in [GuardPids -> ProcRecs] /\ proc'[p] = r /\ \A q \in GuardPids : q # p => proc'[q] = proc[q]
  BY <1>1, <1>2, <1>3, <1>4
<1>6. PICK t : t = [guard.slots EXCEPT ![s] = p]
  OBVIOUS
<1>7. /\ t \in [ProcSlots -> GuardPids \cup {0}] /\ t[s] = p
      /\ \A o \in ProcSlots : o # s => t[o] = guard.slots[o]
  BY <1>1, <1>2, <1>6 DEF GuardRecs
<1>8. /\ guard' \in GuardRecs /\ guard'.pc = "usr1" /\ guard'.slots = t
      /\ guard'.map = guard.map
  BY <1>2, <1>6, <1>7 DEF GuardRecs, GuardStates
<1>9. ~Orphan /\ ~Orphan'
  BY <1>8 DEF Orphan
<1>10. Types'
  BY <1>2, <1>5, <1>8 DEF Types
<1>11. Slotted'
  <2> SUFFICES ASSUME NEW q \in GuardPids PROVE InSlot(guard', q, proc'[q])
    BY DEF Slotted
  <2>1. InSlot(guard, q, proc[q])
    BY <1>9 DEF IInv, Slotted
  <2>2. CASE q = p
    BY <1>1, <1>4, <1>5, <1>7, <1>8, <2>2 DEF InSlot
  <2>3. CASE q # p
    <3>1. proc'[q] = proc[q] /\ q # 0
      BY <1>5, <2>3 DEF GuardPids
    <3> QED
      BY <1>1, <1>7, <1>8, <2>1, <3>1 DEF InSlot
  <2> QED BY <2>2, <2>3
<1>12. Used'
  <2> SUFFICES ASSUME NEW o \in ProcSlots PROVE SlotUsed(guard', proc', o)
    BY DEF Used
  <2>1. SlotUsed(guard, proc, o)
    BY <1>9 DEF IInv, Used
  <2>2. CASE o = s
    BY <1>4, <1>5, <1>7, <1>8, <2>2 DEF SlotUsed
  <2>3. CASE o # s
    <3>1. guard'.slots[o] = guard.slots[o] /\ guard.slots[o] \in GuardPids \cup {0}
      BY <1>2, <1>7, <1>8, <2>3 DEF GuardRecs
    <3> QED
      BY <1>1, <1>5, <2>1, <3>1 DEF SlotUsed
  <2> QED BY <2>2, <2>3
<1>13. CauseKnown'
  BY <1>4, <1>5 DEF IInv, CauseKnown
<1>14. Stopping' /\ Killing'
  BY <1>8 DEF Stopping, Killing
<1>15. Mapped'
  BY <1>1, <1>4, <1>5, <1>8 DEF IInv, Mapped, Live
<1> QED
  BY <1>10, <1>11, <1>12, <1>13, <1>14, <1>15 DEF IInv

(* The top of the guard's loop. *)
LEMMA TopStep == IInv /\ guardTop => IInv'
<1> SUFFICES ASSUME IInv, guardTop PROVE IInv'
  OBVIOUS
<1>1. guard \in GuardRecs /\ ~Orphan /\ UNCHANGED file
  BY DEF IInv, Types, guardTop, Orphan
<1>2. CASE guard' = [guard EXCEPT !.pc = "term", !.at = 1] /\ UNCHANGED proc
  <2>1. /\ guard' \in GuardRecs /\ guard'.slots = guard.slots /\ guard'.map = guard.map
        /\ guard'.at = 1 /\ guard'.pc = "term"
    BY <1>1, <1>2 DEF GuardRecs, GuardStates
  <2>2. Stopping' /\ Killing'
    BY <2>1 DEF Stopping, Killing, ProcSlots
  <2> QED
    BY <1>1, <1>2, <2>1, <2>2, GuardOnly
<1>3. CASE guard' = [guard EXCEPT !.pc = "usr1"] /\ UNCHANGED proc
  <2>1. /\ guard' \in GuardRecs /\ guard'.slots = guard.slots /\ guard'.map = guard.map
        /\ guard'.pc = "usr1"
    BY <1>1, <1>3 DEF GuardRecs, GuardStates
  <2>2. Stopping' /\ Killing'
    BY <2>1 DEF Stopping, Killing
  <2> QED
    BY <1>1, <1>3, <2>1, <2>2, GuardOnly
<1>4. ASSUME FreeSlots # {}, FreePids # {},
             guard' = [guard EXCEPT !.pc = "usr1", !.slots[FreeSlot] = Min(FreePids)],
             proc' = [proc EXCEPT ![Min(FreePids)] = forked(FreeSlot)]
      PROVE  IInv'
  <2>1. FreeSlots \subseteq Nat /\ FreePids \subseteq Nat
    BY DEF FreeSlots, FreePids, ProcSlots, GuardPids
  <2>2. FreeSlot \in FreeSlots /\ Min(FreePids) \in FreePids
    BY <1>4, <2>1, MinIn DEF FreeSlot
  <2> QED
    BY <1>1, <1>4, <2>2, ForkStep DEF guardTop
<1> QED
  BY <1>2, <1>3, <1>4, Zenon DEF guardTop

(* The guard is gone: nobody looks at slots any more. *)
LEMMA GoneStep == IInv /\ guardGone => IInv'
<1> SUFFICES ASSUME IInv, guardGone PROVE IInv'
  OBVIOUS
<1>1. guard \in GuardRecs /\ proc \in [GuardPids -> ProcRecs] /\ file \in Nat
  BY DEF IInv, Types
<1>2. PICK t : t = [s \in ProcSlots |-> 0]
  OBVIOUS
<1>3. guard' \in GuardRecs /\ guard'.pc = "lost" /\ guard'.map = guard.map
  BY <1>1, <1>2 DEF guardGone, GuardRecs, GuardStates
<1>4. \A p \in GuardPids : proc'[p] = IF Zombie(p) THEN Reaped ELSE proc[p]
  BY DEF guardGone
<1>5. proc' \in [GuardPids -> ProcRecs]
  BY <1>1, ProcTyped DEF guardGone
<1>6. Types'
  BY <1>1, <1>3, <1>5 DEF Types, guardGone
<1>7. Slotted' /\ Used' /\ Stopping' /\ Killing'
  BY <1>3 DEF Slotted, Used, Stopping, Killing, Orphan
<1>8. CauseKnown'
  BY <1>4 DEF IInv, CauseKnown, Zombie, Reaped, NoProc
<1>9. Mapped'
  BY <1>3, <1>4 DEF IInv, Mapped, Live, Zombie, Reaped, NoProc
<1> QED
  BY <1>6, <1>7, <1>8, <1>9 DEF IInv

(* Signals, and the branches of the loop that answer a flag. *)
LEMMA FlagStep ==
  ASSUME IInv, guardUsr1 \/ guardChild \/ sig_term \/ sigusr1
  PROVE  IInv'
<1>1. guard \in GuardRecs /\ ~Orphan /\ UNCHANGED <<proc, file>>
  BY DEF IInv, Types, guardUsr1, guardChild, sig_term, sigusr1, Orphan
<1>2. CASE guardUsr1
  <2>1. PICK x : x = IF guard.usr1 THEN "term" ELSE "child"
    OBVIOUS
  <2>2. guard' = [guard EXCEPT !.pc = x, !.at = 1] /\ x \in {"term", "child"}
    BY <1>2, <2>1 DEF guardUsr1
  <2>3. /\ guard' \in GuardRecs /\ guard'.slots = guard.slots /\ guard'.map = guard.map
        /\ guard'.at = 1 /\ guard'.pc # "kill"
    BY <1>1, <2>2 DEF GuardRecs, GuardStates
  <2>4. Stopping' /\ Killing'
    BY <2>3 DEF Stopping, Killing, ProcSlots
  <2> QED
    BY <1>1, <2>3, <2>4, GuardOnly
<1>3. CASE guardChild
  <2>1. PICK x : x = IF guard.sigchld THEN "wait" ELSE "top"
    OBVIOUS
  <2>2. guard' = [guard EXCEPT !.pc = x, !.sigchld = FALSE] /\ x \in {"wait", "top"}
    BY <1>3, <2>1 DEF guardChild
  <2>3. /\ guard' \in GuardRecs /\ guard'.slots = guard.slots /\ guard'.map = guard.map
        /\ guard'.pc \in {"wait", "top"}
    BY <1>1, <2>2 DEF GuardRecs, GuardStates
  <2>4. Stopping' /\ Killing'
    BY <2>3 DEF Stopping, Killing
  <2> QED
    BY <1>1, <2>3, <2>4, GuardOnly
<1>4. CASE sig_term \/ sigusr1
  <2>1. guard' \in GuardRecs /\ SameGuard
    BY <1>1, <1>4 DEF sig_term, sigusr1, GuardRecs, SameGuard
  <2>2. Stopping' /\ Killing'
    BY <1>1, <2>1 DEF SameGuard, IInv, Stopping, Killing
  <2> QED
    BY <1>1, <2>1, <2>2, GuardOnly DEF SameGuard
<1> QED
  BY <1>2, <1>3, <1>4

(* childSignaled: what the guard does next. *)
LEMMA AfterTyped ==
  ASSUME NEW g \in GuardRecs, NEW c \in Causes
  PROVE  /\ AfterDeath(g, c) \in GuardRecs
         /\ AfterDeath(g, c).slots = g.slots /\ AfterDeath(g, c).map = g.map
         /\ \/ AfterDeath(g, c).pc = "top"
            \/ AfterDeath(g, c).pc = "term" /\ AfterDeath(g, c).at = 1
<1>1. CASE c = "exit"
  BY <1>1 DEF AfterDeath, GuardRecs, GuardStates
<1>2. CASE c = "SIGKILL"
  BY <1>2 DEF AfterDeath, GuardRecs, GuardStates
<1>3. CASE c = "core"
  BY <1>3 DEF AfterDeath, GuardRecs, GuardStates
<1>4. CASE c = "SIGUSR2"
  BY <1>4 DEF AfterDeath, GuardRecs, GuardStates
<1> QED
  BY <1>1, <1>2, <1>3, <1>4 DEF Causes

(* One child is reaped and its slot is free again. *)
LEMMA ReapStep ==
  ASSUME IInv, guard.pc = "wait", NEW p \in GuardPids, Zombie(p),
         guard' = AfterDeath([guard EXCEPT !.slots[proc[p].slot] = 0], proc[p].cause),
         file' = deleteDatabases(proc[p].cause), proc' = [proc EXCEPT ![p] = Reaped]
  PROVE  IInv'
<1>1. guard \in GuardRecs /\ proc \in [GuardPids -> ProcRecs] /\ file \in Nat /\ ~Orphan
  BY DEF IInv, Types, Orphan
<1>2. PICK n : n = proc[p].slot
  OBVIOUS
<1>3. n \in ProcSlots /\ guard.slots[n] = p /\ proc[p].cause \in Causes /\ p # 0
  BY <1>1, <1>2 DEF IInv, Slotted, InSlot, CauseKnown, Zombie, GuardPids
<1>4. PICK t : t = [guard.slots EXCEPT ![n] = 0]
  OBVIOUS
<1>5. /\ t \in [ProcSlots -> GuardPids \cup {0}] /\ t[n] = 0
      /\ \A o \in ProcSlots : o # n => t[o] = guard.slots[o]
  BY <1>1, <1>3, <1>4 DEF GuardRecs
<1>6. PICK g : g = [guard EXCEPT !.slots[proc[p].slot] = 0]
  OBVIOUS
<1>7. g \in GuardRecs /\ g.slots = t /\ g.map = guard.map
  BY <1>1, <1>2, <1>4, <1>5, <1>6 DEF GuardRecs
<1>8. /\ guard' \in GuardRecs /\ guard'.slots = t /\ guard'.map = guard.map
      /\ guard'.pc = "top" \/ (guard'.pc = "term" /\ guard'.at = 1)
  BY <1>3, <1>6, <1>7, AfterTyped
<1>9. proc' \in [GuardPids -> ProcRecs] /\ proc'[p].st = "reaped"
      /\ \A q \in GuardPids : q # p => proc'[q] = proc[q]
  <2>1. Reaped \in ProcRecs /\ Reaped.st = "reaped"
    BY ProcTyped DEF Reaped, NoProc
  <2> QED
    BY <1>1, <2>1
<1>10. Types'
  <2>1. file' \in Nat
    BY <1>1 DEF deleteDatabases
  <2> QED
    BY <1>8, <1>9, <2>1 DEF Types
<1>11. Slotted'
  <2> SUFFICES ASSUME NEW q \in GuardPids PROVE InSlot(guard', q, proc'[q])
    BY DEF Slotted
  <2>1. InSlot(guard, q, proc[q])
    BY <1>1 DEF IInv, Slotted
  <2>2. CASE q = p
    BY <1>9, <2>2 DEF InSlot
  <2>3. CASE q # p
    BY <1>3, <1>5, <1>8, <1>9, <2>1, <2>3 DEF InSlot
  <2> QED BY <2>2, <2>3
<1>12. Used'
  <2> SUFFICES ASSUME NEW o \in ProcSlots PROVE SlotUsed(guard', proc', o)
    BY DEF Used
  <2>1. SlotUsed(guard, proc, o)
    BY <1>1 DEF IInv, Used
  <2>2. CASE o = n
    BY <1>5, <1>8, <2>2 DEF SlotUsed
  <2>3. CASE o # n
    <3>1. guard'.slots[o] = guard.slots[o] /\ guard.slots[o] \in GuardPids \cup {0}
      BY <1>1, <1>5, <1>8, <2>3 DEF GuardRecs
    <3>2. guard.slots[o] # p
      BY <1>2, <1>3, <2>1, <2>3 DEF SlotUsed
    <3> QED
      BY <1>9, <2>1, <3>1, <3>2 DEF SlotUsed
  <2> QED BY <2>2, <2>3
<1>13. CauseKnown'
  BY <1>9 DEF IInv, CauseKnown
<1>14. Stopping' /\ Killing'
  <2>1. guard'.pc # "kill" /\ (guard'.pc # "term" \/ guard'.at = 1)
    BY <1>8
  <2>2. \A o \in ProcSlots : ~(o < 1)
    BY DEF ProcSlots
  <2> QED
    BY <2>1, <2>2 DEF Stopping, Killing
<1>15. Mapped'
  BY <1>8, <1>9 DEF IInv, Mapped, Live
<1> QED
  BY <1>10, <1>11, <1>12, <1>13, <1>14, <1>15 DEF IInv

(* The guard waits for a child. *)
LEMMA WaitStep == IInv /\ guardWait => IInv'
<1> SUFFICES ASSUME IInv, guardWait PROVE IInv'
  OBVIOUS
<1>1. CASE guard' = [guard EXCEPT !.pc = "top"] /\ UNCHANGED <<proc, file>>
  <2>1. guard \in GuardRecs /\ ~Orphan
    BY DEF IInv, Types, guardWait, Orphan
  <2>2. /\ guard' \in GuardRecs /\ guard'.slots = guard.slots /\ guard'.map = guard.map
        /\ guard'.pc = "top"
    BY <1>1, <2>1 DEF GuardRecs, GuardStates
  <2>3. Stopping' /\ Killing'
    BY <2>2 DEF Stopping, Killing
  <2> QED
    BY <1>1, <2>1, <2>2, <2>3, GuardOnly
<1> QED
  BY <1>1, ReapStep DEF guardWait

(* SIGTERM to the child in the next slot in use. *)
LEMMA TermStep == IInv /\ guardTerm => IInv'
<1> SUFFICES ASSUME IInv, guardTerm PROVE IInv'
  OBVIOUS
<1>1. guard \in GuardRecs /\ ~Orphan /\ guard.pc = "term" /\ UNCHANGED file /\ guard.at \in Nat
  BY DEF IInv, Types, guardTerm, Orphan, GuardRecs
<1>2. CASE guard.slots[guard.at] = 0 /\ guard' = [guard EXCEPT !.at = @ + 1] /\ UNCHANGED proc
  <2>1. /\ guard' \in GuardRecs /\ guard'.slots = guard.slots /\ guard'.map = guard.map
        /\ guard'.at = guard.at + 1 /\ guard'.pc = "term"
    BY <1>1, <1>2 DEF GuardRecs
  <2>2. Stopping'
    <3> SUFFICES ASSUME NEW s \in ProcSlots, s < guard.at + 1, guard.slots[s] # 0
                 PROVE  proc[guard.slots[s]].st = "dead"
      BY <1>1, <1>2, <2>1 DEF Stopping
    <3>1. s # guard.at
      BY <1>2
    <3>2. s < guard.at
      BY <1>1, <3>1 DEF ProcSlots
    <3> QED
      BY <1>1, <3>2 DEF IInv, Stopping
  <2>3. Killing'
    BY <2>1 DEF Killing
  <2> QED
    BY <1>1, <1>2, <2>1, <2>2, <2>3, GuardOnly
<1>3. CASE /\ guard.at <= Workers /\ guard.slots[guard.at] # 0
           /\ proc' = signalled(guard.slots[guard.at], "HS_STOP")
           /\ guard' = [guard EXCEPT !.pc = "kill"]
  <2> PICK p : p = guard.slots[guard.at]
    OBVIOUS
  <2>1. /\ guard' \in GuardRecs /\ guard'.slots = guard.slots /\ guard'.map = guard.map
        /\ guard'.at = guard.at /\ guard'.pc = "kill"
    BY <1>1, <1>3 DEF GuardRecs, GuardStates
  <2>2. guard.at >= 1
    BY <1>1 DEF IInv, Stopping
  <2>3. guard.at \in ProcSlots
    BY <1>1, <1>3, <2>2 DEF ProcSlots
  <2>4. p \in GuardPids
    BY <1>1, <1>3, <2>3 DEF GuardRecs
  <2>5. proc' \in [GuardPids -> ProcRecs] /\ \A q \in GuardPids : SameProc(proc[q], proc'[q])
    BY <1>3, <2>4, SignalledSame DEF EventFlags
  <2>6. Stopping'
    <3> SUFFICES ASSUME NEW s \in ProcSlots, s < guard.at, guard.slots[s] # 0
                 PROVE  proc'[guard.slots[s]].st = "dead"
      BY <2>1, <2>2 DEF Stopping
    <3>1. guard.slots[s] \in GuardPids
      BY <1>1 DEF GuardRecs
    <3>2. proc[guard.slots[s]].st = "dead"
      BY <1>1 DEF IInv, Stopping
    <3> QED
      BY <2>5, <3>1, <3>2 DEF SameProc
  <2>7. Killing'
    BY <1>3, <2>1, <2>3 DEF Killing
  <2> QED
    BY <1>1, <2>1, <2>5, <2>6, <2>7, FlagsOnly
<1> QED
  BY <1>2, <1>3 DEF guardTerm

(* A second later the child is killed, whether it has ended or not. *)
LEMMA KillStep == IInv /\ guardKill => IInv'
<1> SUFFICES ASSUME IInv, guardKill PROVE IInv'
  OBVIOUS
<1>1. /\ guard \in GuardRecs /\ proc \in [GuardPids -> ProcRecs] /\ ~Orphan /\ guard.pc = "kill"
      /\ guard.at \in ProcSlots /\ guard.at \in Nat
  BY DEF IInv, Types, guardKill, Orphan, GuardRecs, Killing
<1>2. PICK p : p = guard.slots[guard.at]
  OBVIOUS
<1>3. p \in GuardPids
  BY <1>1, <1>2 DEF IInv, Killing, GuardRecs
<1>4. PICK r : r = [NoProc EXCEPT !.st = "dead", !.slot = guard.at, !.cause = "SIGKILL"]
  OBVIOUS
<1>5. r \in ProcRecs /\ r.st = "dead" /\ r.slot = guard.at /\ r.cause \in Causes
  <2>1. r \in ProcRecs
    BY <1>1, <1>4, ProcTyped DEF Causes
  <2> QED
    BY <1>4, <2>1 DEF NoProc, Causes
<1>6. proc[p].slot = guard.at
  BY <1>1, <1>2, <1>3 DEF IInv, Used, SlotUsed, GuardPids
<1>7. proc' = [proc EXCEPT ![p] = r] /\ UNCHANGED file
  BY <1>2, <1>4 DEF guardKill
<1>8. /\ proc' \in [GuardPids -> ProcRecs] /\ proc'[p] = r
      /\ \A q \in GuardPids : q # p => proc'[q] = proc[q]
  BY <1>1, <1>3, <1>5, <1>7
<1>9. /\ guard' \in GuardRecs /\ guard'.slots = guard.slots /\ guard'.map = guard.map
      /\ guard'.at = guard.at + 1 /\ guard'.pc = "term"
  <2>1. PICK a : a = guard.at + 1
    OBVIOUS
  <2>2. a \in Nat /\ guard' = [guard EXCEPT !.pc = "term", !.at = a]
    BY <1>1, <2>1 DEF guardKill
  <2> QED
    BY <1>1, <2>1, <2>2 DEF GuardRecs, GuardStates
<1>10. Types'
  BY <1>7, <1>8, <1>9 DEF IInv, Types
<1>11. Slotted'
  <2> SUFFICES ASSUME NEW q \in GuardPids PROVE InSlot(guard', q, proc'[q])
    BY DEF Slotted
  <2>1. InSlot(guard, q, proc[q])
    BY <1>1 DEF IInv, Slotted
  <2>2. CASE q = p
    BY <1>1, <1>2, <1>5, <1>8, <1>9, <2>2 DEF InSlot
  <2>3. CASE q # p
    BY <1>8, <1>9, <2>1, <2>3 DEF InSlot
  <2> QED BY <2>2, <2>3
<1>12. Used'
  <2> SUFFICES ASSUME NEW o \in ProcSlots PROVE SlotUsed(guard', proc', o)
    BY DEF Used
  <2>1. SlotUsed(guard, proc, o) /\ guard.slots[o] \in GuardPids \cup {0}
    BY <1>1 DEF IInv, Used, GuardRecs
  <2> QED
    BY <1>5, <1>6, <1>8, <1>9, <2>1 DEF SlotUsed
<1>13. CauseKnown'
  BY <1>5, <1>8 DEF IInv, CauseKnown
<1>14. Stopping'
  <2> SUFFICES ASSUME NEW s \in ProcSlots, s < guard.at + 1, guard.slots[s] # 0
               PROVE  proc'[guard.slots[s]].st = "dead"
    BY <1>1, <1>9 DEF Stopping, ProcSlots
  <2>1. CASE s = guard.at
    BY <1>2, <1>5, <1>8, <2>1
  <2>2. CASE s # guard.at
    <3>1. s < guard.at
      BY <1>1, <2>2 DEF ProcSlots
    <3>2. proc[guard.slots[s]].st = "dead" /\ guard.slots[s] \in GuardPids
      BY <1>1, <3>1 DEF IInv, Stopping, GuardRecs
    <3> QED
      BY <1>5, <1>8, <3>2
  <2> QED BY <2>1, <2>2
<1>15. Killing'
  BY <1>9 DEF Killing
<1>16. Mapped'
  BY <1>5, <1>8, <1>9 DEF IInv, Mapped, Live
<1> QED
  BY <1>10, <1>11, <1>12, <1>13, <1>14, <1>15, <1>16 DEF IInv

(* Once every slot has been passed no child is left: the guard ends, or
   starts anew without children. *)
LEMMA EndStep == IInv /\ guardEnd => IInv'
<1> SUFFICES ASSUME IInv, guardEnd PROVE IInv'
  OBVIOUS
<1>1. /\ guard \in GuardRecs /\ proc \in [GuardPids -> ProcRecs] /\ file \in Nat /\ ~Orphan
      /\ guard.pc = "term" /\ guard.at > Workers /\ guard.at \in Nat
  BY DEF IInv, Types, guardEnd, Orphan, GuardRecs
<1>2. ASSUME NEW p \in GuardPids
      PROVE  ~Live(p)
  <2> SUFFICES ASSUME Live(p) PROVE FALSE
    OBVIOUS
  <2>1. PICK s : s = proc[p].slot
    OBVIOUS
  <2>2. s \in ProcSlots /\ guard.slots[s] = p /\ p # 0
    BY <1>1, <2>1 DEF IInv, Slotted, InSlot, Live, GuardPids
  <2>3. s < guard.at
    BY <1>1, <2>2 DEF ProcSlots
  <2>4. proc[p].st = "dead"
    BY <1>1, <2>2, <2>3 DEF IInv, Stopping
  <2> QED
    BY <2>4 DEF Live
<1>3. ASSUME NEW p \in GuardPids
      PROVE  /\ proc'[p] \in ProcRecs /\ proc'[p].st \in {"none", "reaped"}
  <2>1. NoProc \in ProcRecs /\ Reaped \in ProcRecs /\ NoProc.st = "none" /\ Reaped.st = "reaped"
    BY ProcTyped DEF Reaped, NoProc
  <2>2. proc'[p] = NoProc \/ proc'[p] = Reaped \/ (proc'[p] = proc[p] /\ ~Zombie(p))
    BY <1>2 DEF guardEnd
  <2>3. proc[p] \in ProcRecs /\ (~Zombie(p) => proc[p].st \in {"none", "reaped"})
    BY <1>1, <1>2 DEF ProcRecs, ProcStates, Zombie, Live
  <2> QED
    BY <2>1, <2>2, <2>3
<1>4. proc' \in [GuardPids -> ProcRecs] /\ UNCHANGED file
  BY <1>3 DEF guardEnd
<1>5. /\ guard' \in GuardRecs
      /\ \/ guard'.pc \in {"gone", "abort"}
         \/ guard'.pc = "top" /\ \A s \in ProcSlots : guard'.slots[s] = 0
  <2>1. PICK t : t = [s \in ProcSlots |-> 0]
    OBVIOUS
  <2>2. t \in [ProcSlots -> GuardPids \cup {0}]
    BY <2>1
  <2>3. CASE guard.usr1 /\ guard.root
    <3>1. guard' = FreshGuard(TRUE, file)
      BY <2>3 DEF guardEnd, Restarted
    <3> QED
      BY <1>1, <3>1, FreshTyped
  <2>4. CASE ~(guard.usr1 /\ guard.root)
    <3>1. PICK x \in {"gone", "abort"} : guard' = [guard EXCEPT !.pc = x, !.slots = t]
      BY <2>1, <2>4 DEF guardEnd, Restarted
    <3>2. guard' \in GuardRecs /\ guard'.pc = x
      BY <1>1, <2>2, <3>1 DEF GuardRecs, GuardStates
    <3> QED
      BY <3>2
  <2> QED BY <2>3, <2>4
<1>6. Types'
  BY <1>1, <1>4, <1>5 DEF Types
<1>7. Slotted' /\ CauseKnown' /\ Mapped'
  BY <1>3 DEF Slotted, InSlot, CauseKnown, Mapped, Live
<1>8. Used' /\ Stopping' /\ Killing'
  BY <1>5 DEF Used, SlotUsed, Orphan, Stopping, Killing
<1> QED
  BY <1>6, <1>7, <1>8 DEF IInv

-----------------------------------------------------------------------------
(* Every step of guard, children and outside keeps the invariant. *)
LEMMA NextIInv == IInv /\ [NextDaemon]_daemonVars => IInv'
<1> SUFFICES ASSUME IInv, [NextDaemon]_daemonVars PROVE IInv'
  OBVIOUS
<1>1. CASE UNCHANGED daemonVars
  BY <1>1
     DEF daemonVars, IInv, Types, Slotted, InSlot, Used, SlotUsed, CauseKnown, Stopping,
         
              Killing, Mapped, Live, Orphan
<1>2. CASE GuardStep
  BY <1>2, TopStep, FlagStep, WaitStep, TermStep, KillStep, EndStep DEF GuardStep
<1>3. CASE guardForkError \/ guardKilled
  BY <1>3, GoneStep DEF guardForkError, guardKilled
<1>4. CASE sig_term \/ sigusr1
  BY <1>4, FlagStep
<1>5. ASSUME NEW p \in GuardPids, Fault(p)
      PROVE  IInv'
  BY <1>5, DiesStep DEF Fault, Causes
<1>6. ASSUME NEW p \in GuardPids, sig_hup(p)
      PROVE  IInv'
  <2>1. /\ Live(p) /\ UNCHANGED <<guard, file>> /\ proc' \in [GuardPids -> ProcRecs]
        /\ \A q \in GuardPids : SameProc(proc[q], proc'[q])
    BY <1>6, SignalledSame DEF sig_hup, EventFlags
  <2>2. Types' /\ CauseKnown' /\ Mapped'
    BY <2>1 DEF IInv, Types, CauseKnown, Mapped, Live, SameProc
  <2>3. Slotted'
    BY <2>1 DEF IInv, Slotted, InSlot, SameProc, Orphan
  <2>4. \A s \in ProcSlots : guard.slots[s] \in GuardPids \cup {0}
    BY DEF IInv, Types, GuardRecs
  <2>5. Used'
    BY <2>1, <2>4 DEF IInv, Used, SlotUsed, SameProc, Orphan
  <2>6. Stopping' /\ Killing'
    BY <2>1, <2>4 DEF IInv, Stopping, Killing, SameProc
  <2> QED
    BY <2>2, <2>3, <2>5, <2>6 DEF IInv
<1> QED
  BY <1>1, <1>2, <1>3, <1>4, <1>5, <1>6, ChildIInv DEF NextDaemon

(* CrashGuard keeps every child that runs in the slot of its number while it
   is there itself, and all of them on the databases it has mapped, whatever
   dies, is forked again or drops its core, for any number of children. *)
THEOREM GuardIsSound == SpecDaemon => []GuardSound
<1>1. IInv => GuardSound
  BY DEF IInv, GuardSound, SlotsApart, SameDb, Slotted, InSlot, Live, Mapped
<1> QED
  BY <1>1, InitIInv, NextIInv, PTL DEF SpecDaemon
=============================================================================
