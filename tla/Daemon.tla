------------------------------- MODULE Daemon -------------------------------
(***************************************************************************)
(* The crash guard and its children: fork into free slots, signals, the    *)
(* event loop's flags, crashes, restart and shutdown.  Databases are       *)
(* mapped before the first fork, so a child inherits the guard's mapping.  *)
(***************************************************************************)
EXTENDS Integers, FiniteSets, FiniteSetsExt

CONSTANTS
    Workers,        \* 1 + getCachedProcCnt(), at most 8
    MaxPids,        \* bound of the model: forks between two executions
    MaxSignals,     \* bound of the model: signals from outside
    MaxDeaths       \* bound of the model: children that die by themselves

ASSUME DaemonAssumption ==
    Workers \in Nat /\ MaxPids \in Nat /\ MaxSignals \in Nat /\ MaxDeaths \in Nat

VARIABLES
    guard,      \* the parent process
    proc,       \* its children, by pid
    file,       \* generation of the database files on disk
    budget      \* what is left of the bounds
daemonVars == <<guard, proc, file, budget>>

GuardPids == 1 .. MaxPids
ProcSlots == 1 .. Workers
NoProc == [st |-> "none", slot |-> 0, cause |-> "none", ev |-> {}, event |-> {},
           armed |-> FALSE, lost |-> FALSE, map |-> 0]
Reaped == [NoProc EXCEPT !.st = "reaped"]

Live(p) == proc[p].st \in {"boot", "loop", "read"}
Orphan == guard.pc \in {"gone", "abort", "lost"}     \* getppid() == 1
Zombie(p) == proc[p].st = "dead"

(* Init, initMcShm: the files are opened, or made anew, before any fork. *)
FreshGuard(root, gen) ==
    [pc |-> "top", running |-> TRUE, sigchld |-> FALSE, usr1 |-> FALSE, at |-> 1,
     slots |-> [s \in ProcSlots |-> 0], root |-> root, map |-> gen]

InitDaemon ==
    /\ \E root \in BOOLEAN : guard = FreshGuard(root, 1)
    /\ proc = [p \in GuardPids |-> NoProc] /\ file = 1
    /\ budget = [signals |-> MaxSignals, deaths |-> MaxDeaths]

-----------------------------------------------------------------------------
(* guardCrash(workers). *)

FreeSlots == {s \in ProcSlots : guard.slots[s] = 0}

(* Wrong variant: as many as are running, plus one. *)
FreeSlotByCount == Cardinality(ProcSlots \ FreeSlots) + 1

FreeSlot == Min(FreeSlots)
FreePids == {p \in GuardPids : proc[p].st = "none"}

(* The child returns count + 1 as its process number. *)
forked(s) == [NoProc EXCEPT !.st = "boot", !.slot = s, !.map = guard.map]

guardTop ==
    /\ guard.pc = "top"
    /\ \/ /\ ~guard.running
          /\ guard' = [guard EXCEPT !.pc = "term", !.at = 1] /\ UNCHANGED proc
       \/ /\ guard.running /\ FreeSlots = {}
          /\ guard' = [guard EXCEPT !.pc = "usr1"] /\ UNCHANGED proc
       \/ /\ guard.running /\ FreeSlots # {} /\ FreePids # {}
          /\ LET p == Min(FreePids)
                 s == FreeSlot IN
             /\ guard' = [guard EXCEPT !.pc = "usr1", !.slots[s] = p]
             /\ proc' = [proc EXCEPT ![p] = forked(s)]
    /\ UNCHANGED <<file, budget>>

(* The children go to init, and init reaps the dead ones. *)
guardGone ==
    /\ budget.deaths > 0 /\ budget' = [budget EXCEPT !.deaths = @ - 1]
    /\ guard' = [guard EXCEPT !.pc = "lost", !.slots = [s \in ProcSlots |-> 0]]
    /\ proc' = [p \in GuardPids |-> IF Zombie(p) THEN Reaped ELSE proc[p]]
    /\ UNCHANGED file

(* fork fails: the guard returns -1 and the program ends, children or not. *)
guardForkError ==
    /\ guard.pc = "top" /\ guard.running /\ FreeSlots # {} /\ guardGone

(* The guard itself is killed. *)
guardKilled == ~Orphan /\ guardGone

guardUsr1 ==
    /\ guard.pc = "usr1"
    /\ guard' = [guard EXCEPT !.pc = IF guard.usr1 THEN "term" ELSE "child", !.at = 1]
    /\ UNCHANGED <<proc, file, budget>>

guardChild ==
    /\ guard.pc = "child"
    /\ guard' = [guard EXCEPT !.pc = IF guard.sigchld THEN "wait" ELSE "top",
                              !.sigchld = FALSE]
    /\ UNCHANGED <<proc, file, budget>>

(* childSignaled, deleteDatabases: SIGUSR2 is the library asking for a      *)
(* restart without databases; a core dump removes them and goes on.         *)
AfterDeath(g, cause) ==
    CASE cause = "exit" -> [g EXCEPT !.pc = "top"]
      [] cause = "SIGKILL" -> [g EXCEPT !.pc = "term", !.at = 1]
      [] cause = "core" -> [g EXCEPT !.pc = "top"]
      [] cause = "SIGUSR2" -> [g EXCEPT !.pc = "top", !.usr1 = TRUE]

deleteDatabases(cause) == IF cause \in {"core", "SIGUSR2"} THEN file + 1 ELSE file

(* One waitpid for however many children have died. *)
guardWait ==
    /\ guard.pc = "wait"
    /\ \/ /\ \E p \in GuardPids :
                /\ Zombie(p)
                /\ guard' = AfterDeath([guard EXCEPT !.slots[proc[p].slot] = 0],
                                       proc[p].cause)
                /\ file' = deleteDatabases(proc[p].cause)
                /\ proc' = [proc EXCEPT ![p] = Reaped]
       \/ /\ ~\E p \in GuardPids : Zombie(p)
          /\ guard' = [guard EXCEPT !.pc = "top"] /\ UNCHANGED <<proc, file>>
    /\ UNCHANGED budget

(* The handlers of a child that has not reached init_signals are the        *)
(* guard's: the signal changes the child's own copy of s_iRunning.          *)
signalled(p, flag) ==
    IF proc[p].st \in {"loop", "read"} THEN [proc EXCEPT ![p].ev = @ \cup {flag}] ELSE proc

guardTerm ==
    /\ guard.pc = "term"
    /\ \/ /\ guard.at <= Workers /\ guard.slots[guard.at] = 0
          /\ guard' = [guard EXCEPT !.at = @ + 1] /\ UNCHANGED proc
       \/ /\ guard.at <= Workers /\ guard.slots[guard.at] # 0
          /\ proc' = signalled(guard.slots[guard.at], "HS_STOP")
          /\ guard' = [guard EXCEPT !.pc = "kill"]
    /\ UNCHANGED <<file, budget>>

(* A second later, whatever is still there is killed. *)
guardKill ==
    /\ guard.pc = "kill"
    /\ guard' = [guard EXCEPT !.pc = "term", !.at = @ + 1]
    /\ proc' = [proc EXCEPT ![guard.slots[guard.at]] =
                   [NoProc EXCEPT !.st = "dead", !.slot = guard.at,
                      !.cause = "SIGKILL"]]
    /\ UNCHANGED <<file, budget>>

(* Every child has been dealt with: exit, or, after USR1, execute again     *)
(* (which opens the databases again); who is not root goes on as a worker   *)
(* with number 16, which reinitCachedMpxr's assertion forbids.              *)
Restarted(g) ==
    CASE ~g.usr1 -> [g EXCEPT !.pc = "gone", !.slots = [s \in ProcSlots |-> 0]]
      [] g.usr1 /\ g.root -> FreshGuard(TRUE, file)
      [] OTHER -> [g EXCEPT !.pc = "abort", !.slots = [s \in ProcSlots |-> 0]]

guardEnd ==
    /\ guard.pc = "term" /\ guard.at > Workers
    /\ guard' = Restarted(guard)
    /\ proc' = [p \in GuardPids |->
                   IF Live(p) THEN proc[p]
                   ELSE IF guard.usr1 /\ guard.root THEN NoProc
                   ELSE IF Zombie(p) THEN Reaped ELSE proc[p]]
    /\ UNCHANGED <<file, budget>>

-----------------------------------------------------------------------------
(* A child. *)

Dies(p, cause) ==
    /\ proc' = [proc EXCEPT ![p] =
                   IF Orphan THEN Reaped
                   ELSE [NoProc EXCEPT !.st = "dead", !.slot = proc[p].slot,
                                       !.cause = cause]]
    /\ guard' = [guard EXCEPT !.sigchld = @ \/ ~Orphan]

(* reinitCachedMpxr, ChangeUid, init_signals, EventLoop: alarm(1). *)
workerBoot(p) ==
    /\ proc[p].st = "boot"
    /\ proc' = [proc EXCEPT ![p].st = "loop", ![p].armed = TRUE]
    /\ UNCHANGED <<guard, file, budget>>

sig_alarm(p) ==
    /\ proc[p].st \in {"loop", "read"} /\ proc[p].armed
    /\ proc' = [proc EXCEPT ![p].armed = FALSE, ![p].ev = @ \cup {"HS_ALARM"}]
    /\ UNCHANGED <<guard, file, budget>>

(* event = sEvents *)
EventLoopRead(p) ==
    /\ proc[p].st = "loop" /\ proc[p].ev # {}
    /\ proc' = [proc EXCEPT ![p].st = "read", ![p].event = proc[p].ev]
    /\ UNCHANGED <<guard, file, budget>>

(* Wrong variant: the alarm is not set again. *)
EventLoopActOnce(p) ==
    /\ proc[p].st = "read"
    /\ \/ /\ "HS_STOP" \in proc[p].event \/ ("HS_ALARM" \in proc[p].event /\ Orphan)
          /\ Dies(p, "exit")
       \/ /\ "HS_STOP" \notin proc[p].event /\ ~("HS_ALARM" \in proc[p].event /\ Orphan)
          /\ proc' = [proc EXCEPT ![p].st = "loop", ![p].ev = {}, ![p].event = {}]
          /\ UNCHANGED guard
    /\ UNCHANGED <<file, budget>>

(* sEvents = 0, which forgets a flag set since it was read; then act on it. *)
EventLoopAct(p) ==
    /\ proc[p].st = "read"
    /\ \/ /\ "HS_STOP" \in proc[p].event \/ ("HS_ALARM" \in proc[p].event /\ Orphan)
          /\ Dies(p, "exit")
       \/ /\ "HS_STOP" \notin proc[p].event /\ ~("HS_ALARM" \in proc[p].event /\ Orphan)
          /\ proc' = [proc EXCEPT ![p].st = "loop", ![p].ev = {}, ![p].event = {},
                                  ![p].lost = @ \/ "HS_ALARM" \in proc[p].ev \ proc[p].event,
                                  ![p].armed = @ \/ "HS_ALARM" \in proc[p].event]
          /\ UNCHANGED guard
    /\ UNCHANGED <<file, budget>>

-----------------------------------------------------------------------------
(* From outside. *)

Fault(p) ==
    /\ budget.deaths > 0 /\ Live(p)
    /\ \E cause \in {"exit", "SIGKILL", "core", "SIGUSR2"} : Dies(p, cause)
    /\ budget' = [budget EXCEPT !.deaths = @ - 1] /\ UNCHANGED file

Outside == budget.signals > 0 /\ budget' = [budget EXCEPT !.signals = @ - 1]

sig_term ==
    /\ Outside /\ ~Orphan
    /\ guard' = [guard EXCEPT !.running = FALSE] /\ UNCHANGED <<proc, file>>
sigusr1 ==
    /\ Outside /\ ~Orphan
    /\ guard' = [guard EXCEPT !.usr1 = TRUE] /\ UNCHANGED <<proc, file>>
sig_hup(p) ==
    /\ Outside /\ Live(p) /\ proc' = signalled(p, "HS_HUP") /\ UNCHANGED <<guard, file>>

-----------------------------------------------------------------------------
GuardStep ==
    guardTop \/ guardUsr1 \/ guardChild \/ guardWait \/ guardTerm \/ guardKill \/ guardEnd
ChildStep(p) == workerBoot(p) \/ sig_alarm(p) \/ EventLoopRead(p) \/ EventLoopAct(p)

NextDaemon ==
    \/ GuardStep \/ guardForkError \/ guardKilled \/ sig_term \/ sigusr1
    \/ \E p \in GuardPids : ChildStep(p) \/ Fault(p) \/ sig_hup(p)

SpecDaemon == InitDaemon /\ [][NextDaemon]_daemonVars

(* The kernel runs every process, and time passes. *)
FairDaemon ==
    /\ SpecDaemon
    /\ WF_daemonVars(GuardStep)
    /\ \A p \in GuardPids : WF_daemonVars(ChildStep(p))

-----------------------------------------------------------------------------
(* Every child that runs is in the slot its process number names, so no two *)
(* share a number (and a unix socket), and a shutdown finds each of them.   *)
SlotsApart ==
    ~Orphan => \A p \in GuardPids : Live(p) => guard.slots[proc[p].slot] = p

(* All children that run have the same databases mapped, removed or not.    *)
SameDb == \A p, q \in GuardPids : Live(p) /\ Live(q) => proc[p].map = proc[q].map

(* Whatever dies and is forked again, or drops its core and has the files   *)
(* removed, CrashGuard keeps each child in its own slot, and all of them on *)
(* the same databases.                                                      *)
GuardSound == SlotsApart /\ SameDb

(* A guard told to stop ends, unless it is killed before, and then no child *)
(* runs: also a child that got SIGTERM before it had handlers, or forgot it *)
(* between two instructions.                                                *)
StopEnds ==
    ~guard.running ~> \/ guard.pc \in {"gone", "abort"} /\ \A p \in GuardPids : ~Live(p)
                      \/ guard.running \/ guard.pc = "lost"

(* When the guard has gone, its children notice by their timer and end;     *)
(* only one whose alarm was forgotten between reading and clearing the      *)
(* flags stays.                                                             *)
OrphansEnd ==
    guard.pc = "lost" ~> \A p \in GuardPids : ~Live(p) \/ proc[p].lost

(* CrashGuard::guardProcess and the event loops of its children all end:    *)
(* the guard when it is told to, and the children with it or after it.      *)
AllEnd == StopEnds /\ OrphansEnd
=============================================================================
