------------------------------ MODULE LogFiles ------------------------------
(***************************************************************************)
(* Log files: processes append lines to the file of one name through their *)
(* own descriptor, and one of them rolls it (LogRotate with a              *)
(* FileAppender, or LogFile::backup): the file is renamed to the first     *)
(* free archive name of the day, a new one opened, and archives too old    *)
(* removed.  Calls of the kernel are steps of their own.  Archive k of day *)
(* d has the name <<d, k>>; "log" is the file itself.                      *)
(***************************************************************************)
EXTENDS Integers, FiniteSets, Sequences, FiniteSetsExt

(***************************************************************************)
(* Starting the daemon once: the pid file is locked, replaced by a fresh   *)
(* file that is locked in turn, and the pid written into that one.         *)
(***************************************************************************)

CONSTANTS
    Starters,      \* processes that run Init
    NoStarter,
    LockTries,     \* 10: attempts of testRunningServer
    MaxInodes      \* bound of the model: files created

VARIABLES
    starter,    \* process -> where it is
    inode,      \* inode -> [owner, pid]: who locked it, what it says
    pidPath     \* the inode the name stands for, 0 when there is none
pidVars == <<starter, inode, pidPath>>

Inodes == DOMAIN inode
Waiting == [pc |-> "start", fd |-> 0, tmp |-> 0, tries |-> 0, stale |-> FALSE]
NewInode == [owner |-> NoStarter, pid |-> NoStarter]

(* Left by an earlier daemon, or no file at all. *)
InitPid ==
    /\ starter = [p \in Starters |-> Waiting]
    /\ pidPath \in {0, 1} /\ inode = [i \in 1 .. pidPath |-> NewInode]

Created == [i \in 1 .. Cardinality(Inodes) + 1 |->
                IF i \in Inodes THEN inode[i] ELSE NewInode]
CanCreate == Cardinality(Inodes) < MaxInodes

(* openPidFile: opened, or created when the name is not there. *)
openPidFile(p) ==
    /\ starter[p].pc = "start"
    /\ \/ /\ pidPath # 0
          /\ starter' = [starter EXCEPT ![p].pc = "opened", ![p].fd = pidPath]
          /\ UNCHANGED <<inode, pidPath>>
       \/ /\ pidPath = 0 /\ CanCreate
          /\ inode' = Created /\ pidPath' = Cardinality(Inodes) + 1
          /\ starter' = [starter EXCEPT ![p].pc = "opened", ![p].fd = pidPath']

(* A process loses its lock when it closes any descriptor of the file. *)
Unlocked(p, files) ==
    [i \in Inodes |-> IF i \in files /\ inode[i].owner = p
                      THEN [inode[i] EXCEPT !.owner = NoStarter] ELSE inode[i]]

(* testRunningServer: tries again 100 ms later, then gives up. *)
StartRefused(p) ==
    [Waiting EXCEPT !.pc = IF starter[p].tries + 1 >= LockTries THEN "failed" ELSE "start",
                    !.tries = starter[p].tries + 1, !.stale = starter[p].stale]

(* lockPidFile, the file that was there. *)
lockFile(p) ==
    LET fd == starter[p].fd IN
    /\ starter[p].pc = "opened"
    /\ \/ /\ inode[fd].owner = NoStarter
          /\ inode' = [inode EXCEPT ![fd].owner = p]
          /\ starter' = [starter EXCEPT ![p].pc = "locked", ![p].stale = @ \/ fd # pidPath]
       \/ /\ inode[fd].owner # NoStarter
          /\ starter' = [starter EXCEPT ![p] = StartRefused(p)] /\ UNCHANGED inode
    /\ UNCHANGED pidPath

(* openTmpPidFile: a fresh file takes the name. *)
openTmpPidFile(p) ==
    /\ starter[p].pc = "locked" /\ CanCreate
    /\ inode' = Created /\ pidPath' = Cardinality(Inodes) + 1
    /\ starter' = [starter EXCEPT ![p].pc = "renamed", ![p].tmp = pidPath']

(* No fresh file could be made: the old one, which is locked, will do. *)
openTmpFails(p) ==
    /\ starter[p].pc = "locked"
    /\ starter' = [starter EXCEPT ![p].pc = "write"] /\ UNCHANGED <<inode, pidPath>>

(* The fresh file is locked, unless someone who opened it was faster; only  *)
(* then the old one is let go.                                              *)
lockTmp(p) ==
    LET s == starter[p] IN
    /\ s.pc = "renamed"
    /\ \/ /\ inode[s.tmp].owner = NoStarter
          /\ inode' = [Unlocked(p, {s.fd}) EXCEPT ![s.tmp].owner = p]
          /\ starter' = [starter EXCEPT ![p].pc = "write", ![p].fd = s.tmp,
                                        ![p].stale = @ \/ s.tmp # pidPath]
       \/ /\ inode[s.tmp].owner # NoStarter
          /\ inode' = Unlocked(p, {s.fd})
          /\ starter' = [starter EXCEPT ![p] = StartRefused(p)]
    /\ UNCHANGED pidPath

(* Wrong variant: writes into the file that lost its name. *)
writePidEarly(p) ==
    /\ starter[p].pc = "write"
    /\ starter' = [starter EXCEPT ![p].pc = "running"] /\ UNCHANGED <<inode, pidPath>>

writePid(p) ==
    /\ starter[p].pc = "write"
    /\ inode' = [inode EXCEPT ![starter[p].fd].pid = p]
    /\ starter' = [starter EXCEPT ![p].pc = "running"] /\ UNCHANGED pidPath

(* The daemon ends, or is killed while it starts: the kernel drops its      *)
(* locks, the file stays.                                                   *)
Ends(p) ==
    /\ starter[p].pc \notin {"start", "failed", "ended"}
    /\ inode' = Unlocked(p, Inodes)
    /\ starter' = [starter EXCEPT ![p] = [Waiting EXCEPT !.pc = "ended", !.stale = starter[p].stale]]
    /\ UNCHANGED pidPath

NextPid ==
    \E p \in Starters :
       \/ openPidFile(p) \/ lockFile(p) \/ openTmpPidFile(p) \/ openTmpFails(p)
       \/ lockTmp(p) \/ writePid(p) \/ Ends(p)

-----------------------------------------------------------------------------
Running(p) == starter[p].pc = "running"
Stale == \E p \in Starters : starter[p].stale

(* Two daemons run at once only after some process has locked a file that   *)
(* had lost its name since the process opened it: lockPidFile does not look *)
(* whether the name still stands for the file, and that race does let two   *)
(* daemons run.                                                             *)
OneDaemon ==
    \A p, q \in Starters : Running(p) /\ Running(q) /\ p # q => Stale

(* The pid file names the daemon that runs, once nobody is starting and     *)
(* nobody has locked a file without a name.                                 *)
PidTold ==
    \A p \in Starters :
       /\ Running(p) /\ ~Stale
       /\ \A q \in Starters \ {p} : starter[q].pc \in {"start", "failed", "ended"}
       => pidPath # 0 /\ inode[pidPath].pid = p
-----------------------------------------------------------------------------

CONSTANTS
    LogProcs,    \* the processes that write the log
    Roller,      \* the one that rolls it
    RollingSize, \* lines above which the log is rolled
    KeepDays,
    MaxLogFiles, MaxLines, MaxDays \* bounds of the model

ASSUME RollerAssumption == Roller \in LogProcs

VARIABLES
    dir,    \* [name -> number of the file, 0: none]
    files,  \* [file -> its lines, the day it was last written, and whether it is the compressed copy of another]
    fd,     \* [process -> file its descriptor is open on, 0: none]
    roll,   \* where the roller is, and the archive it has chosen
    gz,     \* the archives children are compressing
    lines,  \* lines written to the file then named log: their number and day
    today,
    how     \* "appender" or "logfile", and whether archives are compressed
logVars == <<dir, files, fd, roll, gz, lines, today, how>>

Log == <<0, 0>>
Archives == (1 .. MaxDays) \X (0 .. MaxLogFiles)
Names == {Log} \cup Archives
FileNos == 1 .. MaxLogFiles
noFile == [has |-> {}, mtime |-> 0, made |-> FALSE]
NoArchive == <<0, 1>>
IdleRoll == [at |-> "idle", to |-> NoArchive]

InitLog ==
    /\ dir = [n \in Names |-> 0]
    /\ files = [f \in FileNos |-> noFile]
    /\ fd = [p \in LogProcs |-> 0]
    /\ roll = IdleRoll /\ gz = {} /\ lines = << >> /\ today = 1
    /\ how \in [kind : {"appender", "logfile"}, compress : BOOLEAN]
    /\ how.kind = "logfile" => ~how.compress

-----------------------------------------------------------------------------
(* open with O_CREAT | O_APPEND; nothing when the descriptor is open.      *)
unused == {f \in FileNos : ~files[f].made}
openAs(p, d, fs) ==
    IF fd[p] # 0 \/ (dir[Log] = 0 /\ unused = {}) THEN [d |-> d, fs |-> fs, f |-> fd[p]]
    ELSE IF dir[Log] # 0 THEN [d |-> d, fs |-> fs, f |-> dir[Log]]
    ELSE [d |-> [d EXCEPT ![Log] = Min(unused)], fs |-> [fs EXCEPT ![Min(unused)].made = TRUE], f |-> Min(unused)]
canOpen == dir[Log] # 0 \/ unused # {}

(* close() and open() *)
reopen(p, d, fs) ==
    IF dir[Log] # 0 THEN [d |-> d, fs |-> fs, f |-> dir[Log]]
    ELSE [d |-> [d EXCEPT ![Log] = Min(unused)], fs |-> [fs EXCEPT ![Min(unused)].made = TRUE], f |-> Min(unused)]

appendLine(p) ==
    LET o == openAs(p, dir, files)
        n == Len(lines) + 1
    IN  /\ n <= MaxLines /\ canOpen
        /\ dir' = o.d
        /\ fd' = [fd EXCEPT ![p] = o.f]
        /\ files' = [o.fs EXCEPT ![o.f].has = @ \cup {n}, ![o.f].mtime = today]
        /\ lines' = Append(lines, [day |-> today, named |-> o.d[Log] = o.f])
        /\ UNCHANGED <<roll, gz, today, how>>

reopenExist(p) ==
    /\ dir[Log] # 0 /\ fd[p] # 0 /\ fd[p] # dir[Log]
    /\ fd' = [fd EXCEPT ![p] = dir[Log]]
    /\ UNCHANGED <<dir, files, roll, gz, lines, today, how>>

-----------------------------------------------------------------------------
(* Rolling.  testRolling opens a log that is gone anew; backup also one    *)
(* that is another file than its open descriptor's, and it rolls once a    *)
(* day (at any test of the model) as well as by size.                      *)
sizeOf(f) == Cardinality(files[f].has)
testRolling ==
    /\ roll.at = "idle"
    /\ IF dir[Log] = 0 \/ (how.kind = "logfile" /\ fd[Roller] \notin {0, dir[Log]})
       THEN /\ canOpen
            /\ LET o == reopen(Roller, dir, files) IN dir' = o.d /\ files' = o.fs /\ fd' = [fd EXCEPT ![Roller] = o.f]
       ELSE UNCHANGED <<dir, files, fd>>
    /\ \E due \in {FALSE, how.kind = "logfile"} :
          roll' = IF due \/ (dir[Log] # 0 /\ sizeOf(dir[Log]) > RollingSize)
                  THEN [roll EXCEPT !.at = "name"] ELSE roll
    /\ UNCHANGED <<gz, lines, today, how>>

(* The first name of today that is free, compressed or not.                *)
archiveName == <<today, Min({k \in 0 .. MaxLogFiles : dir[<<today, k>>] = 0})>>
chooseName ==
    /\ roll.at = "name"
    /\ roll' = [at |-> "rename", to |-> archiveName]
    /\ UNCHANGED <<dir, files, fd, gz, lines, today, how>>

(* rename replaces what has the name; a log that is gone leaves all as it  *)
(* is.  A compressing child is forked and not waited for.                  *)
renameLog ==
    /\ roll.at = "rename"
    /\ dir' = IF dir[Log] = 0 THEN dir ELSE [dir EXCEPT ![roll.to] = dir[Log], ![Log] = 0]
    /\ gz' = IF how.compress /\ dir[Log] # 0 THEN gz \cup {roll.to} ELSE gz
    /\ roll' = [roll EXCEPT !.at = "open"]
    /\ UNCHANGED <<files, fd, lines, today, how>>

postRotate ==
    /\ roll.at = "open" /\ canOpen
    /\ LET o == reopen(Roller, dir, files) IN dir' = o.d /\ files' = o.fs /\ fd' = [fd EXCEPT ![Roller] = o.f]
    /\ roll' = [roll EXCEPT !.at = "remove"]
    /\ UNCHANGED <<gz, lines, today, how>>

(* Archives not written for more than KeepDays are removed.                *)
tooOld(n) == dir[n] # 0 /\ files[dir[n]].mtime < today - KeepDays
removeSimiliarFiles ==
    /\ roll.at = "remove"
    /\ dir' = [n \in Names |-> IF n \in Archives /\ KeepDays > 0 /\ tooOld(n) THEN 0 ELSE dir[n]]
    /\ roll' = IdleRoll
    /\ UNCHANGED <<files, fd, gz, lines, today, how>>

(* A child writes a copy and unlinks the archive; the copy's name, with    *)
(* ".gz", stands for the archive's.                                        *)
compressFile(n) ==
    /\ n \in gz /\ unused # {}
    /\ gz' = gz \ {n}
    /\ IF dir[n] = 0 THEN UNCHANGED <<dir, files>>
       ELSE /\ files' = [files EXCEPT ![Min(unused)] = [files[dir[n]] EXCEPT !.mtime = today]]
            /\ dir' = [dir EXCEPT ![n] = Min(unused)]
    /\ UNCHANGED <<fd, roll, lines, today, how>>

Tomorrow == today < MaxDays /\ today' = today + 1 /\ UNCHANGED <<dir, files, fd, roll, gz, lines, how>>

NextLog ==
    \/ \E p \in LogProcs : appendLine(p) \/ reopenExist(p)
    \/ testRolling \/ chooseName \/ renameLog \/ postRotate \/ removeSimiliarFiles
    \/ Tomorrow \/ \E n \in Archives : compressFile(n)

-----------------------------------------------------------------------------
(* A line written to the log stays in a file with a name until it is older *)
(* than KeepDays, through every roll, whoever wrote it and with whatever   *)
(* descriptor; a line appended to an archive by a process that has not     *)
(* reopened the log may go with it.                                        *)
LinesStay ==
    \A i \in DOMAIN lines :
        lines[i].named /\ lines[i].day >= today - KeepDays =>
            \E n \in Names : dir[n] # 0 /\ i \in files[dir[n]].has

(* After a roll the roller writes to the file named log, or finds it gone  *)
(* at its next test.                                                       *)
RollerFollows ==
    roll.at \in {"idle", "remove"} /\ fd[Roller] # 0 => \A n \in Archives : dir[n] # fd[Roller]
=============================================================================
