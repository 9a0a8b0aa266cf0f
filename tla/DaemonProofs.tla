---------------------------- MODULE DaemonProofs ----------------------------
(***************************************************************************)
(* Theorems about Daemon, for every set of pids.  The first two hold for   *)
(* any number of commands in flight; the others are about commands that    *)
(* run one after the other, which is what the runs check as well.          *)
(***************************************************************************)
EXTENDS Daemon, TLAPS

-----------------------------------------------------------------------------
(* What the operators give *)

\* A subcommand that begins either returns at once or stands before Start's
\* guard or before Stop; stop and restart reach Stop only past Running.
LEMMA BeginStep ==
  ASSUME NEW c \in Cmds, NEW op \in Ops, Begin(c, op)
  PROVE  /\ UNCHANGED <<proc, pidFile, entry>>
         /\ cmd[c].pc = "idle"
         /\ \/ UNCHANGED cmd
            \/ \E pc \in {"start", "stop"} :
                 /\ cmd' = [cmd EXCEPT ![c] = [op |-> op, pc |-> pc, cfg |-> entry, pid |-> NoPid]]
                 /\ pc = "stop" /\ op # "remove" => Alive
  BY OpsAssumption DEF Begin

\* After Stop a command returns, or goes on to start or to unregister.
LEMMA ContinueStep ==
  ASSUME NEW c \in Cmds, Continue(c)
  PROVE  \/ cmd' = [cmd EXCEPT ![c] = IdleCommand]
         \/ \E pc \in {"start", "unregister"} : cmd' = [cmd EXCEPT ![c].pc = pc]
  BY DEF Continue, AfterStop, Return, Goto

\* The states of the process table: entries are processes or NoProc.
LEMMA ProcTypes ==
  /\ NoProc \in Proc
  /\ \A g \in Pids, i \in BOOLEAN :
        /\ Fresh("worker", g, i) \in Proc
        /\ Fresh("child", g, i) \in Proc
        /\ Fresh("daemon", g, i) \in Proc
        /\ Fresh("superBoot", g, i) \in Proc
        /\ \A f \in Foreign : Fresh(f, g, i) \in Proc
  BY DEF NoProc, Fresh, Proc, Progs, Leaders, Supervisors, Foreign

-----------------------------------------------------------------------------
(* Type correctness *)

\* The steps of a command keep the types.
LEMMA CommandTypes ==
  ASSUME TypeOK, NEW c \in Cmds, CommandStep(c) \/ Interrupt(c)
  PROVE  TypeOK'
<1> USE DEF TypeOK
<1>i. IdleCommand \in Command BY DEF IdleCommand, Command, Entries, Points
<1>r. ASSUME Return(c) PROVE cmd' \in [Cmds -> Command] BY <1>i, <1>r DEF Return
<1>g. ASSUME NEW pc \in Points, cmd' = [cmd EXCEPT ![c].pc = pc]
      PROVE  cmd' \in [Cmds -> Command]
  BY <1>g DEF Command
<1>p. ASSUME NEW pc \in Points, NEW p \in Pids, cmd' = [cmd EXCEPT ![c].pc = pc, ![c].pid = p]
      PROVE  cmd' \in [Cmds -> Command]
  BY <1>p DEF Command
<1>k. ASSUME NEW pc \in Points, Goto(c, pc) PROVE cmd' \in [Cmds -> Command] BY <1>g, <1>k DEF Goto
<1>l. ASSUME LoseLeader(c) PROVE TypeOK'
  <2>1. ASSUME NEW d \in Proc PROVE [d EXCEPT !.lost = TRUE] \in Proc
    BY DEF Proc
  <2>2. proc' \in [Pids -> Proc] BY <1>l, <2>1 DEF LoseLeader
  <2> QED BY <1>l, <2>2, <1>r DEF LoseLeader
<1>c. ASSUME Continue(c) PROVE cmd' \in [Cmds -> Command]
  BY <1>r, <1>g, <1>c, ContinueStep DEF Return, Points
<1>1. CASE StartCheck(c) BY <1>1, <1>r, <1>k DEF StartCheck, Points
<1>2. CASE Spawn(c)
  <2>1. PICK p \in FreePids, i \in BOOLEAN :
          /\ proc' = [proc EXCEPT ![p] = IF cmd[c].cfg = "rotated"
                                           THEN Fresh("superBoot", p, FALSE)
                                           ELSE Fresh("daemon", p, i)]
          /\ cmd' = [cmd EXCEPT ![c].pc = "write", ![c].pid = p]
    BY <1>2 DEF Spawn
  <2>2. p \in Pids BY DEF FreePids
  <2>3. proc' \in [Pids -> Proc]
    <3>1. Fresh("superBoot", p, FALSE) \in Proc /\ Fresh("daemon", p, i) \in Proc BY <2>2, ProcTypes
    <3> QED BY <2>1, <2>2, <3>1
  <2>4. cmd' \in [Cmds -> Command] BY <2>1, <2>2, <1>p DEF Points
  <2> QED BY <1>2, <2>3, <2>4 DEF Spawn
<1>3. CASE SpawnFails(c) BY <1>3, <1>r DEF SpawnFails
<1>4. CASE WritePID(c)
  <2>1. pidFile' \in PidFile BY <1>4 DEF WritePID, PidFile, Command
  <2> QED BY <1>4, <2>1, <1>k DEF WritePID, Points
<1>4f. CASE WritePIDFails(c) BY <1>4f, <1>l DEF WritePIDFails
<1>5. CASE StartReports(c) BY <1>5, <1>r DEF StartReports
<1>6. CASE StopReads(c)
  <2>1. CASE pidFile.pid = NoPid BY <1>6, <2>1, <1>c DEF StopReads
  <2>2. CASE pidFile.pid # NoPid
    <3>1. pidFile.pid \in Pids BY <2>2 DEF PidFile
    <3>2. cmd' = [cmd EXCEPT ![c].pc = "term", ![c].pid = pidFile.pid] BY <1>6, <2>2 DEF StopReads
    <3>3. cmd' \in [Cmds -> Command] BY <3>1, <3>2, <1>p DEF Points
    <3> QED BY <1>6, <3>3 DEF StopReads
  <2> QED BY <2>1, <2>2
<1>7. CASE StopTerms(c)
  <2>1. proc' \in [Pids -> Proc] BY <1>7, ProcTypes DEF StopTerms, AfterTerm
  <2> QED BY <1>7, <2>1, <1>k DEF StopTerms, Points
<1>8. CASE StopDenied(c) BY <1>8, <1>r DEF StopDenied
<1>9. CASE StopPollGone(c) BY <1>9, <1>k DEF StopPollGone, Points
<1>10. CASE StopKills(c)
  <2>1. proc' \in [Pids -> Proc] BY <1>10, ProcTypes DEF StopKills, AfterKill
  <2> QED BY <1>10, <2>1, <1>k DEF StopKills, Points
<1>11. CASE StopRemovesFile(c)
  BY <1>11, <1>c DEF StopRemovesFile, NoPidFile, PidFile
<1>12. CASE Unregister(c) BY <1>12, <1>r DEF Unregister, Entries
<1>13. CASE Interrupt(c) BY <1>13, <1>r, <1>l DEF Interrupt
<1> QED BY <1>1, <1>2, <1>3, <1>4, <1>4f, <1>5, <1>6, <1>7, <1>8, <1>9, <1>10, <1>11, <1>12, <1>13
        DEF CommandStep

\* The steps of the daemon's processes and of the kernel.
ProcessStep(p) ==
  \/ SuperviseSpawns(p) \/ SuperviseFails(p) \/ SuperviseNotify(p)
  \/ SuperviseReturns(p) \/ Fork(p) \/ Exec(p) \/ Exit(p) \/ Recycle(p)


\* The steps of the processes keep the types.
LEMMA ProcessTypes ==
  ASSUME TypeOK, NEW p \in Pids, ProcessStep(p)
  PROVE  TypeOK'
<1> USE DEF TypeOK
<1>1. UNCHANGED <<pidFile, entry, cmd>>
  BY DEF ProcessStep, SuperviseSpawns, SuperviseFails, SuperviseNotify, SuperviseReturns,
         Fork, Exec, Exit, Recycle
<1>2. proc' \in [Pids -> Proc]
  <2>1. CASE SuperviseSpawns(p)
    <3>1. PICK q \in FreePids, i \in BOOLEAN :
            proc' = [proc EXCEPT ![p].prog = "superSpawned",
                                 ![q] = Fresh("child", p, i)]
      BY <2>1 DEF SuperviseSpawns
    <3>2. q \in Pids BY DEF FreePids
    <3>3. Fresh("child", p, i) \in Proc BY ProcTypes
    <3>4. [proc[p] EXCEPT !.prog = "superSpawned"] \in Proc
      BY DEF Proc, Progs, Leaders, Supervisors
    <3> QED BY <3>1, <3>2, <3>3, <3>4
  <2>2. CASE SuperviseNotify(p)
    <3>1. [proc[p] EXCEPT !.prog = "super"] \in Proc BY DEF Proc, Progs, Leaders, Supervisors
    <3> QED BY <2>2, <3>1 DEF SuperviseNotify
  <2>3. CASE Fork(p)
    <3>1. PICK q \in FreePids, i \in BOOLEAN :
            proc' = [proc EXCEPT ![q] = Fresh("worker", proc[p].grp, i)]
      BY <2>3 DEF Fork
    <3>2. Fresh("worker", proc[p].grp, i) \in Proc
      BY DEF Fresh, Proc, Progs
    <3> QED BY <3>1, <3>2 DEF FreePids
  <2>4. CASE Recycle(p)
    <3>1. PICK f \in Foreign : proc' = [proc EXCEPT ![p] = Fresh(f, p, FALSE)]
      BY <2>4 DEF Recycle
    <3> QED BY <3>1, ProcTypes
  <2>5. CASE Exec(p)
    <3>1. [proc[p] EXCEPT !.prog = "execed"] \in Proc BY DEF Proc, Progs
    <3> QED BY <2>5, <3>1 DEF Exec
  <2> QED BY <2>1, <2>2, <2>3, <2>4, <2>5, ProcTypes
          DEF ProcessStep, SuperviseFails, SuperviseReturns, Exit
<1> QED BY <1>1, <1>2

\* Every step keeps the types.
LEMMA NextTypes == TypeOK /\ [Next]_vars => TypeOK'
<1> SUFFICES ASSUME TypeOK, [Next]_vars PROVE TypeOK'
  OBVIOUS
<1>1. ASSUME NEW c \in Cmds, CommandStep(c) \/ Interrupt(c) PROVE TypeOK' BY <1>1, CommandTypes
<1>2. ASSUME NEW c \in Cmds, NEW op \in Ops, Begin(c, op) PROVE TypeOK'
  BY <1>2, BeginStep DEF TypeOK, Command, Points
<1>3. ASSUME NEW new \in {"plain", "rotated"}, Add(new) PROVE TypeOK'
  BY <1>3 DEF Add, TypeOK, Entries
<1>4. ASSUME NEW p \in Pids, ProcessStep(p) PROVE TypeOK' BY <1>4, ProcessTypes
<1>5. CASE UNCHANGED vars BY <1>5 DEF vars, TypeOK
<1> QED BY <1>1, <1>2, <1>3, <1>4, <1>5 DEF Next, ProcessStep

\* The state has its types at all times, for any pids and any number of
\* commands that overlap in any way.
THEOREM TypeCorrect == Spec => []TypeOK
<1>1. Init => TypeOK
  BY ProcTypes DEF Init, TypeOK, NoPidFile, PidFile, Entries, IdleCommand, Command, Points
<1> QED BY <1>1, NextTypes, PTL DEF Spec

-----------------------------------------------------------------------------
(* The supervisor and its child *)

\* A session leader, and an unrelated process, leads its own group.
OwnGroup == \A p \in Pids : proc[p].prog \in Leaders \cup Foreign => proc[p].grp = p

\* A step of a command changes the process table only by a signal, by a new
\* leader on a pid that was free, or by ending before that was recorded.
LEMMA CommandTable ==
  ASSUME NEW c \in Cmds, CommandStep(c) \/ Interrupt(c)
  PROVE  \/ UNCHANGED proc
         \/ Spawn(c) \/ StopTerms(c) \/ StopKills(c)
         \/ cmd[c].pc = "write" /\ LoseLeader(c)
  BY DEF CommandStep, Interrupt, StartCheck, SpawnFails, WritePID, WritePIDFails, StartReports, StopReads,
         StopDenied, StopPollGone, StopRemovesFile, Unregister

\* What Spawn puts into the table, in one record.
LEMMA SpawnTable ==
  ASSUME TypeOK, NEW c \in Cmds, Spawn(c)
  PROVE  \E p \in FreePids :
           /\ p \in Pids
           /\ \A q \in Pids \ {p} : proc'[q] = proc[q]
           /\ proc'[p].grp = p
           /\ proc'[p].prog = IF cmd[c].cfg = "rotated" THEN "superBoot" ELSE "daemon"
           /\ cmd' = [cmd EXCEPT ![c].pc = "write", ![c].pid = p]
<1>1. PICK p \in FreePids, i \in BOOLEAN :
        /\ proc' = [proc EXCEPT ![p] = IF cmd[c].cfg = "rotated"
                                         THEN Fresh("superBoot", p, FALSE)
                                         ELSE Fresh("daemon", p, i)]
        /\ cmd' = [cmd EXCEPT ![c].pc = "write", ![c].pid = p]
  BY DEF Spawn
<1>2. p \in Pids BY DEF FreePids
<1>3. /\ \A q \in Pids \ {p} : proc'[q] = proc[q]
      /\ proc'[p].grp = p
      /\ proc'[p].prog = IF cmd[c].cfg = "rotated" THEN "superBoot" ELSE "daemon"
  BY <1>1, <1>2 DEF TypeOK, Fresh
<1> QED BY <1>1, <1>2, <1>3

\* Losing a leader changes nothing else of its process.
LEMMA LostTable ==
  ASSUME TypeOK, NEW c \in Cmds, LoseLeader(c), NEW q \in Pids
  PROVE  /\ proc'[q].prog = proc[q].prog /\ proc'[q].grp = proc[q].grp
         /\ q # cmd[c].pid => proc'[q] = proc[q]
         /\ q = cmd[c].pid /\ proc[q].prog \in Leaders => proc'[q].lost
         /\ proc[q].prog \notin Leaders => proc'[q] = proc[q]
  BY DEF LoseLeader, TypeOK, Proc

\* What a step of the processes may do to one entry of the table: nothing, end
\* it, turn one supervisor state into the next, or fill a free entry.
LEMMA ProcessTable ==
  ASSUME TypeOK, NEW p \in Pids, ProcessStep(p), NEW q \in Pids
  PROVE  \/ proc'[q] = proc[q]
         \/ proc'[q] = NoProc
         \/ /\ {proc[q].prog, proc'[q].prog} \subseteq Supervisors
            /\ proc[q].prog # "super"
            /\ proc'[q].grp = proc[q].grp /\ proc'[q].lost = proc[q].lost
         \/ proc'[q].prog = "execed" /\ proc[q].prog = "daemon"
         \/ /\ q \in FreePids
            /\ proc'[q].prog \in {"child", "worker"}
         \/ /\ q \in FreePids
            /\ \A d \in Cmds : cmd[d].pc \in {"idle", "poll", "check"}
            /\ proc'[q].prog \in Foreign /\ proc'[q].grp = q
<1> USE DEF TypeOK
<1>1. CASE SuperviseSpawns(p)
  <2>1. PICK r \in FreePids, i \in BOOLEAN :
          proc' = [proc EXCEPT ![p].prog = "superSpawned", ![r] = Fresh("child", p, i)]
    BY <1>1 DEF SuperviseSpawns
  <2>2. r \in Pids /\ r # p BY <1>1 DEF FreePids, NoProc, Fresh, SuperviseSpawns
  <2>3. CASE q = p BY <1>1, <2>1, <2>2, <2>3 DEF SuperviseSpawns, Supervisors, Proc
  <2>4. CASE q = r BY <2>1, <2>2, <2>4 DEF Fresh
  <2> QED BY <2>1, <2>2, <2>3, <2>4
<1>2. CASE SuperviseNotify(p)
  <2>1. CASE q # p BY <1>2, <2>1 DEF SuperviseNotify
  <2>2. CASE q = p
    <3>1. proc'[q] = [proc[q] EXCEPT !.prog = "super"] BY <1>2, <2>2 DEF SuperviseNotify
    <3>2. proc[q] \in Proc OBVIOUS
    <3>3. /\ proc'[q].prog = "super" /\ proc'[q].grp = proc[q].grp
          /\ proc'[q].lost = proc[q].lost
      BY <3>1, <3>2 DEF Proc
    <3> QED BY <1>2, <2>2, <3>3 DEF SuperviseNotify, Supervisors
  <2> QED BY <2>1, <2>2
<1>3. CASE Fork(p)
  <2>1. PICK r \in FreePids, i \in BOOLEAN :
          proc' = [proc EXCEPT ![r] = Fresh("worker", proc[p].grp, i)]
    BY <1>3 DEF Fork
  <2>2. r \in Pids BY DEF FreePids
  <2>3. CASE q = r BY <2>1, <2>2, <2>3 DEF Fresh
  <2> QED BY <2>1, <2>2, <2>3
<1>4. CASE Recycle(p)
  <2>1. PICK f \in Foreign : proc' = [proc EXCEPT ![p] = Fresh(f, p, FALSE)] BY <1>4 DEF Recycle
  <2>2. CASE q = p
    <3>1. proc'[q].prog \in Foreign /\ proc'[q].grp = q BY <2>1, <2>2 DEF Fresh
    <3> QED BY <1>4, <2>2, <3>1 DEF Recycle
  <2> QED BY <2>1, <2>2
<1>5. CASE Exec(p) BY <1>5 DEF Exec, Proc
<1> QED BY <1>1, <1>2, <1>3, <1>4, <1>5 DEF ProcessStep, SuperviseFails, SuperviseReturns, Exit

\* Leaders keep leading their own group.
LEMMA NextOwnGroup == TypeOK /\ OwnGroup /\ [Next]_vars => OwnGroup'
<1> SUFFICES ASSUME TypeOK, OwnGroup, [Next]_vars, NEW q \in Pids,
                    proc'[q].prog \in Leaders \cup Foreign
             PROVE  proc'[q].grp = q
  BY DEF OwnGroup
<1> USE DEF OwnGroup, Leaders, Supervisors, Foreign
<1>1. ASSUME NEW c \in Cmds, CommandStep(c) \/ Interrupt(c) PROVE proc'[q].grp = q
  <2>1. CASE Spawn(c) BY <2>1, SpawnTable
  <2>2. CASE StopTerms(c) BY <2>2 DEF StopTerms, AfterTerm, NoProc, Fresh
  <2>3. CASE StopKills(c) BY <2>3 DEF StopKills, AfterKill, NoProc, Fresh
  <2>4. CASE LoseLeader(c) BY <2>4, LostTable
  <2> QED BY <1>1, <2>1, <2>2, <2>3, <2>4, CommandTable
<1>2. ASSUME NEW c \in Cmds, NEW op \in Ops, Begin(c, op) PROVE proc'[q].grp = q
  BY <1>2, BeginStep
<1>3. ASSUME NEW new \in {"plain", "rotated"}, Add(new) PROVE proc'[q].grp = q
  BY <1>3 DEF Add
<1>4. ASSUME NEW p \in Pids, ProcessStep(p) PROVE proc'[q].grp = q
  BY <1>4, ProcessTable DEF NoProc, Fresh
<1>5. CASE UNCHANGED vars BY <1>5 DEF vars
<1> QED BY <1>1, <1>2, <1>3, <1>4, <1>5 DEF Next, ProcessStep

\* The types and the groups hold at all times.
LEMMA Groups == Spec => [](TypeOK /\ OwnGroup)
<1>1. Init => OwnGroup BY DEF Init, OwnGroup, NoProc, Fresh, Leaders, Supervisors, Foreign
<1> QED BY <1>1, TypeCorrect, NextOwnGroup, PTL DEF Spec

\* The supervisor with its handlers installed leaves the table only after its
\* child or together with it.
LEMMA OutlivesStep ==
  ASSUME TypeOK, OwnGroup, Next, NEW s \in Pids, NEW q \in Group(s),
         proc[s].prog = "super", proc'[s].prog # "super"
  PROVE  proc'[q].prog # "child"
<1>0. q \in Pids /\ proc[q].grp = s BY DEF Group
<1>1. ASSUME NEW c \in Cmds, CommandStep(c) \/ Interrupt(c) PROVE proc'[q].prog # "child"
  <2>1. CASE Spawn(c) BY <2>1, SpawnTable DEF FreePids, NoProc, Fresh
  <2>2. CASE StopTerms(c)
    <3>1. ~DiesOnTerm(s) BY DEF DiesOnTerm
    <3> QED BY <2>2, <3>1 DEF StopTerms, AfterTerm
  <2>3. CASE StopKills(c)
    <3>1. s \in Group(cmd[c].pid) \cup {cmd[c].pid} BY <2>3 DEF StopKills, AfterKill
    <3>2. cmd[c].pid = s BY <3>1 DEF Group, OwnGroup, Leaders, Supervisors
    <3>3. q \in Group(cmd[c].pid) BY <3>2
    <3> QED BY <2>3, <3>3, <1>0 DEF StopKills, AfterKill, NoProc, Fresh
  <2>4. CASE LoseLeader(c) BY <2>4, LostTable
  <2> QED BY <1>1, <2>1, <2>2, <2>3, <2>4, CommandTable
<1>2. ASSUME NEW c \in Cmds, NEW op \in Ops, Begin(c, op) PROVE FALSE BY <1>2, BeginStep
<1>3. ASSUME NEW new \in {"plain", "rotated"}, Add(new) PROVE FALSE BY <1>3 DEF Add
<1>4. ASSUME NEW p \in Pids, ProcessStep(p) PROVE proc'[q].prog # "child"
  <2>1. CASE p = s /\ SuperviseReturns(s)
    BY <2>1, <1>0 DEF SuperviseReturns, TypeOK, NoProc, Fresh
  <2>2. CASE ~(p = s /\ SuperviseReturns(s))
    <3>1. ~(p # s /\ SuperviseReturns(p)) BY DEF SuperviseReturns, TypeOK
    <3>2. ~SuperviseReturns(p) BY <2>2, <3>1
    <3>3. proc'[s] # NoProc
      <4>1. CASE p # s
        BY <1>4, <3>2, <4>1 DEF ProcessStep, SuperviseSpawns, SuperviseFails, SuperviseNotify,
           Fork, Exec, Exit, Recycle, TypeOK, FreePids, NoProc, Fresh
      <4>2. CASE p = s
        BY <1>4, <3>2, <4>2 DEF ProcessStep, SuperviseSpawns, SuperviseFails, SuperviseNotify,
           Fork, Exec, Exit, Recycle, TypeOK, FreePids, NoProc, Fresh
      <4> QED BY <4>1, <4>2
    <3> QED BY <1>4, <3>3, ProcessTable DEF FreePids, NoProc, Fresh
  <2> QED BY <2>1, <2>2
<1> QED BY <1>1, <1>2, <1>3, <1>4 DEF Next, ProcessStep

\* Supervise never returns early on a signal, whatever commands overlap.
THEOREM SupervisorStays == Spec => SupervisorOutlivesChild
<1> DEFINE A == \A s \in Pids :
                  proc[s].prog = "super" /\ proc'[s].prog # "super"
                     => \A q \in Group(s) : proc'[q].prog # "child"
<1>1. TypeOK /\ OwnGroup /\ [Next]_vars => [A]_vars
  <2> SUFFICES ASSUME TypeOK, OwnGroup, Next PROVE A
    OBVIOUS
  <2> QED BY OutlivesStep
<1> QED BY <1>1, Groups, PTL DEF Spec, SupervisorOutlivesChild

-----------------------------------------------------------------------------
(* Commands that run one after the other *)

\* At most one command is in flight.
Serial == \A c, d \in Cmds : c = d

\* The program p runs is the one a start with entry k starts.
Fits(p, k) == proc[p].prog \in (IF k = "rotated" THEN Supervisors ELSE {"daemon"})

\* The pid file records p, with an argv that fits.
Recorded(p) ==
  /\ pidFile.pid = p
  /\ proc[p].prog \in (IF pidFile.bin = "super" THEN Supervisors ELSE {"daemon"})

\* The inductive form of NoUntrackedLeader: a leader that was not lost is
\* recorded so that Alive sees it and no command is past the point where it
\* found nobody alive, or it is the process a start is about to record.
LeaderHeld ==
  \A p \in Pids : Leading(p) =>
    \/ Recorded(p) /\ \A c \in Cmds : cmd[c].pc \notin {"spawn", "write", "rm"}
    \/ \E c \in Cmds : cmd[c].pc = "write" /\ cmd[c].pid = p /\ Fits(p, cmd[c].cfg)

\* Stop signals the pid that the pid file records.
HoldsRecorded ==
  \A c \in Cmds : cmd[c].pc \in {"term", "poll"} => cmd[c].pid = pidFile.pid

SerialInv == LeaderHeld /\ HoldsRecorded

\* A leader that is recorded is alive to pg.
LEMMA RecordedAlive ==
  ASSUME TypeOK, NEW p \in Pids, Recorded(p)
  PROVE  Alive
  BY PidsAssumption DEF Recorded, Alive, TypeOK, PidFile, Supervisors

\* Where no command is about to write the pid file and nobody is alive, every
\* leader was lost.
LEMMA NobodyAlive ==
  ASSUME TypeOK, LeaderHeld, ~Alive, \A c \in Cmds : cmd[c].pc # "write", NEW p \in Pids
  PROVE  ~Leading(p)
  BY RecordedAlive DEF LeaderHeld

\* The steps of the only command keep the serial invariant.
LEMMA CommandSerial ==
  ASSUME TypeOK, OwnGroup, SerialInv, Serial, NEW c \in Cmds, CommandStep(c) \/ Interrupt(c)
  PROVE  SerialInv'
<1> USE DEF TypeOK, SerialInv, Leading
<1>o. \A d \in Cmds : d = c BY DEF Serial
<1>l. ASSUME \A p \in Pids : ~Leading(p)' PROVE LeaderHeld'
  BY <1>l DEF LeaderHeld
<1>1. ASSUME UNCHANGED <<proc, pidFile>>, cmd[c].pc \notin {"spawn", "write", "rm"},
             cmd'[c].pc \notin {"spawn", "write", "rm"}
      PROVE  LeaderHeld'
  BY <1>1, <1>o DEF LeaderHeld, Recorded, Fits
<1>2. ASSUME UNCHANGED <<proc, pidFile>>, cmd[c].pc \in {"spawn", "rm"}
      PROVE  LeaderHeld'
  <2>1. \A p \in Pids : ~Leading(p)' BY <1>2, <1>o DEF LeaderHeld
  <2> QED BY <2>1, <1>l
<1>3. ASSUME cmd'[c].pc \notin {"term", "poll"} PROVE HoldsRecorded'
  BY <1>3, <1>o DEF HoldsRecorded
<1>r. ASSUME Return(c) PROVE cmd'[c].pc = "idle" BY <1>r DEF Return, IdleCommand
<1>g. ASSUME NEW pc, Goto(c, pc) PROVE cmd'[c].pc = pc /\ cmd'[c].pid = cmd[c].pid
  BY <1>g DEF Goto, Command
<1>c. ASSUME Continue(c) PROVE cmd'[c].pc \in {"idle", "start", "unregister"}
  BY <1>c, ContinueStep DEF IdleCommand, Command
<1>4. CASE StartCheck(c)
  <2>1. CASE Alive BY <1>4, <2>1, <1>1, <1>3, <1>r DEF StartCheck
  <2>2. CASE ~Alive
    <3>1. \A p \in Pids : ~Leading(p)'
      BY <1>4, <2>2, <1>o, NobodyAlive DEF StartCheck
    <3>2. cmd'[c].pc = "spawn" BY <1>4, <2>2, <1>g DEF StartCheck
    <3> QED BY <3>1, <3>2, <1>l, <1>3
  <2> QED BY <2>1, <2>2
<1>5. CASE Spawn(c)
  <2>1. PICK p \in FreePids :
           /\ p \in Pids
           /\ \A q \in Pids \ {p} : proc'[q] = proc[q]
           /\ proc'[p].grp = p
           /\ proc'[p].prog = IF cmd[c].cfg = "rotated" THEN "superBoot" ELSE "daemon"
           /\ cmd' = [cmd EXCEPT ![c].pc = "write", ![c].pid = p]
    BY <1>5, SpawnTable
  <2>2. cmd'[c].pc = "write" /\ cmd'[c].pid = p /\ cmd'[c].cfg = cmd[c].cfg BY <2>1 DEF Command
  <2>3. \A q \in Pids : ~Leading(q) BY <1>5, <1>o DEF Spawn, LeaderHeld
  <2>4. Fits(p, cmd[c].cfg)' BY <2>1, <2>2 DEF Fits, Supervisors
  <2>5. LeaderHeld'
    <3> SUFFICES ASSUME NEW q \in Pids, Leading(q)'
                 PROVE  \E d \in Cmds : cmd'[d].pc = "write" /\ cmd'[d].pid = q /\ Fits(q, cmd[d].cfg)'
      BY DEF LeaderHeld
    <3>1. q = p BY <2>1, <2>3
    <3> QED BY <2>2, <2>4, <3>1
  <2> QED BY <2>2, <2>5, <1>3
<1>6. CASE SpawnFails(c) BY <1>6, <1>2, <1>3, <1>r DEF SpawnFails
<1>6w. ASSUME LoseLeader(c), cmd[c].pc = "write" PROVE SerialInv'
  <2>1. ASSUME NEW p \in Pids, Leading(p)' PROVE FALSE
    <3>1. Leading(p) \/ p = cmd[c].pid BY <1>6w, <2>1, LostTable
    <3>2. p = cmd[c].pid BY <1>6w, <1>o, <3>1 DEF LeaderHeld
    <3> QED BY <1>6w, <2>1, <3>2, LostTable
  <2> QED BY <1>6w, <2>1, <1>l, <1>3, <1>r DEF LoseLeader
<1>6f. CASE WritePIDFails(c) BY <1>6f, <1>6w DEF WritePIDFails
<1>7. CASE WritePID(c)
  <2>1. cmd'[c].pc = "check" BY <1>7, <1>g DEF WritePID
  <2>2. LeaderHeld'
    <3> SUFFICES ASSUME NEW p \in Pids, Leading(p)' PROVE Recorded(p)'
      BY <2>1, <1>o DEF LeaderHeld
    <3>1. cmd[c].pid = p /\ Fits(p, cmd[c].cfg) BY <1>7, <1>o DEF WritePID, LeaderHeld
    <3> QED BY <1>7, <3>1 DEF WritePID, Recorded, Fits
  <2> QED BY <2>1, <2>2, <1>3
<1>8. CASE StartReports(c) BY <1>8, <1>1, <1>3, <1>r DEF StartReports
<1>9. CASE StopReads(c)
  <2>1. CASE pidFile.pid = NoPid BY <1>9, <2>1, <1>1, <1>3, <1>c DEF StopReads
  <2>2. CASE pidFile.pid # NoPid
    <3>1. cmd'[c].pc = "term" /\ cmd'[c].pid = pidFile.pid BY <1>9, <2>2 DEF StopReads, Command
    <3>2. HoldsRecorded' BY <1>9, <3>1, <1>o DEF HoldsRecorded, StopReads
    <3> QED BY <1>9, <3>1, <3>2, <1>1 DEF StopReads
  <2> QED BY <2>1, <2>2
<1>10. CASE StopTerms(c)
  <2>1. cmd'[c].pc = "poll" /\ cmd'[c].pid = cmd[c].pid BY <1>10, <1>g DEF StopTerms
  <2>2. HoldsRecorded' BY <1>10, <2>1, <1>o DEF StopTerms, HoldsRecorded
  <2>3. LeaderHeld'
    <3> SUFFICES ASSUME NEW p \in Pids, Leading(p)' PROVE Recorded(p)'
      BY <2>1, <1>o DEF LeaderHeld
    <3>1. proc'[p] = proc[p]
      BY <1>10 DEF StopTerms, AfterTerm, NoProc, Fresh, Leaders, Supervisors
    <3>2. Recorded(p) BY <1>10, <3>1, <1>o DEF LeaderHeld, StopTerms
    <3> QED BY <1>10, <3>1, <3>2 DEF Recorded, StopTerms
  <2> QED BY <2>2, <2>3
<1>11. CASE StopDenied(c) BY <1>11, <1>1, <1>3, <1>r DEF StopDenied
<1>12. CASE StopPollGone(c)
  <2>1. cmd'[c].pc = "rm" BY <1>12, <1>g DEF StopPollGone
  <2>2. \A p \in Pids : ~Leading(p)'
    BY <1>12, <1>o, NobodyAlive DEF StopPollGone
  <2> QED BY <2>1, <2>2, <1>l, <1>3
<1>13. CASE StopKills(c)
  <2>1. cmd'[c].pc = "rm" BY <1>13, <1>g DEF StopKills
  <2>2. ASSUME NEW p \in Pids, Leading(p)' PROVE FALSE
    <3>1. proc'[p] = proc[p] BY <1>13, <2>2 DEF StopKills, AfterKill, NoProc, Fresh, Leaders, Supervisors
    <3>2. Recorded(p) BY <1>13, <2>2, <3>1, <1>o DEF LeaderHeld, StopKills
    <3>3. cmd[c].pid = p BY <1>13, <3>2 DEF HoldsRecorded, Recorded, StopKills
    <3> QED BY <1>13, <2>2, <3>1, <3>3 DEF StopKills, AfterKill, NoProc, Fresh, Leaders, Supervisors
  <2> QED BY <2>1, <2>2, <1>l, <1>3
<1>14. CASE StopRemovesFile(c)
  <2>1. \A p \in Pids : ~Leading(p)' BY <1>14, <1>o DEF LeaderHeld, StopRemovesFile
  <2> QED BY <1>14, <2>1, <1>l, <1>3, <1>c DEF StopRemovesFile
<1>15. CASE Unregister(c) BY <1>15, <1>1, <1>3, <1>r DEF Unregister
<1>16. CASE Interrupt(c)
  <2>1. CASE cmd[c].pc = "write" BY <1>16, <2>1, <1>6w DEF Interrupt
  <2>2. CASE cmd[c].pc # "write" BY <1>16, <2>2, <1>1, <1>2, <1>3, <1>r DEF Interrupt
  <2> QED BY <2>1, <2>2
<1> QED BY <1>4, <1>5, <1>6, <1>6f, <1>7, <1>8, <1>9, <1>10, <1>11, <1>12, <1>13, <1>14, <1>15, <1>16
        DEF CommandStep

\* So does every other step.
LEMMA NextSerial == Serial /\ TypeOK /\ OwnGroup /\ SerialInv /\ [Next]_vars => SerialInv'
<1> SUFFICES ASSUME Serial, TypeOK, OwnGroup, SerialInv, [Next]_vars PROVE SerialInv'
  OBVIOUS
<1> USE DEF Leading
<1>1. ASSUME NEW c \in Cmds, CommandStep(c) \/ Interrupt(c) PROVE SerialInv' BY <1>1, CommandSerial
<1>2. ASSUME NEW c \in Cmds, NEW op \in Ops, Begin(c, op) PROVE SerialInv'
  <2>1. CASE UNCHANGED cmd
    BY <1>2, <2>1, BeginStep DEF SerialInv, LeaderHeld, HoldsRecorded, Recorded, Fits
  <2>2. CASE cmd' # cmd
    <3>1. PICK pc \in {"start", "stop"} :
            cmd' = [cmd EXCEPT ![c] = [op |-> op, pc |-> pc, cfg |-> entry, pid |-> NoPid]]
      BY <1>2, <2>2, BeginStep
    <3>2. /\ \A d \in Cmds : d = c
          /\ cmd[c].pc = "idle" /\ cmd'[c].pc = pc
          /\ UNCHANGED <<proc, pidFile>>
      BY <1>2, <3>1, BeginStep DEF Serial, TypeOK
    <3> QED BY <3>2 DEF SerialInv, LeaderHeld, HoldsRecorded, Recorded
  <2> QED BY <2>1, <2>2
<1>3. ASSUME NEW new \in {"plain", "rotated"}, Add(new) PROVE SerialInv'
  BY <1>3 DEF Add, SerialInv, LeaderHeld, HoldsRecorded, Recorded, Fits
<1>4. ASSUME NEW p \in Pids, ProcessStep(p) PROVE SerialInv'
  <2>1. UNCHANGED <<pidFile, entry, cmd>>
    BY <1>4 DEF ProcessStep, SuperviseSpawns, SuperviseFails, SuperviseNotify, SuperviseReturns,
                Fork, Exec, Exit, Recycle
  <2>2. ASSUME NEW q \in Pids, Leading(q)'
        PROVE  /\ Leading(q)
               /\ proc[q].prog = "daemon" <=> proc'[q].prog = "daemon"
    BY <1>4, <2>2, ProcessTable DEF NoProc, Fresh, Leaders, Supervisors, Foreign
  <2>3. LeaderHeld'
    <3> SUFFICES ASSUME NEW q \in Pids, Leading(q)'
                 PROVE  \/ Recorded(q)' /\ \A c \in Cmds : cmd'[c].pc \notin {"spawn", "write", "rm"}
                        \/ \E c \in Cmds : cmd'[c].pc = "write" /\ cmd'[c].pid = q /\ Fits(q, cmd[c].cfg)'
      BY DEF LeaderHeld
    <3>1. CASE Recorded(q) /\ \A c \in Cmds : cmd[c].pc \notin {"spawn", "write", "rm"}
      BY <2>1, <2>2, <3>1 DEF Recorded, Leaders, Supervisors
    <3>2. CASE \E c \in Cmds : cmd[c].pc = "write" /\ cmd[c].pid = q /\ Fits(q, cmd[c].cfg)
      BY <2>1, <2>2, <3>2 DEF Fits, Leaders, Supervisors
    <3> QED BY <2>2, <3>1, <3>2 DEF SerialInv, LeaderHeld
  <2> QED BY <2>1, <2>3 DEF SerialInv, HoldsRecorded
<1>5. CASE UNCHANGED vars
  BY <1>5 DEF vars, SerialInv, LeaderHeld, HoldsRecorded, Recorded, Fits
<1> QED BY <1>1, <1>2, <1>3, <1>4, <1>5 DEF Next, ProcessStep

\* No sequence of commands, crashes, reused pids and interrupts leaves a
\* running daemon or supervisor that the pid file does not record, but the
\* start that ends between cmd.Start and the pid file; no later command adds to
\* what that one left.
THEOREM LeadersTracked == Serial => (Spec => []NoUntrackedLeader)
<1> SUFFICES ASSUME Serial PROVE Spec => []NoUntrackedLeader
  OBVIOUS
<1>1. Init => SerialInv
  BY DEF Init, SerialInv, LeaderHeld, Leading, HoldsRecorded, NoProc, Fresh, IdleCommand, Leaders, Supervisors
<1>2. SerialInv => NoUntrackedLeader
  BY DEF SerialInv, LeaderHeld, NoUntrackedLeader, Tracked, Recorded
<1> QED BY <1>1, <1>2, Groups, NextSerial, PTL DEF Spec

\* Nor is the daemon ever run twice, but for those pg cannot tell: Start leaves
\* a live one alone, and restart does not start before Stop has ended the old
\* one, also when add --force has meanwhile changed what a start runs.
THEOREM LeaderUnique == Serial => (Spec => []OneLeader)
<1> SUFFICES ASSUME Serial PROVE Spec => []OneLeader
  OBVIOUS
<1>1. Init => SerialInv
  BY DEF Init, SerialInv, LeaderHeld, Leading, HoldsRecorded, NoProc, Fresh, IdleCommand, Leaders, Supervisors
<1>2. SerialInv => OneLeader
  BY DEF Serial, SerialInv, LeaderHeld, OneLeader, Recorded
<1> QED BY <1>1, <1>2, Groups, NextSerial, PTL DEF Spec

-----------------------------------------------------------------------------
(* Processes of other programs *)

\* What stop and restart hold of the recorded pid between Running and SIGTERM:
\* it is not an unrelated program, for no pid is reused meanwhile.
TargetOurs ==
  \A c \in Cmds :
    /\ cmd[c].pc = "stop" /\ pidFile.pid # NoPid => proc[pidFile.pid].prog # "other"
    /\ cmd[c].pc \in {"term", "poll"} => cmd[c].pid = pidFile.pid /\ pidFile.pid # NoPid
    /\ cmd[c].pc = "term" => proc[cmd[c].pid].prog # "other"
    /\ cmd[c].op # "remove"

\* "other" processes that a step of the processes leaves are as they were, and
\* while a command is past Running none appears.
LEMMA ProcessOthers ==
  ASSUME TypeOK, NEW p \in Pids, ProcessStep(p), NEW q \in Pids
  PROVE  /\ proc[q].prog = "other" => proc'[q] = proc[q]
         /\ proc'[q].prog = "other" /\ (\E d \in Cmds : cmd[d].pc \in {"stop", "term"})
              => proc[q].prog = "other"
<1>1. proc[q].prog = "other" => proc'[q] = proc[q]
  <2> SUFFICES ASSUME proc[q].prog = "other" PROVE proc'[q] = proc[q]
    OBVIOUS
  <2>1. q \notin FreePids BY DEF FreePids, NoProc, Fresh
  <2>2. proc'[q] # proc[q] => q # p
    BY <2>1 DEF ProcessStep, SuperviseSpawns, SuperviseFails, SuperviseNotify, SuperviseReturns,
                Fork, Exec, Exit, Recycle, TypeOK
  <2>3. q # p => proc'[q] = proc[q]
    BY <2>1 DEF ProcessStep, SuperviseSpawns, SuperviseFails, SuperviseNotify, SuperviseReturns,
                Fork, Exec, Exit, Recycle, TypeOK
  <2> QED BY <2>2, <2>3
<1>2. proc'[q].prog = "other" /\ (\E d \in Cmds : cmd[d].pc \in {"stop", "term"})
        => proc[q].prog = "other"
  BY ProcessTable DEF NoProc, Fresh, Supervisors
<1> QED BY <1>1, <1>2

\* A signal to the group of a process that is not "other" reaches no "other":
\* an unrelated process leads its own group.
LEMMA GroupOurs ==
  ASSUME TypeOK, OwnGroup, NEW p \in Pids, proc[p].prog # "other", NEW q \in Pids,
         proc[q].prog = "other"
  PROVE  q \notin Group(p) \cup {p}
  BY DEF Group, OwnGroup, Foreign

\* The steps of the only command spare the processes of other programs.
LEMMA CommandSpares ==
  ASSUME TypeOK, OwnGroup, TargetOurs, \A c, d \in Cmds : c = d,
         NEW c \in Cmds, CommandStep(c) \/ Interrupt(c)
  PROVE  /\ TargetOurs'
         /\ \A q \in Pids : proc[q].prog = "other" => proc'[q] = proc[q]
         /\ \A q \in Pids : proc'[q].prog = "other" => proc[q].prog = "other"
<1> USE DEF TypeOK
<1>o. \A d \in Cmds : d = c OBVIOUS
<1>s. ASSUME Spawn(c)
      PROVE  \E p \in FreePids :
               /\ p \in Pids
               /\ \A q \in Pids \ {p} : proc'[q] = proc[q]
               /\ proc'[p].prog \in {"superBoot", "daemon"}
               /\ cmd' = [cmd EXCEPT ![c].pc = "write", ![c].pid = p]
  BY <1>s, SpawnTable
<1>1. /\ \A q \in Pids : proc[q].prog = "other" => proc'[q] = proc[q]
      /\ \A q \in Pids : proc'[q].prog = "other" => proc[q].prog = "other"
  <2>1. CASE Spawn(c) BY <2>1, <1>s DEF FreePids, NoProc, Fresh
  <2>2. CASE StopTerms(c)
    <3>1. cmd[c].pid \in Pids /\ proc[cmd[c].pid].prog # "other"
      BY <2>2 DEF StopTerms, TargetOurs, PidFile
    <3>2. TermTargets(cmd[c].pid) \subseteq Group(cmd[c].pid) \cup {cmd[c].pid} BY DEF TermTargets
    <3> QED BY <2>2, <3>1, <3>2, GroupOurs DEF StopTerms, AfterTerm, NoProc, Fresh
  <2>3. CASE StopKills(c)
    <3>1. cmd[c].pid \in Pids /\ proc[cmd[c].pid].prog # "other"
      BY <2>3 DEF StopKills, TargetOurs, PidFile, Alive, Supervisors
    <3> QED BY <2>3, <3>1, GroupOurs DEF StopKills, AfterKill, NoProc, Fresh
  <2>4. CASE LoseLeader(c)
    <3>1. ASSUME NEW q \in Pids, proc[q].prog = "other" PROVE proc'[q] = proc[q]
      BY <2>4, <3>1, LostTable DEF Leaders, Supervisors
    <3> QED BY <2>4, <3>1, LostTable
  <2> QED BY <2>1, <2>2, <2>3, <2>4, CommandTable
<1>2. TargetOurs'
  <2>r. ASSUME Return(c) PROVE TargetOurs' BY <2>r, <1>o DEF Return, IdleCommand, TargetOurs
  <2>g. ASSUME NEW pc, Goto(c, pc), pc \notin {"stop", "term", "poll"} PROVE TargetOurs'
    BY <2>g, <1>o DEF Goto, TargetOurs, Command
  <2>c. ASSUME Continue(c) PROVE TargetOurs'
    <3>1. cmd'[c].pc \in {"idle", "start", "unregister"} /\ cmd'[c].op \in {"none", cmd[c].op}
      BY <2>c, ContinueStep DEF IdleCommand, Command
    <3> QED BY <3>1, <1>o DEF TargetOurs
  <2>1. CASE StartCheck(c) BY <2>1, <2>r, <2>g DEF StartCheck
  <2>2. CASE Spawn(c)
    <3>1. cmd'[c].pc = "write" /\ cmd'[c].op = cmd[c].op BY <2>2, <1>s DEF Command
    <3> QED BY <3>1, <1>o DEF TargetOurs
  <2>3. CASE WritePID(c) BY <2>3, <2>g DEF WritePID
  <2>4. CASE StopReads(c)
    <3>1. CASE pidFile.pid = NoPid BY <2>4, <3>1, <2>c DEF StopReads
    <3>2. CASE pidFile.pid # NoPid
      <4>1. cmd'[c].pc = "term" /\ cmd'[c].pid = pidFile.pid /\ cmd'[c].op = cmd[c].op
        BY <2>4, <3>2 DEF StopReads, Command
      <4>2. proc[pidFile.pid].prog # "other" BY <2>4, <3>2 DEF StopReads, TargetOurs
      <4> QED BY <2>4, <3>2, <4>1, <4>2, <1>o DEF TargetOurs, StopReads
    <3> QED BY <3>1, <3>2
  <2>5. CASE StopTerms(c)
    <3>1. cmd'[c].pc = "poll" /\ cmd'[c].pid = cmd[c].pid /\ cmd'[c].op = cmd[c].op
      BY <2>5 DEF StopTerms, Goto, Command
    <3> QED BY <2>5, <3>1, <1>o DEF TargetOurs, StopTerms
  <2>6. CASE StopPollGone(c) \/ StopKills(c) BY <2>6, <2>g DEF StopPollGone, StopKills
  <2>7. CASE StopRemovesFile(c) BY <2>7, <2>c DEF StopRemovesFile
  <2>8. CASE SpawnFails(c) \/ WritePIDFails(c) \/ StartReports(c) \/ StopDenied(c)
             \/ Unregister(c) \/ Interrupt(c)
    BY <2>8, <2>r DEF LoseLeader, SpawnFails, WritePIDFails, StartReports, StopDenied, Unregister, Interrupt
  <2> QED BY <2>1, <2>2, <2>3, <2>4, <2>5, <2>6, <2>7, <2>8 DEF CommandStep
<1> QED BY <1>1, <1>2

\* Every step keeps the target and spares the others.
LEMMA NextSpares ==
  ASSUME TypeOK, OwnGroup, TargetOurs, \A c, d \in Cmds : c = d, "remove" \notin Ops, [Next]_vars
  PROVE  /\ TargetOurs'
         /\ \A q \in Pids : proc[q].prog = "other" => proc'[q] = proc[q]
<1> DEFINE Goal == /\ TargetOurs'
                   /\ \A q \in Pids : proc[q].prog = "other" => proc'[q] = proc[q]
<1>1. ASSUME NEW c \in Cmds, CommandStep(c) \/ Interrupt(c) PROVE Goal BY <1>1, CommandSpares
<1>2. ASSUME NEW c \in Cmds, NEW op \in Ops, Begin(c, op) PROVE Goal
  <2>0. UNCHANGED <<proc, pidFile>> BY <1>2, BeginStep
  <2>1. CASE UNCHANGED cmd BY <2>0, <2>1 DEF TargetOurs
  <2>2. CASE cmd' # cmd
    <3>1. PICK pc \in {"start", "stop"} :
            /\ cmd' = [cmd EXCEPT ![c] = [op |-> op, pc |-> pc, cfg |-> entry, pid |-> NoPid]]
            /\ pc = "stop" /\ op # "remove" => Alive
      BY <1>2, <2>2, BeginStep
    <3>2. /\ \A d \in Cmds : d = c
          /\ cmd'[c].pc = pc /\ cmd'[c].op = op
      BY <3>1 DEF TypeOK
    <3>3. pc = "stop" => proc[pidFile.pid].prog # "other" BY <3>1 DEF Alive, Supervisors
    <3> QED BY <2>0, <3>2, <3>3 DEF TargetOurs
  <2> QED BY <2>1, <2>2
<1>3. ASSUME NEW new \in {"plain", "rotated"}, Add(new) PROVE Goal
  BY <1>3 DEF Add, TargetOurs
<1>4. ASSUME NEW p \in Pids, ProcessStep(p) PROVE Goal
  <2>1. UNCHANGED <<pidFile, entry, cmd>>
    BY <1>4 DEF ProcessStep, SuperviseSpawns, SuperviseFails, SuperviseNotify, SuperviseReturns,
                Fork, Exec, Exit, Recycle
  <2>2. TargetOurs'
    <3> SUFFICES ASSUME NEW c \in Cmds
                 PROVE  /\ cmd[c].pc = "stop" /\ pidFile.pid # NoPid => proc'[pidFile.pid].prog # "other"
                        /\ cmd[c].pc \in {"term", "poll"} => cmd[c].pid = pidFile.pid /\ pidFile.pid # NoPid
                        /\ cmd[c].pc = "term" => proc'[cmd[c].pid].prog # "other"
                        /\ cmd[c].op # "remove"
      BY <2>1 DEF TargetOurs
    <3>1. pidFile.pid # NoPid => pidFile.pid \in Pids BY DEF TypeOK, PidFile
    <3> QED BY <1>4, <3>1, ProcessOthers DEF TargetOurs
  <2> QED BY <1>4, <2>2, ProcessOthers
<1>5. CASE UNCHANGED vars BY <1>5 DEF vars, TargetOurs
<1> QED BY <1>1, <1>2, <1>3, <1>4, <1>5 DEF Next, ProcessStep

\* daemon start, stop and restart, one after the other and interrupted
\* anywhere, never signal a process of another program that took over the
\* recorded pid.
THEOREM OthersSpared ==
  ("remove" \notin Ops /\ \A c, d \in Cmds : c = d) => (Spec => SparesOtherPrograms)
<1> SUFFICES ASSUME "remove" \notin Ops, \A c, d \in Cmds : c = d PROVE Spec => SparesOtherPrograms
  OBVIOUS
<1> DEFINE A == \A p \in Pids : proc[p].prog = "other" => proc'[p] = proc[p]
<1>1. Init => TargetOurs BY DEF Init, TargetOurs, IdleCommand
<1>2. TypeOK /\ OwnGroup /\ TargetOurs /\ [Next]_vars => TargetOurs' /\ [A]_vars
  BY NextSpares
<1> QED BY <1>1, <1>2, Groups, PTL DEF Spec, SparesOtherPrograms

=============================================================================
