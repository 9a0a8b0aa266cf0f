------------------------------- MODULE Daemon -------------------------------
(***************************************************************************)
(* One host daemon (`pg daemon add/start/stop/restart/remove`) as the code *)
(* of internal/cli/daemon.go, internal/daemon and internal/hostbin runs    *)
(* it: the kernel's process table, the pid file, the entry of the daemon   *)
(* in pg.yaml, and a set of pg commands that are separate processes and    *)
(* interleave freely.  Nothing in the code locks the pid file.             *)
(*                                                                         *)
(* A process is a pair (program, process group).  A direct daemon leads    *)
(* its own session (Setsid) and may fork workers into its group.  With log *)
(* rotation the leader is `pg daemon __supervise`, which runs the command  *)
(* as a child in the same group.                                           *)
(***************************************************************************)
EXTENDS Integers, FiniteSets, TLC

CONSTANTS
    Pids,         \* process ids the kernel hands out
    Cmds,         \* pg commands that may be in flight at the same time
    Ops,          \* the subcommands the commands are drawn from
    InterruptAt,  \* control points at which a command may be killed (Ctrl-C)
    NoPid         \* the pid file does not exist

ASSUME PidsAssumption == NoPid \notin Pids
ASSUME OpsAssumption == Ops \subseteq {"start", "stop", "restart", "remove"}

VARIABLES
    proc,      \* the kernel's process table
    pidFile,   \* what <state>/<name>/pid records: the pid and the argv match
    entry,     \* the daemon's entry in pg.yaml
    cmd        \* the commands' control state

vars == <<proc, pidFile, entry, cmd>>

(* Programs: "daemon" is the configured command run directly; "superBoot", *)
(* "superSpawned" and "super" are the supervisor before it started its     *)
(* child, before signal.Notify, and after; "child" is the supervised       *)
(* command; "worker" was forked by the command; "samebin" is an unrelated  *)
(* process of the same executable; "other" is any other process of the    *)
(* user, "denied" one of another user.  "execed" is a daemon that has      *)
(* replaced itself by another program (a start script that ends in exec): *)
(* it keeps its pid and its group, but not the recorded argv.              *)
Supervisors == {"superBoot", "superSpawned", "super"}
Leaders == {"daemon"} \cup Supervisors
Foreign == {"samebin", "other", "denied"}
Progs == {"none", "child", "worker", "execed"} \cup Leaders \cup Foreign

\* ign: the process ignores SIGTERM.  lost (history): the command that started
\* it ended, with an error or a kill, between cmd.Start and the pid file.
Proc == [prog : Progs, grp : Pids \cup {NoPid}, ign : BOOLEAN, lost : BOOLEAN]
Fresh(prog, grp, ign) == [prog |-> prog, grp |-> grp, ign |-> ign, lost |-> FALSE]
NoProc == Fresh("none", NoPid, FALSE)

Entries == {"absent", "plain", "rotated"}
Points == {"idle", "start", "spawn", "write", "check", "stop", "term", "poll",
           "rm", "unregister"}

\* cfg is the entry as the command loaded it, pid the pid it holds.
Command == [op : Ops \cup {"none"}, pc : Points, cfg : Entries,
            pid : Pids \cup {NoPid}]
IdleCommand == [op |-> "none", pc |-> "idle", cfg |-> "absent", pid |-> NoPid]

\* The pid file names the pid and what /proc/<pid>/cmdline must match.
PidFile == [pid : Pids \cup {NoPid}, bin : {"daemon", "super"}]
NoPidFile == [pid |-> NoPid, bin |-> "daemon"]

TypeOK ==
    /\ proc \in [Pids -> Proc]
    /\ pidFile \in PidFile
    /\ entry \in Entries
    /\ cmd \in [Cmds -> Command]

-----------------------------------------------------------------------------
(* hostbin *)

Group(p) == {q \in Pids : proc[q].grp = p}

\* Mutant: any process with the recorded pid counts.
AliveByPid == pidFile.pid # NoPid /\ proc[pidFile.pid].prog # "none"

\* Mutant: the argv to match comes from pg.yaml, not from the pid file.
AliveByEntry ==
    /\ pidFile.pid # NoPid
    /\ IF entry = "rotated"
       THEN proc[pidFile.pid].prog \in Supervisors
       ELSE proc[pidFile.pid].prog \in {"daemon", "child", "worker", "samebin"}

\* hostbin.Alive: the recorded pid runs and its argv matches the record.  The
\* supervisor's record carries MatchArgs, so no unrelated process matches it.
\* A direct daemon records only its binary: any process of it matches, and the
\* daemon itself no longer does once it has exec'd another program.
Alive ==
    /\ pidFile.pid # NoPid
    /\ IF pidFile.bin = "super"
       THEN proc[pidFile.pid].prog \in Supervisors
       ELSE proc[pidFile.pid].prog \in {"daemon", "child", "worker", "samebin"}

\* The kernel hands out no pid that is in use as a pid or as a group id.
FreePids == {p \in Pids : proc[p] = NoProc /\ Group(p) = {}}

\* Mutant: the supervisor returns on the first signal.
DiesOnTermEarly(q) == proc[q].prog # "denied" /\ ~proc[q].ign

\* Delivery of SIGTERM to one process.  The supervisor without its handlers
\* dies like any Go program; with them it forwards the signal and stays.
DiesOnTerm(q) ==
    CASE proc[q].prog = "super" -> FALSE
      [] proc[q].prog \in {"superBoot", "superSpawned"} -> TRUE
      [] proc[q].prog = "denied" -> FALSE
      [] OTHER -> ~proc[q].ign

\* syscall.Kill(-pid, SIGTERM), or the bare pid when there is no such group.
TermTargets(p) == IF Group(p) # {} THEN Group(p) ELSE {p}
AfterTerm(p) ==
    [q \in Pids |-> IF q \in TermTargets(p) /\ DiesOnTerm(q) THEN NoProc ELSE proc[q]]

\* syscall.Kill(-pid, SIGKILL) and p.Kill(): the group and the pid itself.
AfterKill(p) ==
    [q \in Pids |-> IF q \in Group(p) \cup {p} /\ proc[q].prog # "denied" THEN NoProc ELSE proc[q]]

-----------------------------------------------------------------------------
(* Control flow of the commands *)

Goto(c, pc) == cmd' = [cmd EXCEPT ![c].pc = pc]
Return(c) == cmd' = [cmd EXCEPT ![c] = IdleCommand]

\* The run functions load pg.yaml and refuse a name that is not in it.  stop
\* and restart look at Running first; remove goes straight to Stop.
Begin(c, op) ==
    /\ cmd[c].pc = "idle"
    /\ entry # "absent"
    /\ LET next == CASE op = "start" -> "start"
                     [] op = "stop" -> IF Alive THEN "stop" ELSE "idle"
                     [] op = "restart" -> IF Alive THEN "stop" ELSE "start"
                     [] op = "remove" -> "stop"
       IN  IF next = "idle"
           THEN UNCHANGED cmd
           ELSE cmd' = [cmd EXCEPT ![c] = [op |-> op, pc |-> next, cfg |-> entry,
                                           pid |-> NoPid]]
    /\ UNCHANGED <<proc, pidFile, entry>>

\* daemon add: registers the name, or replaces it with --force when the
\* daemon does not run.  Only the choice plain/rotated matters here.
Add(new) ==
    /\ entry = "absent" \/ ~Alive
    /\ entry' = new
    /\ UNCHANGED <<proc, pidFile, cmd>>

\* daemon.Start, the guard: a live process is left alone.
StartCheck(c) ==
    /\ cmd[c].pc = "start"
    /\ IF Alive THEN Return(c) ELSE Goto(c, "spawn")
    /\ UNCHANGED <<proc, pidFile, entry>>

\* StartDetachedSpec up to cmd.Start: a new session leader.
Spawn(c) ==
    /\ cmd[c].pc = "spawn"
    /\ \E p \in FreePids, i \in BOOLEAN :
          /\ proc' = [proc EXCEPT ![p] = IF cmd[c].cfg = "rotated"
                                           THEN Fresh("superBoot", p, FALSE)
                                           ELSE Fresh("daemon", p, i)]
          /\ cmd' = [cmd EXCEPT ![c].pc = "write", ![c].pid = p]
    /\ UNCHANGED <<pidFile, entry>>

\* cmd.Start fails (missing binary, log directory not writable).
SpawnFails(c) ==
    /\ cmd[c].pc = "spawn"
    /\ Return(c)
    /\ UNCHANGED <<proc, pidFile, entry>>

\* Mutant: the pid file records the binary where the pid belongs.
WritePIDSwapped(c) ==
    /\ cmd[c].pc = "write"
    /\ pidFile' = [pid |-> "daemon", bin |-> cmd[c].pid]
    /\ Goto(c, "check")
    /\ UNCHANGED <<proc, entry>>

\* writePID: a temporary file renamed over the pid file.
WritePID(c) ==
    /\ cmd[c].pc = "write"
    /\ pidFile' = [pid |-> cmd[c].pid,
                   bin |-> IF cmd[c].cfg = "rotated" THEN "super" ELSE "daemon"]
    /\ Goto(c, "check")
    /\ UNCHANGED <<proc, entry>>

\* The command ends before it has recorded the leader, which runs on.
LoseLeader(c) ==
    /\ proc' = IF proc[cmd[c].pid].prog \in Leaders
               THEN [proc EXCEPT ![cmd[c].pid].lost = TRUE]
               ELSE proc
    /\ Return(c)
    /\ UNCHANGED <<pidFile, entry>>

\* writePID fails (disk full, no permission): StartDetachedSpec returns the
\* error and does nothing about the process.
WritePIDFails(c) ==
    /\ cmd[c].pc = "write"
    /\ LoseLeader(c)

\* 500 ms later Start reports success or "exited immediately"; both return,
\* and neither touches the pid file.
StartReports(c) ==
    /\ cmd[c].pc = "check"
    /\ Return(c)
    /\ UNCHANGED <<proc, pidFile, entry>>

\* What follows hostbin.Stop in each command: Start's guard in restart,
\* deleting the entry in remove, nothing in stop.
AfterStop(op) ==
    CASE op = "restart" -> "start"
      [] op = "remove" -> "unregister"
      [] OTHER -> "idle"

Continue(c) ==
    LET pc == AfterStop(cmd[c].op)
    IN  IF pc = "idle" THEN Return(c) ELSE Goto(c, pc)

\* hostbin.Stop reads the pid file: a missing one means nothing to stop.
StopReads(c) ==
    /\ cmd[c].pc = "stop"
    /\ IF pidFile.pid = NoPid
       THEN Continue(c)
       ELSE cmd' = [cmd EXCEPT ![c].pc = "term", ![c].pid = pidFile.pid]
    /\ UNCHANGED <<proc, pidFile, entry>>

\* SIGTERM to whatever has the pid now, with no look at what it runs.  A
\* process that is gone is no error.
StopTerms(c) ==
    /\ cmd[c].pc = "term"
    /\ proc[cmd[c].pid].prog # "denied"
    /\ proc' = AfterTerm(cmd[c].pid)
    /\ Goto(c, "poll")
    /\ UNCHANGED <<pidFile, entry>>

\* EPERM from both signals: Stop gives up and leaves the pid file.
StopDenied(c) ==
    /\ cmd[c].pc = "term"
    /\ proc[cmd[c].pid].prog = "denied"
    /\ Return(c)
    /\ UNCHANGED <<proc, pidFile, entry>>

\* The poll loop sees the recorded process gone.
StopPollGone(c) ==
    /\ cmd[c].pc = "poll"
    /\ ~Alive
    /\ Goto(c, "rm")
    /\ UNCHANGED <<proc, pidFile, entry>>

\* Mutant: SIGKILL is left out, and a process that outlives the grace period
\* is forgotten.
StopForgets(c) ==
    /\ cmd[c].pc = "poll"
    /\ Alive
    /\ Goto(c, "rm")
    /\ UNCHANGED <<proc, pidFile, entry>>

\* The grace period is over and the pid file still names a live process.
StopKills(c) ==
    /\ cmd[c].pc = "poll"
    /\ Alive
    /\ proc' = AfterKill(cmd[c].pid)
    /\ Goto(c, "rm")
    /\ UNCHANGED <<pidFile, entry>>

\* os.Remove(pidFile), whatever it holds by now.
StopRemovesFile(c) ==
    /\ cmd[c].pc = "rm"
    /\ pidFile' = NoPidFile
    /\ Continue(c)
    /\ UNCHANGED <<proc, entry>>

\* runDaemonRemove deletes the entry and saves pg.yaml.
Unregister(c) ==
    /\ cmd[c].pc = "unregister"
    /\ entry' = "absent"
    /\ Return(c)
    /\ UNCHANGED <<proc, pidFile>>

\* The command is interrupted.
Interrupt(c) ==
    /\ cmd[c].pc \in InterruptAt
    /\ IF cmd[c].pc = "write"
       THEN LoseLeader(c)
       ELSE Return(c) /\ UNCHANGED <<proc, pidFile, entry>>

CommandStep(c) ==
    \/ StartCheck(c) \/ Spawn(c) \/ SpawnFails(c) \/ WritePID(c) \/ WritePIDFails(c)
    \/ StartReports(c) \/ StopReads(c) \/ StopTerms(c) \/ StopDenied(c) \/ StopPollGone(c)
    \/ StopKills(c) \/ StopRemovesFile(c) \/ Unregister(c)

-----------------------------------------------------------------------------
(* The supervisor, the daemon's own processes and the kernel *)

\* Supervise reads pg.yaml again and starts the command in its own group ...
SuperviseSpawns(s) ==
    /\ proc[s].prog = "superBoot"
    /\ entry = "rotated"
    /\ \E p \in FreePids, i \in BOOLEAN :
          proc' = [proc EXCEPT ![s].prog = "superSpawned",
                               ![p] = Fresh("child", s, i)]
    /\ UNCHANGED <<pidFile, entry, cmd>>

\* ... or finds no such entry, or cannot start the command, and returns.
SuperviseFails(s) ==
    /\ proc[s].prog = "superBoot"
    /\ proc' = [proc EXCEPT ![s] = NoProc]
    /\ UNCHANGED <<pidFile, entry, cmd>>

\* ... and then installs its signal handlers.
SuperviseNotify(s) ==
    /\ proc[s].prog = "superSpawned"
    /\ proc' = [proc EXCEPT ![s].prog = "super"]
    /\ UNCHANGED <<pidFile, entry, cmd>>

\* Supervise returns once every writer of the log pipe is gone (io.Copy) and
\* the child has exited (cmd.Wait).  A failed copy skips only the first.
SuperviseReturns(s) ==
    /\ proc[s].prog = "super"
    /\ \A q \in Group(s) \ {s} : proc[q].prog # "child"
    /\ proc' = [proc EXCEPT ![s] = NoProc]
    /\ UNCHANGED <<pidFile, entry, cmd>>

\* The command forks a worker into its group.
Fork(p) ==
    /\ proc[p].prog \in {"daemon", "execed", "child"}
    /\ \A q \in Pids : proc[q].prog # "worker"
    /\ \E q \in FreePids, i \in BOOLEAN :
          proc' = [proc EXCEPT ![q] = Fresh("worker", proc[p].grp, i)]
    /\ UNCHANGED <<pidFile, entry, cmd>>

\* A direct daemon replaces itself by another program, in the same process.
\* For a supervised child that changes nothing pg looks at.
Exec(p) ==
    /\ proc[p].prog = "daemon"
    /\ proc' = [proc EXCEPT ![p].prog = "execed"]
    /\ UNCHANGED <<pidFile, entry, cmd>>

\* A daemon process exits or crashes on its own.
Exit(p) ==
    /\ proc[p].prog \in {"daemon", "execed", "child", "worker"}
    /\ proc' = [proc EXCEPT ![p] = NoProc]
    /\ UNCHANGED <<pidFile, entry, cmd>>

\* A pid is reused by an unrelated process, as after a reboot.  Pids wrap
\* around too slowly for that to happen while a command holds a pid that it
\* has just read.
Recycle(p) ==
    /\ p \in FreePids
    /\ \A c \in Cmds : cmd[c].pc \in {"idle", "poll", "check"}
    /\ \E f \in Foreign : proc' = [proc EXCEPT ![p] = Fresh(f, p, FALSE)]
    /\ UNCHANGED <<pidFile, entry, cmd>>

-----------------------------------------------------------------------------
Init ==
    /\ proc = [p \in Pids |-> NoProc]
    /\ pidFile = NoPidFile
    /\ entry = "absent"
    /\ cmd = [c \in Cmds |-> IdleCommand]

Next ==
    \/ \E c \in Cmds : CommandStep(c) \/ Interrupt(c) \/ \E op \in Ops : Begin(c, op)
    \/ \E new \in {"plain", "rotated"} : Add(new)
    \/ \E p \in Pids :
          \/ SuperviseSpawns(p) \/ SuperviseFails(p) \/ SuperviseNotify(p)
          \/ SuperviseReturns(p) \/ Fork(p) \/ Exec(p) \/ Exit(p) \/ Recycle(p)

Spec == Init /\ [][Next]_vars

\* A pg command that runs is scheduled by the kernel until it returns.
Fairness == \A c \in Cmds : WF_vars(CommandStep(c))
FairSpec == Spec /\ Fairness

-----------------------------------------------------------------------------
(* Properties *)

Tracked(p) ==
    \/ pidFile.pid = p
    \/ \E c \in Cmds : cmd[c].pc = "write" /\ cmd[c].pid = p

\* A leader whose start got as far as the pid file, and that still runs the
\* program it was started as.
Leading(p) == proc[p].prog \in Leaders /\ ~proc[p].lost

\* As long as commands do not overlap, no sequence of start, stop, restart,
\* remove, add --force, crashes, failures, reused pids and interrupted commands
\* leaves a running daemon (or supervisor) that the pid file does not record:
\* such a process could no longer be stopped or seen by pg.  The start that
\* fails or is killed between cmd.Start and the pid file does leave one; what
\* is claimed is that nothing else does, the commands that come after it
\* included.
NoUntrackedLeader ==
    \A p \in Pids : Leading(p) => Tracked(p)

\* Nor does the daemon run twice: Start leaves a live one alone, and restart
\* starts none before Stop has ended the old one, also when add --force has
\* meanwhile changed what a start runs.  The two processes pg cannot tell are
\* left out: a lost one, and a daemon that exec'd another program, which Alive
\* takes for dead, so that the next start runs a second one.
OneLeader ==
    \A p, q \in Pids : Leading(p) /\ Leading(q) => p = q

\* daemon stop and restart look at Running before Stop, and Stop looks at
\* Alive before SIGKILL, so a process that took over a recorded pid and runs
\* something else is never signalled.
SparesOtherPrograms ==
    [][\A p \in Pids : proc[p].prog = "other" => proc'[p] = proc[p]]_vars

\* Supervise never returns early on a signal: once its handlers are installed
\* the supervisor ends only after its child, or in the same SIGKILL.
SupervisorOutlivesChild ==
    [][\A s \in Pids :
          proc[s].prog = "super" /\ proc'[s].prog # "super"
             => \A q \in Group(s) : proc'[q].prog # "child"]_vars

\* Stop ends the leader it found, however it treats SIGTERM, unless that turns
\* into another program while Stop waits for it.
StopEndsLeader ==
    \A c \in Cmds, p \in Pids :
       (cmd[c].pc = "term" /\ cmd[c].pid = p /\ proc[p].prog \in Leaders)
          ~> (proc[p].prog \notin Leaders)

=============================================================================
