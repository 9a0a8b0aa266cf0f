-------------------------------- MODULE Boot --------------------------------
(***************************************************************************)
(* The containers of one pg.yaml across host reboots: `pg start`, `pg stop`*)
(* (with --all and -f), read-only commands, `pg autostart enable/disable`, *)
(* the boot service that runs `pg start --autostart`, and the repair of    *)
(* rootless podman that every manager's constructor may set off.           *)
(*                                                                         *)
(* A command is a process of its own; the steps between which another      *)
(* process can run are its calls of podman and its saves of pg.yaml.       *)
(***************************************************************************)
EXTENDS Integers, FiniteSets

CONSTANTS
    Instances,    \* PostgreSQL containers
    Pitr,         \* the instances with pitr.enabled
    Bouncers,     \* add-on containers whose manager believes `podman ps`
    Brokers,      \* add-ons whose manager also looks for the container's process
    Backup,       \* the shared backup container
    Users,        \* processes a user runs pg in
    Service,      \* the process of the boot service
    None,
    MaxCommands,  \* bound on the commands of the users
    MaxReboots,   \* bound on the reboots
    Initially     \* states of a container before the first command

Containers == Instances \cup Bouncers \cup Brokers \cup {Backup}
Procs == Users \cup {Service}

ASSUME KindsAssumption ==
    /\ Pitr \subseteq Instances
    /\ Backup \notin Instances \cup Bouncers \cup Brokers
    /\ Instances \cap (Bouncers \cup Brokers) = {}
    /\ Bouncers \cap Brokers = {}
    /\ None \notin Containers
    /\ Service \notin Users
ASSUME BoundsAssumption ==
    /\ MaxCommands \in Nat /\ MaxReboots \in Nat
    /\ Initially \subseteq {"none", "exited", "running"}

VARIABLES
    ctr,       \* podman's containers
    stale,     \* the pause-process record is stale: every podman command fails
    auto,      \* the targets with autostart: true in pg.yaml
    unit,      \* the boot service is installed and enabled
    pending,   \* the host has booted and the boot service has not run yet
    proc,      \* the running commands
    kept,      \* stopped on purpose on a healthy podman, nobody asked for since
    due,       \* targets the boot service has neither found up nor reported
    commands, reboots

vars == <<ctr, stale, auto, unit, pending, proc, kept, due, commands, reboots>>

(* exited: `podman start` works.  improper: neither start nor stop does.   *)
(* ghost: podman says running but the process is gone, and `podman start`  *)
(* exits 0 without doing anything.                                         *)
States == {"none", "exited", "improper", "ghost", "running"}

Starts == {"start", "boot"}
Stops == {"stop", "kill"}
Toggles == {"enable", "disable"}
Ops == Starts \cup Stops \cup Toggles \cup {"status", "none"}
Repairing == {"migrate", "list", "restart", "rmstale"}
Points == Repairing \cup
          {"idle", "next", "query", "start", "rm", "create", "wait", "archive",
           "tstop", "tstart", "save", "stop", "smigrate", "retry", "clear",
           "flag", "sync"}

(* cur: the container at hand; inst: the instance whose backup container   *)
(* is being ensured; todo: targets not yet looked at; probed: podman was   *)
(* probed by this process; left, bad: the restart loop; cfg: the autostart *)
(* flags of pg.yaml as the command loaded them.                            *)
Job == [op : Ops, pc : Points, cur : Containers \cup {None}, inst : Instances \cup {None},
        todo : SUBSET Containers, probed : BOOLEAN, left : SUBSET Containers,
        bad : Containers \cup {None}, cfg : SUBSET Containers]
Idle == [op |-> "none", pc |-> "idle", cur |-> None, inst |-> None, todo |-> {},
         probed |-> FALSE, left |-> {}, bad |-> None, cfg |-> {}]

\* Which containers a control point speaks of.
JobOK(j) ==
    /\ j.cur = None <=> j.pc \in {"idle", "next"}
    /\ j.pc = "rmstale" => j.bad # None
    /\ j.pc \in {"wait", "archive", "tstop", "tstart", "save"} => j.cur \in Instances

TypeOK ==
    /\ ctr \in [Containers -> States]
    /\ stale \in BOOLEAN /\ unit \in BOOLEAN /\ pending \in BOOLEAN
    /\ auto \subseteq Containers /\ kept \subseteq Containers /\ due \subseteq Containers
    /\ proc \in [Procs -> Job]
    /\ \A p \in Procs : JobOK(proc[p])
    /\ commands \in 0..MaxCommands /\ reboots \in 0..MaxReboots

Up == {c \in Containers : ctr[c] = "running"}

-----------------------------------------------------------------------------
(* Beginning and ending a command *)

\* What a start command brings up: its targets, and the backup container with
\* the first instance that has PITR.
Aims(op, T) ==
    IF op \notin Starts THEN {}
    ELSE T \cup (IF T \cap Pitr # {} THEN {Backup} ELSE {})
JobAims(j) == Aims(j.op, (j.todo \cup {j.cur, j.inst}) \ {None})

\* `pg stop --all`: every instance, then the backup container, then PgBouncer.
StopAll == Instances \cup {Backup} \cup Bouncers

\* `pg start -i`, `pg addon start`, `pg start --all`, their stops, and a
\* command that only looks (`pg status`, `pg list`).
Targets(op) ==
    CASE op = "start" -> {{c} : c \in Containers} \cup {Instances}
      [] op = "stop" -> {{c} : c \in Containers} \cup {StopAll}
      [] op = "kill" -> {{c} : c \in Instances} \cup {StopAll}
      [] op = "status" -> {{c} : c \in Instances}

Begin(p, op, T) ==
    /\ proc[p].pc = "idle" /\ commands < MaxCommands
    /\ T \in Targets(op)
    /\ proc' = [proc EXCEPT ![p] = [Idle EXCEPT !.op = op, !.pc = "next", !.todo = T, !.cfg = auto]]
    /\ kept' = kept \ Aims(op, T)
    /\ due' = IF op \in Stops THEN due \ T ELSE due
    /\ commands' = commands + 1
    /\ UNCHANGED <<ctr, stale, auto, unit, pending, reboots>>

\* startAutostart: only the targets whose flag is set in pg.yaml.
BootStarts ==
    /\ pending /\ proc[Service].pc = "idle"
    /\ pending' = FALSE
    /\ proc' = IF auto = {} THEN proc
               ELSE [proc EXCEPT ![Service] =
                        [Idle EXCEPT !.op = "boot", !.pc = "next", !.todo = auto, !.cfg = auto]]
    /\ kept' = kept \ Aims("boot", auto)
    /\ due' = due \cap auto
    /\ UNCHANGED <<ctr, stale, auto, unit, commands, reboots>>

BeginToggle(p, op, c) ==
    /\ proc[p].pc = "idle" /\ commands < MaxCommands
    /\ proc' = [proc EXCEPT ![p] = [Idle EXCEPT !.op = op, !.pc = "flag", !.cur = c,
                   !.cfg = IF op = "enable" THEN auto \cup {c} ELSE auto \ {c}]]
    /\ commands' = commands + 1
    /\ UNCHANGED <<ctr, stale, auto, unit, pending, kept, due, reboots>>

\* Instances first, then the backup container, then the add-ons in the order
\* of the calls in startAutostart.
Rank(c) == CASE c \in Instances -> 0 [] c = Backup -> 1 [] c \in Bouncers -> 2 [] OTHER -> 3
First(T) == {c \in T : \A d \in T : Rank(c) <= Rank(d)}

Goto(p, pc) == proc' = [proc EXCEPT ![p].pc = pc]
NextTarget(j) == [j EXCEPT !.pc = "next", !.cur = None, !.inst = None]

Finish(p) ==
    /\ proc[p].pc = "next" /\ proc[p].todo = {}
    /\ proc' = [proc EXCEPT ![p] = Idle]
    /\ UNCHANGED <<ctr, stale, auto, unit, pending, kept, due, commands, reboots>>

-----------------------------------------------------------------------------
(* Constructors and the repair of podman *)

\* What a command does with a target once it has a manager for it.
Work(op) ==
    CASE op \in Starts -> "query" [] op \in Stops -> "stop" [] OTHER -> "next"
Proceed(j) == IF Work(j.op) = "next" THEN NextTarget(j) ELSE [j EXCEPT !.pc = Work(j.op)]

\* Mutant: stop uses New.
ProbesAlways(op, c) == TRUE

\* New and the add-on managers' constructors call ensurePodmanStateReady;
\* NewForStop, which stops an instance, does not.
Probes(op, c) == ~(op \in Stops /\ c \in Instances)

\* Mutant: the probe's error is not looked at.
NeedsMigrateAlways == TRUE

\* `podman ps -a` fails with one of migrateSignals.
NeedsMigrate == stale

Construct(p) ==
    /\ proc[p].pc = "next"
    /\ \E c \in First(proc[p].todo) :
          LET probe == Probes(proc[p].op, c) /\ ~proc[p].probed
              j == [proc[p] EXCEPT !.cur = c, !.todo = @ \ {c}, !.probed = @ \/ probe] IN
          proc' = [proc EXCEPT ![p] = IF probe /\ NeedsMigrate
                                      THEN [j EXCEPT !.pc = "migrate"] ELSE Proceed(j)]
    /\ UNCHANGED <<ctr, stale, auto, unit, pending, kept, due, commands, reboots>>

\* `podman system migrate`; a failure is only logged.  Of all the constructors
\* New alone goes on to restartStoppedContainers.
Migrate(p) ==
    /\ proc[p].pc = "migrate"
    /\ stale' \in {FALSE, stale}
    /\ proc' = [proc EXCEPT ![p] = IF proc[p].cur \in Instances
                                   THEN [@ EXCEPT !.pc = "list"] ELSE Proceed(@)]
    /\ UNCHANGED <<ctr, auto, unit, pending, kept, due, commands, reboots>>

\* Every container of pgcli whose status is not "Up ...".
ListStopped(p) ==
    /\ proc[p].pc = "list"
    /\ proc' = [proc EXCEPT ![p] =
                   IF stale THEN Proceed(@)
                   ELSE [@ EXCEPT !.pc = "restart",
                                  !.left = {c \in Containers : ctr[c] \in {"exited", "improper"}}]]
    /\ UNCHANGED <<ctr, stale, auto, unit, pending, kept, due, commands, reboots>>

Startable == {"exited", "ghost", "running"}
AfterStart(s) == IF s = "exited" THEN "running" ELSE s

RestartOne(p) ==
    /\ proc[p].pc = "restart"
    /\ \E c \in proc[p].left :
          IF ctr[c] \in Startable
          THEN /\ ctr' = [ctr EXCEPT ![c] = AfterStart(@)]
               /\ proc' = [proc EXCEPT ![p].left = @ \ {c}]
          ELSE /\ proc' = [proc EXCEPT ![p].left = @ \ {c}, ![p].bad = c, ![p].pc = "rmstale"]
               /\ UNCHANGED ctr
    /\ UNCHANGED <<stale, auto, unit, pending, kept, due, commands, reboots>>

\* A container that does not start is removed; a failed removal is reported.
RemoveStale(p) ==
    /\ proc[p].pc = "rmstale"
    /\ LET c == proc[p].bad IN ctr' \in {ctr, [ctr EXCEPT ![c] = "none"]}
    /\ proc' = [proc EXCEPT ![p].pc = "restart", ![p].bad = None]
    /\ UNCHANGED <<stale, auto, unit, pending, kept, due, commands, reboots>>

RestartDone(p) ==
    /\ proc[p].pc = "restart" /\ proc[p].left = {}
    /\ proc' = [proc EXCEPT ![p] = Proceed(@)]
    /\ UNCHANGED <<ctr, stale, auto, unit, pending, kept, due, commands, reboots>>

-----------------------------------------------------------------------------
(* Bringing a container up *)

\* An error ends the target, is printed, and the loop goes on with the next.
Fail(p) ==
    /\ proc' = [proc EXCEPT ![p] = NextTarget(@)]
    /\ due' = IF proc[p].op = "boot" THEN due \ {proc[p].cur, proc[p].inst} ELSE due

\* Mutant: the restart for archive_mode goes to the container at hand.
ReachedThere(j) ==
    CASE j.cur \in Instances -> [j EXCEPT !.pc = "wait"]
      [] j.cur \notin Instances /\ j.inst # None -> [j EXCEPT !.pc = "archive"]
      [] OTHER -> NextTarget(j)

\* Where a container that is up leads: an instance is waited for, the backup
\* container of an instance leads back to the instance.
Reached(j) ==
    CASE j.cur \in Instances -> [j EXCEPT !.pc = "wait"]
      [] j.cur \notin Instances /\ j.inst # None -> [j EXCEPT !.pc = "archive", !.cur = j.inst]
      [] OTHER -> NextTarget(j)

\* Mutant: every manager believes podman.
BelievesPodman(c) == ctr[c] \in {"running", "ghost"}

\* containerRunning.  The managers of Kafka, RabbitMQ and RocketMQ also look
\* for the process.
SeenRunning(c) == ctr[c] = "running" \/ (ctr[c] = "ghost" /\ c \notin Brokers)

\* The container at hand counts as up.
Success(p) ==
    /\ proc' = [proc EXCEPT ![p] = Reached(@)]
    /\ due' = IF proc[p].op = "boot" /\ ctr'[proc[p].cur] = "running"
              THEN due \ {proc[p].cur} ELSE due

Query(p) ==
    LET c == proc[p].cur IN
    /\ proc[p].pc = "query"
    /\ UNCHANGED ctr
    /\ CASE stale -> Fail(p)
         [] ~stale /\ SeenRunning(c) -> Success(p)
         [] OTHER -> Goto(p, IF ctr[c] = "none" THEN "create" ELSE "start") /\ UNCHANGED due
    /\ UNCHANGED <<stale, auto, unit, pending, kept, commands, reboots>>

\* The image, a directory or a configuration file is not to be had.
PrepareFails(p) ==
    /\ proc[p].pc = "query"
    /\ Fail(p)
    /\ UNCHANGED <<ctr, stale, auto, unit, pending, kept, commands, reboots>>

\* The container lacks the mount of the S3 CA, which only a new one can get.
Drifted(p) ==
    LET c == proc[p].cur IN
    /\ proc[p].pc = "query" /\ ~stale
    /\ (c \in Pitr /\ ctr[c] # "none") \/ (c = Backup /\ SeenRunning(c))
    /\ Goto(p, "rm")
    /\ UNCHANGED <<ctr, stale, auto, unit, pending, kept, due, commands, reboots>>

\* `podman start`.  Brokers check the process again.  An instance that does
\* not start is an error, any other container is recreated.
StartContainer(p) ==
    LET c == proc[p].cur
        ok == ctr[c] \in Startable /\ ~(c \in Brokers /\ ctr[c] = "ghost") IN
    /\ proc[p].pc = "start"
    /\ ctr' = [ctr EXCEPT ![c] = AfterStart(@)]
    /\ CASE ok -> Success(p)
         [] ~ok /\ c \in Instances -> Fail(p)
         [] OTHER -> Goto(p, "rm") /\ UNCHANGED due
    /\ UNCHANGED <<stale, auto, unit, pending, kept, commands, reboots>>

\* `podman rm -f`, which may fail.
Remove(p) ==
    /\ proc[p].pc = "rm"
    /\ \/ /\ ctr' = [ctr EXCEPT ![proc[p].cur] = "none"]
          /\ Goto(p, "create") /\ UNCHANGED due
       \/ Fail(p) /\ UNCHANGED ctr
    /\ UNCHANGED <<stale, auto, unit, pending, kept, commands, reboots>>

\* `podman run -d --name`: fails when the name is taken by now, or the image
\* or a port is not to be had.
Create(p) ==
    LET c == proc[p].cur IN
    /\ proc[p].pc = "create"
    /\ \/ /\ ctr[c] = "none"
          /\ ctr' = [ctr EXCEPT ![c] = "running"]
          /\ Success(p)
       \/ Fail(p) /\ UNCHANGED ctr
    /\ UNCHANGED <<stale, auto, unit, pending, kept, commands, reboots>>

\* Then the backup container, if the instance has PITR.
Tuned(j) ==
    IF j.inst = None /\ j.cur \in Pitr
    THEN [j EXCEPT !.cur = Backup, !.inst = j.cur, !.pc = "query"]
    ELSE [j EXCEPT !.pc = "save"]

\* doStart waits for PostgreSQL; tuning and extensions may each want a restart,
\* for which one stands.  A
\* server that never answers is let pass after 60 s unless its container has
\* exited.
Wait(p) ==
    LET c == proc[p].cur IN
    /\ proc[p].pc = "wait"
    /\ CASE ctr[c] = "exited" -> Fail(p)
         [] ctr[c] = "running" ->
               /\ \/ Goto(p, "tstop")
                  \/ proc' = [proc EXCEPT ![p] = Tuned(@)]
               /\ UNCHANGED due
         [] OTHER -> proc' = [proc EXCEPT ![p] = Tuned(@)] /\ UNCHANGED due
    /\ UNCHANGED <<ctr, stale, auto, unit, pending, kept, commands, reboots>>

\* archive_mode needs a restart unless the server answers that it is on.
Archive(p) ==
    /\ proc[p].pc = "archive"
    /\ \/ Goto(p, "tstop")
       \/ ctr[proc[p].cur] = "running" /\ Goto(p, "save")
    /\ UNCHANGED <<ctr, stale, auto, unit, pending, kept, due, commands, reboots>>

\* `podman stop` ends a running container; of a ghost podman may or may not
\* take notice.
AfterStop(s) ==
    CASE s = "running" -> {"exited"} [] s = "ghost" -> {"exited", "ghost"} [] OTHER -> {s}

BounceStop(p) ==
    /\ proc[p].pc = "tstop"
    /\ \E s \in AfterStop(ctr[proc[p].cur]) : ctr' = [ctr EXCEPT ![proc[p].cur] = s]
    /\ Goto(p, "tstart")
    /\ UNCHANGED <<stale, auto, unit, pending, kept, due, commands, reboots>>

BounceStart(p) ==
    /\ proc[p].pc = "tstart"
    /\ ctr' = [ctr EXCEPT ![proc[p].cur] = AfterStart(@)]
    /\ proc' = [proc EXCEPT ![p] = Tuned(@)]
    /\ UNCHANGED <<stale, auto, unit, pending, kept, due, commands, reboots>>

\* c.Save(cfgPath) writes the whole configuration as it was loaded.  A failed
\* save is only printed.
Save(p) ==
    /\ proc[p].pc = "save"
    /\ auto' \in {auto, proc[p].cfg}
    /\ proc' = [proc EXCEPT ![p] = NextTarget(@)]
    /\ UNCHANGED <<ctr, stale, unit, pending, kept, due, commands, reboots>>

-----------------------------------------------------------------------------
(* Stopping a container *)

\* No process is about to start c on somebody's behalf.
Unwanted(c) ==
    /\ ~stale
    /\ \A p \in Procs : proc[p].pc \notin Repairing /\ c \notin JobAims(proc[p])
Keep(c, s) ==
    kept' = IF s \in {"exited", "none"} /\ Unwanted(c) THEN kept \cup {c} ELSE kept

\* StopContainer, the add-on managers' Stop, and the first half of
\* KillContainer.  Manager.run repairs a stale podman once and tries again.
Stop(p) ==
    LET c == proc[p].cur IN
    /\ proc[p].pc \in {"stop", "retry"}
    /\ IF stale
       THEN /\ proc' = [proc EXCEPT ![p] = IF @.pc = "stop" /\ c \in Instances
                                           THEN [@ EXCEPT !.pc = "smigrate"] ELSE NextTarget(@)]
            /\ UNCHANGED <<ctr, kept>>
       ELSE \E s \in AfterStop(ctr[c]) :
            /\ ctr' = [ctr EXCEPT ![c] = s]
            /\ IF proc[p].op = "kill" /\ c \in Instances
               THEN Goto(p, "clear") /\ UNCHANGED kept
               ELSE proc' = [proc EXCEPT ![p] = NextTarget(@)] /\ Keep(c, s)
    /\ UNCHANGED <<stale, auto, unit, pending, due, commands, reboots>>

\* runMigrate: no restart of other containers.
StopMigrates(p) ==
    /\ proc[p].pc = "smigrate"
    /\ stale' \in {FALSE, stale}
    /\ Goto(p, "retry")
    /\ UNCHANGED <<ctr, auto, unit, pending, kept, due, commands, reboots>>

\* The second half of KillContainer: whatever has not come to rest is removed.
Clear(p) ==
    LET c == proc[p].cur
        s == IF ctr[c] \in {"exited", "none"} THEN ctr[c] ELSE "none" IN
    /\ proc[p].pc = "clear"
    /\ \/ ctr' = [ctr EXCEPT ![c] = s] /\ Keep(c, s)
       \/ ctr[c] # s /\ UNCHANGED <<ctr, kept>>
    /\ proc' = [proc EXCEPT ![p] = NextTarget(@)]
    /\ UNCHANGED <<stale, auto, unit, pending, due, commands, reboots>>

-----------------------------------------------------------------------------
(* pg autostart enable / disable *)

\* The targets countAutostartTargets counts.  It has no loop over Kafka,
\* RabbitMQ and RocketMQ, nor over ClickHouse, ClickHouse Keeper, InfluxDB,
\* influx2tsdb, DocumentDB, SeaweedFS, JuiceFS and ZeroFS.
CountAutostartTargets(T) == T \ Brokers

SaveFlag(p) ==
    /\ proc[p].pc = "flag"
    /\ \/ auto' = proc[p].cfg /\ Goto(p, "sync")
       \/ proc' = [proc EXCEPT ![p] = Idle] /\ UNCHANGED auto
    /\ UNCHANGED <<ctr, stale, unit, pending, kept, due, commands, reboots>>

\* Install writes and enables the unit.  Uninstall is `systemctl disable
\* --now`, which also ends the service if it is running and whose failure is
\* not looked at, and the removal of the unit's file.
SyncBootService(p) ==
    /\ proc[p].pc = "sync"
    /\ IF CountAutostartTargets(proc[p].cfg) = {}
       THEN /\ unit' \in {unit, FALSE}
            /\ \/ /\ pending' = FALSE /\ due' = {}
                  /\ proc' = [proc EXCEPT ![p] = Idle, ![Service] = Idle]
               \/ /\ proc' = [proc EXCEPT ![p] = Idle]
                  /\ UNCHANGED <<pending, due>>
       ELSE /\ unit' \in {unit, TRUE}
            /\ proc' = [proc EXCEPT ![p] = Idle]
            /\ UNCHANGED <<pending, due>>
    /\ UNCHANGED <<ctr, stale, auto, kept, commands, reboots>>

-----------------------------------------------------------------------------
(* The host *)

\* Ctrl-C, or TimeoutStartSec of the boot service.
Interrupt(p) ==
    /\ proc[p].pc # "idle"
    /\ proc' = [proc EXCEPT ![p] = Idle]
    /\ due' = IF p = Service THEN {} ELSE due
    /\ UNCHANGED <<ctr, stale, auto, unit, pending, kept, commands, reboots>>

\* Nothing runs any more.  What podman has on record of a container that ran
\* depends on how the shutdown went.  Only the brokers' managers see through a
\* ghost; the boot service is not held to account for the others.
Reboot ==
    /\ reboots < MaxReboots
    /\ reboots' = reboots + 1
    /\ proc' = [p \in Procs |-> Idle]
    /\ ctr' \in {f \in [Containers -> States \ {"running"}] :
                    \A c \in Containers : IF ctr[c] = "running" THEN f[c] # "none" ELSE f[c] = ctr[c]}
    /\ stale' \in BOOLEAN
    /\ kept' = IF stale' THEN {} ELSE kept
    /\ pending' = unit
    /\ due' = IF unit THEN {c \in auto : c \in Brokers \/ ctr'[c] # "ghost"} ELSE {}
    /\ UNCHANGED <<auto, unit, commands>>

Step(p) ==
    \/ Finish(p) \/ Construct(p) \/ Migrate(p) \/ ListStopped(p) \/ RestartOne(p)
    \/ RemoveStale(p) \/ RestartDone(p) \/ Query(p) \/ PrepareFails(p) \/ Drifted(p)
    \/ StartContainer(p) \/ Remove(p) \/ Create(p) \/ Wait(p) \/ Archive(p) \/ BounceStop(p) \/ BounceStart(p)
    \/ Save(p) \/ Stop(p) \/ StopMigrates(p) \/ Clear(p) \/ SaveFlag(p)
    \/ SyncBootService(p)

Next ==
    \/ \E p \in Users : \E op \in {"start", "stop", "kill", "status"} :
          \E T \in Targets(op) : Begin(p, op, T)
    \/ \E p \in Users, op \in Toggles, c \in Containers : BeginToggle(p, op, c)
    \/ BootStarts
    \/ \E p \in Procs : Step(p)
    \/ \E p \in Procs : Interrupt(p)
    \/ Reboot

\* A configuration in use: containers as `Initially` says, and the boot service
\* installed if there is an autostart target.
Init ==
    /\ ctr \in [Containers -> Initially]
    /\ stale = FALSE /\ pending = FALSE
    /\ auto \in SUBSET Containers
    /\ auto = {} \/ auto \ Brokers # {}
    /\ unit = (auto # {})
    /\ proc = [p \in Procs |-> Idle]
    /\ kept = {} /\ due = {}
    /\ commands = 0 /\ reboots = 0

Spec == Init /\ [][Next]_vars

\* A command that runs goes on; systemd starts an enabled unit at boot.
Fairness == WF_vars(BootStarts) /\ \A p \in Procs : WF_vars(Step(p))
FairSpec == Spec /\ Fairness

-----------------------------------------------------------------------------
(* Properties *)

\* A container that was stopped on purpose while podman was healthy stays down
\* until somebody asks for it or a reboot leaves podman stale: no command for
\* another container and no read-only command brings it back (ensurePodmanReady,
\* "a container the user stopped on purpose stays stopped").
KeptStaysDown == kept \cap Up = {}

\* No step of a stop command brings a container up, not even the repair of a
\* stale podman that it may need (stopInstance: "stopping must never trigger
\* the post-reboot container recovery").
StopNeverStarts ==
    [][\A p \in Procs : proc[p].op \in Stops /\ proc'[p] # proc[p] => Up' \subseteq Up]_vars

\* Once the host is up again the boot service finds every target running,
\* starts it, or reports an error for it, in whatever state the reboot left
\* podman and the containers and whatever the user runs meanwhile; one target
\* that fails does not keep it from the others.  Left out: a ghost whose manager
\* believes `podman ps` (startAutostart, restartStoppedContainers, StartContainer).
BootServes == (due # {}) ~> (due = {})

=============================================================================
