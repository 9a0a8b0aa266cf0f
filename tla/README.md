# A verification project for pgcli

pgcli (`pg`) is a command-line manager for PostgreSQL on one host: it keeps a
list of instances and add-ons in one file, `pg.yaml`, and drives podman
containers, host processes, pgBackRest and PostgreSQL itself to match it. There is
no server of its own: every operation is a short-lived process that loads the
file, acts on the outside world step by step, and saves the file again. What is
hard is therefore not an algorithm but the *sequence*: which steps may fail or be
interrupted, what another command, another host or PostgreSQL does in between, and
what the next command finds.

This directory models that, with TLC configurations that check the models on small
instances and TLAPS proofs of the main results for all instances.

## 1. Inventory

| Part | State | Operations | Interacts with |
|---|---|---|---|
| Config store (`internal/config`) | `pg.yaml` | Load, ApplyDefaults (defaults, port pools), Validate, Save | every command |
| Instances and replicas (`cli/{create,start,stop,destroy,replica}.go`, `podman/{podman,replica}.go`) | config entries, containers, data directories, replication slots | create, start, stop, destroy, replica create/promote/repoint/drop | PostgreSQL of this and other hosts, podman |
| Snapshots and PITR (`pitr`, `cli/{snapshot,restore}.go`) | repository, data directory, `postgresql.auto.conf` | snapshot create/delete, restore with and without `--promote` | pgBackRest, PostgreSQL recovery, restart policy |
| Daemons (`daemon`, `hostbin`, `cli/daemon.go`) | pid files, host processes, config entry | add, start, stop, restart, remove, the supervisor | kernel, signals, pid reuse |
| Podman engine (`podman/podman.go`) | containers and their restart policy | ensure, start, stop, kill, migrate and repair after a reboot | every container |
| Backup container (`podman/backup.go`, `cli/backup.go`) | repository host, SSH keys, S3 targets | setup, start, stop, switch of target | instances, PITR |
| Patroni HA (`cli/ha*.go`, `podman/patroni*.go`) | members, scope in etcd | create, add, remove, switchover, restore | etcd, HAProxy |
| Extensions, clone, export/import | images, streams | build, enable; copy | instances, PITR |
| Autostart (`autostart`) | systemd units | enable, disable, boot order | engine, daemons |
| HTTP server (`httpd`, `cli/http.go`) | jobs | run a command remotely | the whole command line |
| Add-ons (40 kinds) | config entry, one or a few containers, ports, secrets | install, start, stop, remove | config store, engine, for some a cluster on other hosts |
| Pure parts (tune, zfs, kafka voters, ClickHouse topology, certificates, kv) | none | computations | |

`PROJECT.json` lists every part with its status under `components`, and under
`hazards` each place in the code that a test would hardly reach. The behaviours
that make the code hard:

- *No lock anywhere.* Neither `pg.yaml` nor a pid file is locked. Commands of
  several hosts on one replication topology or Patroni cluster interleave by design.
- *One handler, many copies.* Each of some forty add-ons has its own install, start,
  stop and remove, alike at first sight and different in the order of their steps:
  Save before or after the container, the password before or after the file.
- *Steps and failures.* Most commands are five to ten effects in a row with an early
  return after each. Whatever they leave behind is what the next command starts
  from; there is no rollback, and seldom a cleanup.
- *Autonomous actors.* PostgreSQL replays, promotes, archives and drops
  connections by itself; Patroni elects, copies and rejoins; podman restarts
  containers; the kernel reuses pids.
- *Presence as evidence.* A `PG_VERSION` file means "initialised", a pid file
  "running", a port that does not listen "free". Each of these can be stale.

What makes the parts correct: an entry of `pg.yaml` and what runs agree on the
role (a replica is a standby of the primary it names, with its slot); recovery
settings live exactly as long as the recovery they steer; a stop ends the process
it recorded and no other; two entries never share a port; a full backup remains; an
installed add-on runs what its entry says and can always be found, restarted and
logged in to; a restored cluster is led by the restored data.

## 2. Modules

| Module | Models | Proofs |
|---|---|---|
| `Replication` (+ `MCReplication`) | instances, replicas and slots over several hosts | `ReplicationProofs` |
| `Restore` (+ `MCRestore`) | snapshots, point-in-time recovery, promotion | `RestoreProofs` |
| `Ports` (+ `MCPorts`) | the port pools of `pg.yaml`, Validate, install and remove | `PortsProofs` |
| `Boot` (+ `MCBoot`) | containers across reboots: podman's repair, start, stop, autostart, the boot service | `BootProofs` |
| `Daemon` (+ `MCDaemon`) | host daemons, the supervisor, pid files | `DaemonProofs` |
| `AddonLife` | what the commands promise of any one add-on: an abstract specification | |
| `Addons` (+ `MCAddons`) | the life of add-ons: what each step of a handler does to `pg.yaml`, file, data, secret and containers; implements `AddonLife` | `AddonsProofs`, `AddonsLifeProofs` |
| `AddonSteps` | how the programs of a kind are put together | |
| `AddonsOrder` | what the programs of all kinds have in common: the order of their steps, as the theorems need it | |
| `AddonsProxy`, `AddonsStore`, `AddonsService`, `AddonsMonitor`, `AddonsBroker` | the handlers of the 36 kinds, as sequences of steps | |
| `HACluster` (+ `MCHACluster`) | Patroni clusters over several hosts: membership, pause, restore, extensions, archiving | `HAClusterProofs` |

`PROJECT.json` maps every definition to the lines it translates; `external` marks
what PostgreSQL, Patroni, pgBackRest, podman, the kernel and the administrator do.
`Addons` composes the five modules of kinds through the constant `Kinds`.

### Replication

State: `cfg` (the entries), `up` (running containers), `pgdata` (what is in each
data directory: empty, debris, a partial base backup, a standby of someone, promoted,
initdb), `slots` (in the data directory of the serving instance, so they vanish
with it), `job` (the command each host runs and where it is). One action per step of
a command between two effects; `Interrupt` may end a command at any step; a host
runs one command at a time and hosts interleave. Whether a container is started
with initdb or as a replica, which `pg_basebackup` failures leave which directory, and
the order *container, slot, data, entry* of destroy are the code's. destroy is best effort, as
in the code: the container may still run after it was told to stop and removed, and a slot
may stay although its primary can be reached; the entry goes all the same.

Four constants open parts of the space: `KeepData` (destroy without
`--clean-data`), `LooseDrop` (the administrator drops a slot still in use),
`AnyTarget` (repoint at something that is down or a standby), `CrashInBackup` (pg
dies while the copy runs).

- `RolesAgree`: an entry that says replica never has a database of its own
  (initdb), and an entry that says primary, or none, never has a standby's.
- `StandbyKeepsSlot`: a standby is a copy of the primary its entry names, and has its
  slot there for as long as that primary keeps the directory it was copied from.
- `ReplicaNeverInitdb`: no step runs initdb for an entry that says replica.

### Restore

State: a small clock, the instance (container, recovery state, the set of transactions
it has), its recovery settings, the archive, the backups, the command, and a
`pending` flag for a promote that was cut short. A transaction is the time it
committed at, so "the database at time t" is a set. PostgreSQL and pgBackRest run
between any two steps. The conversion of `--time` to pgBackRest's argument is
modelled by what it does (`Passed`: it keeps the wall clock and the hours of the
offset). A wipe or a copy that dies leaves the data directory empty or with debris, and
`StartInstance` asks nothing about it: on an empty one the image's entrypoint runs initdb
and a new database (`fresh`) is served read-write, whose WAL and backups the repository
refuses.

- `SettingsOutliveRecovery`: an instance in recovery has all its recovery settings.
- `CleanAfterPromote`: a read-write instance has none, unless a promote was cut
  short or said so.
- `PausedStaysPaused`: nothing but a `--promote` makes a directory in recovery read-write, no
  start, reboot or failed restore. (A directory that a restore has emptied is not in
  recovery: what pg start makes of it is in section 5.)
- `PromotesAtTarget`: a promotion yields the transactions up to the requested time,
  on the full path and on the fast path, within the tolerance.
- `FullBackupRemains`: a full backup remains, and each other one has one before it.

### Ports

`autoAssignPorts` is 1900 lines of blocks of one shape. The module has the shape once
(`NextEntry`, `Draw`, `Fix`, `Pass`) and a table, `Rows`, with one row for each block:
which ports, from which cursor, in which order, avoiding the ports of which other kinds.
A command loads the file (first walk), applies its flags (second walk), calls
`Validate` if it is one of the nine that do, starts its containers and saves; it
may fail anywhere before. `ss` may see a port or not, since it sees only what
listens.

- `PoolsApart`: two ports that the code promises to keep apart are never equal in
  the file (`Promises`: each pool in itself, and the pairs of pools whose blocks look at
  each other). The derived ports of SeaweedFS and of a RocketMQ broker count.
- `PortsRespected`: a port that was pinned or saved is never changed.
- `SavedPortsAreSet`: a saved entry has all its ports.
- `SavedIsValid`: what any command saves passes `Validate`.
- `DrawnPortsAreValid`: `Validate` never refuses what the walk has drawn.

Assumptions: the administrator pins no port that a promised neighbour holds (the
guard of `ApplyFlags`), and pins no 0. The second port of etcd, pgdog and VMCluster is
drawn when the first one is, and only then; `LeadOf` names that exception.

### Boot

State: `ctr`, podman's containers (absent, exited, improper, ghost, running); `stale`,
whether podman's pause-process record is stale, so that every podman command
fails; `auto`, the autostart flags in `pg.yaml`; `unit` and `pending`, the boot service;
`proc`, the commands, each with its control point, its container, the targets still to
come and the flags it loaded. Any number of users run start, stop, `stop -f`, read-only
commands and toggles beside the boot service. A step is one call of podman or one save.
Every target goes through the same chain: constructor (one probe per
process, `podman system migrate`, and only for an instance's manager
`restartStoppedContainers`), then query, start, remove, create, for an instance also the
wait, its restarts, the backup container of PITR, and the save. `Reboot` ends every
process and leaves podman healthy or stale and each container that ran in any state a
shutdown can leave it in. Forty kinds of add-on fall into two: those whose manager
believes `podman ps` (`Bouncers`, and like them the backup container) and those that look
for the process too (`Brokers`). A Patroni member, which start never recreates, is of
neither kind.

`kept` and `due` are history: what was stopped on purpose and nobody asked for since, and
what the boot service still owes. Toggles overlap every other command, and may fail or be
interrupted between the flag and the boot service.

- `KeptStaysDown`: nothing brings a container up that was stopped on purpose while podman
  was healthy, but a command that asks for it, or the repair after a reboot.
- `StopNeverStarts`: no step of a stop command brings a container up, the repair of a
  stale podman included.
- `BootServes`: after a reboot every target is found up, started or reported, whatever the
  reboot left and whatever a user does meanwhile.

Nothing is claimed of the flags against the boot service: the code saves the one, installs
or removes the other, and brings them together in no other place (section 5).

`due` leaves out a ghost whose manager believes podman: for it `BootServes` does not hold
(section 5).

### Daemon

State: the process table (program, group, whether it ignores TERM), the pid file,
the daemon's entry, the commands. `cmd.Start` and `writePID`, the TERM, the polls of
`Alive`, the KILL and the removal of the pid file are separate steps; `writePID` may fail;
processes exit, fork into their group, replace themselves by another program (`Exec`) and
have their pids reused at any time. History: `lost` marks a leader whose start ended, by an
error or a kill, before the pid file had it.

- `NoUntrackedLeader`: with one command at a time no daemon runs that the pid file
  does not record, whatever command failed or was interrupted where. The start that
  ends between `cmd.Start` and the pid file does leave one (`lost`); the property says that
  nothing else does, that the commands which follow it lose none either, and that the next
  start keeps track of its own.
- `OneLeader`: with one command at a time the daemon does not run twice, but for a lost
  leader and one that has exec'd another program, whose argv `Alive` no longer
  recognises.
- `SupervisorOutlivesChild`: the supervisor does not go before its child once
  it listens to signals.
- `SparesOtherPrograms`: start, stop and restart signal no process of another program.
- `StopEndsLeader`: a stop ends in the leader's death, also when it ignores TERM.

### Addons

A kind of add-on is a record of programs: the steps of its install up to the point where
it looks at what is there, the branches it then chooses from (a running container is kept,
a stopped one started, otherwise built; some kinds compare the roles or the entry), and the
steps of start, stop, remove, reload and config set. The five modules of kinds are the
translation of the handlers in `internal/cli` and the managers in `internal/podman`;
`Addons` says once what a step does. A step is one effect: one file, one podman command,
one SQL or API call, or one Save.

State: `conf` (the entries of `pg.yaml`) and `torn` (it does not parse), `file` (the rendered
configuration), `data` (the data directory or role, and the secret bound in it), `box` (the
containers, with the settings, the secret and the file they were started with), `cmd` (the
commands, each with what it loaded and the steps left), `faults`. History: `known`,
`cut`, `last`, `lossy`. An entry is abstracted to its settings, one value, and its secret.
`Bad` are settings that pg accepts and haproxy or nginx refuses; `Alone` are roles of a
cluster kind that need only its first container. Faults: a step fails (the code
returns, or reports and goes on: `Soft`), the command is interrupted, a save is cut short,
a container exits, the machine reboots. `Serve` is `pg start` of an instance, which saves
the whole file it loaded at its beginning.

- `BuildApplies`: an install that built and returned nil leaves containers that run what
  `pg.yaml` says, with the file rendered from it and a secret that opens the service, over
  whatever earlier commands left. `NoAuth` is the exception: an etcd that is installed without
  authentication (`DecideAuth`) has no secret in its entry, and the install does not look
  whether its data still have authentication on (section 5).
- `KnownSecret`: data is never bound to a secret that `pg.yaml` has not had, except by a
  kind that saves last, during or after an interrupted install.
- `RestartSafe`: the file under a running haproxy or nginx is one it accepts.
- `OwnedBox`: every container has its entry.
- `Implements`: the refinement of `AddonLife` for each add-on: entry and data go only after
  the containers.
- `NoLostUpdate`: `pg.yaml` has what the last command on each add-on saved, unless two
  commands that save overlapped or a save was cut short. That they may lose updates then is
  plain from the code (there is no lock, and `os.WriteFile` truncates first); what the
  property adds is that start, stop and reload beside a command that saves are harmless.

### HACluster

State: `conf` (the cluster in each host's `pg.yaml`), the DCS (leader, pause, the
registrations of members), per member its container, its data (a generation number: a
bootstrap or restore makes a new one), whether it joined, and the commands, one per
host. Patroni is external: a member without data bootstraps an empty scope
or copies from the leader, one with data waits for or claims the leader lock, and never
while paused; the lock expires. The commands are programs again (`Create`, `RemoveMember`,
`RemoveAll`, `StartStop`, `Control`, `Restore`, `ExtInstall`, `ExtApply`, `ExtRemove`,
`Setup`, the remote variants), each step one call of patronictl, podman or Save.

- `RestoreWins`: a restore that reports success is followed by a leader with the restored
  data, not by an old replica of another host.
- `CopyRemains`: before a restore wipes a member other than the one it bootstraps, another member of
  the host leads with a database, the restored one unless a removed member was left running: the
  data of the last copy is never wiped.
- `PauseExplained`: a paused cluster has a command that is running, was told to leave it so
  or was cut off.
- `MemberOwned`: a member container or registration belongs to an entry of its host, unless
  podman's error was printed.

Assumptions: `Freezes` (ha_restore.go:278: under pause remote replicas stay replicas) and
`Waits` (ha_restore.go:299: a running replica that finds the DCS empty waits for a cluster to
join); both are TRUE in the run, as the code relies on them. What a fault or another host's command crosses is
excused by history variables, and listed in section 5.

## 3. Runs

| Run | Instance | Shows |
|---|---|---|
| `replication_trio` | 3 instances, one host, any target, crashes | `RolesAgree`, `StandbyKeepsSlot` |
| `replication_loose` | 2 instances on 2 hosts, everything allowed | `TypeOK`, `ReplicaNeverInitdb` |
| `restore_whole` | clock 1..4, 2 backups, tolerance 2, whole-hour offsets | the six properties of Restore |
| `ports_pools` | 8 entries of 7 kinds, 2 at a time, ports 1..7 | the six properties of Ports |
| `boot_reboot` | an instance with PITR, a broker, the backup container; one user command beside the boot service, one reboot | `TypeOK`, `KeptStaysDown`, `StopNeverStarts`, `BootServes` |
| `daemon_serial` | 3 pids, one command, interrupts at every point | `TypeOK`, `NoUntrackedLeader`, `OneLeader`, `SupervisorOutlivesChild` |
| `daemon_live` | 3 pids, one stop or restart (which starts what does not run) at a time, fairness | `SparesOtherPrograms`, `StopEndsLeader` |
| `addons_all` | each of the 36 kinds (33 different programs) as one add-on, 4 settings, 2 secrets, one fault | the types, `BuildApplies`, `KnownSecret`, `RestartSafe`, `OwnedBox`, `Implements` |
| `addons_pair` | two add-ons, two commands at once, torn saves | `NoLostUpdate` |
| `ha_cluster` | 3 members, 2 hosts, 2 commands, one fault | the five properties of HACluster |

Two more runs show that something the repository says does not hold of its code; each
has a finding in `PROJECT.json` with the quoted line:

| Run | Counterexample |
|---|---|
| `replication_old_data` | destroy without `--clean-data`, then `replica create` under the same name: the old database runs read-write as a "replica" |
| `restore_zone` | a `--time` with a +05:30 offset reaches pgBackRest as +05 |

Every property of a passing run has a mutant in `PROJECT.json`: a plausible bug in
one mapped definition with which TLC finds the property violated.

**Bounds.** Three instances are a primary, a replica and a cascaded one, or two
replicas of one primary; a violation of the pairwise properties needs no fourth. Two
hosts are enough for commands to interleave on one slot. In Restore two backups are a
full one and a dependent one; the proof covers any number. Four clock ticks leave
room for a transaction before, at and after the target within and without the
tolerance. In Ports the promises are about pairs of entries, so two entries at a
time suffice, and the start ports are set next to each other so that two entries
already make the pools meet (in production it takes many); the pin is a port both
pools reach, and 3 is a port `ss` may report. Three pids are leader, child or worker, and one
that is reused. In Boot one command of a user beside the boot service, before or after
one reboot from any choice of autostart targets, is a pair of processes on one container
in every order; the broker and the backup container take the two add-on paths, and the
instance takes both through PITR. The theorems have no such bound; `BootServes`, which is
only model-checked, has. In Addons the number of commands is not bounded: with one
add-on, one command at a time, one fault (which may be the interrupt, failure, exit or reboot
that a property is about) and settings that are good, good, bad and of one role, the whole
graph is explored. Two secrets are the one that is stored, in the file or in the data, and a new
one; with all in use, drawing one fails (with three, 945 736 states, TLC finds no error either). `addons_pair` takes the kind with the
fewest steps, since the interleaving is of Load and Save, and stops where an update may have been
lost (`Careful`). In HACluster two members on one host and one on another are the smallest cluster with a
local copy to keep and a remote replica to promote; `MaxGen = 3` is the first data, the
restored one and one more (a retry, or a bootstrap of another host), `MaxCommands = 2` a command and its retry, or two hosts at once.

**Fairness** appears in `daemon_live` and `boot_reboot`: weak fairness of each command's own
steps, because the kernel schedules a running `pg` until it returns, and of `BootStarts`,
because systemd starts an enabled unit at boot. Every podman call returns (the code waits
for it without a timeout); an interrupt stays possible at every step and counts as a report. Signals take effect in
the step that sends them (a process that ignores TERM stays), and nothing is assumed
of the daemon's own progress.

**Deadlock** is checked in every run but those of Boot and HACluster, where the bounds on
commands, reboots and generations let the behaviour end; the other models may not stop.

## 4. Proofs

All theorems hold for every value of the constants that satisfies the named
assumptions; TLC evaluates those on every run.

**`ReplicationProofs`.** `BaseInv` (types and the control state: which
step a job is at determines what its entry, container and directory can be) is
inductive under any use and gives `TypeCorrect` and `NeverInitdbForReplica`. `RolesAgree` and `StandbyKeepsSlot` need a disciplined
administrator (`~KeepData`, whose failure `replication_old_data` shows, and
`~LooseDrop`). Their inductive invariant `IInv` adds `GoneOK` (an unregistered instance
has no usable data), needed because a later create under the same name must find
nothing to boot.

**`RestoreProofs`.** `RInv` is `TypeOK`, the settings invariant and what each
control point of the command implies about the server and its settings. It gives
`RecoveryKeepsItsSettings`, `PromotedIsClean` and, as an action property,
`PausedUntilPromoted`. `BInv` (each backup is a full one or has a full one before it, and no two end at the
same time) gives `FullAlwaysRemains` for any number of backups. `TargetOK` relates the
command's target, the one in the settings and what a paused server has replayed; it gives `PromotionHitsTarget` for
whole-hour offsets; `restore_zone` shows that the assumption is needed.

**`PortsProofs`.** `PInv` is `TypeOK` with both copies of the ports, the file's and the
command's, apart. The argument for a draw (`DrawApart`): the drawn port is free of every
value in `marks`, and the table says that each promise of a drawn port is within
its marks. That fact about the table is the assumption `TableKeepsPromises`; with
`TableSetsPorts` (the steps of a row cover the ports of its kind) it is a
closed formula, free of constants, which TLC evaluates. So `PoolsStayApart`
holds for every set of entries, start ports and commands. `WInv` follows the walk:
the entries behind it have their ports, a port that was chosen (pinned, or saved before) or that nobody
listens on is as it was, and the cursors never go back. It is needed because
`SavedPortsAreSet` speaks of the file only, and says nothing of a command half-way through its
second walk; it gives `PortsAreSet` and `ChosenStay`. `VInv` adds that the file passes `Validate`, and that
in an install without pins and fixed ports what `Validate` looks at is apart all along: its pairs
are not those of the promises. It gives `SavedStaysValid` and `DrawsAreValid`.

**`BootProofs`.** The first half shows that each step of a command replaces its own job by
one that aims at no more containers (`StepJob`, `Follows`), and says what the step does to
the containers (`StepEffect`). `IInv` is `TypeOK`, `JobsInv` (which command can be at which
control point; no stop command reaches the restart loop) and `KeptInv` (while anything is kept,
podman is not stale, no repair is under way and nobody aims at it): `KeptStaysDown` alone
says nothing of the commands in flight, which could bring the container up in their
next step. It gives `TypeCorrect`, `StoppedStaysDown` and `StopsOnlyStop` for all sets of
containers and users and any number of commands and reboots.

**`AddonsProofs`, the updates.** `UpdatesKept` is `NoLostUpdate` for any number of add-ons, commands at
once and faults. The invariant `WInv` adds to it what makes a Save harmless: while no
loss is marked, at most one command that may save is running, and what it loaded agrees with the
file outside its own entry (`Current`); a command of the other kind has no step left that
saves, which the assumption `ReadersAssumption` says of the programs (TLC evaluates it
for all 36 kinds). Every step but Save leaves the command "like" it was
(`Moves`, `MoveKeeps`), so one lemma covers 25 actions, and `SaveKeeps` has the argument.

**`DaemonProofs`.** `TypeCorrect` and `SupervisorStays` hold for any number of commands at
once; the second needs that every leader and every foreign process is in a group of its own
(`OwnGroup`), so that a signal to a group reaches the supervisor only where it was meant to. `LeadersTracked`
and `LeaderUnique` (`OneLeader`) need one command at a time (`Serial`), as two starts may both find no pid file;
they allow every failure and interrupt, that between `cmd.Start` and the pid file included. The inductive invariant `SerialInv`: a leader is recorded so that
`Alive` sees it while no command is past the point where it found nobody alive, or it is the process a
start is about to record, unless it is lost or has exec'd; and `Stop` signals what the pid file records. `OthersSpared` leaves `daemon remove` out, which
calls `Stop` without asking `Alive` (section 5); its invariant `TargetOurs` says that the recorded pid is no
unrelated program between `Running` and the TERM.

**`HAClusterProofs`.** `CommandsFit` is about the steps that a command has left: they are for members of its
host, it saves once, what it makes is in `pg.yaml` or will be before, what it takes out of `pg.yaml` is gone by
then, a pause is followed by its end, and the steps of a restore are in order (`Ranked`). With `TypeOK` it
is inductive, for programs of any length, and gives `TypeCorrect` and `Owned`. `PauseOwed` says that the command that
explains a pause has still to end it, and gives `Explained`. `RestoresHold` says what holds of a restore that
nothing crossed by the rank of its next step: after the freeze only replicas run on other hosts and none can be elected,
from the cleared keys on a leader is a member of the host that the restore did not stop, and after the wait it has the
restored data. With `RunsOnData` (a member that runs has a database) it gives `RestoresWin` and `CopiesRemain` under
`Freezes` and `Waits`, the two things the code expects of Patroni. What the fold that filters the steps of a
program yields is shown without an induction schema: the set of positions for which it holds has the
first and every next one (`Climb`, from the well-foundedness of `<`).

**`AddonsLifeProofs`.** These theorems are about the order of the steps in the handlers of 36 kinds, so
they need to know it. `AddonsOrder` says what the handlers have in common, and assumes it of every member of `Kinds`
(`OrderAssumption`): an install merges before it uses the entry and erases nothing; every other command finds
the entry before it uses it, loads before it saves and removes the containers before it drops the entry or wipes data; an
install that makes a container has saved the entry or comes to a save without a step that may end the command before, or was led there by what only an add-on with an entry has. It is a closed
formula for given kinds; `addons_all` evaluates it for all 36, so a handler in another order fails the run.
`VetOrder`, `KeyOrder`, `AdoptOrder` and `BuildOrder` are the parts of it that one theorem each needs, below.
`NoneAssumption` says that the value for "absent" is none of the records.

`TypeCorrect` holds for any number of commands at once. Its inductive invariant `TypeInv` adds to `TypeOK`
that the steps left of a command are the end of a program in order, in which `After` still holds: a step that needs the entry has
one in memory, or a step before it that brings it. `AfterTail` is the lemma for one step done.

`Implemented` and `BoxesOwned` assume `Serial`: one command at a time, and no save is torn. Both are
needed. `Config.Save` writes what `Load` read, so a second command may bring back or drop an entry the first one
has changed, and a file cut short has lost entries whose containers run. `LifeInv` is `TypeInv` with `Orders` (in
the steps left of a remove, what erases comes after the container is gone, or it is gone already), `Roles`
(a kind that cannot change its roles has all of them in every entry, so that its remove takes the second container too) and `Reads` (what the command
loaded is what `pg.yaml` still says). Every step then is one of `AddonLife`'s or a stutter. `OwnInv` adds `Owned`, a
form of `OwnedBox` that also speaks of the command under way: a container or a password without an entry belongs to an
install that is bound to save, or to one that was cut off. A failed or interrupted step
breaks `OwnedBox` only through `cut`, which `Follows` keeps for each of the 25 actions.

`FilesVetted` is `RestartSafe` for one command at a time (`Single`); saves may be torn. `VetOrder` of `AddonsOrder` says
where the kinds with a check write the file they mount: only an install or a reload does, and from each write the program comes to the
check, or stops the container, with no step between that may end the command or writes the file again. `VetInv` adds to `TypeInv`
that this still holds of the steps left (`Checks`), that a container that exists has a file (`Vetted`), and that
over a refused file under a running container, if no cut-off command left it, the command under way has that check or stop still ahead and an accepted file to
put back in hand (`Healing`). `RestartSafe` alone is not inductive: it excuses an install or reload for as long as it runs, which
says nothing of the file at its end.

`KeysKnown` and `BuildsApply`, in `AddonsProofs`, are `KnownSecret` and `BuildApplies` for one command at a time; saves may
be torn. Both rest on `TypeInv` and on what a step may be (`NextMoves`): the command takes its next
step (`Takes`, which says all it may do to entry, file, data, secret and containers), is gone, chooses a branch or begins, or a
container goes down. A save cut short is no exception: it ends the command, and a secret that `pg.yaml` has had counts as known.

`KnownSecret` is not inductive, as it excuses an install of a kind that saves last for as long as it runs. `KeyOK` says which
debt that is (`Owing`): the secret that the data holds is the one in the entry in memory, and the steps left come to a save without
one that may end the command or change the secret. Every other command binds only what `pg.yaml` says
(`KeysLeft`): before each step that binds comes a load or a save, with no step between that changes the secret in memory.
`KeyOrder` of `AddonsOrder` says so of the programs, for the two sorts of kinds.

`BuildApplies` is about the end of an install, so `BuildOK` carries to the end what the steps done have brought. `Wanted` names what has to be
there, as ten marks (`Bears`): the entry is in `pg.yaml`; each container has its settings, its secret, and has read the file;
the file has the settings and the secret; the secret opens the data. A mark is `Left` by the steps that
remain when it is there and no step undoes it, or a later step brings it. The inductive part is one lemma (`BringsBox`, `BringsStored`): a
step in `Gives` brings its mark, and one not in `Loses` keeps it. `BuildOrder` says that the last branch of every install, which is
the one that builds, leaves every mark, given those the steps before the choice have brought (`Ready`). Kafka's
cluster id needs more: an install takes it from the data if there is one, so that no entry or data of such
a kind may have an empty one (`AdoptOK`, `AdoptOrder`).

Only model-checked: the liveness properties `StopEndsLeader` and `BootServes` (fairness
and `ENABLED` are beyond the prover). Every invariant and action property of the runs that pass is
stated by a theorem.

## 5. Disagreements without a run

Noted while modelling, or shown by TLC on a variant of a run.

*Boot, daemons, instances.* autostart.go:1081-1082 says that the boot service is installed
"when at least one target is enabled", but `countAutostartTargets` does not count
Seaweedfs, DocumentDB, JuiceFS, ZeroFS, InfluxDB, Influx2TSDB, ClickHouse, Keeper, Kafka, RabbitMQ and
RocketMQ: `pg autostart enable --kafka` as the only target removes the service.
process_unix.go:133-134 guards against pid reuse by the command line, but `daemon remove`
calls Stop without asking Alive first (daemon.go:298 does for `daemon stop`): after a crash a stale pid
file makes it terminate another program. A daemon whose command is a script that ends in `exec` no
longer matches the recorded argv (process_unix.go:151-175): stop says that it does not run, and start runs a second one.
When `writePID` fails or pg is killed before it, the daemon runs and no pid file records it
(process_unix.go:73-75, 198-202). An interrupted or failed `pg autostart enable` leaves an enabled target without
the boot service; and a pg start or boot pass that saves the flags it had loaded undoes a toggle made meanwhile,
after which the service is gone and the flag is back (autostart.go:1078-1092, start.go:2536). destroy ignores the
errors of `podman stop` and `rm -f` and only warns when the slot cannot be dropped (podman.go:1337-1338,
destroy.go:99-127): the replica may still run without an entry, and its slot may stay on a primary that could be reached.
podman/replica.go:100-101 promises that a retry
re-runs `pg_basebackup`; the clean-up runs only on an error, so when pg itself dies during the
copy, `dataDirInitialized` finds `PG_VERSION` and the retry boots the partial copy. `hostbin.Stop` (process_unix.go:98-100)
promises that a worker of the daemon's group goes down too, but waits and escalates for the
leader only: a worker that ignores TERM outlives it. `docs/replica.md:136` says that after a
failed base backup the slot on the primary remains valid when the replica is destroyed; destroy
drops it. The comment at podman.go:66-71 asks start paths to treat a container without
a process as not running; only Kafka, RabbitMQ and RocketMQ do. When an add-on's manager or `pg stop`
repairs podman first, the containers the reboot took down are not restarted, because the
probe runs once per process. The guards between pools that are
one-sided although a comment says "never" (VictoriaLogs against vlagent, InfluxDB
against influx2tsdb, nginx against the RocketMQ proxy); `--client-port` alone leaves etcd's
peer port 0; `patroni_ssh_start_port` is dropped by the first Save; an instance
destroyed while an exporter targets it makes `Validate` fail for everyone; the help of
`replica promote` and `docs/failover.md` disagree on what to do with the old primary.

*Restore, config.* A restore that dies after the wipe leaves an empty directory, or one that the
entrypoint refuses; the next pg start or boot pass asks nothing about it, and on the empty one initdb makes
a new database that is served read-write under the old name (podman.go:601-608, 1649-1659, start.go:2390-2400). The target is compared with `last_archived_time`, although PostgreSQL needs a
later transaction in the archive to stop at it, and not at all when the server is down
(restore.go:110). Orphan removal matches every restore container of the instance, a running one
too (podman.go:1625). Two `snapshot delete` at a time each count the other's full backup
(pitr.go:197). `Validate` wants `target_instance` to exist, which destroy does not look at
(config.go:5273).

*Add-ons.* An etcd install with `--auth=false`, or a first one without `--auth`, over data on which an
earlier, interrupted install turned authentication on, drops the password from the entry, skips the steps that would
notice and reports success (addon.go:1983-2007, 2149-2196): nobody can log in to that service (TLC shows it
when `BuildApplies` is stated without `NoAuth`). A Prometheus or Alertmanager install that is interrupted after WriteConfig leaves a new file
unloaded, and the repeat finds "config unchanged" and does not signal
(prometheus.md:123, cli/addon.go:9513-9527; TLC shows it). An nginx install on a running container
returns before Save (addon.go:8018), so new flags are lost. Shrinking the roles of
VMCluster or BeeGFS leaves the container of the dropped role (vmcluster.go:351-356). An object store
interrupted between EnsureContainer and Save is saved without a password by the repeat. A
Garage cluster that dies between KeyCreate and Save loses the secret Garage tells only once
(garage.md:482). `--password` on a running DocumentDB gateway is saved and never applied
(documentdb.md:74). Predixy's file is rewritten under a running container that does not
reload it. pgbouncer and pg_exporter change the role's password before steps that may fail. A start
that races a remove recreates the container without an entry. An etcd member
registered by an install that then died makes a cluster of two lose its quorum, and the repeat
refuses the registered name.

*HA.* The help of `ha remove --scope-all` gives the opposite order of what it does: the DCS is cleared
while local members run (ha.go:577-592). The leader check of restore precedes prompt and pause, takes an
unreadable leader for local, and `waitForLeader` accepts any leader (ha_restore.go:127-142). A restore
that timed out and is repeated finds the DCS empty, takes that for frozen (280-285) and may stop
the late bootstrap, after which an old remote replica is promoted; repeated with another bootstrap member,
it wipes the last local copy (both found by TLC, excused by `blind` and `cut`). A remote member
started while the DCS is empty claims it with old data. An extension install that is
interrupted between Save and resume leaves the cluster paused, because the repeat has nothing to
install (ha_extension.go:340-352); its test for a single host compares counts. One host's resume ends
another host's pause. `IsClusterPaused` is true for `pause: false`. A member added on another host gets an
image without the cluster's extensions (ha-extensions.md:199-205).

## 6. Not modelled

YAML, flags, messages, image builds and the content of rendered configuration files: data
without control. Everything listed `not_modelled` in `PROJECT.json`. In the modelled parts:
the `...ToWriter` twins of restore (the same code for a GUI), log rotation, tuning
inside start, launchd. Of the add-ons: JuiceFS, ZeroFS and DuckDB (binaries on the host, FUSE
mounts), TLS certificates, the retention settings of RocketMQ, the formation of clusters of etcd,
Redis and the brokers over several hosts, and commands passed through to a service. Two
commands of *one* host at the same time are modelled in Daemon, Boot and Addons.

## 7. Plan

1. `Replication`, `Restore`, `Ports`, `Daemon`, `Boot`: done as above.
2. `Addons` with every container add-on, concurrent and torn saves, and the abstract
   specification `AddonLife`: done as above.
3. `HACluster`: done as above.
4. Theorems for every invariant and action property of the passing runs: done as above.
5. The HTTP server's jobs; exec timeouts; the membership of an etcd cluster; S3 targets.
6. Pure algorithms against reference definitions: Kafka voters and replication
   factor, ClickHouse topology, ZFS topology, tune.
