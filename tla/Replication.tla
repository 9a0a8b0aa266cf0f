---------------------------- MODULE Replication ----------------------------
(***************************************************************************)
(* PostgreSQL instances and their physical replicas as pg manages them:    *)
(* create, start, stop, destroy, replica create / promote / repoint / drop *)
(* (internal/cli/{create,start,stop,destroy,replica}.go and                *)
(* internal/podman/{podman,replica}.go).                                   *)
(*                                                                         *)
(* Each host has its own pg.yaml and runs one command at a time; commands  *)
(* of different hosts interleave between any two steps, and a command may  *)
(* be interrupted between any two steps.  Replication slots live in the    *)
(* data directory of the instance that serves them.                        *)
(***************************************************************************)
EXTENDS Naturals, FiniteSets, TLC

CONSTANTS
    Inst,            \* instance names, unique over all hosts
    Hosts,
    HostOf,          \* the host each instance lives on
    None,            \* no instance
    KeepData,        \* destroy also leaves the data (no --clean-data)
    LooseDrop,       \* replica drop also names a replica still in use
    AnyTarget,       \* repoint also names a target that is down or a standby
    CrashInBackup    \* a command may die while pg_basebackup runs

ASSUME HostAssumption == HostOf \in [Inst -> Hosts]
ASSUME NoneAssumption == None \notin Inst
ASSUME FlagsAssumption ==
    /\ KeepData \in BOOLEAN /\ LooseDrop \in BOOLEAN
    /\ AnyTarget \in BOOLEAN /\ CrashInBackup \in BOOLEAN

VARIABLES
    cfg,       \* the instances' entries in the pg.yaml of their hosts
    up,        \* the instances whose container runs
    pgdata,    \* the data directories
    slots,     \* the replication slots in each data directory
    job        \* the command each host is running

vars == <<cfg, up, pgdata, slots, job>>

(* Data directories.  "debris" and "partial" are incomplete base backups   *)
(* without and with a PG_VERSION file, "torn" is a half removed directory  *)
(* that still has one (without it, it is "debris" too); "standby" is a     *)
(* complete base backup;                                                   *)
(* "promoted" is a standby that left recovery; "initdb" is a database of   *)
(* its own.  A standby knows the instance src it was copied from; cur says *)
(* that src still has the data directory it had then.                      *)
States == {"empty", "debris", "partial", "torn", "standby", "promoted", "initdb"}
Initialized == {"partial", "torn", "standby", "promoted", "initdb"}   \* has PG_VERSION
Usable == {"standby", "promoted", "initdb"}
ReadWrite == {"promoted", "initdb"}

Data == [st : States, src : Inst \cup {None}, cur : BOOLEAN]
NoData(s) == [st |-> s, src |-> None, cur |-> FALSE]

\* replica_of is set only in an entry, and primary_dsn only beside it.
Entry == {e \in [reg : BOOLEAN, of : Inst \cup {None}, dsn : BOOLEAN] :
             /\ e.of # None => e.reg
             /\ e.dsn => e.of # None}
Absent == [reg |-> FALSE, of |-> None, dsn |-> FALSE]
PrimaryEntry == [reg |-> TRUE, of |-> None, dsn |-> FALSE]
ReplicaEntry(p, viaDSN) == [reg |-> TRUE, of |-> p, dsn |-> viaDSN]

Points == {"idle", "register", "ensure", "backup", "boot", "promote", "promoted",
           "wipe", "slot", "repointed", "rm", "dropslot", "unregister"}

Job == [pc : Points, inst : Inst \cup {None}, tgt : Inst \cup {None}]
NoJob == [pc |-> "idle", inst |-> None, tgt |-> None]

TypeOK ==
    /\ cfg \in [Inst -> Entry]
    /\ up \in SUBSET Inst
    /\ pgdata \in [Inst -> Data]
    /\ slots \in [Inst -> SUBSET Inst]
    /\ job \in [Hosts -> Job]

-----------------------------------------------------------------------------
Idle(h) == job[h].pc = "idle"
At(h, pc) == job[h].pc = pc
Run(h, pc, i, t) ==
    job' = [job EXCEPT ![h] = [pc |-> pc, inst |-> i, tgt |-> t]]
Goto(h, pc) == job' = [job EXCEPT ![h].pc = pc]
Return(h) == job' = [job EXCEPT ![h] = NoJob]

\* p's server is up and answers SQL.
Serves(p) == p \in up /\ pgdata[p].st \in Usable

\* i streams from p, which makes its slot active: PostgreSQL drops no active
\* slot.
Streams(i, p) ==
    /\ Serves(i) /\ Serves(p)
    /\ pgdata[i].st = "standby" /\ pgdata[i].src = p /\ pgdata[i].cur

\* The data directory of i now is d, a new one: what was copied from the old
\* one no longer has its source.
Replaced(i, d) ==
    [j \in Inst |->
        IF j = i THEN d
        ELSE IF pgdata[j].src = i THEN [pgdata[j] EXCEPT !.cur = FALSE]
        ELSE pgdata[j]]

\* The data directory is removed, and with it the slots this instance served;
\* s is what is left of it.  The container is gone too, or, when podman could
\* not remove it (DestroyWithData ignores that), its server ends for want of
\* its files.
Wiped(i, s) ==
    /\ up' = up \ {i}
    /\ pgdata' = Replaced(i, NoData(s))
    /\ slots' = [slots EXCEPT ![i] = {}]

-----------------------------------------------------------------------------
(* pg create, pg stop *)

Create(i) ==
    /\ Idle(HostOf[i])
    /\ ~cfg[i].reg
    /\ cfg' = [cfg EXCEPT ![i] = PrimaryEntry]
    /\ UNCHANGED <<up, pgdata, slots, job>>

Stop(i) ==
    /\ Idle(HostOf[i])
    /\ cfg[i].reg /\ i \in up
    /\ up' = up \ {i}
    /\ UNCHANGED <<cfg, pgdata, slots, job>>

-----------------------------------------------------------------------------
(* pg start: doStart, reached from start, replica create, promote, repoint *)

StartBegin(i) ==
    /\ Idle(HostOf[i])
    /\ cfg[i].reg
    /\ Run(HostOf[i], "ensure", i, None)
    /\ UNCHANGED <<cfg, up, pgdata, slots>>

\* EnsureReplica has nothing to do: a primary, or PG_VERSION exists.
EnsureNothing(h) ==
    LET i == job[h].inst IN
    /\ At(h, "ensure")
    /\ cfg[i].of = None \/ pgdata[i].st \in Initialized
    /\ Goto(h, "boot")
    /\ UNCHANGED <<cfg, up, pgdata, slots>>

\* EnsureReplica, same host: the primary must run; its slot is created.
EnsureLocal(h) ==
    LET i == job[h].inst
        p == cfg[i].of IN
    /\ At(h, "ensure")
    /\ p # None /\ pgdata[i].st \notin Initialized /\ ~cfg[i].dsn
    /\ cfg[p].reg /\ Serves(p)
    /\ slots' = [slots EXCEPT ![p] = @ \cup {i}]
    /\ Goto(h, "backup")
    /\ UNCHANGED <<cfg, up, pgdata>>

\* ensureRemoteReplica: CheckPrimarySlotReady must find the slot.
EnsureRemote(h) ==
    LET i == job[h].inst
        p == cfg[i].of IN
    /\ At(h, "ensure")
    /\ p # None /\ pgdata[i].st \notin Initialized /\ cfg[i].dsn
    /\ Serves(p) /\ i \in slots[p]
    /\ Goto(h, "backup")
    /\ UNCHANGED <<cfg, up, pgdata, slots>>

\* Mutant: an error of EnsureReplica is only a warning and the start goes on.
EnsureFailsIgnored(h) ==
    /\ At(h, "ensure")
    /\ Goto(h, "boot")
    /\ UNCHANGED <<cfg, up, pgdata, slots>>

\* Any step of doStart up to EnsureReplica may fail: a missing prerequisite or
\* image, a primary that is down, a slot that is not there.
EnsureFails(h) ==
    /\ At(h, "ensure")
    /\ Return(h)
    /\ UNCHANGED <<cfg, up, pgdata, slots>>

\* runBasebackup: pg_basebackup -S <slot> -R into an empty directory.
Backup(h) ==
    LET i == job[h].inst
        p == cfg[i].of IN
    /\ At(h, "backup")
    /\ pgdata[i].st = "empty"
    /\ Serves(p) /\ i \in slots[p]
    /\ pgdata' = Replaced(i, [st |-> "standby", src |-> p, cur |-> TRUE])
    /\ Goto(h, "boot")
    /\ UNCHANGED <<cfg, up, slots>>

\* pg_basebackup fails: the half-initialised directory is removed.
BackupFails(h) ==
    LET i == job[h].inst IN
    /\ At(h, "backup")
    /\ pgdata' = Replaced(i, NoData("empty"))
    /\ Return(h)
    /\ UNCHANGED <<cfg, up, slots>>

\* The command (or the host) dies while pg_basebackup runs.
BackupCrashes(h) ==
    LET i == job[h].inst IN
    /\ CrashInBackup
    /\ At(h, "backup")
    /\ \E s \in {"debris", "partial"} : pgdata' = Replaced(i, NoData(s))
    /\ Return(h)
    /\ UNCHANGED <<cfg, up, slots>>

\* EnsureContainer on a usable data directory, and the rest of doStart.
BootUsable(h) ==
    LET i == job[h].inst IN
    /\ At(h, "boot")
    /\ pgdata[i].st \in Usable
    /\ up' = up \cup {i}
    /\ Return(h)
    /\ UNCHANGED <<cfg, pgdata, slots>>

\* EnsureContainer on an empty one: the image's entrypoint runs initdb.
BootInitdb(h) ==
    LET i == job[h].inst IN
    /\ At(h, "boot")
    /\ pgdata[i].st = "empty"
    /\ pgdata' = Replaced(i, NoData("initdb"))
    /\ up' = up \cup {i}
    /\ Return(h)
    /\ UNCHANGED <<cfg, slots>>

\* The container does not start, or exits during startup.
BootFails(h) ==
    /\ At(h, "boot")
    /\ Return(h)
    /\ UNCHANGED <<cfg, up, pgdata, slots>>

StartStep(h) ==
    \/ EnsureNothing(h) \/ EnsureLocal(h) \/ EnsureRemote(h) \/ EnsureFails(h)
    \/ Backup(h) \/ BackupFails(h) \/ BackupCrashes(h)
    \/ BootUsable(h) \/ BootInitdb(h) \/ BootFails(h)

-----------------------------------------------------------------------------
(* pg replica create *)

\* runReplicaCreateSameHost: the primary runs; register, save, start.
ReplicaCreateSameHost(i, p) ==
    /\ Idle(HostOf[i]) /\ HostOf[p] = HostOf[i] /\ i # p
    /\ ~cfg[i].reg /\ cfg[p].reg
    /\ Serves(p)
    /\ cfg' = [cfg EXCEPT ![i] = ReplicaEntry(p, FALSE)]
    /\ Run(HostOf[i], "ensure", i, p)
    /\ UNCHANGED <<up, pgdata, slots>>

\* runReplicaCreatePrimary, on the primary's host: hba entry and slot.
ReplicaCreatePrimary(i, p) ==
    /\ Idle(HostOf[p]) /\ i # p
    /\ HostOf[i] = HostOf[p] => ~cfg[i].reg
    /\ cfg[p].reg /\ Serves(p)
    /\ slots' = [slots EXCEPT ![p] = @ \cup {i}]
    /\ UNCHANGED <<cfg, up, pgdata, job>>

\* runReplicaCreateRemote: the slot must exist before anything is written.
ReplicaCreateRemote(i, p) ==
    /\ Idle(HostOf[i]) /\ i # p
    /\ ~cfg[i].reg
    /\ Serves(p) /\ i \in slots[p]
    /\ Run(HostOf[i], "register", i, p)
    /\ UNCHANGED <<cfg, up, pgdata, slots>>

\* After the extension image is built: register, save, start.
ReplicaRegister(h) ==
    /\ At(h, "register")
    /\ cfg' = [cfg EXCEPT ![job[h].inst] = ReplicaEntry(job[h].tgt, TRUE)]
    /\ Goto(h, "ensure")
    /\ UNCHANGED <<up, pgdata, slots>>

-----------------------------------------------------------------------------
(* pg replica drop, promote, repoint *)

\* runReplicaDrop on the primary's host.  A primary that does not run leaves
\* the slot, and an active slot is an error: neither changes anything.
ReplicaDrop(i, p) ==
    /\ Idle(HostOf[p])
    /\ cfg[p].reg /\ Serves(p)
    /\ LooseDrop \/ ~(cfg[i].reg /\ cfg[i].of = p)
    /\ i \in slots[p] /\ ~Streams(i, p)
    /\ slots' = [slots EXCEPT ![p] = @ \ {i}]
    /\ UNCHANGED <<cfg, up, pgdata, job>>

\* runReplicaPromote: only a running replica.
PromoteBegin(i) ==
    /\ Idle(HostOf[i])
    /\ cfg[i].reg /\ cfg[i].of # None
    /\ Serves(i)
    /\ Run(HostOf[i], "promote", i, None)
    /\ UNCHANGED <<cfg, up, pgdata, slots>>

Promoted(i) == pgdata' = [pgdata EXCEPT ![i] = NoData("promoted")]

\* pg_promote() and the wait for recovery to end; already out of recovery is
\* fine too.
Promote(h) ==
    LET i == job[h].inst IN
    /\ At(h, "promote")
    /\ IF pgdata[i].st = "standby" THEN Promoted(i) ELSE UNCHANGED pgdata
    /\ Goto(h, "promoted")
    /\ UNCHANGED <<cfg, up, slots>>

\* pg_promote() fails, or recovery has not ended after 30 s (it may still end
\* later): an error, pg.yaml still says replica.
PromoteFails(h) ==
    LET i == job[h].inst IN
    /\ At(h, "promote")
    /\ pgdata[i].st = "standby"
    /\ Promoted(i) \/ UNCHANGED pgdata
    /\ Return(h)
    /\ UNCHANGED <<cfg, up, slots>>

\* Mutant: primary_dsn stays in the entry.
PromoteKeepsDSN(h) ==
    /\ At(h, "promoted")
    /\ cfg' = [cfg EXCEPT ![job[h].inst].of = None]
    /\ Goto(h, "ensure")
    /\ UNCHANGED <<up, pgdata, slots>>

\* replica_of and primary_dsn are cleared and saved; then doStart.
PromoteSave(h) ==
    /\ At(h, "promoted")
    /\ cfg' = [cfg EXCEPT ![job[h].inst] = PrimaryEntry]
    /\ Goto(h, "ensure")
    /\ UNCHANGED <<up, pgdata, slots>>

\* runReplicaRepoint accepts any registered instance, also an old primary, and
\* any DSN.
RepointBegin(i, q) ==
    /\ Idle(HostOf[i])
    /\ cfg[i].reg
    /\ AnyTarget \/ (Serves(q) /\ pgdata[q].st \in ReadWrite)
    /\ Run(HostOf[i], "wipe", i, q)
    /\ UNCHANGED <<cfg, up, pgdata, slots>>

\* Mutant: the replica is stopped but keeps its data directory.
RepointOnlyStops(h) ==
    /\ At(h, "wipe")
    /\ up' = up \ {job[h].inst}
    /\ Goto(h, "slot")
    /\ UNCHANGED <<cfg, pgdata, slots>>

\* StopContainer, whose error is ignored, and DestroyWithData(true).
RepointWipe(h) ==
    /\ At(h, "wipe")
    /\ Wiped(job[h].inst, "empty")
    /\ Goto(h, "slot")
    /\ UNCHANGED cfg

\* Removing the data fails, half way or at once: an error.  The container may
\* still run over data that is all there.
RepointWipeFails(h) ==
    LET i == job[h].inst IN
    /\ At(h, "wipe")
    /\ \/ \E s \in {"debris", "torn"} : Wiped(i, s)
       \/ up' \in {up, up \ {i}} /\ UNCHANGED <<pgdata, slots>>
    /\ Return(h)
    /\ UNCHANGED cfg

\* The slot on the new primary, through the DSN; "already exists" is fine.
RepointSlot(h) ==
    LET q == job[h].tgt IN
    /\ At(h, "slot")
    /\ Serves(q)
    /\ slots' = [slots EXCEPT ![q] = @ \cup {job[h].inst}]
    /\ Goto(h, "repointed")
    /\ UNCHANGED <<cfg, up, pgdata>>

\* The new primary cannot be reached or refuses.
RepointSlotFails(h) ==
    /\ At(h, "slot")
    /\ Return(h)
    /\ UNCHANGED <<cfg, up, pgdata, slots>>

RepointSave(h) ==
    /\ At(h, "repointed")
    /\ cfg' = [cfg EXCEPT ![job[h].inst] = ReplicaEntry(job[h].tgt, TRUE)]
    /\ Goto(h, "ensure")
    /\ UNCHANGED <<up, pgdata, slots>>

-----------------------------------------------------------------------------
(* pg destroy *)

DestroyBegin(i) ==
    /\ Idle(HostOf[i])
    /\ cfg[i].reg
    /\ Run(HostOf[i], "rm", i, None)
    /\ UNCHANGED <<cfg, up, pgdata, slots>>

\* 1. DestroyWithData.  Nothing here ends the command: the errors of podman stop
\* and rm are ignored, so that over data that is kept the container may still
\* run, and a removal of the data that fails half way is a warning.  KeepData
\* also covers one that fails before it removes anything.
DestroyRemove(h) ==
    LET i == job[h].inst IN
    /\ At(h, "rm")
    /\ \/ \E s \in {"empty", "debris", "torn"} : Wiped(i, s)
       \/ KeepData /\ up' \in {up, up \ {i}} /\ UNCHANGED <<pgdata, slots>>
    /\ job' = [job EXCEPT ![h] = [pc |-> "dropslot", inst |-> i, tgt |-> None]]
    /\ UNCHANGED cfg

\* The primary of i is reachable: on this host it must still be configured.
PrimaryReachable(i) ==
    LET p == cfg[i].of
    IN  p # None /\ Serves(p) /\ (cfg[i].dsn \/ cfg[p].reg)

\* 2. The slot on the primary, best-effort: it stays when the primary cannot be
\* reached, when it is active, and when the drop fails for any other reason.
DestroyDropSlot(h) ==
    LET i == job[h].inst
        p == cfg[i].of IN
    /\ At(h, "dropslot")
    /\ \/ /\ PrimaryReachable(i) /\ ~Streams(i, p)
          /\ slots' = [slots EXCEPT ![p] = @ \ {i}]
       \/ UNCHANGED slots
    /\ Goto(h, "unregister")
    /\ UNCHANGED <<cfg, up, pgdata>>

\* 3. The entry.
DestroyUnregister(h) ==
    /\ At(h, "unregister")
    /\ cfg' = [cfg EXCEPT ![job[h].inst] = Absent]
    /\ Return(h)
    /\ UNCHANGED <<up, pgdata, slots>>

-----------------------------------------------------------------------------
(* The environment *)

\* The command is interrupted between two steps.
Interrupt(h) ==
    /\ job[h].pc \notin {"idle", "backup"}
    /\ Return(h)
    /\ UNCHANGED <<cfg, up, pgdata, slots>>

\* The host reboots: its containers stop and its command is gone.
Reboot(h) ==
    /\ job[h].pc # "backup"
    /\ up' = {i \in up : HostOf[i] # h}
    /\ Return(h)
    /\ UNCHANGED <<cfg, pgdata, slots>>

Init ==
    /\ cfg = [i \in Inst |-> Absent]
    /\ up = {}
    /\ pgdata = [i \in Inst |-> NoData("empty")]
    /\ slots = [i \in Inst |-> {}]
    /\ job = [h \in Hosts |-> NoJob]

JobStep(h) ==
    \/ StartStep(h) \/ ReplicaRegister(h)
    \/ Promote(h) \/ PromoteFails(h) \/ PromoteSave(h)
    \/ RepointWipe(h) \/ RepointWipeFails(h) \/ RepointSlot(h)
    \/ RepointSlotFails(h) \/ RepointSave(h)
    \/ DestroyRemove(h) \/ DestroyDropSlot(h) \/ DestroyUnregister(h)

Begin ==
    \/ \E i \in Inst : Create(i) \/ Stop(i) \/ StartBegin(i) \/ PromoteBegin(i)
                       \/ DestroyBegin(i)
    \/ \E i, p \in Inst :
          \/ ReplicaCreateSameHost(i, p) \/ ReplicaCreatePrimary(i, p)
          \/ ReplicaCreateRemote(i, p) \/ ReplicaDrop(i, p) \/ RepointBegin(i, p)

Next ==
    \/ Begin
    \/ \E h \in Hosts : JobStep(h) \/ Interrupt(h) \/ Reboot(h)

Spec == Init /\ [][Next]_vars

-----------------------------------------------------------------------------
(* Properties *)

\* A configured replica has a copy of its primary's data or none: never a
\* database of its own.  A promotion that is not yet in pg.yaml is the one
\* exception, and it leaves "promoted" data.  An unregistered instance and a
\* configured primary never hold a standby's data directory, so pg start
\* never boots a standby under an entry that says primary.
RolesAgree ==
    \A i \in Inst :
       /\ cfg[i].of # None => pgdata[i].st # "initdb"
       /\ cfg[i].of = None => pgdata[i].st # "standby"

\* A standby replicates from the instance that pg.yaml names as its primary,
\* and the slot that keeps the WAL it needs exists there, for as long as that
\* primary keeps the data directory the standby was copied from.
StandbyKeepsSlot ==
    \A i \in Inst :
       pgdata[i].st = "standby" =>
          LET p == pgdata[i].src
          IN  /\ cfg[i].of = p
              /\ pgdata[i].cur => i \in slots[p]

\* EnsureReplica either copies the primary or fails: no step of any command
\* runs initdb for an instance that pg.yaml calls a replica.
ReplicaNeverInitdb ==
    [][\A i \in Inst :
          cfg[i].of # None /\ pgdata[i].st # "initdb" => pgdata'[i].st # "initdb"]_vars

\* "On first start the data directory is initialized with pg_basebackup so the
\* container boots in standby mode instead of running initdb"
\* (podman/replica.go, EnsureReplica): a running instance that pg.yaml calls a
\* replica does not serve a database of its own.
ReplicaBootsStandby ==
    \A i \in up : cfg[i].reg /\ cfg[i].of # None => pgdata[i].st # "initdb"

=============================================================================
