------------------------------ MODULE Restore ------------------------------
(***************************************************************************)
(* Snapshots and point-in-time recovery of one instance: pg snapshot       *)
(* create / delete and pg restore (internal/cli/{snapshot,restore}.go,     *)
(* internal/pitr/pitr.go, RunRestoreContainer in internal/podman).         *)
(*                                                                         *)
(* Time is a small clock.  A transaction is the time it committed at, so a *)
(* database is a set of times.  PostgreSQL, pgBackRest and the clock are   *)
(* external: they run between any two steps of the command, which may fail *)
(* or be interrupted at every step.  One command runs at a time.           *)
(***************************************************************************)
EXTENDS Integers, FiniteSets, FiniteSetsExt

CONSTANTS
    MaxTime,      \* bound on the clock
    MaxBackups,   \* bound on the number of snapshots
    Hour,         \* clock units in an hour
    Offsets,      \* UTC offsets that --time is written in
    Tolerance     \* "at the target": a distance below this one (2 s)

ASSUME BoundsAssumption == MaxTime \in Nat \ {0} /\ MaxBackups \in Nat
ASSUME HourAssumption == Hour \in Nat \ {0} /\ Tolerance \in Nat \ {0}
ASSUME OffsetsAssumption == Offsets \subseteq -Hour..Hour

VARIABLES
    now,       \* the clock
    server,    \* the instance: its container and its data directory
    conf,      \* the recovery settings in its postgresql.auto.conf
    repo,      \* transactions in the WAL archive, on its latest timeline
    backups,   \* the snapshots in the repository
    cmd,       \* the restore command
    pending    \* a restore --promote ended before it had cleaned up

vars == <<now, server, conf, repo, backups, cmd, pending>>

Times == 1..MaxTime
Null == 0          \* no time: nothing archived or replayed yet

(* "rw" serves reads and writes; "recovery" replays the archive, "paused"  *)
(* has replayed it to the target, "ending" was told to resume; "loop" is a *)
(* server that fails in recovery and is restarted for ever by podman.  The *)
(* data directory may be "empty", or the "debris" of a removal or a copy   *)
(* that stopped half way: the image's entrypoint runs initdb in the first  *)
(* and fails on the second.                                                *)
InRecovery == {"recovery", "paused", "ending", "loop"}
States == InRecovery \cup {"rw", "empty", "debris"}

\* last is pg_stat_archiver.last_archived_time; live says that the backup the
\* directory was restored from lies on the archive's latest timeline; fresh
\* marks a database made by initdb, which the archive does not belong to.
Server == [up : BOOLEAN, st : States, xacts : SUBSET Times, last : Times \cup {Null},
           live : BOOLEAN, fresh : BOOLEAN]

Settings == {"target_time", "target_action", "restore_command"}
Targets == -Hour..(MaxTime + Hour)
Conf == [set : SUBSET Settings, target : Targets, promote : BOOLEAN]
NoConf == [set |-> {}, target |-> Null, promote |-> FALSE]

Backup == [stop : Times, full : BOOLEAN, live : BOOLEAN]

Points == {"idle", "fast", "stop", "wipe", "copy", "start", "wait", "reset", "bounce",
           "restart"}
Command == [pc : Points, t : Times \cup {Null}, off : Offsets \cup {0}, promote : BOOLEAN]
NoCommand == [pc |-> "idle", t |-> Null, off |-> 0, promote |-> FALSE]

TypeOK ==
    /\ now \in Times
    /\ server \in Server
    /\ conf \in Conf
    /\ repo \subseteq Times
    /\ backups \subseteq Backup
    /\ cmd \in Command
    /\ pending \in BOOLEAN

-----------------------------------------------------------------------------
Idle == cmd.pc = "idle"
At(pc) == cmd.pc = pc
Goto(pc) == cmd' = [cmd EXCEPT !.pc = pc]
Return == cmd' = NoCommand

\* psql in the container gets an answer.
Answers == server.up /\ server.st \in {"rw", "recovery", "paused", "ending"}

Latest(S) == IF S = {} THEN Null ELSE Max(S)

-----------------------------------------------------------------------------
(* Snapshots *)

\* pg_backup_stop waits until the WAL of the backup is archived.  An incr or
\* diff backup without a full one before it is made a full one.  pgBackRest
\* refuses a database that is not the stanza's.
CreateSnapshot(full) ==
    /\ Idle
    /\ server.up /\ server.st = "rw" /\ ~server.fresh
    /\ Cardinality(backups) < MaxBackups
    /\ \A b \in backups : b.stop < now
    /\ backups' = backups \cup {[stop |-> now, full |-> full \/ backups = {}, live |-> TRUE]}
    /\ repo' = server.xacts
    /\ server' = [server EXCEPT !.last = now]
    /\ UNCHANGED <<now, conf, cmd, pending>>

\* The snapshots after b up to the next full one.
After(b) ==
    {d \in backups :
        /\ ~d.full /\ d.stop > b.stop
        /\ ~\E f \in backups : f.full /\ f.stop > b.stop /\ f.stop < d.stop}

\* pgBackRest expires the snapshots that build on b with it: all that come
\* after a full one; after another one the incr but not the diff backups.
Dependents(b) == IF b.full THEN {After(b)} ELSE SUBSET After(b)

\* Mutant: the number of full backups is not looked at.
DeleteAnySnapshot(b) ==
    /\ Idle
    /\ \E gone \in Dependents(b) : backups' = backups \ ({b} \cup gone)
    /\ UNCHANGED <<now, server, conf, repo, cmd, pending>>

\* pgbackrest expire --set, refused for the only full backup.
DeleteSnapshot(b) ==
    /\ Idle
    /\ b.full => Cardinality({f \in backups : f.full}) # 1
    /\ \E gone \in Dependents(b) : backups' = backups \ ({b} \cup gone)
    /\ UNCHANGED <<now, server, conf, repo, cmd, pending>>

-----------------------------------------------------------------------------
(* pg restore *)

\* The target as pgBackRest gets it.  Format("2006-01-02 15:04:05-07") prints
\* the wall clock of the zone --time was written in and the hours of its
\* offset, without the minutes.
WholeHours(off) == IF off >= 0 THEN (off \div Hour) * Hour ELSE -(((-off) \div Hour) * Hour)

\* Mutant: the hours of the offset are printed with the wrong sign.
PassedWrongSign(t, off) == t + off + WholeHours(off)

Passed(t, off) == t + off - WholeHours(off)

\* The checks before anything is touched.  ListSnapshots(1) is the first one
\* pgBackRest lists, the oldest; when it cannot be listed, or nothing is known
\* of the archive, that check is skipped.
RestoreBegin(t, off, promote) ==
    /\ Idle
    /\ \E listed \in BOOLEAN :
          listed /\ backups # {} => t >= Min({b.stop : b \in backups})
    /\ Answers /\ server.last # Null => t <= server.last
    /\ cmd' = [pc |-> IF promote THEN "fast" ELSE "stop", t |-> t, off |-> off,
               promote |-> promote]
    /\ UNCHANGED <<now, server, conf, repo, backups, pending>>

\* Mutant: the distance has a sign.
NearSigned(t, replayed) == t - replayed < Tolerance

\* The paused server is at the requested time, give or take the tolerance.
Near(t, replayed) == (IF t < replayed THEN replayed - t ELSE t - replayed) < Tolerance

CanResume ==
    LET replayed == Latest(server.xacts)
    IN  /\ server.up /\ server.st = "paused"
        /\ replayed # Null /\ Near(cmd.t, replayed)

\* Mutant: the fast path returns once recovery was resumed.
FastPathReturns ==
    /\ At("fast") /\ CanResume
    /\ server' = [server EXCEPT !.st = "ending"]
    /\ Return
    /\ UNCHANGED <<now, conf, repo, backups, pending>>

\* The fast path: pg_wal_replay_resume().
FastPath ==
    /\ At("fast") /\ CanResume
    /\ server' = [server EXCEPT !.st = "ending"]
    /\ Goto("wait")
    /\ UNCHANGED <<now, conf, repo, backups, pending>>

\* psql fails, before or after the server took the request.
FastPathFails ==
    /\ At("fast") /\ CanResume
    /\ server' = server \/ server' = [server EXCEPT !.st = "ending"]
    /\ pending' = TRUE
    /\ Return
    /\ UNCHANGED <<now, conf, repo, backups>>

\* Not paused, not near, or psql could not say: the full restore.  (The time
\* of the last replayed transaction is also unknown when none was replayed
\* since the server started.)
SlowPath ==
    /\ At("fast")
    /\ Goto("stop")
    /\ UNCHANGED <<now, server, conf, repo, backups, pending>>

RestoreStop ==
    /\ At("stop")
    /\ server' = [server EXCEPT !.up = FALSE]
    /\ Goto("wipe")
    /\ UNCHANGED <<now, conf, repo, backups, pending>>

\* The data directory without its database and settings.
NoData(st) == [server EXCEPT !.st = st, !.xacts = {}, !.last = Null, !.fresh = FALSE]

\* The data directory is removed, with the settings in it, and made anew.
RestoreWipe ==
    /\ At("wipe")
    /\ server' = NoData("empty")
    /\ conf' = NoConf
    /\ pending' = FALSE
    /\ Goto("copy")
    /\ UNCHANGED <<now, repo, backups>>

\* Mutant: the restored directory is complete, but promotes at the target.
RestoreCopyPromotes ==
    LET target == Passed(cmd.t, cmd.off)
        usable == {b \in backups : b.stop <= target} IN
    /\ At("copy") /\ usable # {}
    /\ \E b \in usable :
          /\ \A c \in usable : c.stop <= b.stop
          /\ server' = [server EXCEPT !.st = "recovery", !.live = b.live]
    /\ conf' = [set |-> Settings, target |-> target, promote |-> TRUE]
    /\ Goto("start")
    /\ UNCHANGED <<now, repo, backups, pending>>

\* pgbackrest restore: the latest backup that ended before the target, and the
\* recovery settings.
RestoreCopy ==
    LET target == Passed(cmd.t, cmd.off)
        usable == {b \in backups : b.stop <= target} IN
    /\ At("copy") /\ usable # {}
    /\ \E b \in usable :
          /\ \A c \in usable : c.stop <= b.stop
          /\ server' = [server EXCEPT !.st = "recovery", !.live = b.live]
    /\ conf' = [set |-> Settings, target |-> target, promote |-> cmd.promote]
    /\ Goto("start")
    /\ UNCHANGED <<now, repo, backups, pending>>

RestoreStart ==
    /\ At("start")
    /\ server' = [server EXCEPT !.up = TRUE]
    /\ IF cmd.promote THEN Goto("wait") ELSE Return
    /\ UNCHANGED <<now, conf, repo, backups, pending>>

\* What a wipe or a copy leaves that does not come to its end.
Remains ==
    /\ cmd.pc \in {"wipe", "copy"}
    /\ \E st \in {"empty", "debris"} : server' = NoData(st)
    /\ conf' = NoConf

\* Stop, wipe, restore or start fails, and the command with it.
RestoreFails ==
    /\ cmd.pc \in {"stop", "wipe", "copy", "start"}
    /\ Remains \/ UNCHANGED <<server, conf>>
    /\ pending' = (pending \/ (At("start") /\ cmd.promote))
    /\ Return
    /\ UNCHANGED <<now, repo, backups>>

\* Mutant: the settings are reset without a look at pg_is_in_recovery().
PollSkipped ==
    /\ At("wait")
    /\ Answers
    /\ Goto("reset")
    /\ UNCHANGED <<now, server, conf, repo, backups, pending>>

\* clearPostPromoteRecoveryConfig polls pg_is_in_recovery() ...
PollPromoted ==
    /\ At("wait")
    /\ server.up /\ server.st = "rw"
    /\ Goto("reset")
    /\ UNCHANGED <<now, server, conf, repo, backups, pending>>

\* ... and skips the cleanup with a warning when 60 polls have seen no end.
PollGivesUp ==
    /\ At("wait")
    /\ ~(server.up /\ server.st = "rw")
    /\ pending' = TRUE
    /\ Return
    /\ UNCHANGED <<now, server, conf, repo, backups>>

\* ALTER SYSTEM RESET of the settings, one after the other (PostgreSQL accepts
\* it in recovery too); the first failure ends the cleanup with a warning.
ResetOrder == <<"target_time", "target_action", "restore_command">>
ResetNext ==
    /\ At("reset")
    /\ Answers
    /\ \E i \in 1..3 :
          /\ ResetOrder[i] \in conf.set
          /\ \A j \in 1..(i - 1) : ResetOrder[j] \notin conf.set
          /\ conf' = [conf EXCEPT !.set = @ \ {ResetOrder[i]}]
          /\ IF i = 3 THEN Goto("bounce") ELSE UNCHANGED cmd
    /\ UNCHANGED <<now, server, repo, backups, pending>>

ResetFails ==
    /\ At("reset")
    /\ pending' = TRUE
    /\ Return
    /\ UNCHANGED <<now, server, conf, repo, backups>>

\* The restart that makes the running server forget them.  A failed stop or
\* start is only a warning.
RestartStops ==
    /\ At("bounce")
    /\ server' = [server EXCEPT !.up = FALSE]
    /\ Goto("restart")
    /\ UNCHANGED <<now, conf, repo, backups, pending>>

RestartStarts ==
    /\ At("restart")
    /\ server' = [server EXCEPT !.up = TRUE]
    /\ pending' = FALSE
    /\ Return
    /\ UNCHANGED <<now, conf, repo, backups>>

RestartFails ==
    /\ cmd.pc \in {"bounce", "restart"}
    /\ Return
    /\ UNCHANGED <<now, server, conf, repo, backups, pending>>

\* Ctrl-C, or the host goes down with the command.
Interrupt ==
    /\ ~Idle
    /\ pending' = (pending \/ (cmd.promote /\ cmd.pc \in {"start", "wait", "reset"}))
    /\ \/ Remains
       \/ \E u \in {server.up, FALSE} : server' = [server EXCEPT !.up = u] /\ UNCHANGED conf
    /\ Return
    /\ UNCHANGED <<now, repo, backups>>

-----------------------------------------------------------------------------
(* pg stop, and pg start, which the boot pass runs too *)

StopInstance ==
    /\ Idle /\ server.up
    /\ server' = [server EXCEPT !.up = FALSE]
    /\ UNCHANGED <<now, conf, repo, backups, cmd, pending>>

\* Nothing is asked about the data directory: recovery starts over, an empty
\* directory gets a new database, and debris keeps the server from starting.
StartInstance ==
    /\ Idle /\ ~server.up
    /\ \/ /\ server.st \in InRecovery
          /\ server' = [server EXCEPT !.up = TRUE, !.st = "recovery"]
       \/ /\ server.st = "rw"
          /\ server' = [server EXCEPT !.up = TRUE]
       \/ /\ server.st = "empty"
          /\ server' = [server EXCEPT !.up = TRUE, !.st = "rw", !.fresh = TRUE]
    /\ UNCHANGED <<now, conf, repo, backups, cmd, pending>>

-----------------------------------------------------------------------------
(* PostgreSQL and the clock *)

Tick ==
    /\ now < MaxTime
    /\ now' = now + 1
    /\ UNCHANGED <<server, conf, repo, backups, cmd, pending>>

\* Transactions of a database that was not restored have no part in what
\* follows.
Commit ==
    /\ server.up /\ server.st = "rw" /\ ~server.fresh
    /\ server' = [server EXCEPT !.xacts = @ \cup {now}]
    /\ UNCHANGED <<now, conf, repo, backups, cmd, pending>>

\* A WAL segment is archived; archive-push refuses those of another database.
Archive ==
    /\ server.up /\ server.st = "rw" /\ ~server.fresh
    /\ repo' = server.xacts
    /\ server' = [server EXCEPT !.last = now]
    /\ UNCHANGED <<now, conf, backups, cmd, pending>>

\* The end of recovery starts a new timeline: the archive's later transactions
\* and snapshots are on the old one.
Ends(xacts) ==
    /\ server' = [server EXCEPT !.st = "rw", !.xacts = xacts]
    /\ repo' = repo \cap xacts
    /\ backups' = {[b EXCEPT !.live = @ /\ b.stop <= conf.target] : b \in backups}

\* Replay stops at the first transaction after the target and then does what
\* recovery_target_action says; without a target it goes to the end.
HasTarget == "target_time" \in conf.set
ReachesTarget == HasTarget => \E x \in repo : x > conf.target

Replay ==
    /\ server.up /\ server.st = "recovery" /\ server.live
    /\ ReachesTarget
    /\ LET upTo == {x \in repo : HasTarget => x <= conf.target} IN
       IF HasTarget /\ ~conf.promote
       THEN /\ server' = [server EXCEPT !.st = "paused", !.xacts = upTo]
            /\ UNCHANGED <<repo, backups>>
       ELSE Ends(upTo)
    /\ UNCHANGED <<now, conf, cmd, pending>>

\* "recovery ended before configured recovery target was reached", or the
\* backup is on an abandoned timeline: the server exits, podman restarts it.
ReplayFails ==
    /\ server.up /\ server.st = "recovery"
    /\ ~(server.live /\ ReachesTarget)
    /\ server' = [server EXCEPT !.st = "loop"]
    /\ UNCHANGED <<now, conf, repo, backups, cmd, pending>>

\* The resumed server leaves recovery where it was paused.
EndRecovery ==
    /\ server.up /\ server.st = "ending"
    /\ Ends(server.xacts)
    /\ UNCHANGED <<now, conf, cmd, pending>>

-----------------------------------------------------------------------------
Init ==
    /\ now = 1
    /\ server = [up |-> TRUE, st |-> "rw", xacts |-> {}, last |-> Null, live |-> TRUE,
                 fresh |-> FALSE]
    /\ conf = NoConf
    /\ repo = {}
    /\ backups = {}
    /\ cmd = NoCommand
    /\ pending = FALSE

RestoreStep ==
    \/ FastPath \/ FastPathFails \/ SlowPath
    \/ RestoreStop \/ RestoreWipe \/ RestoreCopy \/ RestoreStart \/ RestoreFails
    \/ PollPromoted \/ PollGivesUp \/ ResetNext \/ ResetFails
    \/ RestartStops \/ RestartStarts \/ RestartFails

Postgres == Commit \/ Archive \/ Replay \/ ReplayFails \/ EndRecovery

Next ==
    \/ \E full \in BOOLEAN : CreateSnapshot(full)
    \/ \E b \in backups : DeleteSnapshot(b)
    \/ \E t \in Times, off \in Offsets, promote \in BOOLEAN : RestoreBegin(t, off, promote)
    \/ RestoreStep \/ Interrupt
    \/ StopInstance \/ StartInstance
    \/ Postgres \/ Tick

Spec == Init /\ [][Next]_vars

-----------------------------------------------------------------------------
(* Properties *)

\* "resetting the recovery settings mid-replay would change the target itself"
\* (pitr.go): a data directory in recovery always has all its settings, also
\* when the fast path, interrupts and restarts mix.
SettingsOutliveRecovery == server.st \in InRecovery => conf.set = Settings

\* A read-write instance keeps no recovery settings (a replica copied from it
\* would inherit them) once no restore runs, unless a restore --promote was
\* interrupted or said that it could not clean up.
CleanAfterPromote == Idle /\ ~pending /\ server.st = "rw" => conf.set = {}

\* A restored data directory becomes read-write only under a restore --promote:
\* not by stop and start, and not by a failed or interrupted restore.  (This is
\* about a directory in recovery.  One that a restore has emptied is not: pg
\* start lets initdb fill it and serves the new, empty database read-write.)
PausedStaysPaused ==
    [][server.st \in InRecovery /\ server'.st = "rw" => cmd.promote \/ pending]_vars

\* A promotion that a restore command sees through gives the database at the
\* requested time: no earlier transaction is missing and no later one is there,
\* up to the tolerance of the fast path.
PromotesAtTarget ==
    [][server.st \in InRecovery /\ server'.st = "rw" /\ At("wait") =>
          /\ \A x \in repo : x <= cmd.t - Tolerance => x \in server'.xacts
          /\ \A x \in server'.xacts : x < cmd.t + Tolerance]_vars

\* Once there is a backup there is always a full one, and every other one has
\* a full one before it.
FullBackupRemains ==
    /\ [][backups # {} => backups' # {}]_vars
    /\ [](\A d \in backups : \E f \in backups : f.full /\ f.stop <= d.stop)

\* "Restore to specified time" (restore --time): the target pgBackRest gets is
\* the one that was asked for.
TargetHonoured == At("start") => conf.target = cmd.t

=============================================================================
