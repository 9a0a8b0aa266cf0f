----------------------------- MODULE HACluster -----------------------------
(***************************************************************************)
(* One Patroni cluster (a scope) spread over several hosts: what the       *)
(* "pg ha" commands of each host do to its pg.yaml, to the member          *)
(* containers, to patroni.yml, to the data directories and to the DCS, and *)
(* what the Patroni daemons in the containers do meanwhile.                *)
(*                                                                         *)
(* A command reads pg.yaml once and then works through its steps; a step   *)
(* is an operation and the member it is for.  Steps of commands on two     *)
(* hosts, Patroni's own actions and failures interleave.                   *)
(***************************************************************************)
EXTENDS Naturals, Sequences, FiniteSets

CONSTANTS Hosts,      \* the machines that run pg, one command at a time each
          Order,      \* the members, sorted by name
          Home,       \* the host of each member
          MaxGen,     \* how often a database may be created from nothing
          MaxCommands, \* how many commands one behaviour may have
          MaxFaults,  \* how many faults one behaviour may have
          Freezes,    \* a paused cluster elects no leader (cli/ha_restore.go:278)
          Waits,      \* a running replica that finds the DCS empty waits for a
                      \* cluster to join (cli/ha_restore.go:299)
          None

Range(seq) == {seq[i] : i \in DOMAIN seq}
Members == Range(Order)

\* What pg.yaml says of the scope, the steps of a command, and a command.
Scopes == [members : SUBSET Members, exts : BOOLEAN]
StepOps == {"enter", "leave", "leaveremote", "forget", "record", "unrecord",
            "yml", "restoreyml", "wipe", "erase", "stop", "softstop", "rm", "rmbox", "run", "start",
            "register", "unregister", "unregisterall", "ask", "pause", "freeze", "resume", "unpause",
            "switchover", "failover", "list", "clear", "softclear", "await", "order", "rejoined", "count"}
Steps == [do : StepOps, for : Members \cup {None}]
CommandOps == {"create", "remove", "removeall", "remote", "start", "stop", "pause", "resume",
               "switchover", "failover", "restore", "extension", "apply", "drop", "setup"}
Commands == [op : CommandOps, todo : Seq(Steps), clean : BOOLEAN, seen : Scopes \cup {None},
             led : Members \cup {None}, base : Nat, blind : BOOLEAN, stale : SUBSET Members]

ASSUME ClusterAssumption ==
  /\ Order \in Seq(Members)
  /\ Home \in [Members -> Hosts]
  /\ MaxGen \in Nat \ {0} /\ MaxCommands \in Nat /\ MaxFaults \in Nat
  /\ Freezes \in BOOLEAN /\ Waits \in BOOLEAN
  /\ None \notin Members \cup Nat \cup Scopes \cup Commands \cup Seq(Steps)

VARIABLES
  conf,      \* pg.yaml of each host: the members of the scope and whether the
             \* extensions are recorded; None when it has no such scope
  box,       \* the member containers: "none", "down" or "up"
  yml,       \* patroni.yml of each member: "none", "plain" or "restore"
  live,      \* the patroni.yml each member's container was started with
  data,      \* the database each member has, by its number, None when empty
  role,      \* what PostgreSQL of the member runs as
  dcs,       \* the cluster's keys in etcd: set, leader and pause
  reg,       \* members whose ports are in pgcli's own registry in etcd
  cmd,       \* the command each host runs
  gen,       \* databases created so far
  begun,     \* commands so far
  restored,  \* the databases that came from a restore
  faults,    \* faults so far
  cut,       \* history: a command that pauses the cluster was cut off, or
             \* could not resume it
  held,      \* history: the cluster was left paused on purpose
  stray      \* history: members a remove could not take away completely

node == <<box, yml, live, data, role>>
tally == <<gen, begun, restored, faults>>
hist == <<cut, held, stray>>
vars == <<conf, node, dcs, reg, cmd, tally, hist>>

NoCluster == [set |-> FALSE, leader |-> None, pause |-> FALSE]

-----------------------------------------------------------------------------
\* What a command knows, and how it goes on.

Entry(h) == IF cmd[h].seen = None THEN [members |-> {}, exts |-> FALSE] ELSE cmd[h].seen
Local(h, ms) == {m \in ms : Home[m] = h}

\* The elements of a sequence that are in a set, in their order.
Only(seq, set) ==
  LET upTo[i \in 0..Len(seq)] ==
        IF i = 0 THEN <<>>
        ELSE IF seq[i] \in set THEN Append(upTo[i - 1], seq[i]) ELSE upTo[i - 1]
  IN  upTo[Len(seq)]
Sorted(ms) == Only(Order, ms)

Step(op, m) == [do |-> op, for |-> m]
For(m, ops) == [i \in DOMAIN ops |-> Step(ops[i], m)]

\* The same steps for every member of a sequence, one member after the other.
ForEach(ms, ops) ==
  [i \in 1..(Len(ms) * Len(ops)) |->
     Step(ops[((i - 1) % Len(ops)) + 1], ms[((i - 1) \div Len(ops)) + 1])]

At(h, ops) ==
  /\ cmd[h] # None
  /\ Head(cmd[h].todo).do \in ops
Op(h) == Head(cmd[h].todo).do
M(h) == Head(cmd[h].todo).for

\* What is left of a command, None when nothing is.
Rest(c, todo) == IF todo = <<>> THEN None ELSE [c EXCEPT !.todo = todo]
Then(h, todo) == cmd' = [cmd EXCEPT ![h] = Rest(@, todo)]
Skip(h) == Then(h, Tail(cmd[h].todo))
\* A command that, under a condition, no longer knows what runs, and the
\* restores of the hosts hs that no longer do.
Doubts(c, cond) == [c EXCEPT !.blind = @ \/ cond]
Blinded(hs) == [h \in Hosts |-> IF h \in hs /\ cmd[h] # None /\ cmd[h].op = "restore"
                                THEN [cmd[h] EXCEPT !.blind = TRUE] ELSE cmd[h]]
SkipLoud(h) == cmd' = [Blinded(Hosts \ {h}) EXCEPT ![h] = Rest(@, Tail(cmd[h].todo))]
End(h) == cmd' = [cmd EXCEPT ![h] = None]

Up(m) == box[m] = "up"
Joined(m) == Up(m) /\ role[m] # "none"
Leader == dcs.leader
Leads(m) == dcs.leader = m /\ role[m] = "primary"

\* patronictl talks to a member that is in the DCS and answers.
Accessible == dcs.set /\ \E m \in Members : Joined(m)

-----------------------------------------------------------------------------
\* The Patroni daemon of a member.

\* The first member of a cluster without an identity creates the database, by
\* initdb or as its patroni.yml says by a restore, and leads.  bootstrap.dcs
\* writes the dynamic configuration anew, so nothing is paused.
Bootstrap(m) ==
  /\ Up(m) /\ data[m] = None /\ ~dcs.set
  /\ gen < MaxGen
  /\ gen' = gen + 1
  /\ data' = [data EXCEPT ![m] = gen + 1]
  /\ role' = [role EXCEPT ![m] = "primary"]
  /\ dcs' = [set |-> TRUE, leader |-> m, pause |-> FALSE]
  /\ restored' = IF live[m] = "restore" THEN restored \cup {gen + 1} ELSE restored
  /\ UNCHANGED <<conf, box, yml, live, reg, cmd, begun, faults, hist>>

\* A member that is not the leader copies or rewinds to the leader's database
\* and follows it.
Follow(m) ==
  /\ Up(m)
  /\ Leader \notin {None, m} /\ Leads(Leader)
  /\ role[m] # "replica" \/ data[m] # data[Leader]
  /\ data' = [data EXCEPT ![m] = data[Leader]]
  /\ role' = [role EXCEPT ![m] = "replica"]
  /\ UNCHANGED <<conf, box, yml, live, dcs, reg, cmd, tally, hist>>

\* A member with data starts before there is a leader.
Standby(m) ==
  /\ Up(m) /\ data[m] # None /\ role[m] = "none"
  /\ dcs.set /\ Leader = None
  /\ role' = [role EXCEPT ![m] = "replica"]
  /\ UNCHANGED <<conf, box, yml, live, data, dcs, reg, cmd, tally, hist>>

\* The leader's key is free: a running primary takes it back, a replica is
\* elected unless the cluster is paused, and where the cluster's keys are gone
\* a member that has just started makes them from its own database.
Claim(m) ==
  /\ Up(m) /\ data[m] # None
  /\ Leader = None
  /\ \/ role[m] = "primary"
     \/ dcs.set /\ role[m] = "replica" /\ (~dcs.pause \/ ~Freezes)
     \/ ~dcs.set /\ (role[m] = "none" \/ ~Waits)
  /\ role' = [role EXCEPT ![m] = "primary"]
  /\ dcs' = [set |-> TRUE, leader |-> m, pause |-> dcs.pause]
  /\ UNCHANGED <<conf, box, yml, live, data, reg, cmd, tally, hist>>

\* The key of a leader that no longer renews it expires.
Expire ==
  /\ Leader # None /\ ~Leads(Leader)
  /\ dcs' = [dcs EXCEPT !.leader = None]
  /\ UNCHANGED <<conf, node, reg, cmd, tally, hist>>

Patroni == \/ \E m \in Members : Bootstrap(m) \/ Follow(m) \/ Standby(m) \/ Claim(m)
           \/ Expire

-----------------------------------------------------------------------------
\* The commands: what each reads from pg.yaml, and its steps.

Begin(h, op, todo, clean, stale) ==
  /\ cmd[h] = None
  /\ begun < MaxCommands /\ begun' = begun + 1
  /\ cmd' = [cmd EXCEPT ![h] = [op |-> op, todo |-> todo, clean |-> clean, seen |-> conf[h],
                                led |-> None, base |-> gen, blind |-> FALSE, stale |-> stale]]
  /\ UNCHANGED <<conf, node, dcs, reg, gen, restored, faults, hist>>

Known(h) == IF conf[h] = None THEN {} ELSE conf[h].members
Own(h) == Local(h, Known(h))

\* EnsureMemberContainer: podman stop and rm, then podman run.
Recreate == <<"rm", "run">>

\* RecreateMemberWithImage: patroni.yml is written again before.
RecreateMember == <<"yml">> \o Recreate

\* pg ha create: the entry is saved before anything is built.
Create(h, m) ==
  /\ Home[m] = h
  /\ Begin(h, "create", For(m, <<"enter">> \o RecreateMember \o <<"register">>), FALSE, {})

\* Mutant: a member that is removed stays in the registry.
RemoveMemberSilent(h, m) ==
  /\ m \in Known(h)
  /\ \E clean \in BOOLEAN :
       Begin(h, "remove", For(m, IF Home[m] = h THEN <<"rmbox", "erase", "leave">>
                                 ELSE <<"leave">>), clean, {})

\* pg ha remove --member: the container, the registration in etcd, with
\* --clean-data the data, and last the entry in pg.yaml.
RemoveMember(h, m) ==
  /\ m \in Known(h)
  /\ \E clean \in BOOLEAN :
       Begin(h, "remove", For(m, IF Home[m] = h THEN <<"rmbox", "unregister", "erase", "leave">>
                                 ELSE <<"leave">>), clean, {})

\* pg ha remove --scope-all: the keys in etcd go first.
RemoveAll(h) ==
  /\ conf[h] # None
  /\ \E clean \in BOOLEAN :
       Begin(h, "removeall", For(None, <<"list", "softclear", "unregisterall">>)
                               \o ForEach(Sorted(Own(h)), <<"rmbox", "erase">>)
                               \o For(None, <<"forget">>), clean, {})

\* pg ha remote, and pg ha remote remove: members of other hosts.
RemoteAdd(h, m) ==
  /\ conf[h] # None /\ Home[m] # h
  /\ Begin(h, "remote", For(m, <<"enter">>), FALSE, {})

RemoteRemove(h, m) ==
  /\ m \in Known(h) /\ Home[m] # h
  /\ Begin(h, "remote", For(m, <<"leaveremote">>), FALSE, {})

\* pg ha start and stop, --member or --all.
StartStop(h, op) ==
  \E ms \in {Own(h)} \cup {{m} : m \in Own(h)} :
    /\ ms # {}
    /\ Begin(h, op, ForEach(Sorted(ms), <<op>>), FALSE, {})

\* The patronictl wrappers.
Control(h, op) == conf[h] # None /\ Known(h) # {} /\ Begin(h, op, For(None, <<op>>), FALSE, {})

\* The steps of a restore up to the cleared keys, and from boot's new database.
Demolish(h, freeze) ==
  For(None, freeze) \o ForEach(Sorted(Own(h)), <<"softstop">>) \o For(None, <<"list", "clear">>)
Rebuild(boot) == For(boot, <<"restoreyml", "wipe">> \o Recreate)
Rejoin(h, boot) == ForEach(Sorted(Own(h) \ {boot}), <<"yml", "wipe">> \o Recreate)

\* Mutant: the cluster is not paused before its members are stopped.
RestoreUnfrozen(h) ==
  /\ gen < MaxGen
  /\ \E boot \in Own(h) :
       Begin(h, "restore", Demolish(h, <<"ask">>) \o Rebuild(boot) \o For(None, <<"await">>)
                             \o Rejoin(h, boot), FALSE, {})

\* Mutant: the other members are wiped before the new leader is there.
RestoreEager(h) ==
  /\ gen < MaxGen
  /\ \E boot \in Own(h) :
       Begin(h, "restore", Demolish(h, <<"ask", "freeze">>) \o Rebuild(boot)
                             \o Rejoin(h, boot) \o For(None, <<"await">>), FALSE, {})

\* pg ha restore: one local member bootstraps from the repository; the other
\* local members are wiped only once there is a leader.
Restore(h) ==
  /\ gen < MaxGen
  /\ \E boot \in Own(h) :
       Begin(h, "restore", Demolish(h, <<"ask", "freeze">>) \o Rebuild(boot) \o For(None, <<"await">>)
                             \o Rejoin(h, boot), FALSE, {})

\* pg ha extension install, of extensions the entry does not list yet: those
\* built into the image need no new containers.
ExtInstall(h) ==
  /\ conf[h] # None /\ Known(h) # {}
  /\ ~conf[h].exts
  /\ \E builtin \in BOOLEAN :
       Begin(h, "extension", For(None, IF builtin THEN <<"pause", "record", "count">>
                                       ELSE <<"pause", "order", "record", "count">>), FALSE, {})

\* pg ha extension apply.
ExtApply(h) == Known(h) # {} /\ Begin(h, "apply", For(None, <<"resume">>), FALSE, {})

\* pg ha extension remove: the leader drops them, the entry is saved, and then
\* the dynamic configuration changes.
ExtRemove(h) == conf[h] # None /\ conf[h].exts /\ Begin(h, "drop", For(None, <<"unrecord">>), FALSE, {})

\* The members of the host register their ports and keys again.
Trust(h) == ForEach(Sorted(Own(h)), <<"register">>)

\* Mutant: a setup does not end its window.
SetupStuck(h) ==
  /\ Own(h) # {}
  /\ \E stale \in SUBSET Own(h) :
       Begin(h, "setup", Trust(h) \o (IF stale = {} THEN <<>> ELSE For(None, <<"pause", "order">>)), FALSE, stale)

\* pg backup setup: registers the members, and makes those anew, in a window
\* of its own, that do not mount the archive configuration yet.
Setup(h) ==
  /\ Own(h) # {}
  /\ \E stale \in SUBSET Own(h) :
       Begin(h, "setup", Trust(h) \o (IF stale = {} THEN <<>> ELSE
                                        For(None, <<"pause", "order", "unpause">>)), FALSE, stale)

-----------------------------------------------------------------------------
\* Steps on pg.yaml: every one writes what the command read, changed.

\* What the save writes of the scope.
Saved(h) ==
  LET e == Entry(h)
      left == e.members \ {M(h)}
  IN CASE Op(h) = "enter"       -> [e EXCEPT !.members = @ \cup {M(h)}]
       [] Op(h) = "leave"       -> [e EXCEPT !.members = left]
       [] Op(h) = "leaveremote" -> IF left = {} THEN None ELSE [e EXCEPT !.members = left]
       [] Op(h) = "forget"      -> None
       [] Op(h) = "record"      -> [e EXCEPT !.exts = TRUE]
       [] Op(h) = "unrecord"    -> [e EXCEPT !.exts = FALSE]

Save(h) ==
  /\ At(h, {"enter", "leave", "leaveremote", "forget", "record", "unrecord"})
  /\ conf' = [conf EXCEPT ![h] = Saved(h)]
  /\ Skip(h)
  /\ UNCHANGED <<node, dcs, reg, tally, hist>>

-----------------------------------------------------------------------------
\* Steps on a member: its patroni.yml, its data directory, its container.

\* renderPatroniYML, and with the custom bootstrap method of a restore.
PlainYml == "plain"
RestoreYml == "restore"

\* WriteMemberConfig and WriteMemberRestoreConfig.
WriteYml(h) ==
  /\ At(h, {"yml", "restoreyml"})
  /\ yml' = [yml EXCEPT ![M(h)] = IF Op(h) = "yml" THEN PlainYml ELSE RestoreYml]
  /\ Skip(h)
  /\ UNCHANGED <<conf, box, live, data, role, dcs, reg, tally, hist>>

\* wipeMemberDataDir removes PGDATA; --clean-data removes the whole directory
\* of the member, patroni.yml included.
Wipe(h) ==
  /\ At(h, {"wipe", "erase"})
  /\ LET gone == Op(h) = "wipe" \/ cmd[h].clean
     IN /\ data' = IF gone THEN [data EXCEPT ![M(h)] = None] ELSE data
        /\ role' = IF gone THEN [role EXCEPT ![M(h)] = "none"] ELSE role
        /\ yml' = IF gone /\ Op(h) = "erase" THEN [yml EXCEPT ![M(h)] = "none"] ELSE yml
  /\ SkipLoud(h)
  /\ UNCHANGED <<conf, box, live, dcs, reg, tally, hist>>

Down(m) == /\ box' = [box EXCEPT ![m] = IF @ = "up" THEN "down" ELSE @]
           /\ role' = [role EXCEPT ![m] = "none"]

\* podman stop: for pg ha stop, and in a restore.
Halt(h) ==
  /\ At(h, {"stop", "softstop"})
  /\ Down(M(h))
  /\ Skip(h)
  /\ UNCHANGED <<conf, yml, live, data, dcs, reg, tally, hist>>

\* podman rm -f; RemoveMemberContainer then removes patroni.yml as well.
Rm(h) ==
  /\ At(h, {"rm", "rmbox"})
  /\ box' = [box EXCEPT ![M(h)] = "none"]
  /\ role' = [role EXCEPT ![M(h)] = "none"]
  /\ yml' = IF Op(h) = "rmbox" THEN [yml EXCEPT ![M(h)] = "none"] ELSE yml
  /\ Skip(h)
  /\ UNCHANGED <<conf, live, data, dcs, reg, tally, hist>>

\* createMemberContainer.
Run(h) ==
  /\ At(h, {"run"})
  /\ SkipLoud(h)
  /\ box' = [box EXCEPT ![M(h)] = "up"]
  /\ live' = [live EXCEPT ![M(h)] = yml[M(h)]]
  /\ UNCHANGED <<conf, yml, data, role, dcs, reg, tally, hist>>

\* StartMemberContainer starts what there is, and leaves a container that is
\* missing to pg ha create.
StartMember(h) ==
  /\ At(h, {"start"})
  /\ IF box[M(h)] = "none" THEN End(h) /\ UNCHANGED <<box, live>>
     ELSE /\ SkipLoud(h)
          /\ box' = [box EXCEPT ![M(h)] = "up"]
          /\ live' = [live EXCEPT ![M(h)] = yml[M(h)]]
  /\ UNCHANGED <<conf, yml, data, role, dcs, reg, tally, hist>>

\* RegisterMemberPorts, UnregisterMemberPorts, UnregisterScopePorts.
Register(h) ==
  /\ At(h, {"register", "unregister", "unregisterall"})
  /\ reg' = CASE Op(h) = "register"      -> reg \cup {M(h)}
              [] Op(h) = "unregister"    -> reg \ {M(h)}
              [] Op(h) = "unregisterall" -> {}
  /\ Skip(h)
  /\ UNCHANGED <<conf, node, dcs, tally, hist>>

-----------------------------------------------------------------------------
\* Steps through patronictl.

\* The leader's name as "patronictl list" gives it.
Listed == IF dcs.set THEN dcs.leader ELSE None

\* A restore refuses while another host has the leader; a leader that is not
\* known refuses nothing.
Ask(h) ==
  /\ At(h, {"ask"})
  /\ IF Listed # None /\ Listed \notin Local(h, Entry(h).members) THEN End(h) ELSE Skip(h)
  /\ UNCHANGED <<conf, node, dcs, reg, tally, hist>>

\* What the freeze of a restore cannot hold back: a primary of another host or
\* a member there that has just started, and, when there are no keys to pause,
\* the host's own as well.
Unfrozen(h) == \E m \in Members : Up(m) /\ role[m] # "replica" /\ (Home[m] # h \/ ~dcs.set)

\* pauseCluster.  "freeze": a restore goes on when no member answers.
Pause(h) ==
  /\ At(h, {"pause", "freeze"})
  /\ IF Accessible
     THEN /\ dcs' = [dcs EXCEPT !.pause = TRUE]
          /\ held' = (held \/ cmd[h].op = "pause")
     ELSE UNCHANGED <<dcs, held>>
  /\ IF Accessible \/ Op(h) = "freeze"
     THEN cmd' = [cmd EXCEPT ![h] = Rest(Doubts(@, Op(h) = "freeze" /\ Unfrozen(h)), Tail(@.todo))]
     ELSE End(h)
  /\ UNCHANGED <<conf, node, reg, tally, cut, stray>>

\* resume; "unpause" ends the window of a setup, whatever happened in it.
Resume(h) ==
  /\ At(h, {"resume", "unpause"})
  /\ IF Accessible
     THEN /\ dcs' = [dcs EXCEPT !.pause = FALSE]
          /\ held' = FALSE
          /\ UNCHANGED cut
          /\ SkipLoud(h)
     ELSE /\ UNCHANGED <<dcs, held>>
          /\ cut' = (cut \/ cmd[h].op \in {"setup", "extension"})
          /\ End(h)
  /\ UNCHANGED <<conf, node, reg, tally, stray>>

\* Switchover to another member, or failover when there is no leader.
Switch(h) ==
  /\ At(h, {"switchover", "failover"})
  /\ LET Fit(c) == /\ Joined(c) /\ role[c] = "replica" /\ c # Leader
                   /\ Leader # None => data[c] = data[Leader]
         able == /\ Accessible
                 /\ Op(h) = "switchover" => Leader # None /\ Leads(Leader)
     IN \/ /\ able
           /\ \E c \in Members :
                /\ Fit(c)
                /\ dcs' = [dcs EXCEPT !.leader = c]
                /\ role' = [m \in Members |-> IF m = c THEN "primary"
                                              ELSE IF m = Leader /\ Leads(m) THEN "replica"
                                              ELSE role[m]]
        \/ /\ ~able \/ \A c \in Members : ~Fit(c)
           /\ UNCHANGED <<dcs, role>>
  /\ SkipLoud(h)
  /\ UNCHANGED <<conf, box, yml, live, data, reg, tally, hist>>

\* RemoveScopeFromDCS: the leader is looked up, and patronictl remove then
\* wants its name as long as the cluster has one.
List(h) ==
  /\ At(h, {"list"})
  /\ cmd' = [cmd EXCEPT ![h] = Rest([@ EXCEPT !.led = Listed], Tail(@.todo))]
  /\ UNCHANGED <<conf, node, dcs, reg, tally, hist>>

\* Mutant: only the identity goes, the leader's key stays.
ClearHalf(h) ==
  /\ At(h, {"clear", "softclear"})
  /\ dcs' = [dcs EXCEPT !.set = FALSE, !.pause = FALSE]
  /\ held' = FALSE
  /\ SkipLoud(h)
  /\ UNCHANGED <<conf, node, reg, tally, cut, stray>>

Clear(h) ==
  /\ At(h, {"clear", "softclear"})
  /\ IF dcs.set /\ Leader # None /\ cmd[h].led # Leader
     THEN /\ UNCHANGED <<dcs, held>>
          /\ cut' = (cut \/ Op(h) = "clear")
          /\ IF Op(h) = "clear" THEN End(h) ELSE Skip(h)
     ELSE /\ dcs' = NoCluster
          /\ held' = FALSE
          /\ UNCHANGED cut
          /\ SkipLoud(h)
  /\ UNCHANGED <<conf, node, reg, tally, stray>>

\* waitForLeader: any leader ends the wait.
Await(h) ==
  /\ At(h, {"await"})
  /\ Listed # None
  /\ Skip(h)
  /\ UNCHANGED <<conf, node, dcs, reg, tally, hist>>

\* replicasFirstOrder: the containers to make anew, the leader's last; a setup
\* only takes those that are stale.
Reorder(h) ==
  /\ At(h, {"order"})
  /\ LET all == Local(h, Entry(h).members)
         some == IF cmd[h].op = "setup" THEN all \cap cmd[h].stale ELSE all
         first == Sorted(some \ {Listed})
         last == Sorted(some \cap {Listed})
         back == IF cmd[h].op = "setup" THEN <<"rejoined">> ELSE <<>>
     IN Then(h, ForEach(first \o last, RecreateMember \o back) \o Tail(cmd[h].todo))
  /\ UNCHANGED <<conf, node, dcs, reg, tally, hist>>

\* A setup waits for the member to be back; an extension install only for a
\* while, whether or not it comes back.
Rejoined(h) ==
  /\ At(h, {"rejoined"})
  /\ Joined(M(h))
  /\ Skip(h)
  /\ UNCHANGED <<conf, node, dcs, reg, tally, hist>>

\* CountClusterMembers.
Total == {m \in Members : dcs.set /\ Joined(m)}

\* The install goes on to apply when the DCS knows no more members than this
\* host has; otherwise it leaves the cluster paused for the other hosts.
Count(h) ==
  /\ At(h, {"count"})
  /\ LET local == Local(h, Entry(h).members)
         single == Total # {} /\ Cardinality(local) >= Cardinality(Total)
     IN /\ Then(h, IF single THEN For(None, <<"resume">>) ELSE <<>>)
        /\ held' = (held \/ ~single)
  /\ UNCHANGED <<conf, node, dcs, reg, tally, cut, stray>>

-----------------------------------------------------------------------------
\* Faults.

Pauses(c) == c.op \in {"extension", "setup", "restore"}

Soft == {"ask", "list", "softstop", "register", "unregister", "unregisterall", "rmbox", "erase", "softclear"}
Sure == {"order", "count"}

\* What is left to do after a step failed: in a restore the members after the
\* first are given up one by one; a setup ends its window.
After(h) ==
  LET rest == Tail(cmd[h].todo)
      rejoining == cmd[h].op = "restore" /\ M(h) # None /\ \A s \in Range(rest) : s.do # "await"
  IN IF Op(h) \in Soft THEN rest
     ELSE IF rejoining THEN Only(rest, {s \in Range(rest) : s.for # M(h)})
     ELSE IF cmd[h].op = "setup" /\ M(h) # None /\ Op(h) # "register" THEN For(None, <<"unpause">>)
     ELSE None

Fail(h) ==
  /\ cmd[h] # None
  /\ faults < MaxFaults /\ faults' = faults + 1
  /\ Op(h) \notin Sure
  /\ IF After(h) = None THEN End(h)
     ELSE cmd' = [cmd EXCEPT ![h] = Rest(Doubts(@, Op(h) = "softstop"), After(h))]
  /\ cut' = (cut \/ (After(h) = None /\ Pauses(cmd[h])))
  /\ stray' = CASE Op(h) \in {"rmbox", "unregister"} -> stray \cup {M(h)}
                [] Op(h) = "unregisterall"         -> stray \cup Local(h, Entry(h).members)
                [] OTHER                           -> stray
  /\ UNCHANGED <<conf, node, dcs, reg, gen, begun, restored, held>>

\* The command is interrupted.
Kill(h) ==
  /\ cmd[h] # None
  /\ faults < MaxFaults /\ faults' = faults + 1
  /\ cut' = (cut \/ Pauses(cmd[h]))
  /\ End(h)
  /\ UNCHANGED <<conf, node, dcs, reg, gen, begun, restored, held, stray>>

\* A member's container dies; its restart policy does not bring it back here.
Die(m) ==
  /\ Up(m)
  /\ faults < MaxFaults /\ faults' = faults + 1
  /\ Down(m)
  /\ cmd' = Blinded(Hosts)
  /\ UNCHANGED <<conf, yml, live, data, dcs, reg, gen, begun, restored, hist>>

-----------------------------------------------------------------------------
\* A cluster that runs: every host has created its own members, one member
\* leads and the others follow.
Init ==
  \E first \in Members :
    /\ conf = [h \in Hosts |-> [members |-> Local(h, Members), exts |-> FALSE]]
    /\ box = [m \in Members |-> "up"]
    /\ yml = [m \in Members |-> "plain"]
    /\ live = yml
    /\ data = [m \in Members |-> 1]
    /\ role = [m \in Members |-> IF m = first THEN "primary" ELSE "replica"]
    /\ dcs = [set |-> TRUE, leader |-> first, pause |-> FALSE]
    /\ reg = Members
    /\ cmd = [h \in Hosts |-> None]
    /\ gen = 1
    /\ begun = 0
    /\ restored = {}
    /\ faults = 0
    /\ cut = FALSE
    /\ held = FALSE
    /\ stray = {}

Command(h) ==
  \/ \E m \in Members : Create(h, m) \/ RemoveMember(h, m) \/ RemoteAdd(h, m) \/ RemoteRemove(h, m)
  \/ RemoveAll(h)
  \/ \E op \in {"start", "stop"} : StartStop(h, op)
  \/ \E op \in {"pause", "resume", "switchover", "failover"} : Control(h, op)
  \/ Restore(h) \/ ExtInstall(h) \/ ExtApply(h) \/ ExtRemove(h) \/ Setup(h)

Do(h) ==
  \/ Save(h) \/ WriteYml(h) \/ Wipe(h) \/ Halt(h) \/ Rm(h) \/ Run(h) \/ StartMember(h)
  \/ Register(h) \/ Ask(h) \/ Pause(h) \/ Resume(h) \/ Switch(h) \/ List(h) \/ Clear(h)
  \/ Await(h) \/ Reorder(h) \/ Rejoined(h) \/ Count(h)

Next ==
  \/ \E h \in Hosts : Command(h) \/ Do(h) \/ Fail(h) \/ Kill(h)
  \/ \E m \in Members : Die(m)
  \/ Patroni

Spec == Init /\ [][Next]_vars

-----------------------------------------------------------------------------
\* Properties.

\* The command that host h runs does its last step, and reports success.
Finishes(h, op) ==
  /\ cmd[h] # None /\ cmd[h].op = op /\ Len(cmd[h].todo) = 1
  /\ cmd'[h] = None
  /\ faults' = faults

\* Types, and: only a running container has a role, and without the cluster's
\* identity there is neither a leader's key nor a pause.
TypeOK ==
  /\ conf \in [Hosts -> Scopes \cup {None}]
  /\ box \in [Members -> {"none", "down", "up"}]
  /\ yml \in [Members -> {"none", "plain", "restore"}]
  /\ live \in [Members -> {"none", "plain", "restore"}]
  /\ data \in [Members -> 1..MaxGen \cup {None}]
  /\ role \in [Members -> {"none", "replica", "primary"}]
  /\ \A m \in Members : role[m] # "none" => Up(m)
  /\ dcs \in [set : BOOLEAN, leader : Members \cup {None}, pause : BOOLEAN]
  /\ dcs.leader # None \/ dcs.pause => dcs.set
  /\ reg \subseteq Members
  /\ cmd \in [Hosts -> Commands \cup {None}]
  /\ gen \in 1..MaxGen
  /\ begun \in 0..MaxCommands /\ faults \in 0..MaxFaults
  /\ restored \subseteq 1..gen
  /\ cut \in BOOLEAN /\ held \in BOOLEAN
  /\ stray \subseteq Members

\* A restore that reports success has the cluster run the database it restored:
\* the freeze keeps the replicas of other hosts from being promoted between the
\* stop of the local leader and the bootstrap (cli/ha_restore.go:272-278).
\* Left out are the restores that had an unpaused primary or a starting member
\* against them, and those another host's command or a fault crossed (blind).
RestoreWins ==
  [][\A h \in Hosts :
       Finishes(h, "restore") /\ ~cmd[h].blind /\ stray = {} /\ Leader # None =>
         data[Leader] \in restored /\ data[Leader] > cmd[h].base]_vars

\* Whoever finds the cluster paused can tell why: a command that pauses is still
\* running, an operator or an install that waits for other hosts left it so, or
\* such a command was cut off.  No command that ends well leaves a pause behind.
PauseExplained ==
  dcs.pause => held \/ cut \/ \E h \in Hosts : cmd[h] # None /\ Pauses(cmd[h])

\* A restore wipes the members one by one (runClusterRestore, step 7): before
\* any but the bootstrap member, whose patroni.yml then is the plain one again,
\* loses its copy, another member of the host leads, and unless a removed member
\* was left running it leads with the database that this restore has made.
\* Left out are the restores that were crossed, as in RestoreWins.
CopyRemains ==
  \A h \in Hosts :
    /\ At(h, {"wipe"}) /\ cmd[h].op = "restore" /\ ~cmd[h].blind
    /\ yml[M(h)] = "plain"
    => \E m \in Local(h, Members) \ {M(h)} :
         /\ Leads(m) /\ data[m] # None
         /\ stray = {} => data[m] \in restored /\ data[m] > cmd[h].base

\* A member container, and a registration that peers make a stanza and an SSH
\* entry of, belongs to a member that pg.yaml of its host lists, unless podman
\* or etcd failed when the member was removed.
MemberOwned ==
  \A m \in Members : box[m] # "none" \/ m \in reg => m \in Known(Home[m]) \/ m \in stray
=============================================================================
