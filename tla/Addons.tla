------------------------------- MODULE Addons -------------------------------
(***************************************************************************)
(* The life of add-ons: what "pg addon install | start | stop | remove |   *)
(* reload" do to pg.yaml, to the rendered configuration file, to the data  *)
(* directory and to the containers, one step at a time, when a step fails, *)
(* when the command is interrupted between two steps, when a container     *)
(* dies or the machine reboots, and when two commands overlap.             *)
(*                                                                         *)
(* Every kind of add-on has its own copy of these handlers in              *)
(* internal/cli and its own manager in internal/podman, and the copies     *)
(* differ in the ORDER of their steps.  A kind is therefore a record of    *)
(* programs, one sequence of steps per handler (modules AddonsProxy,       *)
(* AddonsStore, AddonsService, AddonsMonitor and AddonsBroker), and this   *)
(* module gives each step its meaning.                                     *)
(***************************************************************************)
EXTENDS Naturals, Sequences

CONSTANTS Names,      \* the add-ons, by their key in pg.yaml
          Procs,      \* the pg commands that may run at once
          Kinds,      \* the kinds of add-on: records of programs
          Rerole,     \* the kinds whose --roles a later install may change
          Settings,   \* values of everything but the secret that an install sets
          Default,    \* the settings of an install without flags
          Bad,        \* settings that pg accepts and the service itself refuses
          Alone,      \* settings of a cluster kind that keep only its first role
          Secrets,    \* passwords and keys, numbered
          MaxFaults,  \* how many faults one behaviour may have
          Tears,      \* whether an interrupted save may leave half a pg.yaml
          None

Parts == {1, 2}       \* a cluster kind: its first role, and the others

ASSUME SettingsAssumption ==
  /\ Bad \subseteq Settings
  /\ Alone \subseteq Settings
  /\ Default \in Settings \ (Bad \cup Alone)
  /\ None \notin Settings
  /\ None \notin Secrets
  /\ Secrets \subseteq Nat
  /\ Tears \in BOOLEAN
  /\ MaxFaults \in Nat

\* The programs of a kind that run beside others, start, stop and reload, never
\* save pg.yaml and never choose another program.
ASSUME ReadersAssumption ==
  \A k \in Kinds : \A s \in {k.use.start, k.use.stop, k.use.reload} :
    /\ s \in Seq(STRING)
    /\ \A i \in DOMAIN s : s[i] \notin {"save", "choose"}

VARIABLES
  kind,    \* the kind of each add-on
  conf,    \* pg.yaml: the entry of each add-on, None when it has none
  torn,    \* pg.yaml cannot be parsed
  file,    \* the rendered configuration file
  data,    \* the data directory or role, and the secret bound in it
  box,     \* the containers
  cmd,     \* the running commands
  faults,  \* faults so far
  known,   \* history: the secret bound in the data has been in pg.yaml
  cut,     \* history: an install or reload of the add-on was interrupted or failed
  last,    \* history: the entry the last save of a command on the add-on wrote
  lossy    \* history: two commands that save overlapped, or a save was cut short

vars == <<kind, conf, torn, file, data, box, cmd, faults, known, cut, last, lossy>>

Entry == [set : Settings, sec : Secrets \cup {None}]
File == [set : Settings \cup {None}, sec : Secrets \cup {None}]
Box == [up : BOOLEAN, set : Settings, sec : Secrets \cup {None},
        loaded : File \cup {None}]

-----------------------------------------------------------------------------
\* What a command knows of itself.

N(p) == cmd[p].name
K(p) == kind[cmd[p].name]
Work(p) == cmd[p].work

At(p, ops) ==
  /\ cmd[p] # None
  /\ cmd[p].todo # <<>>
  /\ Head(cmd[p].todo) \in ops

\* The command goes on with its next step, as the record c.
Go(p, c) == cmd' = [cmd EXCEPT ![p] = [c EXCEPT !.todo = Tail(@)]]
Skip(p) == Go(p, cmd[p])
End(p) == cmd' = [cmd EXCEPT ![p] = None]

\* The steps on the second container of a cluster kind end in "2".
Part(op) == IF op \in {"halt2", "softhalt2", "rm2", "create2", "startup2",
                       "discard2", "recreate2"} THEN 2 ELSE 1
Here(p) == Part(Head(cmd[p].todo))

\* RunsRole: the entry e of a cluster kind wants a container for the part r.
Runs(e, r) == r = 1 \/ e.set \notin Alone

Exists(n, r) == box[n][r] # None
Running(n, r) == Exists(n, r) /\ box[n][r].up

\* A secret in nobody's hands: what generatePassword or the user comes up with.
Held(x) ==
  \/ \E n \in Names : \/ conf[n] # None /\ conf[n].sec = x
                      \/ data[n] # None /\ data[n].sec = x
                      \/ file[n] # None /\ file[n].sec = x
                      \/ \E r \in Parts : Exists(n, r) /\ box[n][r].sec = x
  \/ \E p \in Procs : /\ cmd[p] # None
                      /\ \/ cmd[p].work # None /\ cmd[p].work.sec = x
                         \/ cmd[p].pw = x
Free == {x \in Secrets : ~Held(x)}
Fresh == IF Free = {} THEN None ELSE CHOOSE x \in Free : \A y \in Free : x <= y

\* The data gets the secret x: known keeps whether pg.yaml has had it.
Bind(n, x) ==
  /\ data' = [data EXCEPT ![n] = [sec |-> x]]
  /\ known' = [known EXCEPT ![n] = \/ x = None
                                   \/ conf[n] # None /\ conf[n].sec = x
                                   \/ known[n] /\ data[n] # None /\ data[n].sec = x]

-----------------------------------------------------------------------------
\* What a kind does.

In(op, steps) == \E j \in DOMAIN steps : steps[j] = op
Does(k, op) == \/ In(op, k.install.prepare)
               \/ \E i \in DOMAIN k.install.branches : In(op, k.install.branches[i].steps)

\* The secret is in a file of pg.
Writes(k) == k.traits.binds \in {"file", "read"} \/ Does(k, "recall")

\* The service has a check of its own that an install runs on the new file.
Vets(k) == Does(k, "vet")

\* An install compares the new file with the one before it.
Compares(k) == Vets(k) \/ Does(k, "nudge")

-----------------------------------------------------------------------------
\* Commands: a program, and the flags it was given.

Writer(c) == c.op \in {"install", "remove", "set", "serve"}

NewCommand(n, op, prog) ==
  [op |-> op, name |-> n, todo |-> prog, force |-> FALSE, clean |-> FALSE,
   asked |-> FALSE, want |-> None, pw |-> None, seen |-> conf, work |-> None,
   old |-> None, ok |-> FALSE, built |-> FALSE]

Begin(p, c) ==
  /\ cmd[p] = None
  /\ cmd' = [cmd EXCEPT ![p] = c]
  /\ lossy' = (lossy \/ /\ Writer(c)
                        /\ \E q \in Procs \ {p} : cmd[q] # None /\ Writer(cmd[q]))
  /\ UNCHANGED <<kind, conf, torn, file, data, box, faults, known, cut, last>>

NewRoles(n, want) ==
  want # None /\ (want \in Alone) # (conf[n] # None /\ conf[n].set \in Alone)

\* pg addon install, with or without --force, other settings, a new secret,
\* --reload (haproxy) or --roles (vmcluster).
Install(p, n) ==
  \E force, asked \in BOOLEAN, want \in Settings \cup {None}, pw \in {None, Fresh} :
    /\ asked => kind[n].traits.asks
    /\ pw # None => kind[n].traits.binds # "none"
    /\ want \in Bad => Vets(kind[n])
    /\ want \in Alone => kind[n] \in Rerole
    /\ NewRoles(n, want) /\ kind[n].traits.asks => asked
    /\ want # None /\ conf[n] # None => want # conf[n].set
    /\ Begin(p, [NewCommand(n, "install", kind[n].install.prepare)
                   EXCEPT !.force = force, !.asked = asked, !.want = want, !.pw = pw])

\* pg addon start and the boot service: both start from the stored entry.
Start(p, n) == Begin(p, NewCommand(n, "start", kind[n].use.start))

Stop(p, n) == Begin(p, NewCommand(n, "stop", kind[n].use.stop))

\* pg addon remove, with or without --clean-data.
Remove(p, n) ==
  \E clean \in BOOLEAN :
    Begin(p, [NewCommand(n, "remove", kind[n].use.remove) EXCEPT !.clean = clean])

\* pg addon <kind> reload: render the file from the entry again and signal.
Reload(p, n) ==
  /\ kind[n].use.reload # <<>>
  /\ Begin(p, NewCommand(n, "reload", kind[n].use.reload))

\* pg addon <kind> config set, with or without a restart.
Set(p, n) ==
  \E asked \in BOOLEAN, want \in Settings \ (Bad \cup Alone) :
    /\ kind[n].use.set # <<>>
    /\ Begin(p, [NewCommand(n, "set", kind[n].use.set)
                   EXCEPT !.asked = asked, !.want = want])

\* pg start of an instance, by a user or in the boot service: doStart ends by
\* saving the whole file that the command loaded when it began.
Serve(p, n) == Begin(p, NewCommand(n, "serve", <<"load", "save">>))

\* The command has run its last step and returns nil.
Return(p) ==
  /\ cmd[p] # None
  /\ cmd[p].todo = <<>>
  /\ End(p)
  /\ UNCHANGED <<kind, conf, torn, file, data, box, faults, known, cut, last, lossy>>

-----------------------------------------------------------------------------
\* Steps that only read, and steps in memory.

\* config.Load.  A file cut off between two entries parses, and the entries
\* it has lost are simply not configured; only a broken line is an error.
Load(p) ==
  /\ At(p, {"load"})
  /\ IF torn THEN End(p)
     ELSE Go(p, [cmd[p] EXCEPT !.seen = conf, !.work = conf[N(p)]])
  /\ UNCHANGED <<kind, conf, torn, file, data, box, faults, known, cut, last, lossy>>

\* start, stop, remove and reload refuse an add-on pg.yaml does not have.
FindEntry(p) ==
  /\ At(p, {"entry"})
  /\ IF Work(p) = None THEN End(p) ELSE Skip(p)
  /\ UNCHANGED <<kind, conf, torn, file, data, box, faults, known, cut, last, lossy>>

\* Validation, the bridge network, the image, a reachability probe, a wait for
\* readiness: nothing changes, but the step may fail (Fail).
Check(p) ==
  /\ At(p, {"check", "image", "ready", "softready"})
  /\ Skip(p)
  /\ UNCHANGED <<kind, conf, torn, file, data, box, faults, known, cut, last, lossy>>

\* Mutant: a first install gets no defaults.
MergedBare(c, stored) ==
  [set |-> IF c.want # None THEN c.want ELSE IF stored # None THEN stored.set ELSE None,
   sec |-> IF c.pw # None THEN c.pw ELSE IF stored # None THEN stored.sec ELSE None]

\* Flags over the stored entry, defaults below both.
Merged(c, stored) ==
  [set |-> IF c.want # None THEN c.want ELSE IF stored # None THEN stored.set ELSE Default,
   sec |-> IF c.pw # None THEN c.pw ELSE IF stored # None THEN stored.sec ELSE None]

Merge(p) ==
  /\ At(p, {"merge"})
  /\ Go(p, [cmd[p] EXCEPT !.work = Merged(cmd[p], cmd[p].seen[N(p)]),
                          !.want = None, !.pw = None])
  /\ UNCHANGED <<kind, conf, torn, file, data, box, faults, known, cut, last, lossy>>

\* "generate": a secret that neither flag nor entry gave is generated;
\* "rotate": every install draws a new one.  With every secret of the bound in
\* use, drawing fails, as it does when the system has no randomness.
Generate(p) ==
  /\ At(p, {"generate", "rotate"})
  /\ IF Head(cmd[p].todo) = "generate" /\ Work(p).sec # None THEN Skip(p)
     ELSE IF Fresh = None THEN End(p)
     ELSE Go(p, [cmd[p] EXCEPT !.work.sec = Fresh])
  /\ UNCHANGED <<kind, conf, torn, file, data, box, faults, known, cut, last, lossy>>

\* "auth": --auth, which --password, --root-user and a stored password imply,
\* wants a secret; --auth=false, and a first install without any of these flags,
\* leave the entry without one.
DecideAuth(p) ==
  /\ At(p, {"auth"})
  /\ \E x \in {None, IF Work(p).sec # None THEN Work(p).sec ELSE Fresh} :
       Go(p, [cmd[p] EXCEPT !.work.sec = x])
  /\ UNCHANGED <<kind, conf, torn, file, data, box, faults, known, cut, last, lossy>>

\* "recall": a password kept in its own file from an earlier install is used
\* again (rabbitMQAdminPassword, clickHouseAdminPassword).
Recall(p) ==
  /\ At(p, {"recall"})
  /\ IF Work(p).sec = None /\ file[N(p)] # None
     THEN Go(p, [cmd[p] EXCEPT !.work.sec = file[N(p)].sec])
     ELSE Skip(p)
  /\ UNCHANGED <<kind, conf, torn, file, data, box, faults, known, cut, last, lossy>>

\* Kafka's cluster id, which formatting writes into the data.  "adopt": an id
\* that contradicts the data is refused, a missing one is read from it;
\* "fit": the same check again, on the entry, before every start.
Agree(p) ==
  /\ At(p, {"adopt", "fit"})
  /\ LET n == N(p)
         bound == data[n] # None /\ data[n].sec # None
         clash == bound /\ Work(p).sec # data[n].sec
     IN CASE ~clash                                                -> Skip(p)
          [] clash /\ Head(cmd[p].todo) = "adopt" /\ Work(p).sec = None
               -> Go(p, [cmd[p] EXCEPT !.work.sec = data[n].sec])
          [] OTHER                                                 -> End(p)
  /\ UNCHANGED <<kind, conf, torn, file, data, box, faults, known, cut, last, lossy>>

\* What the branches of an install ask before they choose.
Holds(p, fact) ==
  CASE fact = "plain"    -> ~cmd[p].force
    [] fact = "asked"    -> cmd[p].asked
    [] fact = "unasked"  -> ~cmd[p].asked
    [] fact = "recorded" -> cmd[p].seen[N(p)] # None
    [] fact = "same"     -> cmd[p].seen[N(p)] = Work(p)
    [] fact = "exists"   -> Exists(N(p), 1)
    [] fact = "running"  -> Running(N(p), 1)
    [] fact = "inSync"   -> \A r \in Parts : Exists(N(p), r) <=> Runs(Work(p), r)
    [] fact = "allUp"    -> \A r \in Parts : Runs(Work(p), r) => Running(N(p), r)
    [] fact = "allDown"  -> \A r \in Parts : Runs(Work(p), r) => ~Running(N(p), r)

\* The install takes the first branch whose facts all hold; the last branch,
\* which asks nothing, is the one that builds.
Choose(p) ==
  /\ At(p, {"choose"})
  /\ LET branches == K(p).install.branches
         Fits(i) == \A fact \in branches[i].facts : Holds(p, fact)
         i == CHOOSE j \in DOMAIN branches : Fits(j) /\ \A h \in 1..(j-1) : ~Fits(h)
     IN cmd' = [cmd EXCEPT ![p].todo = branches[i].steps,
                           ![p].force = FALSE, ![p].asked = FALSE,
                           ![p].built = (i = Len(branches))]
  /\ UNCHANGED <<kind, conf, torn, file, data, box, faults, known, cut, last, lossy>>

-----------------------------------------------------------------------------
\* pg.yaml.

\* Mutant: the secret of no entry is written to pg.yaml.
KeptBare(k, e) == IF e # None THEN [e EXCEPT !.sec = None] ELSE e

\* What pg.yaml keeps of an entry: a pooler's secret is only in its file.
Kept(k, e) == IF e # None /\ k.traits.binds = "file" THEN [e EXCEPT !.sec = None] ELSE e

\* Mutant: the copy that Save writes out has no room for other entries.
WrittenAlone(p) ==
  [n \in Names |-> IF n = N(p) THEN Kept(K(p), Work(p)) ELSE None]

\* What a command writes: everything as it read it, its own add-on changed.
Written(p) == [cmd[p].seen EXCEPT ![N(p)] = Kept(K(p), Work(p))]

\* Config.Save with the entry merged, or deleted ("drop" came before).
Save(p) ==
  /\ At(p, {"save"})
  /\ conf' = Written(p)
  /\ torn' = FALSE
  /\ last' = [last EXCEPT ![N(p)] = Kept(K(p), Work(p))]
  /\ known' = [known EXCEPT ![N(p)] =
                 \/ known[N(p)]
                 \/ Work(p) # None /\ data[N(p)] # None /\ data[N(p)].sec = Work(p).sec]
  /\ Skip(p)
  /\ UNCHANGED <<kind, file, data, box, faults, cut, lossy>>

\* delete(cfg.Addons.X, name): in memory only.
Drop(p) ==
  /\ At(p, {"drop"})
  /\ Go(p, [cmd[p] EXCEPT !.work = None])
  /\ UNCHANGED <<kind, conf, torn, file, data, box, faults, known, cut, last, lossy>>

-----------------------------------------------------------------------------
\* Files and data.

\* WriteConfigs, WriteConfig, ensureFiles: render the file from the entry.
\* "refile" writes it only for a container that is to be made anew, "keepfile"
\* only when it is missing, and "secretfile" only its secret.  "copyfile" is a
\* reload's rendering: the operator may have edited the file that --conf-file
\* names, so its content may be any.
Rendered(p) ==
  LET op == Head(cmd[p].todo)
      now == file[N(p)]
      new == [set |-> Work(p).set, sec |-> IF Writes(K(p)) THEN Work(p).sec ELSE None]
  IN CASE op = "refile" /\ cmd[p].ok        -> {now}
       [] op = "keepfile" /\ now # None     -> {now}
       [] op = "secretfile"                 -> {[new EXCEPT !.set = IF now = None THEN None ELSE now.set]}
       [] op = "copyfile"                   -> {[new EXCEPT !.set = x] : x \in Settings \ Alone}
       [] OTHER                             -> {new}

WriteFile(p) ==
  /\ At(p, {"files", "refile", "keepfile", "secretfile", "copyfile"})
  /\ \E f \in Rendered(p) : file' = [file EXCEPT ![N(p)] = f]
  /\ Go(p, [cmd[p] EXCEPT !.old = IF Compares(K(p)) THEN file[N(p)] ELSE None])
  /\ UNCHANGED <<kind, conf, torn, data, box, faults, known, cut, last, lossy>>

Refused(f) == f # None /\ f.set \in Bad

\* Mutant: the check fails the command and leaves the refused file in place.
VetKeeps(p) ==
  /\ At(p, {"vet"})
  /\ IF Refused(file[N(p)]) THEN End(p) ELSE Go(p, [cmd[p] EXCEPT !.old = None])
  /\ UNCHANGED <<kind, conf, torn, data, box, file, faults, known, cut, last, lossy>>

\* The service's own check of the new file (haproxy -c, nginx -t).  When it
\* refuses, the file of before is put back, if there was one, and the command
\* fails.
Vet(p) ==
  /\ At(p, {"vet"})
  /\ IF Refused(file[N(p)])
     THEN /\ file' = IF cmd[p].old = None THEN file ELSE [file EXCEPT ![N(p)] = cmd[p].old]
          /\ End(p)
     ELSE /\ UNCHANGED file
          /\ Go(p, [cmd[p] EXCEPT !.old = None])
  /\ UNCHANGED <<kind, conf, torn, data, box, faults, known, cut, last, lossy>>

\* SIGHUP, SIGUSR2 or "nginx -s reload" to a running container: the service
\* rereads its file, and keeps what it has when the file is bad.  "nudge"
\* sends it only when the file is not the one that was there before.
Signal(p) ==
  /\ At(p, {"signal", "nudge"})
  /\ LET n == N(p)
         idle == Head(cmd[p].todo) = "nudge" /\ cmd[p].old = file[n]
         up == Running(n, 1)
     IN /\ IF idle \/ up THEN Go(p, [cmd[p] EXCEPT !.old = None]) ELSE End(p)
        /\ box' = IF up /\ ~idle /\ ~Refused(file[n])
                  THEN [box EXCEPT ![n][1].loaded = file[n]] ELSE box
  /\ UNCHANGED <<kind, conf, torn, file, data, faults, known, cut, last, lossy>>

\* A reload refuses a container that does not run; "ifup": config set is done
\* unless a restart was asked for and the container runs; "ifdown": a start is
\* done when the container runs.
NeedUp(p) ==
  /\ At(p, {"needup", "ifup", "ifdown"})
  /\ LET up == Running(N(p), 1)
         on == CASE Head(cmd[p].todo) = "needup" -> up
                 [] Head(cmd[p].todo) = "ifup"   -> up /\ cmd[p].asked
                 [] Head(cmd[p].todo) = "ifdown" -> ~up
     IN IF on THEN Go(p, [cmd[p] EXCEPT !.asked = FALSE]) ELSE End(p)
  /\ UNCHANGED <<kind, conf, torn, file, data, box, faults, known, cut, last, lossy>>

\* StartContainer of a kind with a rendered file wants the file to be there.
NeedFile(p) ==
  /\ At(p, {"needfile"})
  /\ IF ~cmd[p].ok /\ file[N(p)] = None THEN End(p) ELSE Skip(p)
  /\ UNCHANGED <<kind, conf, torn, file, data, box, faults, known, cut, last, lossy>>

\* The secret the data holds, None when it has none yet.
Bound(n) == IF data[n] = None THEN None ELSE data[n].sec

\* Mutant: the role gets the password in pg.yaml, not the merged one.
SetSecretStored(p) ==
  /\ At(p, {"setsecret", "admin", "bootstrap", "passwd"})
  /\ LET n == N(p)
         op == Head(cmd[p].todo)
         now == Bound(n)
         stored == cmd[p].seen[n]
         e == IF stored = None THEN Work(p) ELSE stored
     IN IF op = "admin" /\ now # None
        THEN Skip(p) /\ UNCHANGED <<data, known>>
        ELSE Skip(p) /\ Bind(n, e.sec)
  /\ UNCHANGED <<kind, conf, torn, file, box, faults, cut, last, lossy>>

\* "setsecret": the role or user is created, or its password changed, to the
\* one in memory; "admin": the first user is created unless there is one;
\* "bootstrap": as admin, and then logging in as that user must work;
\* "passwd": as setsecret, but logging in with the password of the entry, and
\* not at all without a secret.
SetSecret(p) ==
  /\ At(p, {"setsecret", "admin", "bootstrap", "passwd"})
  /\ LET n == N(p)
         op == Head(cmd[p].todo)
         now == Bound(n)
         stored == cmd[p].seen[n]
         clash == now # None /\ now # Work(p).sec
         spared == \/ op = "admin" /\ now # None
                   \/ op = "passwd" /\ Work(p).sec = None
         locked == \/ op = "bootstrap" /\ clash
                   \/ op = "passwd" /\ clash /\ (stored = None \/ stored.sec # now)
     IN CASE spared             -> Skip(p) /\ UNCHANGED <<data, known>>
          [] locked /\ ~spared  -> End(p) /\ UNCHANGED <<data, known>>
          [] OTHER              -> Skip(p) /\ Bind(n, Work(p).sec)
  /\ UNCHANGED <<kind, conf, torn, file, box, faults, cut, last, lossy>>

\* A Garage cluster makes its key itself, once enough members have joined,
\* and tells its secret only to the command that asked for it.
Mint(p) ==
  /\ At(p, {"mint"})
  /\ \/ /\ Skip(p)
        /\ UNCHANGED <<data, known>>
     \/ /\ Bound(N(p)) = None
        /\ Fresh # None
        /\ Go(p, [cmd[p] EXCEPT !.work.sec = Fresh])
        /\ Bind(N(p), Fresh)
  /\ UNCHANGED <<kind, conf, torn, file, box, faults, cut, last, lossy>>

\* "wipe" and "hardwipe": the data directory, only with --clean-data;
\* "wipedirs": the same, but what is a mount point or not pgcli's stays;
\* "wipeall": always.
Wipe(p) ==
  /\ At(p, {"wipe", "hardwipe", "wipedirs", "wipeall"})
  /\ \/ /\ cmd[p].clean \/ Head(cmd[p].todo) = "wipeall"
        /\ data' = [data EXCEPT ![N(p)] = None]
        /\ known' = [known EXCEPT ![N(p)] = TRUE]
     \/ /\ ~cmd[p].clean \/ Head(cmd[p].todo) = "wipedirs"
        /\ Head(cmd[p].todo) # "wipeall"
        /\ UNCHANGED <<data, known>>
  /\ Skip(p)
  /\ UNCHANGED <<kind, conf, torn, file, box, faults, cut, last, lossy>>

\* The rendered file: "dropfile" always, "wipefile" only with --clean-data.
DropFile(p) ==
  /\ At(p, {"dropfile", "wipefile"})
  /\ file' = IF cmd[p].clean \/ Head(cmd[p].todo) = "dropfile"
             THEN [file EXCEPT ![N(p)] = None] ELSE file
  /\ Skip(p)
  /\ UNCHANGED <<kind, conf, torn, data, box, faults, known, cut, last, lossy>>

-----------------------------------------------------------------------------
\* Containers.

\* podman stop of a running container, for the roles of the entry.
Halt(p) ==
  /\ At(p, {"halt", "halt2", "softhalt", "softhalt2"})
  /\ box' = IF Running(N(p), Here(p)) /\ Runs(Work(p), Here(p))
            THEN [box EXCEPT ![N(p)][Here(p)].up = FALSE] ELSE box
  /\ Skip(p)
  /\ UNCHANGED <<kind, conf, torn, file, data, faults, known, cut, last, lossy>>

\* Mutant: without -f podman leaves a container that the stop before did not end.
RmUnforced(p) ==
  /\ At(p, {"rm", "rm2", "ownrm2", "strayrm2"})
  /\ box' = IF Running(N(p), Here(p)) THEN box ELSE [box EXCEPT ![N(p)][Here(p)] = None]
  /\ Skip(p)
  /\ UNCHANGED <<kind, conf, torn, file, data, faults, known, cut, last, lossy>>

\* Mutant: the name of the first container for every role.
RmOneName(p) ==
  /\ At(p, {"rm", "rm2", "ownrm2", "strayrm2"})
  /\ box' = [box EXCEPT ![N(p)][1] = None]
  /\ Skip(p)
  /\ UNCHANGED <<kind, conf, torn, file, data, faults, known, cut, last, lossy>>

\* podman rm -f of a container that exists.  "ownrm2" looks at the roles of
\* the entry first, and leaves a container of another role alone.
Rm(p) ==
  /\ At(p, {"rm", "rm2", "ownrm2", "strayrm2"})
  /\ LET op == Head(cmd[p].todo)
         r == IF op = "rm" THEN 1 ELSE 2
         spared == \/ op = "ownrm2" /\ ~Runs(Work(p), 2)
                   \/ op = "strayrm2" /\ Runs(Work(p), 2)
     IN box' = IF spared THEN box ELSE [box EXCEPT ![N(p)][r] = None]
  /\ Skip(p)
  /\ UNCHANGED <<kind, conf, torn, file, data, faults, known, cut, last, lossy>>

\* The process of a container comes up when its settings and its file are good.
Serves(n, set) == set \notin Bad /\ ~Refused(file[n])

\* podman run: the container takes the settings and the secret of the entry
\* for its arguments and reads the file; a first start lays out the data.
NewBox(n, k, e) ==
  [up |-> Serves(n, e.set), set |-> e.set,
   sec |-> IF k.traits.binds = "box" THEN e.sec ELSE None,
   loaded |-> IF k.traits.files THEN file[n] ELSE None]

LayOut(n, k, e) ==
  IF k.traits.data /\ data[n] = None
  THEN Bind(n, IF k.traits.binds = "data" THEN e.sec ELSE None)
  ELSE UNCHANGED <<data, known>>

Create(p) ==
  /\ At(p, {"create", "create2"})
  /\ IF Runs(Work(p), Here(p))
     THEN /\ box' = [box EXCEPT ![N(p)][Here(p)] = NewBox(N(p), K(p), Work(p))]
          /\ LayOut(N(p), K(p), Work(p))
     ELSE UNCHANGED <<box, data, known>>
  /\ Skip(p)
  /\ UNCHANGED <<kind, conf, torn, file, faults, cut, last, lossy>>

\* StartContainer: a running container is left alone, an existing one is
\* started as it is; podman may fail to start it, and then it is replaced
\* ("discard", "recreate").  "look" does not try to start it.
Startup(p) ==
  /\ At(p, {"startup", "startup2", "look"})
  /\ LET n == N(p)
         r == Here(p)
         Started == [box EXCEPT ![n][r].up = Serves(n, box[n][r].set),
                                ![n][r].loaded = IF K(p).traits.files THEN file[n] ELSE None]
     IN IF ~Runs(Work(p), r) \/ Running(n, r)
        THEN /\ Go(p, [cmd[p] EXCEPT !.ok = TRUE])
             /\ UNCHANGED box
        ELSE \/ /\ Exists(n, r)
                /\ Head(cmd[p].todo) # "look"
                /\ box' = Started
                /\ Go(p, [cmd[p] EXCEPT !.ok = TRUE])
             \/ /\ Go(p, [cmd[p] EXCEPT !.ok = FALSE])
                /\ UNCHANGED box
  /\ UNCHANGED <<kind, conf, torn, file, data, faults, known, cut, last, lossy>>

Discard(p) ==
  /\ At(p, {"discard", "discard2"})
  /\ box' = IF cmd[p].ok THEN box ELSE [box EXCEPT ![N(p)][Here(p)] = None]
  /\ Skip(p)
  /\ UNCHANGED <<kind, conf, torn, file, data, faults, known, cut, last, lossy>>

Recreate(p) ==
  /\ At(p, {"recreate", "recreate2"})
  /\ IF cmd[p].ok THEN UNCHANGED <<box, data, known>>
     ELSE /\ box' = [box EXCEPT ![N(p)][Here(p)] = NewBox(N(p), K(p), Work(p))]
          /\ LayOut(N(p), K(p), Work(p))
  /\ Go(p, [cmd[p] EXCEPT !.ok = FALSE])
  /\ UNCHANGED <<kind, conf, torn, file, faults, cut, last, lossy>>

-----------------------------------------------------------------------------
\* Faults.

\* Commands that replace what is installed.
Changes(c) == c.op \in {"install", "reload"}

\* Steps whose error the code reports and goes on from.
Soft == {"softhalt", "softhalt2", "wipe", "wipedirs", "dropfile", "wipefile", "mint",
         "softready"}

\* Steps that cannot fail: they only touch memory.
Sure == {"merge", "drop", "choose", "entry", "needfile", "needup", "ifup", "ifdown"}

\* A step fails.  podman run may have left a container that does not run.
Fail(p) ==
  /\ cmd[p] # None
  /\ cmd[p].todo # <<>>
  /\ faults < MaxFaults
  /\ faults' = faults + 1
  /\ LET op == Head(cmd[p].todo)
         n == N(p)
         Left == [NewBox(n, K(p), Work(p)) EXCEPT !.up = FALSE]
     IN /\ op \notin Sure
        /\ IF op \in Soft THEN Skip(p) ELSE End(p)
        /\ \/ UNCHANGED box
           \/ /\ op \in {"create", "create2"}
              /\ Runs(Work(p), Part(op))
              /\ box' = [box EXCEPT ![n][Part(op)] = Left]
        /\ cut' = IF op \in Soft THEN cut ELSE [cut EXCEPT ![n] = @ \/ Changes(cmd[p])]
  /\ UNCHANGED <<kind, conf, torn, file, data, known, last, lossy>>

\* The command is interrupted between two steps.
Kill(p) ==
  /\ cmd[p] # None
  /\ cmd[p].todo # <<>>
  /\ faults < MaxFaults
  /\ faults' = faults + 1
  /\ End(p)
  /\ cut' = [cut EXCEPT ![N(p)] = @ \/ Changes(cmd[p])]
  /\ UNCHANGED <<kind, conf, torn, file, data, box, known, last, lossy>>

\* os.WriteFile truncates pg.yaml before it writes: an interrupted save leaves
\* the first part of the file, cut between two entries or inside one.
Tear(p) ==
  /\ Tears
  /\ At(p, {"save"})
  /\ faults < MaxFaults
  /\ faults' = faults + 1
  /\ \E kept \in SUBSET Names :
       conf' = [n \in Names |-> IF n \in kept THEN Written(p)[n] ELSE None]
  /\ torn' \in BOOLEAN
  /\ cut' = [cut EXCEPT ![N(p)] = TRUE]
  /\ lossy' = TRUE
  /\ End(p)
  /\ UNCHANGED <<kind, file, data, box, known, last>>

\* A container exits by itself.
Die(n) ==
  /\ faults < MaxFaults
  /\ faults' = faults + 1
  /\ \E r \in Parts : Running(n, r) /\ box' = [box EXCEPT ![n][r].up = FALSE]
  /\ UNCHANGED <<kind, conf, torn, file, data, cmd, known, cut, last, lossy>>

\* The machine reboots: commands are gone, containers are down.
Reboot ==
  /\ faults < MaxFaults
  /\ faults' = faults + 1
  /\ cmd' = [p \in Procs |-> None]
  /\ cut' = [n \in Names |-> cut[n] \/ \E p \in Procs : cmd[p] # None
                                           /\ cmd[p].name = n /\ Changes(cmd[p])]
  /\ box' = [n \in Names |-> [r \in Parts |->
               IF Exists(n, r) THEN [box[n][r] EXCEPT !.up = FALSE] ELSE None]]
  /\ UNCHANGED <<kind, conf, torn, file, data, known, last, lossy>>

-----------------------------------------------------------------------------
Init ==
  /\ kind \in [Names -> Kinds]
  /\ conf = [n \in Names |-> None]
  /\ torn = FALSE
  /\ file = [n \in Names |-> None]
  /\ data = [n \in Names |-> None]
  /\ box = [n \in Names |-> [r \in Parts |-> None]]
  /\ cmd = [p \in Procs |-> None]
  /\ faults = 0
  /\ known = [n \in Names |-> TRUE]
  /\ cut = [n \in Names |-> FALSE]
  /\ last = [n \in Names |-> None]
  /\ lossy = FALSE

Call(p) == \E n \in Names : \/ Install(p, n) \/ Start(p, n) \/ Stop(p, n)
                            \/ Remove(p, n) \/ Reload(p, n) \/ Set(p, n)
                            \/ Serve(p, n)

Step(p) ==
  \/ Load(p) \/ FindEntry(p) \/ Check(p) \/ Merge(p) \/ Generate(p) \/ DecideAuth(p)
  \/ Recall(p) \/ Agree(p) \/ Choose(p) \/ Mint(p)
  \/ Save(p) \/ Drop(p) \/ WriteFile(p) \/ Vet(p) \/ Signal(p) \/ NeedFile(p)
  \/ NeedUp(p)
  \/ SetSecret(p) \/ Wipe(p) \/ DropFile(p) \/ Halt(p) \/ Rm(p) \/ Create(p)
  \/ Startup(p) \/ Discard(p) \/ Recreate(p) \/ Return(p)

Fault == \/ \E p \in Procs : Fail(p) \/ Kill(p) \/ Tear(p)
         \/ \E n \in Names : Die(n)
         \/ Reboot

Next == (\E p \in Procs : Call(p) \/ Step(p)) \/ Fault

Spec == Init /\ [][Next]_vars

-----------------------------------------------------------------------------
\* Properties.

\* Types.
TypeOK ==
  /\ kind \in [Names -> Kinds]
  /\ conf \in [Names -> Entry \cup {None}]
  /\ torn \in BOOLEAN
  /\ file \in [Names -> File \cup {None}]
  /\ data \in [Names -> [sec : Secrets \cup {None}] \cup {None}]
  /\ box \in [Names -> [Parts -> Box \cup {None}]]
  /\ faults \in 0..MaxFaults
  /\ known \in [Names -> BOOLEAN]
  /\ cut \in [Names -> BOOLEAN]
  /\ last \in [Names -> Entry \cup {None}]
  /\ lossy \in BOOLEAN
  /\ \A p \in Procs : cmd[p] # None =>
       /\ cmd[p].name \in Names
       /\ cmd[p].seen \in [Names -> Entry \cup {None}]
       /\ cmd[p].work \in Entry \cup {None}
       /\ cmd[p].old \in File \cup {None}

PartsOf(k) == IF Does(k, "create2") THEN Parts ELSE {1}

\* The build of the kind saves pg.yaml before it creates the container.
SavesFirst(k) ==
  LET build == k.install.branches[Len(k.install.branches)].steps
  IN \E i, j \in DOMAIN build : i < j /\ build[i] = "save" /\ build[j] = "create"

On(p, n, op) == cmd[p] # None /\ cmd[p].name = n /\ cmd[p].op = op
Done(p, op) == cmd[p] # None /\ cmd[p].op = op /\ cmd[p].todo = <<>>

\* The containers of the add-on are what the entry e says.
Carries(n, k, e) ==
  \A r \in PartsOf(k) : Runs(e, r) =>
    /\ Exists(n, r)
    /\ box[n][r].set = e.set
    /\ k.traits.binds = "box" => box[n][r].sec = e.sec
    /\ k.traits.files => box[n][r].loaded = file[n] /\ file[n].set = e.set
    /\ k.traits.binds = "read" => box[n][r].loaded.sec = e.sec
    /\ k.traits.binds = "file" => box[n][r].loaded.sec = data[n].sec

\* The kind gives the service the secret of the entry, or takes it from there.
Settles(k) ==
  /\ k.traits.binds # "file"
  /\ \E op \in {"setsecret", "passwd", "bootstrap", "adopt"} : Does(k, op)

\* The service of the entry e of this kind asks for no password: an etcd that was
\* installed without authentication.
NoAuth(k, e) == Does(k, "passwd") /\ e.sec = None

\* An install that built the add-on and returned nil has left containers that
\* run exactly what pg.yaml now says: the settings, the file that was rendered
\* from them, and a secret that opens the service.  The handlers reach this in
\* different orders (the role or user before or after the container, the file
\* before or after the choice, Save first or last), over whatever an earlier
\* interrupted install left behind.  An etcd entry without authentication has no
\* secret, and nothing is claimed of its data: authentication that an earlier
\* install turned on stays on there, and the install does not look.
BuildApplies ==
  \A p \in Procs : Done(p, "install") /\ cmd[p].built =>
    LET n == N(p)
        k == K(p)
    IN /\ conf[n] = Kept(k, Work(p))
       /\ Carries(n, k, conf[n])
       /\ Settles(k) => NoAuth(k, conf[n]) \/ data[n].sec = conf[n].sec

\* A password or key that the data was laid out with is one pg.yaml has had:
\* nobody is locked out of the data.  A kind that saves before it builds ("so a
\* failed boot is still inspectable and the generated password is not lost",
\* addon_influxdb.go:163) never binds a secret pg.yaml has not got; one that
\* saves last does so during an install, and loses it when that is cut off.
KnownSecret ==
  \A n \in Names : data[n] # None /\ kind[n].traits.binds \in {"data", "late"} =>
    \/ known[n]
    \/ /\ ~SavesFirst(kind[n])
       /\ cut[n] \/ \E p \in Procs : On(p, n, "install")

\* The file under a running haproxy or nginx is one the service accepts, so
\* that a restart brings it back: ValidateConfig and Test run before anything
\* is signalled or replaced, and put the file of before back when they refuse.
\* Only an install or reload that was cut off between WriteConfigs and the
\* check leaves a bad file.
RestartSafe ==
  \A n \in Names : Vets(kind[n]) /\ Running(n, 1) =>
    \/ ~Refused(file[n])
    \/ \E p \in Procs : On(p, n, "install") \/ On(p, n, "reload")
    \/ cut[n]

\* A container that exists belongs to an entry of pg.yaml, so that start,
\* stop and remove find it.  remove deletes the entry only after the
\* containers, and whatever fails on the way leaves the entry; the one gap is
\* an install that saves last and was cut off.
OwnedBox ==
  \A n \in Names : (\E r \in Parts : Exists(n, r)) =>
    \/ conf[n] # None
    \/ /\ ~SavesFirst(kind[n])
       /\ cut[n] \/ \E p \in Procs : On(p, n, "install")

\* pg.yaml has of every add-on what the last command on it saved, unless two
\* commands that save overlapped or a save was cut short: Config.Save writes
\* the whole file from what Load read, so start, stop and reload of an add-on,
\* which may run at any time beside a command that saves, must not write it.
NoLostUpdate == lossy \/ conf = last

\* One add-on that stands for all.
OneOf == CHOOSE n \in Names : TRUE

\* What the commands promise of it, whatever its kind.
Life == INSTANCE AddonLife WITH
  recorded <- conf[OneOf] # None,
  boxes <- {r \in Parts : Exists(OneOf, r)},
  stored <- data[OneOf] # None

\* The commands implement AddonLife: the entry and the data go only after the
\* containers.
Implements == Life!Spec

=============================================================================
