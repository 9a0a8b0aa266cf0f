---------------------------- MODULE AddonsProxy ----------------------------
(***************************************************************************)
(* The programs of the poolers and proxies: pgbouncer, pgdog, haproxy,     *)
(* predixy, nginx and PostgREST.  A program lists the calls of one handler *)
(* in the order of the code.                                               *)
(***************************************************************************)
EXTENDS AddonSteps

-----------------------------------------------------------------------------
\* pgbouncer: the role's password is drawn anew by every install and lives in
\* userlist.txt only.

PgBouncerManager ==
  [ensure |-> <<"halt", "rm", "create">>,
   start  |-> <<"startup", "discard", "needfile", "recreate">>,
   remove |-> <<"softhalt", "rm", "dropfile">>]

\* SetupAuth creates or alters the role; WriteConfigs renders pgbouncer.ini
\* and userlist.txt.
PgBouncerSetupAuth == <<"rotate", "setsecret">>
PgBouncerWriteConfigs == <<"files">>

PgBouncerPrepare == <<"check", "load", "check">>
PgBouncerMerge == <<"merge">>

\* Mutant: userlist.txt is rendered before the role gets its new password.
PgBouncerInstallEarly ==
  [prepare  |-> PgBouncerPrepare \o PgBouncerMerge \o <<"choose">>,
   branches |-> <<Otherwise(PgBouncerWriteConfigs \o PgBouncerSetupAuth
                              \o PgBouncerManager.ensure \o <<"save">>)>>]

PgBouncerInstall ==
  [prepare  |-> PgBouncerPrepare \o PgBouncerMerge \o <<"choose">>,
   branches |-> <<Otherwise(PgBouncerSetupAuth \o PgBouncerWriteConfigs
                              \o PgBouncerManager.ensure \o <<"save">>)>>]

PgBouncerRemove == <<"load", "entry">> \o PgBouncerManager.remove \o <<"drop", "save">>

PgBouncerSwitch ==
  [start |-> <<"load", "entry", "check">> \o PgBouncerManager.start,
   stop  |-> <<"load", "entry", "halt">>]

PgBouncer ==
  Kind(Traits("file", TRUE, TRUE), PgBouncerInstall,
       Handlers(PgBouncerSwitch.start, PgBouncerSwitch.stop, PgBouncerRemove,
                <<>>))

-----------------------------------------------------------------------------
\* pgdog: everything it has comes from the flags and goes into pgdog.toml.

PgDogManager ==
  [ensure |-> <<"halt", "rm", "create">>,
   start  |-> <<"startup", "discard", "needfile", "recreate">>,
   remove |-> <<"softhalt", "rm", "dropfile">>]

PgDogDefaults == <<"merge">>

PgDogWriteConfigs == <<"files">>

PgDogBackends == <<"check">>

PgDogInstall ==
  [prepare  |-> <<"load">> \o PgDogBackends \o PgDogDefaults \o <<"choose">>,
   branches |-> <<Otherwise(PgDogWriteConfigs \o <<"check">> \o PgDogManager.ensure
                   \o <<"save">>)>>]

PgDogRemove == <<"load", "entry">> \o PgDogManager.remove \o <<"drop", "save">>

PgDogSwitch ==
  [start |-> <<"load", "entry", "check">> \o PgDogManager.start,
   stop  |-> <<"load", "entry", "halt">>]

PgDog ==
  Kind(Traits("none", FALSE, TRUE), PgDogInstall,
       Handlers(PgDogSwitch.start, PgDogSwitch.stop, PgDogRemove,
                <<>>))

-----------------------------------------------------------------------------
\* haproxy: the new file is checked before anything else happens, and with
\* --reload a running container is signalled instead of replaced.

HAProxyManager ==
  [ensure |-> <<"halt", "rm", "create">>,
   start  |-> <<"startup", "discard", "needfile", "recreate">>,
   remove |-> <<"softhalt", "rm", "dropfile">>]

\* Reload: conf-file instances that run; render, check with rollback, SIGUSR2.
HAProxyReload == <<"check", "needup", "copyfile", "vet", "signal">>

HAProxyDefaults == <<"merge">>

HAProxyTargets == <<"check">>

HAProxyPrepare == <<"check", "load">> \o HAProxyTargets \o HAProxyDefaults

HAProxyWriteConfigs == <<"files">>

HAProxyInstall ==
  [prepare  |-> HAProxyPrepare \o HAProxyWriteConfigs \o <<"vet", "choose">>,
   branches |-> <<When({"asked", "running"}, <<"save", "signal">>),
                  Otherwise(HAProxyManager.ensure \o <<"save">>)>>]

HAProxyCommands ==
  [remove |-> <<"load", "entry">> \o HAProxyManager.remove \o <<"drop", "save">>,
   start  |-> <<"load", "entry">> \o HAProxyManager.start,
   stop   |-> <<"load", "entry", "halt">>]

HAProxy ==
  Kind([Traits("none", FALSE, TRUE) EXCEPT !.asks = TRUE], HAProxyInstall,
       Handlers(HAProxyCommands.start, HAProxyCommands.stop, HAProxyCommands.remove,
                <<"load", "entry">> \o HAProxyReload))

-----------------------------------------------------------------------------
\* predixy: the file is rewritten by every install, the container only when
\* there is none or --force asks for it.

PredixyManager ==
  [ensure |-> <<"halt", "rm", "create">>,
   start  |-> <<"startup", "discard", "needfile", "recreate">>,
   remove |-> <<"softhalt", "rm", "dropfile">>]

PredixyDefaults == <<"merge">>

PredixyWriteConfigs == <<"files">>

PredixyBackends == <<"check">>

PredixyInstall ==
  [prepare  |-> PredixyBackends \o <<"load">> \o PredixyDefaults \o <<"check">>
                  \o PredixyWriteConfigs \o <<"choose">>,
   branches |-> <<When({"plain", "running"}, <<"save">>),
                  When({"plain", "exists"}, PredixyManager.start \o <<"save">>),
                  Otherwise(<<"image">> \o PredixyManager.ensure \o <<"save">>)>>]

PredixyCommands ==
  [remove |-> <<"load", "entry">> \o PredixyManager.remove \o <<"drop", "save">>,
   start  |-> <<"load", "entry">> \o PredixyManager.start,
   stop   |-> <<"load", "entry", "halt">>]

Predixy ==
  Kind(Traits("none", FALSE, TRUE), PredixyInstall,
       Handlers(PredixyCommands.start, PredixyCommands.stop, PredixyCommands.remove,
                <<>>))

-----------------------------------------------------------------------------
\* nginx: a running container gets the new file tested and reloaded, and the
\* handler returns before it reaches Save.

NginxArgs == <<"create">>

NginxManager ==
  [ensure |-> <<"halt", "rm">> \o NginxArgs,
   start  |-> <<"startup", "discard", "needfile", "recreate">>,
   remove |-> <<"softhalt", "rm", "dropfile">>]

NginxReload == <<"needup", "signal">>

NginxDefaults == <<"merge">>

NginxPrepare == <<"check", "load", "check">> \o NginxDefaults \o <<"image">>

NginxWriteConfigs == <<"files">>

NginxInstall ==
  [prepare  |-> NginxPrepare \o NginxWriteConfigs \o <<"choose">>,
   branches |-> <<When({"plain", "running"}, <<"vet", "signal">>),
                  Otherwise(NginxManager.ensure \o <<"save">>)>>]

NginxCommands ==
  [remove |-> <<"load", "entry">> \o NginxManager.remove \o <<"drop", "save">>,
   start  |-> <<"load", "entry">> \o NginxManager.start,
   stop   |-> <<"load", "entry", "halt">>]

Nginx ==
  Kind(Traits("none", FALSE, TRUE), NginxInstall,
       Handlers(NginxCommands.start, NginxCommands.stop, NginxCommands.remove,
                <<"load", "entry">> \o NginxReload))

-----------------------------------------------------------------------------
\* PostgREST: no file and no data; the JWT secret is an argument.

PostgrestArgs == <<"create">>

PostgrestManager ==
  [ensure |-> <<"halt", "rm">> \o PostgrestArgs,
   start  |-> <<"startup", "discard", "recreate">>,
   remove |-> <<"softhalt", "rm">>]

PostgrestDefaults == <<"merge">>

PostgrestPrepare == <<"check", "load", "check">> \o PostgrestDefaults

PostgrestInstall ==
  [prepare  |-> PostgrestPrepare \o <<"check", "choose">>,
   branches |-> <<When({"plain", "running"}, <<"save">>),
                  When({"plain", "exists"}, PostgrestManager.start \o <<"save">>),
                  Otherwise(<<"image">> \o PostgrestManager.ensure \o <<"save">>)>>]

PostgrestRemove == <<"load", "entry">> \o PostgrestManager.remove \o <<"drop", "save">>

PostgrestSwitch ==
  [start |-> <<"load", "entry", "check">> \o PostgrestManager.start,
   stop  |-> <<"load", "entry", "halt">>]

Postgrest ==
  Kind(Traits("box", FALSE, FALSE), PostgrestInstall,
       Handlers(PostgrestSwitch.start, PostgrestSwitch.stop, PostgrestRemove,
                <<>>))
=============================================================================
