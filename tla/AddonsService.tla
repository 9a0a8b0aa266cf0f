---------------------------- MODULE AddonsService ---------------------------
(***************************************************************************)
(* The programs of the add-ons with users of their own: a single etcd      *)
(* node, Gitea, pgAdmin, Grafana and the DocumentDB gateway.               *)
(***************************************************************************)
EXTENDS AddonSteps

-----------------------------------------------------------------------------
\* etcd, one node: authentication is switched on, or its password changed,
\* once the new container is healthy; the entry is saved last. remove always
\* deletes the data.
EtcdArgs == <<"create">>

EtcdCreate == EtcdArgs

EtcdEnsure == <<"halt", "rm">> \o EtcdCreate

EtcdStart == <<"startup", "discard">> \o Anew(EtcdCreate)

EtcdErase == <<"softhalt", "rm", "wipeall">>

\* WaitHealthy (without --auth only for TLS), and with --auth AuthEnabled,
\* ChangeAuthPassword with the stored password, or EnableAuth.
EtcdAuth == <<"ready", "passwd">>

EtcdDefaults == <<"merge">>

EtcdPrepare ==
  <<"check", "load", "check">> \o EtcdDefaults \o <<"auth", "check">>

EtcdInstall ==
  [prepare  |-> EtcdPrepare \o <<"choose">>,
   branches |-> <<Otherwise(EtcdEnsure \o EtcdAuth \o <<"save">>)>>]

EtcdRemove == Lookup \o EtcdErase \o Forget

EtcdUp == Lookup \o EtcdStart

EtcdDown == Lookup \o <<"halt">>

Etcd ==
  Kind(Traits("late", TRUE, FALSE), EtcdInstall,
       Handlers(EtcdUp, EtcdDown, EtcdRemove, <<>>))

-----------------------------------------------------------------------------
\* Gitea: the first admin is created through the running container, and only
\* when the store has none.
GiteaArgs == <<"create">>

GiteaCreate == GiteaArgs

GiteaEnsure == <<"halt", "rm">> \o GiteaCreate

GiteaStart == <<"startup", "discard">> \o Anew(GiteaCreate)

GiteaErase == <<"softhalt", "rm", "wipedirs">>

GiteaAdmin == <<"ready", "check", "admin">>

GiteaDefaults == <<"merge">>

GiteaPrepare == <<"check", "load", "check">> \o GiteaDefaults \o <<"check">>

GiteaInstall ==
  [prepare  |-> GiteaPrepare \o <<"choose">>,
   branches |-> Reuse(GiteaStart,
                      <<"generate", "image">> \o GiteaEnsure \o GiteaAdmin, <<"save">>)]

GiteaRemove == Lookup \o GiteaErase \o Forget

GiteaUp == Lookup \o <<"check">> \o GiteaStart

GiteaDown == Lookup \o <<"halt">>

Gitea ==
  Kind(Traits("late", TRUE, FALSE), GiteaInstall,
       Handlers(GiteaUp, GiteaDown, GiteaRemove, <<>>))

-----------------------------------------------------------------------------
\* pgAdmin: the first boot stores the password; servers.json and pgpass are
\* rendered for every container and always removed.
PgAdminServers == <<"files">>

PgAdminArgs == <<"create">>

PgAdminCreate == PgAdminServers \o PgAdminArgs

PgAdminEnsure == <<"halt", "rm">> \o PgAdminCreate

PgAdminStart == <<"startup", "discard">> \o Anew(PgAdminCreate)

PgAdminErase == <<"softhalt", "rm", "dropfile", "wipedirs">>

PgAdminDefaults == <<"merge">>

PgAdminPrepare == <<"load", "check">> \o PgAdminDefaults \o <<"check">>

PgAdminInstall ==
  [prepare  |-> PgAdminPrepare \o <<"choose">>,
   branches |-> Reuse(PgAdminStart, <<"generate", "image">> \o PgAdminEnsure, <<"save">>)]

PgAdminRemove == Lookup \o PgAdminErase \o Forget

PgAdminUp == Lookup \o <<"check">> \o PgAdminStart

PgAdminDown == Lookup \o <<"halt">>

PgAdmin ==
  Kind(Traits("data", TRUE, TRUE), PgAdminInstall,
       Handlers(PgAdminUp, PgAdminDown, PgAdminRemove, <<>>))

-----------------------------------------------------------------------------
\* Grafana: the first boot stores the password.
GrafanaCreate == <<"create">>

GrafanaEnsure == <<"halt", "rm">> \o GrafanaCreate

GrafanaStart == <<"startup", "discard">> \o Anew(GrafanaCreate)

\* Mutant: the data goes before the container.
GrafanaEraseFirst == <<"softhalt", "wipedirs", "rm">>

GrafanaErase == <<"softhalt", "rm", "wipedirs">>

GrafanaDefaults == <<"merge">>

GrafanaPrepare == <<"load">> \o GrafanaDefaults \o <<"check">>

GrafanaInstall ==
  [prepare  |-> GrafanaPrepare \o <<"choose">>,
   branches |-> Reuse(GrafanaStart, <<"generate", "image">> \o GrafanaEnsure, <<"save">>)]

GrafanaRemove == Lookup \o GrafanaErase \o Forget

GrafanaUp == Lookup \o <<"check">> \o GrafanaStart

GrafanaDown == Lookup \o <<"halt">>

Grafana ==
  Kind(Traits("data", TRUE, FALSE), GrafanaInstall,
       Handlers(GrafanaUp, GrafanaDown, GrafanaRemove, <<>>))

-----------------------------------------------------------------------------
\* DocumentDB gateway: its role lives in a PostgreSQL instance, is given the
\* password before the container is made, and survives remove.
DocumentDBCreate == <<"create">>

DocumentDBEnsure == <<"halt", "rm">> \o DocumentDBCreate

DocumentDBStart == <<"startup", "discard">> \o Anew(DocumentDBCreate)

DocumentDBErase == <<"softhalt", "rm", "wipefile">>

DocumentDBWriteFiles == <<"files">>

\* The extension, the local trust rule, and the role with its password.
DocumentDBTrust == <<"check">>

DocumentDBRole == DocumentDBTrust \o <<"check", "setsecret">>

DocumentDBDefaults == <<"merge">>

DocumentDBCheckConfig == <<"check">>

DocumentDBPrepare ==
  <<"load", "check">> \o DocumentDBDefaults \o DocumentDBCheckConfig \o <<"generate">>

DocumentDBInstall ==
  [prepare  |-> DocumentDBPrepare \o <<"choose">>,
   branches |-> <<When({"plain", "running"}, <<"save">>),
                  Otherwise(DocumentDBRole \o <<"image">> \o DocumentDBWriteFiles
                              \o DocumentDBEnsure \o <<"save">>)>>]

DocumentDBRemove == Lookup \o DocumentDBErase \o Forget

DocumentDBUp == Lookup \o <<"check">> \o DocumentDBWriteFiles \o DocumentDBStart

DocumentDBDown == Lookup \o <<"halt">>

DocumentDB ==
  Kind(Traits("late", TRUE, TRUE), DocumentDBInstall,
       Handlers(DocumentDBUp, DocumentDBDown, DocumentDBRemove, <<>>))

=============================================================================
