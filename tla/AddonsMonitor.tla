---------------------------- MODULE AddonsMonitor ---------------------------
(***************************************************************************)
(* The programs of the monitoring add-ons: Prometheus, Alertmanager, the   *)
(* exporters, the Victoria family and its two clusters.                    *)
(***************************************************************************)
EXTENDS AddonSteps

-----------------------------------------------------------------------------
\* Prometheus: the file is rewritten first; a running container is signalled
\* when the file changed, unless the rules mount comes or goes (the flag of
\* this kind).
PrometheusWriteConfig == <<"files">>

PrometheusArgs == <<"create">>

PrometheusCreate == PrometheusWriteConfig \o PrometheusArgs

PrometheusEnsure == <<"halt", "rm">> \o PrometheusCreate

PrometheusStart ==
  <<"startup", "discard", "needfile">> \o Anew(PrometheusCreate)

PrometheusErase == <<"softhalt", "rm", "dropfile", "wipedirs">>

PrometheusDefaults == <<"merge">>

PrometheusScrape == <<"check">>

PrometheusPrepare ==
  <<"check", "load">> \o PrometheusScrape \o PrometheusDefaults \o <<"check">>

PrometheusInstall ==
  [prepare  |-> PrometheusPrepare \o <<"check", "image">> \o PrometheusWriteConfig
                  \o <<"choose">>,
   branches |-> <<When({"plain", "running", "unasked"}, <<"nudge", "save">>),
                  Otherwise(PrometheusEnsure \o <<"save">>)>>]

PrometheusRemove == Lookup \o PrometheusErase \o Forget

PrometheusUp == Lookup \o <<"check">> \o PrometheusStart

PrometheusDown == Lookup \o <<"halt">>

PrometheusReload == Lookup \o <<"needup", "copyfile", "signal">>

Prometheus ==
  Kind([Traits("none", TRUE, TRUE) EXCEPT !.asks = TRUE], PrometheusInstall,
       Handlers(PrometheusUp, PrometheusDown, PrometheusRemove, PrometheusReload))

-----------------------------------------------------------------------------
\* Alertmanager, as Prometheus without rules.
AlertmanagerWriteConfig == <<"files">>

AlertmanagerCreate == AlertmanagerWriteConfig \o <<"create">>

AlertmanagerEnsure == <<"halt", "rm">> \o AlertmanagerCreate

AlertmanagerStart ==
  <<"startup", "discard", "needfile">> \o Anew(AlertmanagerCreate)

AlertmanagerErase == <<"softhalt", "rm", "dropfile", "wipedirs">>

AlertmanagerDefaults == <<"merge">>

AlertmanagerInstall ==
  [prepare  |-> <<"load", "check">> \o AlertmanagerDefaults \o <<"check", "image">>
                  \o AlertmanagerWriteConfig \o <<"choose">>,
   branches |-> <<When({"plain", "running"}, <<"nudge", "save">>),
                  Otherwise(AlertmanagerEnsure \o <<"save">>)>>]

AlertmanagerRemove == Lookup \o AlertmanagerErase \o Forget

AlertmanagerUp == Lookup \o <<"check">> \o AlertmanagerStart

AlertmanagerDown == Lookup \o <<"halt">>

AlertmanagerReload == Lookup \o <<"needup", "copyfile", "signal">>

Alertmanager ==
  Kind(Traits("none", TRUE, TRUE), AlertmanagerInstall,
       Handlers(AlertmanagerUp, AlertmanagerDown, AlertmanagerRemove, AlertmanagerReload))

-----------------------------------------------------------------------------
\* node_exporter: no data, no file, no secret.
NodeExporterArgs == <<"create">>

NodeExporterCreate == NodeExporterArgs

NodeExporterEnsure == <<"halt", "rm">> \o NodeExporterCreate

NodeExporterStart == <<"startup", "discard">> \o Anew(NodeExporterCreate)

NodeExporterErase == <<"softhalt", "rm">>

NodeExporterDefaults == <<"merge">>

NodeExporterInstall ==
  [prepare  |-> <<"load", "check">> \o NodeExporterDefaults \o <<"check", "choose">>,
   branches |-> <<When({"plain", "running"}, <<"save">>),
                  Otherwise(<<"image">> \o NodeExporterEnsure \o <<"save">>)>>]

\* Mutant: the entry goes before the container.
NodeExporterRemoveFirst == Lookup \o Forget \o NodeExporterErase

NodeExporterRemove == Lookup \o NodeExporterErase \o Forget

NodeExporterUp == Lookup \o <<"check">> \o NodeExporterStart

NodeExporterDown == Lookup \o <<"halt">>

NodeExporter ==
  Kind(Traits("none", FALSE, FALSE), NodeExporterInstall,
       Handlers(NodeExporterUp, NodeExporterDown, NodeExporterRemove, <<>>))

-----------------------------------------------------------------------------
\* VictoriaMetrics.
VictoriaMetricsCreate == <<"create">>

VictoriaMetricsEnsure == <<"halt", "rm">> \o VictoriaMetricsCreate

VictoriaMetricsStart == <<"startup", "discard">> \o Anew(VictoriaMetricsCreate)

VictoriaMetricsErase == <<"softhalt", "rm", "wipedirs">>

VictoriaMetricsDefaults == <<"merge">>

VictoriaMetricsInstall ==
  [prepare  |-> <<"load", "check">> \o VictoriaMetricsDefaults \o <<"check", "choose">>,
   branches |-> <<When({"plain", "running"}, <<"save">>),
                  Otherwise(<<"image">> \o VictoriaMetricsEnsure \o <<"save">>)>>]

VictoriaMetricsRemove == Lookup \o VictoriaMetricsErase \o Forget

VictoriaMetricsUp == Lookup \o <<"check">> \o VictoriaMetricsStart

VictoriaMetricsDown == Lookup \o <<"halt">>

VictoriaMetrics ==
  Kind(Traits("none", TRUE, FALSE), VictoriaMetricsInstall,
       Handlers(VictoriaMetricsUp, VictoriaMetricsDown, VictoriaMetricsRemove, <<>>))

-----------------------------------------------------------------------------
\* VictoriaLogs: unlike VictoriaMetrics, other settings rebuild a running
\* container without --force.
VictoriaLogsCreate == <<"create">>

VictoriaLogsEnsure == <<"halt", "rm">> \o VictoriaLogsCreate

VictoriaLogsStart == <<"startup", "discard">> \o Anew(VictoriaLogsCreate)

VictoriaLogsErase == <<"softhalt", "rm", "wipedirs">>

VictoriaLogsDefaults == <<"merge">>

VictoriaLogsInstall ==
  [prepare  |-> <<"load", "check">> \o VictoriaLogsDefaults \o <<"check", "choose">>,
   branches |-> <<When({"plain", "running", "same"}, <<"save">>),
                  Otherwise(<<"image">> \o VictoriaLogsEnsure \o <<"save">>)>>]

VictoriaLogsRemove == Lookup \o VictoriaLogsErase \o Forget

VictoriaLogsUp == Lookup \o <<"check">> \o VictoriaLogsStart

VictoriaLogsDown == Lookup \o <<"halt">>

VictoriaLogs ==
  Kind(Traits("none", TRUE, FALSE), VictoriaLogsInstall,
       Handlers(VictoriaLogsUp, VictoriaLogsDown, VictoriaLogsRemove, <<>>))

-----------------------------------------------------------------------------
\* vlagent, as VictoriaLogs.
VlagentArgs == <<"create">>

VlagentCreate == VlagentArgs

VlagentEnsure == <<"halt", "rm">> \o VlagentCreate

VlagentStart == <<"startup", "discard">> \o Anew(VlagentCreate)

VlagentErase == <<"softhalt", "rm", "wipedirs">>

VlagentDefaults == <<"merge">>

VlagentInstall ==
  [prepare  |-> <<"load", "check">> \o VlagentDefaults \o <<"check", "choose">>,
   branches |-> <<When({"plain", "running", "same"}, <<"save">>),
                  Otherwise(<<"image">> \o VlagentEnsure \o <<"save">>)>>]

VlagentRemove == Lookup \o VlagentErase \o Forget

VlagentUp == Lookup \o <<"check">> \o VlagentStart

VlagentDown == Lookup \o <<"halt">>

Vlagent ==
  Kind(Traits("none", TRUE, FALSE), VlagentInstall,
       Handlers(VlagentUp, VlagentDown, VlagentRemove, <<>>))

-----------------------------------------------------------------------------
\* vmalert: rules and templates belong to the operator; pgcli only seeds
\* them.
VmalertArgs == <<"create">>

VmalertCreate == <<"check">> \o VmalertArgs

VmalertEnsure == <<"halt", "rm">> \o VmalertCreate

VmalertStart == <<"check", "startup", "discard">> \o Anew(VmalertCreate)

VmalertErase == <<"softhalt", "rm", "wipedirs">>

VmalertDefaults == <<"merge">>

VmalertInstall ==
  [prepare  |-> <<"check", "load">> \o VmalertDefaults \o <<"check", "choose">>,
   branches |-> <<When({"plain", "running", "same"}, <<"save">>),
                  Otherwise(<<"image">> \o VmalertEnsure \o <<"save">>)>>]

VmalertRemove == Lookup \o VmalertErase \o Forget

VmalertUp == Lookup \o <<"check">> \o VmalertStart

VmalertDown == Lookup \o <<"halt">>

VmalertReload == Lookup \o <<"needup", "signal">>

Vmalert ==
  Kind(Traits("none", TRUE, FALSE), VmalertInstall,
       Handlers(VmalertUp, VmalertDown, VmalertRemove, VmalertReload))

-----------------------------------------------------------------------------
\* pg_exporter: a build gives the monitoring role a new password before it
\* replaces the container that uses the old one; remove leaves the role.
PGExporterArgs == <<"create">>

PGExporterCreate == PGExporterArgs

PGExporterEnsure == <<"halt", "rm">> \o PGExporterCreate

PGExporterStart == <<"startup", "discard">> \o Anew(PGExporterCreate)

PGExporterErase == <<"softhalt", "rm">>

PGExporterSetupRole == <<"rotate", "setsecret">>

PGExporterDefaults == <<"merge">>

PGExporterCheckConfig == <<"check">>

PGExporterPrepare ==
  <<"check", "load", "check">> \o PGExporterDefaults \o PGExporterCheckConfig

PGExporterInstall ==
  [prepare  |-> PGExporterPrepare \o <<"choose">>,
   branches |-> <<When({"plain", "running"}, <<"save">>),
                  Otherwise(PGExporterSetupRole \o <<"check", "image">> \o PGExporterEnsure
                              \o <<"save">>)>>]

PGExporterRemove == Lookup \o PGExporterErase \o Forget

PGExporterUp == Lookup \o <<"check">> \o PGExporterStart

PGExporterDown == Lookup \o <<"halt">>

PGExporterReload == Lookup \o <<"needup", "signal">>

PGExporter ==
  Kind(Traits("box", TRUE, FALSE), PGExporterInstall,
       Handlers(PGExporterUp, PGExporterDown, PGExporterRemove, PGExporterReload))

-----------------------------------------------------------------------------
\* A VictoriaMetrics cluster: one container per role of this host; --roles
\* (the flag of this kind) rebuilds. Only the roles of the entry are ever
\* removed.
VMClusterArgs == <<"create">>

VMClusterCreate == <<"rm">> \o VMClusterArgs

VMClusterEnsure == VMClusterCreate \o <<"ownrm2", "create2">>

VMClusterStart ==
  <<"startup", "discard", "recreate", "startup2", "discard2", "recreate2">>

VMClusterStop == <<"softhalt2", "softhalt">>

VMClusterErase == <<"softhalt2", "ownrm2", "softhalt", "rm", "wipedirs">>

VMClusterDefaults == <<"merge">>

VMClusterInstall ==
  [prepare  |-> <<"load", "check">> \o VMClusterDefaults \o <<"check", "choose">>,
   branches |-> <<When({"plain", "exists", "unasked"}, <<"save">>),
                  Otherwise(<<"image">> \o VMClusterEnsure \o <<"save">>)>>]

VMClusterRemove == Lookup \o VMClusterErase \o Forget

VMClusterUp == Lookup \o <<"check">> \o VMClusterStart

VMClusterDown == Lookup \o VMClusterStop

VMCluster ==
  Kind([Traits("none", TRUE, FALSE) EXCEPT !.asks = TRUE], VMClusterInstall,
       Handlers(VMClusterUp, VMClusterDown, VMClusterRemove, <<>>))

-----------------------------------------------------------------------------
\* A VictoriaLogs cluster: a build removes the containers of roles the host
\* has lost, and remove goes through all roles.
VLClusterArgs == <<"create">>

VLClusterCreate == <<"rm">> \o VLClusterArgs

VLClusterEnsure == <<"strayrm2">> \o VLClusterCreate \o <<"ownrm2", "create2">>

VLClusterStart ==
  <<"startup", "discard", "recreate", "startup2", "discard2", "recreate2">>

VLClusterStop == <<"softhalt2", "softhalt">>

VLClusterErase == <<"softhalt2", "rm2", "softhalt", "rm", "wipedirs">>

VLClusterDefaults == <<"merge">>

VLClusterInstall ==
  [prepare  |-> <<"load", "check">> \o VLClusterDefaults \o <<"check", "choose">>,
   branches |-> <<When({"plain", "same", "inSync"}, <<"save">>),
                  Otherwise(<<"image">> \o VLClusterEnsure \o <<"save">>)>>]

VLClusterRemove == Lookup \o VLClusterErase \o Forget

VLClusterUp == Lookup \o <<"check">> \o VLClusterStart

VLClusterDown == Lookup \o VLClusterStop

VLCluster ==
  Kind(Traits("none", TRUE, FALSE), VLClusterInstall,
       Handlers(VLClusterUp, VLClusterDown, VLClusterRemove, <<>>))

=============================================================================
