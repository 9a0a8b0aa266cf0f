------------------------------- MODULE Ports -------------------------------
(***************************************************************************)
(* Host ports in pg.yaml (internal/config/config.go, autoAssignPorts).     *)
(*                                                                         *)
(* Every entry of pg.yaml (an instance, an HA member, an add-on) keeps its *)
(* host ports in the file; 0 is a port that is still to be chosen.  Each   *)
(* Load, and each ApplyDefaults of a command that changed the config in    *)
(* memory, walks the entries kind by kind and gives the unset ports the    *)
(* next free number of their pool: at least the pool's cursor, not         *)
(* listened on when `ss` was asked, and not set in the entries that the    *)
(* pool looks at.  A port of another pool, of a stopped container, is only *)
(* safe when that pool is among them.                                      *)
(***************************************************************************)
EXTENDS Integers, Sequences, FiniteSets

CONSTANTS
    Entries,     \* <<kind, name>>; names are numbers in the order of the walk ("default" first)
    StartPort,   \* cursor -> first port: the *_start_port settings
    Optional,    \* entries that have their optional listeners (TLS, split mode, ...)
    Away,        \* entries the walk leaves out (remote member, clustered RocketMQ)
    PinPorts,    \* ports an administrator gives on the command line
    Listening,   \* the sets of ports `ss` may report
    MaxPort,     \* bound on the ports that are drawn (65535)
    MaxEntries   \* bound on the entries of the file

\* The port fields of each kind of entry.
AllFields ==
    [Instance        |-> {"HostPort", "SSHPort", "PgBouncer", "Postgrest"},
     PgBouncer       |-> {"HostPort"},
     Postgrest       |-> {"HostPort"},
     Etcd            |-> {"ClientPort", "PeerPort"},
     PgDog           |-> {"HostPort", "OpenmetricsPort"},
     Patroni         |-> {"HostPort", "RestapiPort", "SSHPort"},
     HAProxy         |-> {"WritePort", "ReadPort", "StatsPort"},
     ClickHouse      |-> {"HTTPPort", "TCPPort", "InterserverPort"},
     ClickHouseKeeper |-> {"ClientPort", "RaftPort"},
     Kafka           |-> {"BrokerPort", "ControllerPort", "TLSPort"},
     RabbitMQ        |-> {"AMQPPort", "ManagementPort", "EPMDPort", "DistPort",
                          "AMQPTLSPort", "ManagementTLSPort"},
     RocketMQ        |-> {"NamesrvPort", "BrokerPort", "ProxyPort", "GRPCPort",
                          "ControllerPort"},
     Minio           |-> {"APIPort", "ConsolePort"},
     Silo            |-> {"APIPort", "ConsolePort"},
     Rustfs          |-> {"APIPort", "ConsolePort"},
     Redis           |-> {"Port"},
     Predixy         |-> {"Port"},
     PgAdmin         |-> {"HostPort"},
     Grafana         |-> {"HostPort"},
     Prometheus      |-> {"HostPort"},
     VictoriaMetrics |-> {"HostPort"},
     NodeExporter    |-> {"HostPort"},
     PGExporter      |-> {"HostPort"},
     DocumentDB      |-> {"HostPort"},
     VictoriaLogs    |-> {"HostPort"},
     Vlagent         |-> {"HostPort"},
     Vmalert         |-> {"HostPort"},
     InfluxDB        |-> {"HostPort", "RPCPort"},
     Influx2TSDB     |-> {"Port"},
     Alertmanager    |-> {"HostPort"},
     VMCluster       |-> {"InsertPort", "SelectPort", "StoragePort",
                          "InternalInsertPort", "InternalSelectPort"},
     VLCluster       |-> {"InsertPort", "SelectPort", "StoragePort"},
     Gitea           |-> {"HostPort", "SSHPort"},
     Nginx           |-> {"HTTPPort", "HTTPSPort"},
     Garage          |-> {"APIPort", "RPCPort", "WebPort", "AdminPort"},
     Seaweedfs       |-> {"Port", "VolumePort", "FilerPort", "S3Port"}]

Slots == UNION {{<<e[1], e[2], f>> : f \in AllFields[e[1]]} : e \in Entries}
Family(s) == <<s[1], s[3]>>
Of(ks) == UNION {{k} \X AllFields[k] : k \in ks}

ASSUME PortsAssumption ==
    /\ Entries \subseteq (DOMAIN AllFields) \X (Nat \ {0}) /\ IsFiniteSet(Entries)
    /\ Optional \subseteq Entries /\ Away \subseteq Entries
    /\ PinPorts \subseteq Nat \ {0}
    /\ \A used \in Listening : used \subseteq Nat
    /\ MaxPort \in Nat /\ MaxEntries \in Nat

-----------------------------------------------------------------------------
(* What a visit of an entry does, port by port.  A step draws the ports in  *)
(* `sets` (field -> offset from the first one) when the ports in `when` are *)
(* unset, or right after `lead` was drawn; otherwise the cursor moves past  *)
(* the port of `head` by `bump` (0: it stays).  `marks` are the families of *)
(* ports whose values the draw avoids.                                      *)

One(f, cursor, marks) ==
    [head |-> f, sets |-> [x \in {f} |-> 0], when |-> {f}, lead |-> "none",
     opt |-> FALSE, fixed |-> FALSE, cur |-> cursor, marks |-> marks, bump |-> 1]

OnlyIf(step) == [step EXCEPT !.opt = TRUE]
Still(step) == [step EXCEPT !.bump = 0]
After(lead, step) == [step EXCEPT !.lead = lead]
Fixed(f, cursor) == [One(f, cursor, {}) EXCEPT !.fixed = TRUE, !.bump = 0]
Block(fs, when, bump, cursor, marks) ==
    [One(fs[1], cursor, marks) EXCEPT !.when = when, !.bump = bump,
         !.sets = [f \in {fs[i] : i \in DOMAIN fs} |->
                     (CHOOSE i \in DOMAIN fs : fs[i] = f) - 1]]

Walk(kind, steps) == [kind |-> kind, sorted |-> TRUE, away |-> FALSE, steps |-> steps]
InMapOrder(row) == [row EXCEPT !.sorted = FALSE]
ForAway(row) == [row EXCEPT !.away = TRUE]

-----------------------------------------------------------------------------
(* The pools, in the order of the code *)

\* Fixed ports of a clustered ClickHouse, of Keeper and of a clustered RocketMQ.
ClickHouseFixed == Walk("ClickHouse", <<OnlyIf(Fixed("InterserverPort", "Interserver"))>>)
KeeperFixed == Walk("ClickHouseKeeper",
    <<Fixed("ClientPort", "KeeperClient"), Fixed("RaftPort", "KeeperRaft")>>)

\* An instance's own port, its SSH port and those of its nested add-ons.  The
\* last two share cursor and reservations with the top-level add-ons.
PgBouncerMarks == {<<"Instance", "PgBouncer">>, <<"PgBouncer", "HostPort">>}
PostgrestMarks == {<<"Instance", "Postgrest">>, <<"Postgrest", "HostPort">>}
InstanceWalk == Walk("Instance",
    <<One("HostPort", "PG", {<<"Instance", "HostPort">>}),
      One("SSHPort", "SSH", {<<"Instance", "SSHPort">>}),
      OnlyIf(One("PgBouncer", "PgBouncer", PgBouncerMarks)),
      OnlyIf(One("Postgrest", "Postgrest", PostgrestMarks))>>)
PgBouncerWalk == InMapOrder(Walk("PgBouncer", <<One("HostPort", "PgBouncer", PgBouncerMarks)>>))
PostgrestWalk == InMapOrder(Walk("Postgrest", <<One("HostPort", "Postgrest", PostgrestMarks)>>))

\* Pairs: the second port is drawn with the first one, whatever it was.
EtcdWalk == InMapOrder(Walk("Etcd",
    <<One("ClientPort", "Etcd", Of({"Etcd"})),
      After("ClientPort", One("PeerPort", "Etcd", Of({"Etcd"})))>>))
PgDogWalk == InMapOrder(Walk("PgDog",
    <<One("HostPort", "PgDog", Of({"PgDog"})),
      After("HostPort", One("OpenmetricsPort", "PgDog", Of({"PgDog"})))>>))

\* Three independent pools for the HA members on this host.
PatroniWalk == Walk("Patroni",
    <<One("HostPort", "PatroniPG", {<<"Patroni", "HostPort">>}),
      One("RestapiPort", "PatroniRest", {<<"Patroni", "RestapiPort">>}),
      One("SSHPort", "PatroniSSH", {<<"Patroni", "SSHPort">>})>>)

HAProxyWalk == Walk("HAProxy",
    <<One("WritePort", "HAProxy", Of({"HAProxy"})),
      OnlyIf(One("ReadPort", "HAProxy", Of({"HAProxy"}))),
      One("StatsPort", "HAProxy", Of({"HAProxy"}))>>)

ClickHouseReserved == Of({"ClickHouse", "ClickHouseKeeper"})
DrawnClickHouse == {<<"ClickHouse", "HTTPPort">>, <<"ClickHouse", "TCPPort">>}
ObjectStores == {"Minio", "Silo", "Rustfs"}
ClickHouseMarks ==
    ClickHouseReserved \cup Of({"InfluxDB", "Influx2TSDB", "Kafka"} \cup ObjectStores)
ClickHouseWalk == Walk("ClickHouse",
    <<One("HTTPPort", "ClickHouseHTTP", ClickHouseMarks),
      One("TCPPort", "ClickHouseTCP", ClickHouseMarks)>>)

KafkaMarks ==
    ClickHouseReserved \cup
    Of({"Kafka", "InfluxDB", "Influx2TSDB", "Prometheus", "Alertmanager"} \cup ObjectStores)
KafkaWalk == Walk("Kafka",
    <<One("BrokerPort", "KafkaBroker", KafkaMarks),
      One("ControllerPort", "KafkaController", KafkaMarks),
      OnlyIf(One("TLSPort", "KafkaTLS", KafkaMarks))>>)

RabbitMQWalk == Walk("RabbitMQ",
    <<One("AMQPPort", "RabbitMQ", Of({"RabbitMQ"})),
      One("ManagementPort", "RabbitMQMgmt", Of({"RabbitMQ"})),
      One("EPMDPort", "RabbitMQEPMD", Of({"RabbitMQ"})),
      One("DistPort", "RabbitMQDist", Of({"RabbitMQ"})),
      OnlyIf(One("AMQPTLSPort", "RabbitMQTLS", Of({"RabbitMQ"}))),
      OnlyIf(One("ManagementTLSPort", "RabbitMQMgmtTLS", Of({"RabbitMQ"})))>>)

\* Standalone RocketMQ draws from the ports that a clustered one is fixed on.
RocketMQBase == [NamesrvPort |-> "Namesrv", BrokerPort |-> "Broker", ProxyPort |-> "Proxy",
                 GRPCPort |-> "GRPC", ControllerPort |-> "Controller"]
RocketMQFixed == ForAway(Walk("RocketMQ",
    [i \in 1..5 |-> LET f == <<"NamesrvPort", "BrokerPort", "ProxyPort", "GRPCPort", "ControllerPort">>[i]
                    IN  Fixed(f, RocketMQBase[f])]))
RocketMQWalk == Walk("RocketMQ",
    [i \in 1..4 |-> LET f == <<"NamesrvPort", "BrokerPort", "ProxyPort", "GRPCPort">>[i]
                    IN  One(f, RocketMQBase[f], Of({"RocketMQ"}))])

\* MinIO, silo and rustfs draw from one cursor, one table after the other.
ObjectMarks == Of(ObjectStores) \cup ClickHouseReserved \cup Of({"Kafka"})
ObjectWalk(kind) == Walk(kind,
    <<One("APIPort", "Minio", ObjectMarks), One("ConsolePort", "Minio", ObjectMarks)>>)

\* A pool of its own with one port for each entry.
Single(kind, f, marks) == Walk(kind, <<One(f, kind, marks)>>)
RedisWalk == Single("Redis", "Port", Of({"Redis"}))
PredixyWalk == Single("Predixy", "Port", Of({"Predixy"}))
PgAdminWalk == Single("PgAdmin", "HostPort", Of({"PgAdmin"}))
GrafanaWalk == Single("Grafana", "HostPort", Of({"Grafana"}))
PrometheusWalk == Single("Prometheus", "HostPort", Of({"Prometheus", "Kafka"}))
VictoriaMetricsWalk == Single("VictoriaMetrics", "HostPort", Of({"VictoriaMetrics"}))
NodeExporterWalk == Single("NodeExporter", "HostPort", Of({"NodeExporter"}))
PGExporterWalk == Single("PGExporter", "HostPort", Of({"PGExporter"}))
DocumentDBWalk == Single("DocumentDB", "HostPort", Of({"DocumentDB"}))
VictoriaLogsWalk == Single("VictoriaLogs", "HostPort", Of({"VictoriaLogs", "VLCluster"}))
VlagentWalk == Single("Vlagent", "HostPort", Of({"Vlagent", "VLCluster"}))
VmalertWalk == Single("Vmalert", "HostPort", Of({"Vmalert"}))
AlertmanagerWalk == Single("Alertmanager", "HostPort", Of({"Alertmanager", "Kafka"}))

InfluxDBMarks == Of({"InfluxDB"}) \cup ClickHouseReserved
InfluxDBWalk == Walk("InfluxDB",
    <<One("HostPort", "InfluxDB", InfluxDBMarks), One("RPCPort", "InfluxDBRPC", InfluxDBMarks)>>)
Influx2TSDBWalk ==
    Single("Influx2TSDB", "Port", Of({"InfluxDB", "Influx2TSDB"}) \cup ClickHouseReserved)

\* Five consecutive ports, whenever the first one is unset.
VMClusterWalk == Walk("VMCluster",
    <<Block(<<"InsertPort", "SelectPort", "StoragePort", "InternalInsertPort",
              "InternalSelectPort">>, {"InsertPort"}, 5, "VMCluster", Of({"VMCluster"}))>>)

\* Three consecutive ports, or the missing ones when some are set.
VLClusterMarks == Of({"VLCluster", "VictoriaLogs", "Vlagent"})
VLClusterFields == <<"InsertPort", "SelectPort", "StoragePort">>
VLClusterOne(i) == One(VLClusterFields[i], "VLCluster", VLClusterMarks)
VLClusterWalk == Walk("VLCluster",
    <<Block(VLClusterFields, AllFields["VLCluster"], 0, "VLCluster", VLClusterMarks),
      Still(VLClusterOne(1)), Still(VLClusterOne(2)), Still(VLClusterOne(3)),
      VLClusterOne(1), VLClusterOne(2), VLClusterOne(3)>>)

GiteaWalk == Walk("Gitea", <<One("HostPort", "Gitea", {<<"Gitea", "HostPort">>})>>)
GiteaSSHWalk == Walk("Gitea", <<One("SSHPort", "GiteaSSH", {<<"Gitea", "SSHPort">>})>>)

NginxWalk == Walk("Nginx",
    <<One("HTTPPort", "Nginx", Of({"Nginx"})), OnlyIf(One("HTTPSPort", "Nginx", Of({"Nginx"})))>>)
GarageWalk == Walk("Garage",
    <<One("APIPort", "Garage", Of({"Garage"})), One("RPCPort", "Garage", Of({"Garage"})),
      One("WebPort", "Garage", Of({"Garage"})), One("AdminPort", "Garage", Of({"Garage"}))>>)
SeaweedfsWalk == Walk("Seaweedfs",
    <<One("Port", "Seaweedfs", Of({"Seaweedfs"})), One("VolumePort", "Seaweedfs", Of({"Seaweedfs"})),
      One("FilerPort", "Seaweedfs", Of({"Seaweedfs"})), One("S3Port", "Seaweedfs", Of({"Seaweedfs"}))>>)

Rows ==
    <<ClickHouseFixed, KeeperFixed, InstanceWalk, PgBouncerWalk, PostgrestWalk, EtcdWalk,
      PgDogWalk, PatroniWalk, HAProxyWalk, ClickHouseWalk, KafkaWalk, RabbitMQWalk,
      RocketMQFixed, RocketMQWalk, ObjectWalk("Minio"), ObjectWalk("Silo"),
      ObjectWalk("Rustfs"), RedisWalk, PredixyWalk, PgAdminWalk, GrafanaWalk,
      PrometheusWalk, VictoriaMetricsWalk, NodeExporterWalk, PGExporterWalk,
      DocumentDBWalk, VictoriaLogsWalk, VlagentWalk, VmalertWalk, InfluxDBWalk,
      Influx2TSDBWalk, AlertmanagerWalk, VMClusterWalk, VLClusterWalk, GiteaWalk,
      GiteaSSHWalk, NginxWalk, GarageWalk, SeaweedfsWalk>>

Cursors == UNION {{Rows[r].steps[i].cur : i \in 1..Len(Rows[r].steps)} : r \in 1..Len(Rows)}

\* The broker's VIP port is two below its own.
ASSUME StartPortAssumption == StartPort \in [Cursors -> Nat \ {0}] /\ StartPort["Broker"] > 2

-----------------------------------------------------------------------------
(* State *)

VARIABLES
    file,   \* pg.yaml: the entries and their ports
    cmd     \* the command that runs, with its copy of the config

vars == <<file, cmd>>

NoVisit == <<0, 0>>
NoEntry == <<"none", 0>>
NoPorts == [s \in Slots |-> 0]
EntryAt(v) == <<Rows[v[1]].kind, v[2]>>
Visits == {v \in (1..Len(Rows)) \X {e[2] : e \in Entries} : EntryAt(v) \in Entries}

Idle == cmd.pc = "idle"
NoCommand ==
    [pc |-> "idle", op |-> "none", entry |-> NoEntry, pins |-> NoPorts, on |-> {}, port |-> NoPorts,
     old |-> NoPorts, used |-> {}, todo |-> {}, at |-> NoVisit, step |-> 0,
     cur |-> StartPort, fresh |-> {}]

\* Ports that an entry takes besides the one in the file: the gRPC ports of
\* SeaweedFS and the VIP and HA ports of a RocketMQ broker.
Occupies(fam, p) ==
    CASE fam[1] = "Seaweedfs"                 -> {p, p + 10000}
      [] fam = <<"RocketMQ", "BrokerPort">>   -> {p - 2, p, p + 1}
      [] OTHER                                -> {p}

\* The ports a draw looks up in what `ss` reported.
Probes(fam, p) == IF fam[1] = "Seaweedfs" THEN {p} ELSE Occupies(fam, p)

\* The `assigned` map of a pool: what was set when the walk came to it, and
\* what was drawn since.
Held(s) == {cmd.port[s], cmd.old[s]} \ {0}
AssignedUnseeded(marks, x) ==
    \E s \in Slots : /\ Family(s) \in marks \ Of({"VictoriaLogs"})
                     /\ \E v \in Held(s) : x \in Occupies(Family(s), v)
Assigned(marks, x) ==
    \E s \in Slots : Family(s) \in marks /\ \E v \in Held(s) : x \in Occupies(Family(s), v)

-----------------------------------------------------------------------------
(* Validate: called by some of the install commands before they touch the   *)
(* host, and by no other command                                            *)

\* The ports on which the container of an entry listens.
OptionalFields ==
    {<<"Instance", "PgBouncer">>, <<"Instance", "Postgrest">>, <<"HAProxy", "ReadPort">>,
     <<"ClickHouse", "InterserverPort">>, <<"Kafka", "TLSPort">>, <<"RabbitMQ", "AMQPTLSPort">>,
     <<"RabbitMQ", "ManagementTLSPort">>, <<"Nginx", "HTTPSPort">>}
Listeners(e) ==
    {s \in Slots : /\ <<s[1], s[2]>> = e
                   /\ e \in Away => s[1] = "RocketMQ"
                   /\ Family(s) \in OptionalFields => e \in Optional
                   /\ Family(s) = <<"RocketMQ", "ControllerPort">> => e \in Away}

Validating == {"ClickHouse", "ClickHouseKeeper", "DocumentDB", "Influx2TSDB", "InfluxDB",
               "Kafka", "PGExporter", "RabbitMQ", "RocketMQ"}

\* Ports that Validate wants to be distinct, those of one kind and Keeper's.
DistinctGroups ==
    {Of({k}) : k \in {"DocumentDB", "InfluxDB", "Influx2TSDB", "RabbitMQ", "RocketMQ"}}
    \cup {Of({"ClickHouseKeeper", "ClickHouse"}), Of({"ClickHouseKeeper", "Kafka"})}

Distinct(port, s, t) ==
    \/ s = t \/ port[s] = 0 \/ port[t] = 0
    \/ Occupies(Family(s), port[s]) \cap Occupies(Family(t), port[t]) = {}
    \/ ~\E D \in DistinctGroups : Family(s) \in D /\ Family(t) \in D

\* What Validate says of the ports; its other checks are errors like any other.
Validate(on, port) ==
    LET listeners == UNION {Listeners(e) : e \in {d \in on : d[1] \in Validating}}
        clustered == {e \in on \cap Away : e[1] = "RocketMQ"}
    IN  /\ \A s \in listeners :
              /\ s[1] \notin {"InfluxDB", "PGExporter"} => port[s] # 0
              /\ port[s] # 0 => Occupies(Family(s), port[s]) \subseteq Nat \ {0}
        /\ {w \in listeners \X listeners : ~Distinct(port, w[1], w[2])} = {}
        /\ \A s \in Slots \ listeners :
              <<s[1], s[2]>> \in on /\ s[1] \in {"ClickHouse", "RabbitMQ", "RocketMQ"} => port[s] = 0
        /\ Cardinality(clustered) <= 1
        /\ \A s \in listeners : <<s[1], s[2]>> \in clustered =>
              port[s] = StartPort[RocketMQBase[s[3]]]

-----------------------------------------------------------------------------
(* Promises *)

\* Ports that the code keeps apart by design: every pool in itself, and the
\* pools of which a comment says that neither can steal a port of the other.
Promises ==
    {{<<"Instance", "HostPort">>}, {<<"Instance", "SSHPort">>},
     {<<"Patroni", "HostPort">>}, {<<"Patroni", "RestapiPort">>}, {<<"Patroni", "SSHPort">>},
     {<<"Gitea", "HostPort">>}, {<<"Gitea", "SSHPort">>},
     {<<"Instance", "PgBouncer">>, <<"PgBouncer", "HostPort">>},
     {<<"Instance", "Postgrest">>, <<"Postgrest", "HostPort">>}}
    \cup {Of({k}) : k \in {"Etcd", "PgDog", "HAProxy", "RabbitMQ", "Redis", "Predixy",
                           "PgAdmin", "Grafana", "VictoriaMetrics", "NodeExporter",
                           "PGExporter", "DocumentDB", "Vmalert", "Influx2TSDB",
                           "VMCluster", "Nginx", "Garage", "Seaweedfs"}}
    \cup {Of({"Prometheus", "Kafka"}), Of({"Alertmanager", "Kafka"}),
          Of({"VictoriaLogs", "VLCluster"}), Of({"Vlagent", "VLCluster"})}
    \cup {DrawnClickHouse \cup Of(ks) : ks \in {ObjectStores \cup {"Kafka"}, {"InfluxDB"}, {"Influx2TSDB"}}}

\* Two entries on one port against the promise.
Clash(port, s, t) ==
    /\ s # t /\ port[s] # 0 /\ port[t] # 0
    /\ \E P \in Promises : Family(s) \in P /\ Family(t) \in P
    /\ Occupies(Family(s), port[s]) \cap Occupies(Family(t), port[t]) # {}
AllApart(port) == {w \in Slots \X Slots : Clash(port, w[1], w[2])} = {}

\* What the table has to say for the promises to be kept: a draw of a promised
\* port avoids every port of the promise, and ports drawn together differ.
\* Nothing here depends on the constants, so TLC settles it for every host.
RowKeeps(kind, step) ==
    /\ \A f \in DOMAIN step.sets : f \in STRING /\ step.sets[f] \in Nat
    /\ Cardinality(DOMAIN step.sets) \in Nat
    /\ step.head \in AllFields[kind] /\ step.bump \in Nat
    /\ \A P \in Promises : \A f \in DOMAIN step.sets :
          <<kind, f>> \in P => ~step.fixed /\ P \subseteq step.marks
    /\ \A f, g \in DOMAIN step.sets :
          f # g => step.sets[f] # step.sets[g] /\ kind \notin {"Seaweedfs", "RocketMQ"}
TableKeepsPromises ==
    \A r \in 1..Len(Rows) :
        /\ Len(Rows[r].steps) \in Nat \ {0}
        /\ \A i \in 1..Len(Rows[r].steps) : RowKeeps(Rows[r].kind, Rows[r].steps[i])

\* The first port of a pair or block, with which the others are drawn.
Lead(kind, f) ==
    CASE kind = "Etcd"      -> "ClientPort"
      [] kind = "PgDog"     -> "HostPort"
      [] kind = "VMCluster" -> "InsertPort"
      [] OTHER              -> f

\* What the table has to say for the walk to be complete and to leave alone what
\* is set: a step sets ports that the entry listens on, when they or the first
\* port of their pair are unset; where Validate looks, it sets one, and a port
\* that is drawn avoids all that Validate compares it with.
RowSets(row, step) ==
    /\ row.away => row.kind = "RocketMQ"
    /\ step.when \subseteq AllFields[row.kind]
    /\ \A f \in DOMAIN step.sets :
          /\ f \in AllFields[row.kind]
          /\ step.opt <=> <<row.kind, f>> \in OptionalFields
          /\ <<row.kind, f>> = <<"RocketMQ", "ControllerPort">> => row.away
          /\ <<row.kind, f>> = <<"RocketMQ", "BrokerPort">> => step.cur = "Broker"
          /\ step.lead = "none" => f \in step.when \/ Lead(row.kind, f) \in step.when
          /\ step.lead # "none" => Lead(row.kind, f) = step.lead
          /\ row.kind \in Validating =>
                /\ DOMAIN step.sets = {f} /\ step.when = {f} /\ step.lead = "none"
                /\ step.fixed => \/ row.kind = "ClickHouseKeeper" \/ row.away
                                 \/ row.kind = "ClickHouse" /\ step.opt
                /\ \A D \in DistinctGroups :
                      <<row.kind, f>> \in D /\ ~step.fixed => D \subseteq step.marks
SetsAlone(step, f) == step.lead = "none" /\ step.when = {f} /\ f \in DOMAIN step.sets
TableSetsPorts ==
    /\ \A r \in 1..Len(Rows) :
          \A i \in 1..Len(Rows[r].steps) : RowSets(Rows[r], Rows[r].steps[i])
    /\ \A kind \in DOMAIN AllFields : \A f \in AllFields[kind] :
          /\ Lead(kind, f) \in AllFields[kind]
          /\ \A away \in BOOLEAN :
                /\ away => kind = "RocketMQ"
                /\ <<kind, f>> = <<"RocketMQ", "ControllerPort">> => away
                /\ Lead(kind, f) = f
                => \E r \in 1..Len(Rows) :
                     /\ Rows[r].kind = kind /\ Rows[r].away = away
                     /\ \E i \in 1..Len(Rows[r].steps) : SetsAlone(Rows[r].steps[i], f)

ASSUME TableAssumption == TableKeepsPromises /\ TableSetsPorts

-----------------------------------------------------------------------------
(* The walk of autoAssignPorts *)

\* The config in memory, with fresh cursors; `ss` is asked once.
StartWalk(c, pc, on, port, used) ==
    [c EXCEPT !.pc = pc, !.on = on, !.port = port, !.old = port, !.used = used,
              !.todo = {v \in Visits : /\ EntryAt(v) \in on
                                       /\ Rows[v[1]].away <=> EntryAt(v) \in Away},
              !.at = NoVisit, !.step = 0, !.cur = StartPort, !.fresh = {}]

Walking == cmd.pc \in {"load", "apply"}
Walked == cmd.todo = {} /\ cmd.at = NoVisit

\* Kind by kind; within a kind by name, or as the map is ranged over.
NextEntry ==
    /\ Walking /\ cmd.at = NoVisit
    /\ \E v \in cmd.todo :
          /\ \A w \in cmd.todo : v[1] <= w[1] /\ (Rows[v[1]].sorted /\ w[1] = v[1] => v[2] <= w[2])
          /\ cmd' = [cmd EXCEPT !.at = v, !.step = 1, !.fresh = {}, !.todo = @ \ {v}]
    /\ UNCHANGED file

Row == Rows[cmd.at[1]]
Step == Row.steps[cmd.step]
SlotOf(f) == <<Row.kind, cmd.at[2], f>>
Wanted == Step.opt => <<Row.kind, cmd.at[2]>> \in Optional
UnsetWhole ==
    IF Step.lead = "none" THEN \A f \in AllFields[Row.kind] : cmd.port[SlotOf(f)] = 0
                          ELSE Step.lead \in cmd.fresh
UnsetFirst ==
    IF Step.lead = "none" THEN cmd.port[SlotOf(Step.head)] = 0 ELSE Step.lead \in cmd.fresh
Unset ==
    IF Step.lead = "none" THEN \A f \in Step.when : cmd.port[SlotOf(f)] = 0
                          ELSE Step.lead \in cmd.fresh

\* p and the ports that follow it are neither listened on nor reserved.
FreeItself(p) ==
    \A f \in DOMAIN Step.sets :
        p + Step.sets[f] \notin cmd.used /\ ~Assigned(Step.marks, p + Step.sets[f])
Free(p) ==
    \A f \in DOMAIN Step.sets :
        LET fam == <<Row.kind, f>>
            q   == p + Step.sets[f]
        IN  /\ Probes(fam, q) \cap cmd.used = {}
            /\ \A x \in Occupies(fam, q) : ~Assigned(Step.marks, x)

AdvanceOneMore(c) ==
    IF c.step > Len(Row.steps) THEN [c EXCEPT !.at = NoVisit, !.step = 0]
                               ELSE [c EXCEPT !.step = @ + 1]
Advance(c) ==
    IF c.step = Len(Row.steps) THEN [c EXCEPT !.at = NoVisit, !.step = 0]
                               ELSE [c EXCEPT !.step = @ + 1]

SetPorts(p) ==
    [s \in Slots |-> IF s[1] = Row.kind /\ s[2] = cmd.at[2] /\ s[3] \in DOMAIN Step.sets
                     THEN p + Step.sets[s[3]] ELSE cmd.port[s]]

\* nextFree: the first free port from the cursor on.
Draw ==
    /\ Walking /\ cmd.at # NoVisit
    /\ ~Step.fixed /\ Wanted /\ Unset
    /\ LET c == cmd.cur[Step.cur]
       IN  \E p \in c..MaxPort :
              /\ Free(p) /\ \A q \in c..(p - 1) : ~Free(q)
              /\ cmd' = Advance([cmd EXCEPT !.port = SetPorts(p),
                                            !.cur[Step.cur] = p + Cardinality(DOMAIN Step.sets),
                                            !.fresh = @ \cup DOMAIN Step.sets])
    /\ UNCHANGED file

\* A fixed port is set whoever holds it.
Fix ==
    /\ Walking /\ cmd.at # NoVisit
    /\ Step.fixed /\ Wanted /\ Unset
    /\ cmd' = Advance([cmd EXCEPT !.port = SetPorts(StartPort[Step.cur])])
    /\ UNCHANGED file

\* A port that is set stays; the cursor goes past it.
Pass ==
    /\ Walking /\ cmd.at # NoVisit
    /\ ~(Wanted /\ Unset)
    /\ LET p == cmd.port[SlotOf(Step.head)]
       IN  cmd' = Advance([cmd EXCEPT !.cur[Step.cur] =
                             IF Step.bump > 0 /\ p >= @ THEN p + Step.bump ELSE @])
    /\ UNCHANGED file

-----------------------------------------------------------------------------
(* pg addon install | remove, pg create | destroy, pg ha create ... *)

Load(op, e) ==
    /\ Idle
    /\ op = "remove" => e \in file.on
    /\ \E used \in Listening :
          cmd' = StartWalk([NoCommand EXCEPT !.op = op, !.entry = e], "load", file.on, file.port, used)
    /\ UNCHANGED file

\* The flags go into the entry, new or old, and ApplyDefaults walks again.
\* The administrator does not name a port that a neighbour holds.
ApplyFlags(pins) ==
    /\ cmd.pc = "load" /\ Walked /\ cmd.op = "install"
    /\ Cardinality(cmd.on \cup {cmd.entry}) <= MaxEntries
    /\ LET pinned == [s \in Slots |->
                        IF <<s[1], s[2]>> = cmd.entry /\ s[3] \in DOMAIN pins THEN pins[s[3]] ELSE 0]
           port   == [s \in Slots |-> IF pinned[s] # 0 THEN pinned[s] ELSE cmd.port[s]]
       IN  /\ AllApart(port)
           /\ \E used \in Listening :
                 cmd' = StartWalk([cmd EXCEPT !.pins = pinned], "apply",
                                  cmd.on \cup {cmd.entry}, port, used)
    /\ UNCHANGED file

\* The containers are up (or gone) and the whole config is written.
SaveUnchecked ==
    /\ Walked
    /\ cmd.pc = "apply"
    /\ file' = [on |-> cmd.on, port |-> cmd.port]
    /\ cmd' = NoCommand
Save ==
    /\ Walked
    /\ \/ /\ cmd.pc = "apply"
          /\ cmd.entry[1] \in Validating => Validate(cmd.on, cmd.port)
          /\ file' = [on |-> cmd.on, port |-> cmd.port]
       \/ /\ cmd.pc = "load" /\ cmd.op = "remove"
          /\ file' = [on   |-> cmd.on \ {cmd.entry},
                      port |-> [s \in Slots |-> IF <<s[1], s[2]>> = cmd.entry THEN 0 ELSE cmd.port[s]]]
    /\ cmd' = NoCommand

\* An error before Save, or Ctrl-C, leaves the file as it was.
Fail ==
    /\ ~Idle
    /\ cmd' = NoCommand
    /\ UNCHANGED file

Init ==
    /\ file = [on |-> {}, port |-> NoPorts]
    /\ cmd = NoCommand

Pins == UNION {[F -> PinPorts] : F \in SUBSET AllFields[cmd.entry[1]]}

Next ==
    \/ \E op \in {"install", "remove"}, e \in Entries : Load(op, e)
    \/ NextEntry \/ Draw \/ Fix \/ Pass
    \/ ~Idle /\ \E pins \in Pins : ApplyFlags(pins)
    \/ Save \/ Fail

Spec == Init /\ [][Next]_vars

-----------------------------------------------------------------------------
(* Properties *)

PortMap == [Slots -> Nat]
Command ==
    [pc : {"idle", "load", "apply"}, op : {"none", "install", "remove"},
     entry : Entries \cup {NoEntry}, pins : PortMap, on : SUBSET Entries,
     port : PortMap, old : PortMap, used : SUBSET Nat, todo : SUBSET Visits,
     at : Visits \cup {NoVisit}, step : Nat, cur : [Cursors -> Nat],
     fresh : SUBSET STRING]

TypeOK ==
    /\ file \in [on : SUBSET Entries, port : PortMap]
    /\ cmd \in Command
    /\ ~Idle => cmd.entry \in Entries
    /\ cmd.at # NoVisit => cmd.step \in 1..Len(Rows[cmd.at[1]].steps)

\* "neither side can steal the other's ports" (config.go): the file never has
\* two entries on one port, over any sequence of installs and removals, also
\* when the containers were stopped, `ss` failed, or ports were pinned.
PoolsApart == Idle => AllApart(file.port)

LeadOf(s) == <<s[1], s[2], Lead(s[1], s[3])>>

\* "Explicitly-set ports are respected" (config.go): what is written is what
\* was in the file or was pinned, for every entry, unless it is the second
\* port of a pair whose first one was unset.
Chosen(s) == IF cmd.pins[s] # 0 THEN cmd.pins[s] ELSE file.port[s]
PortsRespected ==
    [][\A s \in Slots :
          /\ file' # file /\ <<s[1], s[2]>> \in file'.on
          /\ Chosen(s) # 0 /\ Chosen(LeadOf(s)) # 0
          => file'.port[s] = Chosen(s)]_vars

\* A saved entry has all its ports, whichever of them were pinned, so that the
\* next Load has nothing to draw for it and every command sees the same ones.
\* The second ports of a pair whose first one was pinned are left out: they
\* stay 0 for good, since only a draw of the first one sets them.
SavedPortsAreSet ==
    Idle => \A e \in file.on : \A s \in Listeners(e) : LeadOf(s) = s => file.port[s] # 0

\* "the configuration is complete" (config.go): what is saved passes Validate,
\* also when the command that saved it did not call it; otherwise a removal or
\* the install of one add-on would make every later install of another fail.
SavedIsValid == Idle => Validate(file.on, file.port)

\* The walk and Validate agree: without pins, Validate refuses no port that the
\* walk has drawn.  Fixed ports (Keeper, clustered ClickHouse and RocketMQ) are
\* what Validate is for: they may be taken.
DrawnPortsAreValid ==
    /\ cmd.pc = "apply" /\ Walked /\ cmd.pins = NoPorts
    /\ cmd.entry[1] # "ClickHouseKeeper"
    /\ cmd.entry[1] = "ClickHouse" => cmd.entry \notin Optional
    /\ cmd.entry[1] = "RocketMQ" => cmd.entry \notin Away
    => Validate(cmd.on, cmd.port)

============================================================================
