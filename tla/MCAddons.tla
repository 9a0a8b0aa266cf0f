------------------------------ MODULE MCAddons ------------------------------
(***************************************************************************)
(* Addons with every kind of add-on the program has.                       *)
(***************************************************************************)
EXTENDS TLC, AddonsOrder, AddonsProxy, AddonsStore, AddonsService, AddonsMonitor,
        AddonsBroker

AllKinds ==
  {PgBouncer, PgDog, HAProxy, Predixy, Nginx, Postgrest, Redis, Minio, Silo,
   Rustfs, Garage, GarageCluster, Seaweedfs, BeeGFS, Etcd, Gitea, PgAdmin,
   Grafana, DocumentDB, Prometheus, Alertmanager, NodeExporter,
   VictoriaMetrics, VictoriaLogs, Vlagent, Vmalert, PGExporter, VMCluster,
   VLCluster, Kafka, RabbitMQ, RocketMQ, ClickHouse, ClickHouseKeeper,
   InfluxDB, Influx2TSDB}

RoleKinds == {VLCluster}

\* The kind with the fewest steps, for commands that overlap.
PairKinds == {NodeExporter}

\* No kind changes its roles.
NoKinds == {}

\* Neither the names nor the commands are told apart.
Alike == Permutations(Names) \cup Permutations(Procs)

\* Once an update may have been lost, nothing more is claimed of pg.yaml.
Careful == ~lossy
=============================================================================
