------------------------------ MODULE MCPorts ------------------------------
EXTENDS Ports

MCEntries == {<<"VictoriaLogs", 1>>, <<"VLCluster", 1>>,
              <<"Etcd", 1>>, <<"Etcd", 2>>, <<"ClickHouse", 1>>, <<"Minio", 1>>,
              <<"ClickHouseKeeper", 1>>, <<"RocketMQ", 1>>}

\* The *_start_port settings are close to each other, as an administrator may
\* set them, so that two entries are enough for two pools to meet.
MCStartPort ==
    [c \in Cursors |-> CASE c \in {"ClickHouseTCP", "VLCluster", "KeeperClient"} -> 2
                         [] c = "Broker" -> 3
                         [] c \in {"Interserver", "KeeperRaft"} -> 5
                         [] OTHER -> 1]
MCOptional == Entries \ {<<"ClickHouse", 1>>}
MCListening == {{}, {3}}
============================================================================
