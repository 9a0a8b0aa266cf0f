---------------------------- MODULE AddonsBroker ----------------------------
(***************************************************************************)
(* The programs of the brokers and the analytical stores: Kafka, RabbitMQ, *)
(* RocketMQ, ClickHouse and its Keeper, InfluxDB and the InfluxDB front of *)
(* TimescaleDB. Their managers share one shape: a recorded add-on is left  *)
(* alone without --force, the entry is saved before the container is made, *)
(* and the data is deleted last.                                           *)
(***************************************************************************)
EXTENDS AddonSteps

-----------------------------------------------------------------------------
\* Kafka: the cluster id is formatted into the data at the first start; a
\* later install adopts it, and every start checks it again.
KafkaCheckMeta == <<"fit">>

KafkaAdoptMeta == <<"adopt">>

KafkaCheckConfig == <<"check">>

KafkaIdentity == KafkaAdoptMeta \o <<"generate">> \o KafkaCheckConfig

KafkaRender == <<"files">>

KafkaFiles == KafkaCheckMeta \o KafkaRender

KafkaCreate == <<"create">>

KafkaReady == <<"ready">>

KafkaEnsure == KafkaFiles \o <<"rm", "image">> \o KafkaCreate \o KafkaReady

KafkaStart ==
  KafkaFiles \o <<"startup", "discard", "image">> \o Anew(KafkaCreate) \o KafkaReady

KafkaErase == <<"rm">>

KafkaClean == <<"hardwipe", "wipefile">>

KafkaDefaults == <<"merge">>

KafkaMerge == KafkaDefaults

KafkaValidate == <<"check">>

\* Mutant: the identity is settled after the entry is saved.
KafkaInstallLate ==
  [prepare  |-> <<"check", "load", "check", "choose">>,
   branches |-> <<When({"plain", "recorded"}, <<"check">>),
                  Otherwise(KafkaMerge \o KafkaValidate \o <<"image", "save">>
                              \o KafkaIdentity \o KafkaEnsure)>>]

KafkaInstall ==
  [prepare  |-> <<"check", "load", "check", "choose">>,
   branches |-> <<When({"plain", "recorded"}, <<"check">>),
                  Otherwise(KafkaMerge \o KafkaValidate \o KafkaIdentity
                      \o <<"image", "save">>
                              \o KafkaEnsure)>>]

KafkaRemove == Lookup \o KafkaErase \o Forget \o KafkaClean

KafkaUp == Lookup \o KafkaStart

KafkaDown == Lookup \o <<"halt">>

Kafka ==
  Kind(Traits("data", TRUE, TRUE), KafkaInstall,
       Handlers(KafkaUp, KafkaDown, KafkaRemove, <<>>))

-----------------------------------------------------------------------------
\* RabbitMQ: the administrator is created, or given its password, through the
\* running broker; the password is also in a file of its own, which an
\* install without an entry uses again.
RabbitMQRender == <<"files">>

RabbitMQFiles == RabbitMQRender

RabbitMQAdmin == <<"setsecret">>

RabbitMQArgs == <<"create">>

RabbitMQCreate == RabbitMQArgs

RabbitMQReady == <<"ready">>

RabbitMQEnsure ==
  RabbitMQFiles \o <<"rm", "image">> \o RabbitMQCreate \o RabbitMQReady \o RabbitMQAdmin

RabbitMQStart ==
  RabbitMQFiles \o <<"ifdown", "startup", "discard", "image">> \o Anew(RabbitMQCreate)
    \o RabbitMQReady \o RabbitMQAdmin

RabbitMQErase == <<"rm">>

RabbitMQClean == <<"hardwipe", "wipefile">>

RabbitMQDefaults == <<"merge">>

RabbitMQMerge == RabbitMQDefaults

RabbitMQPassword == <<"recall", "generate">>

RabbitMQValidate == <<"check">>

RabbitMQInstall ==
  [prepare  |-> <<"check", "load", "check", "choose">>,
   branches |-> <<When({"plain", "recorded"}, <<"check">>),
                  Otherwise(RabbitMQMerge \o RabbitMQValidate \o RabbitMQPassword
                              \o <<"check", "secretfile", "save", "image">>
                                  \o RabbitMQEnsure)>>]

RabbitMQRemove == Lookup \o RabbitMQErase \o Forget \o RabbitMQClean

RabbitMQUp == Lookup \o RabbitMQStart

RabbitMQDown == Lookup \o <<"halt">>

RabbitMQ ==
  Kind(Traits("late", TRUE, TRUE), RabbitMQInstall,
       Handlers(RabbitMQUp, RabbitMQDown, RabbitMQRemove, <<>>))

-----------------------------------------------------------------------------
\* RocketMQ: name server first, then broker and proxy; stopped and removed
\* the other way round.
RocketMQRender == <<"files">>

RocketMQFiles == RocketMQRender

RocketMQArgs == <<"create">>

RocketMQEnsure ==
  RocketMQFiles \o <<"image", "rm">> \o RocketMQArgs \o <<"rm2", "create2">>

RocketMQStart ==
  RocketMQFiles
    \o <<"startup", "discard", "image", "recreate", "startup2", "discard2", "recreate2">>

RocketMQStop == <<"halt2", "halt">>

RocketMQErase == <<"rm2", "rm">>

RocketMQClean == <<"hardwipe", "wipefile">>

RocketMQDefaults == <<"merge">>

RocketMQMerge == RocketMQDefaults

RocketMQValidate == <<"check">>

RocketMQReady == <<"ready">>

RocketMQInstall ==
  [prepare  |-> <<"check", "load", "check", "choose">>,
   branches |-> <<When({"plain", "recorded"}, <<"check">>),
                  Otherwise(RocketMQMerge \o RocketMQValidate \o <<"image", "save">>
                              \o RocketMQEnsure \o RocketMQReady)>>]

RocketMQRemove == Lookup \o RocketMQErase \o Forget \o RocketMQClean

RocketMQUp == Lookup \o RocketMQStart \o RocketMQReady

RocketMQDown == Lookup \o RocketMQStop

RocketMQ ==
  Kind(Traits("none", TRUE, TRUE), RocketMQInstall,
       Handlers(RocketMQUp, RocketMQDown, RocketMQRemove, <<>>))

-----------------------------------------------------------------------------
\* ClickHouse: the administrator and its password are in the rendered file;
\* config set rewrites the file, saves, and unless told otherwise restarts a
\* running server.
ClickHouseRender == <<"files">>

ClickHouseFiles == ClickHouseRender

ClickHouseArgs == <<"create">>

ClickHouseCreate == ClickHouseArgs

ClickHouseEnsure ==
  ClickHouseFiles \o <<"rm", "image">> \o ClickHouseCreate \o <<"ready">>

ClickHouseStart ==
  ClickHouseFiles \o <<"startup", "discard", "image">>
    \o Anew(ClickHouseCreate) \o <<"ready">>

ClickHouseErase == <<"rm">>

ClickHouseClean == <<"hardwipe", "wipefile">>

ClickHouseMerge == <<"merge">>

ClickHouseValidate == <<"check">>

ClickHousePassword == <<"recall", "generate">>

ClickHouseCheckConfig == <<"check">>

ClickHouseInstall ==
  [prepare  |-> <<"check", "load", "check", "choose">>,
   branches |-> <<When({"plain", "recorded"}, <<"check">>),
                  Otherwise(ClickHouseMerge \o ClickHouseValidate \o ClickHousePassword
                              \o ClickHouseCheckConfig \o <<"image", "files", "save">>
                                  \o ClickHouseEnsure
                              \o <<"check">>)>>]

ClickHouseRemove == Lookup \o ClickHouseErase \o Forget \o ClickHouseClean

ClickHouseUp == Lookup \o ClickHouseStart

ClickHouseDown == Lookup \o <<"halt">>

ClickHousePersist ==
  <<"check", "files", "save", "ifup", "halt">> \o ClickHouseStart

ClickHouseSet == Lookup \o <<"merge">> \o ClickHousePersist

ClickHouse ==
  Kind(Traits("read", TRUE, TRUE), ClickHouseInstall,
       WithSet(Handlers(ClickHouseUp, ClickHouseDown, ClickHouseRemove,
           <<>>), ClickHouseSet))

-----------------------------------------------------------------------------
\* ClickHouse Keeper, as ClickHouse without a secret.
ClickHouseKeeperRender == <<"files">>

ClickHouseKeeperFiles == ClickHouseKeeperRender

ClickHouseKeeperCreate == <<"create">>

ClickHouseKeeperReady == <<"ready">>

ClickHouseKeeperEnsure ==
  ClickHouseKeeperFiles \o <<"rm", "image">> \o ClickHouseKeeperCreate
      \o ClickHouseKeeperReady

ClickHouseKeeperStart ==
  ClickHouseKeeperFiles \o <<"startup", "discard", "image">>
    \o Anew(ClickHouseKeeperCreate) \o ClickHouseKeeperReady

ClickHouseKeeperErase == <<"rm">>

ClickHouseKeeperClean == <<"hardwipe", "wipefile">>

ClickHouseKeeperMerge == <<"merge">>

ClickHouseKeeperValidate == <<"check">>

ClickHouseKeeperInstall ==
  [prepare  |-> <<"check", "load", "check", "choose">>,
   branches |-> <<When({"plain", "recorded"}, <<"check">>),
                  Otherwise(ClickHouseKeeperMerge \o ClickHouseKeeperValidate
                              \o <<"image", "files", "save">> \o ClickHouseKeeperEnsure)>>]

ClickHouseKeeperRemove ==
  Lookup \o ClickHouseKeeperErase \o Forget \o ClickHouseKeeperClean

ClickHouseKeeperUp == Lookup \o ClickHouseKeeperStart

ClickHouseKeeperDown == Lookup \o <<"halt">>

ClickHouseKeeper ==
  Kind(Traits("none", TRUE, TRUE), ClickHouseKeeperInstall,
       Handlers(ClickHouseKeeperUp, ClickHouseKeeperDown, ClickHouseKeeperRemove, <<>>))

-----------------------------------------------------------------------------
\* InfluxDB: the administrator is created through the running server, and
\* must then be able to log in; a start renders the file only when it is
\* missing.
InfluxDBFiles == <<"keepfile">>

InfluxDBCreate == <<"create">>

InfluxDBEnsure == InfluxDBFiles \o <<"rm">> \o InfluxDBCreate \o <<"ready">>

InfluxDBStart ==
  InfluxDBFiles \o <<"startup", "discard">> \o Anew(InfluxDBCreate) \o <<"ready">>

InfluxDBErase == <<"rm">>

InfluxDBClean == <<"hardwipe", "wipefile">>

InfluxDBBootstrap == <<"bootstrap">>

InfluxDBCheckConfig == <<"check">>

InfluxDBDefaults == <<"merge">>

InfluxDBInstall ==
  [prepare  |-> <<"check", "load", "check", "choose">>,
   branches |-> <<When({"plain", "recorded"}, <<"check">>),
                  Otherwise(InfluxDBDefaults \o <<"generate">> \o InfluxDBCheckConfig
                      \o <<"image", "files", "save">>
                              \o InfluxDBEnsure \o InfluxDBBootstrap)>>]

InfluxDBRemove == Lookup \o InfluxDBErase \o Forget \o InfluxDBClean

InfluxDBUp == Lookup \o InfluxDBStart

InfluxDBDown == Lookup \o <<"halt">>

InfluxDBPersist == <<"files", "save", "ifup", "halt">> \o InfluxDBStart

InfluxDBSet == Lookup \o <<"merge">> \o InfluxDBPersist

InfluxDB ==
  Kind(Traits("late", TRUE, TRUE), InfluxDBInstall,
       WithSet(Handlers(InfluxDBUp, InfluxDBDown, InfluxDBRemove, <<>>), InfluxDBSet))

-----------------------------------------------------------------------------
\* influx2tsdb: no data, no file and no secret of its own; a stopped
\* container is always replaced.
Influx2TSDBReplace == <<"rm", "create", "ready">>

Influx2TSDBStart == <<"look", "discard", "recreate", "ready">>

Influx2TSDBErase == <<"rm">>

Influx2TSDBCheckConfig == <<"check">>

Influx2TSDBDefaults == <<"merge">>

Influx2TSDBInstall ==
  [prepare  |-> <<"check", "load", "check", "choose">>,
   branches |-> <<When({"plain", "recorded"}, <<"check">>),
                  Otherwise(Influx2TSDBDefaults \o Influx2TSDBCheckConfig
                      \o <<"image", "save">> \o Influx2TSDBReplace)>>]

Influx2TSDBRemove == Lookup \o Influx2TSDBErase \o Forget

Influx2TSDBUp == Lookup \o Influx2TSDBStart

Influx2TSDBDown == Lookup \o <<"halt">>

Influx2TSDB ==
  Kind(Traits("none", FALSE, FALSE), Influx2TSDBInstall,
       Handlers(Influx2TSDBUp, Influx2TSDBDown, Influx2TSDBRemove, <<>>))

=============================================================================
