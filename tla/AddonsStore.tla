----------------------------- MODULE AddonsStore ----------------------------
(***************************************************************************)
(* The programs of the object stores, of redis and of BeeGFS. A program    *)
(* lists the calls of one handler in the order of the code.                *)
(***************************************************************************)
EXTENDS AddonSteps

-----------------------------------------------------------------------------
\* redis: the password is an argument of the server; data outlives the
\* container.
RedisArgs == <<"create">>

RedisCreate == RedisArgs

RedisEnsure == <<"halt", "rm">> \o RedisCreate

RedisStart == <<"startup", "discard">> \o Anew(RedisCreate)

RedisErase == <<"softhalt", "rm", "wipedirs">>

RedisDefaults == <<"merge">>

RedisTopology == <<"check">>

RedisPrepare == <<"load">> \o RedisDefaults \o RedisTopology

RedisInstall ==
  [prepare  |-> RedisPrepare \o <<"choose">>,
   branches |-> Reuse(RedisStart, <<"generate", "image">> \o RedisEnsure, <<"save">>)]

RedisRemove == Lookup \o RedisErase \o Forget

RedisUp == Lookup \o RedisStart

RedisDown == Lookup \o <<"halt">>

Redis ==
  Kind(Traits("box", TRUE, FALSE), RedisInstall,
       Handlers(RedisUp, RedisDown, RedisRemove, <<>>))

-----------------------------------------------------------------------------
\* MinIO: the root password is an environment variable of the container.
MinioCreate == <<"create">>

MinioEnsure == <<"halt", "rm">> \o MinioCreate

MinioStart == <<"startup", "discard">> \o Anew(MinioCreate)

MinioErase == <<"softhalt", "rm", "wipedirs">>

MinioDefaults == <<"merge">>

MinioCert == <<"check">>

MinioPrepare == <<"load", "check">> \o MinioDefaults \o MinioCert

MinioInstall ==
  [prepare  |-> MinioPrepare \o <<"choose">>,
   branches |-> Reuse(MinioStart, <<"generate", "image">> \o MinioEnsure, <<"save">>)]

MinioRemove == Lookup \o MinioErase \o Forget

MinioUp == Lookup \o MinioStart

MinioDown == Lookup \o <<"halt">>

Minio ==
  Kind(Traits("box", TRUE, FALSE), MinioInstall,
       Handlers(MinioUp, MinioDown, MinioRemove, <<>>))

-----------------------------------------------------------------------------
\* Silo, as MinIO.
SiloCreate == <<"create">>

SiloEnsure == <<"halt", "rm">> \o SiloCreate

SiloStart == <<"startup", "discard">> \o Anew(SiloCreate)

SiloErase == <<"softhalt", "rm", "wipedirs">>

SiloDefaults == <<"merge">>

SiloPrepare == <<"load", "check">> \o SiloDefaults \o <<"check">>

SiloInstall ==
  [prepare  |-> SiloPrepare \o <<"choose">>,
   branches |-> Reuse(SiloStart, <<"generate", "image">> \o SiloEnsure, <<"save">>)]

SiloRemove == Lookup \o SiloErase \o Forget

SiloUp == Lookup \o SiloStart

SiloDown == Lookup \o <<"halt">>

Silo ==
  Kind(Traits("box", TRUE, FALSE), SiloInstall,
       Handlers(SiloUp, SiloDown, SiloRemove, <<>>))

-----------------------------------------------------------------------------
\* RustFS, as MinIO.
RustfsCreate == <<"create">>

RustfsEnsure == <<"halt", "rm">> \o RustfsCreate

RustfsStart == <<"startup", "discard">> \o Anew(RustfsCreate)

RustfsErase == <<"softhalt", "rm", "wipedirs">>

RustfsDefaults == <<"merge">>

RustfsPrepare == <<"load", "check">> \o RustfsDefaults \o <<"check">>

RustfsInstall ==
  [prepare  |-> RustfsPrepare \o <<"choose">>,
   branches |-> Reuse(RustfsStart, <<"generate", "image">> \o RustfsEnsure, <<"save">>)]

RustfsRemove == Lookup \o RustfsErase \o Forget

RustfsUp == Lookup \o RustfsStart

RustfsDown == Lookup \o <<"halt">>

Rustfs ==
  Kind(Traits("box", TRUE, FALSE), RustfsInstall,
       Handlers(RustfsUp, RustfsDown, RustfsRemove, <<>>))

-----------------------------------------------------------------------------
\* Garage: createContainer renders garage.toml; the first boot writes the
\* access key into the metadata.
GarageWriteConfig == <<"files">>

GarageCreate == GarageWriteConfig \o <<"create">>

GarageEnsure == <<"halt", "rm">> \o GarageCreate

GarageStart == <<"startup", "discard">> \o Anew(GarageCreate)

GarageErase == <<"softhalt", "rm", "wipedirs", "wipefile">>

GarageDefaults == <<"merge">>

GarageValidate == <<"check">>

GaragePrepare == <<"load">> \o GarageValidate \o GarageDefaults \o <<"check">>

GarageInstall ==
  [prepare  |-> GaragePrepare \o <<"choose">>,
   branches |-> Reuse(GarageStart, <<"generate", "image">> \o GarageEnsure, <<"save">>)]

GarageRemove == Lookup \o GarageErase \o Forget

GarageUp == Lookup \o GarageStart

GarageDown == Lookup \o <<"halt">>

Garage ==
  Kind(Traits("data", TRUE, TRUE), GarageInstall,
       Handlers(GarageUp, GarageDown, GarageRemove, <<>>))

\* A member of a Garage cluster gets no key at boot: the tail of every
\* install connects it, and the last member to join creates the key.
GarageClusterTail == <<"mint", "save">>

GarageCluster ==
  Kind(Traits("late", TRUE, TRUE),
       [prepare  |-> GaragePrepare \o <<"choose">>,
        branches |-> Reuse(GarageStart, <<"image">> \o GarageEnsure,
                           <<"save">> \o GarageClusterTail)],
       Handlers(GarageUp, GarageDown, GarageRemove, <<>>))

-----------------------------------------------------------------------------
\* SeaweedFS: the keys are in s3.json; an install waits for a leader and
\* seeds a bucket after it has saved.
SeaweedfsArgs == <<"create">>

SeaweedfsCreate == <<"files">> \o SeaweedfsArgs

SeaweedfsEnsure == <<"halt", "rm">> \o SeaweedfsCreate

SeaweedfsStart == <<"startup", "discard">> \o Anew(SeaweedfsCreate)

SeaweedfsErase == <<"softhalt", "rm", "wipedirs", "wipefile">>

SeaweedfsDefaults == <<"merge">>

SeaweedfsValidate == <<"check">>

SeaweedfsPrepare ==
  <<"load">> \o SeaweedfsValidate \o SeaweedfsDefaults \o <<"check">>

SeaweedfsInstall ==
  [prepare  |-> SeaweedfsPrepare \o <<"choose">>,
   branches |-> Reuse(SeaweedfsStart, <<"generate", "check", "image">>
                   \o SeaweedfsEnsure, <<"save", "softready", "check">>)]

SeaweedfsRemove == Lookup \o SeaweedfsErase \o Forget

SeaweedfsUp == Lookup \o SeaweedfsStart

SeaweedfsDown == Lookup \o <<"halt">>

Seaweedfs ==
  Kind(Traits("read", TRUE, TRUE), SeaweedfsInstall,
       Handlers(SeaweedfsUp, SeaweedfsDown, SeaweedfsRemove, <<>>))

-----------------------------------------------------------------------------
\* BeeGFS: one container per role, started in dependency order and removed in
\* reverse. createService replaces what exists; startService starts it.
BeeGFSArgs == <<"create">>

BeeGFSCreate == <<"rm">> \o BeeGFSArgs

BeeGFSEnsure ==
  <<"check">> \o BeeGFSCreate \o <<"ready", "ownrm2", "create2", "ready">>

BeeGFSStart ==
  <<"startup", "discard", "recreate", "startup2", "discard2", "recreate2">>

BeeGFSStop == <<"softhalt2", "softhalt">>

BeeGFSErase == <<"softhalt2", "ownrm2", "softhalt", "rm", "wipedirs">>

BeeGFSDefaults == <<"merge">>

BeeGFSPrepare == <<"load", "check">> \o BeeGFSDefaults \o <<"check">>

BeeGFSInstall ==
  [prepare  |-> BeeGFSPrepare \o <<"choose">>,
   branches |-> <<When({"plain", "allUp"}, <<"save">>),
                  When({"plain", "allDown", "exists"}, BeeGFSStart \o <<"save">>),
                  Otherwise(<<"generate", "image">> \o BeeGFSEnsure \o <<"save">>)>>]

BeeGFSCommands ==
  [remove |-> Lookup \o BeeGFSErase \o Forget,
   start  |-> Lookup \o BeeGFSStart,
   stop   |-> Lookup \o BeeGFSStop]

BeeGFS ==
  Kind(Traits("box", TRUE, FALSE), BeeGFSInstall,
       Handlers(BeeGFSCommands.start, BeeGFSCommands.stop, BeeGFSCommands.remove, <<>>))

=============================================================================
