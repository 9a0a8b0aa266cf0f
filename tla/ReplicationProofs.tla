------------------------- MODULE ReplicationProofs -------------------------
(***************************************************************************)
(* Proofs about Replication for every set of instances and hosts.          *)
(*                                                                         *)
(* BaseInv holds however pg is used; it gives the types and the action     *)
(* property.  IInv adds what needs discipline from the user: destroy     *)
(* removes the data directory (KeepData = FALSE) and replica drop names no *)
(* replica that is still configured (LooseDrop = FALSE).                   *)
(***************************************************************************)
EXTENDS Replication, TLAPS

(* What a running command knows about the instance it works on.  Only the  *)
(* command of an instance's own host changes the instance's entry and data *)
(* directory, so what one step found still holds at the next.              *)
JobKnows(h) ==
    LET i == job[h].inst
        pc == job[h].pc IN
    pc # "idle" =>
       /\ i \in Inst /\ HostOf[i] = h
       /\ pc # "register" <=> cfg[i].reg
       /\ pc \in {"register", "wipe", "slot", "repointed"} => job[h].tgt \in Inst
       /\ pc = "backup" => cfg[i].of # None
       /\ pc = "boot" => cfg[i].of = None \/ pgdata[i].st # "empty"
       /\ pc = "promoted" => pgdata[i].st # "standby"
       /\ pc \in {"slot", "repointed"} => pgdata[i].st = "empty"

JobsOK == \A h \in Hosts : JobKnows(h)

(* An instance without an entry is nobody's replica.                       *)
AbsentOK == \A i \in Inst : ~cfg[i].reg => cfg[i].of = None

BaseInv == TypeOK /\ JobsOK /\ AbsentOK

(* What --clean-data leaves of a data directory, also when it fails half   *)
(* way: no database.  Nothing else is left of an instance that is being    *)
(* destroyed or has no entry.                                              *)
Removed == {"empty", "debris", "torn"}

GoneOK ==
    /\ \A i \in Inst : ~cfg[i].reg => pgdata[i].st \in Removed
    /\ \A h \in Hosts :
          job[h].pc \in {"dropslot", "unregister"} => pgdata[job[h].inst].st \in Removed

DataOK == GoneOK /\ RolesAgree /\ StandbyKeepsSlot

IInv == BaseInv /\ DataOK

-----------------------------------------------------------------------------
(* Types of the building blocks of the actions. *)

LEMMA GotoType ==
  ASSUME TypeOK, NEW h \in Hosts, NEW pc \in Points, Goto(h, pc)
  PROVE  job' \in [Hosts -> Job]
BY DEF TypeOK, Goto, Job

LEMMA ReturnType ==
  ASSUME TypeOK, NEW h \in Hosts, Return(h)
  PROVE  job' \in [Hosts -> Job]
BY NoneAssumption DEF TypeOK, Return, NoJob, Job, Points

LEMMA RunType ==
  ASSUME TypeOK, NEW h \in Hosts, NEW pc \in Points, NEW i \in Inst,
         NEW t \in Inst \cup {None}, Run(h, pc, i, t)
  PROVE  job' \in [Hosts -> Job]
BY DEF TypeOK, Run, Job

LEMMA ReplacedType ==
  ASSUME TypeOK, NEW i \in Inst, NEW d \in Data
  PROVE  Replaced(i, d) \in [Inst -> Data]
<1>1. ASSUME NEW j \in Inst PROVE [pgdata[j] EXCEPT !.cur = FALSE] \in Data
  BY DEF TypeOK, Data
<1>2. QED
  BY <1>1 DEF TypeOK, Replaced

LEMMA NoDataType == \A s \in States : NoData(s) \in Data
BY DEF NoData, Data

\* A new data directory for i leaves the state of all others alone.
LEMMA ReplacedState ==
  ASSUME TypeOK, NEW i \in Inst, NEW d \in Data, pgdata' = Replaced(i, d)
  PROVE  /\ pgdata'[i] = d
         /\ \A j \in Inst : j # i => pgdata'[j].st = pgdata[j].st
BY DEF TypeOK, Data, Replaced

\* A step of host h that leaves the instances of all other hosts alone, and
\* whose command knows what it has to, preserves BaseInv.
LEMMA BaseStep ==
  ASSUME BaseInv, NEW h \in Hosts, TypeOK',
         \A g \in Hosts : g # h => job'[g] = job[g],
         \A i \in Inst : HostOf[i] # h =>
            cfg'[i] = cfg[i] /\ pgdata'[i].st = pgdata[i].st /\ (i \in up' => i \in up),
         \A i \in Inst : HostOf[i] = h /\ ~cfg'[i].reg => cfg'[i].of = None,
         JobKnows(h)'
  PROVE  BaseInv'
<1>1. ASSUME NEW g \in Hosts, g # h PROVE JobKnows(g)'
  BY <1>1 DEF BaseInv, JobsOK, JobKnows
<1>2. JobsOK'
  BY <1>1 DEF JobsOK
<1>3. AbsentOK'
  BY DEF BaseInv, AbsentOK
<1>4. QED
  BY <1>2, <1>3 DEF BaseInv

-----------------------------------------------------------------------------
(* BaseInv holds initially, and every action preserves it. *)

LEMMA InitBase == Init => BaseInv
BY HostAssumption, NoneAssumption
   DEF Init, BaseInv, TypeOK, JobsOK, JobKnows, AbsentOK,
       Absent, NoData, NoJob, Entry, Data, States, Job, Points

LEMMA NextBase ==
  ASSUME BaseInv, [Next]_vars
  PROVE  BaseInv'
<1> USE HostAssumption, NoneAssumption, FlagsAssumption
<1> USE DEF Idle, At, Serves, Absent, PrimaryEntry, ReplicaEntry, Initialized, Usable,
            Entry, States, Points
<1>0. TypeOK /\ JobsOK /\ AbsentOK
  BY DEF BaseInv
<1>t. \A s \in States : NoData(s) \in Data
  BY NoDataType
<1>1. ASSUME NEW i \in Inst, Create(i) PROVE BaseInv'
  <2> USE <1>0, <1>1 DEF Create
  <2>1. job' \in [Hosts -> Job]
    BY DEF TypeOK
  <2>2. TypeOK'
    BY <2>1 DEF TypeOK
  <2>3. JobKnows(HostOf[i])'
    BY DEF JobKnows, TypeOK
  <2>4. QED
    BY <2>2, <2>3, BaseStep DEF AbsentOK, TypeOK
<1>2. ASSUME NEW i \in Inst, Stop(i) PROVE BaseInv'
  <2> USE <1>0, <1>2 DEF Stop
  <2>1. job' \in [Hosts -> Job]
    BY DEF TypeOK
  <2>2. TypeOK'
    BY <2>1 DEF TypeOK
  <2>3. JobKnows(HostOf[i])'
    BY DEF JobKnows, TypeOK
  <2>4. QED
    BY <2>2, <2>3, BaseStep DEF AbsentOK, TypeOK
<1>3. ASSUME NEW i \in Inst, StartBegin(i) PROVE BaseInv'
  <2> USE <1>0, <1>3 DEF StartBegin
  <2>1. job' \in [Hosts -> Job]
    BY RunType
  <2>2. TypeOK'
    BY <2>1 DEF TypeOK
  <2>3. JobKnows(HostOf[i])'
    BY DEF JobKnows, TypeOK, Run, Job
  <2>4. QED
    BY <2>2, <2>3, BaseStep DEF AbsentOK, TypeOK, Run
<1>4. ASSUME NEW i \in Inst, PromoteBegin(i) PROVE BaseInv'
  <2> USE <1>0, <1>4 DEF PromoteBegin
  <2>1. job' \in [Hosts -> Job]
    BY RunType
  <2>2. TypeOK'
    BY <2>1 DEF TypeOK
  <2>3. JobKnows(HostOf[i])'
    BY DEF JobKnows, TypeOK, Run, Job
  <2>4. QED
    BY <2>2, <2>3, BaseStep DEF AbsentOK, TypeOK, Run
<1>5. ASSUME NEW i \in Inst, DestroyBegin(i) PROVE BaseInv'
  <2> USE <1>0, <1>5 DEF DestroyBegin
  <2>1. job' \in [Hosts -> Job]
    BY RunType
  <2>2. TypeOK'
    BY <2>1 DEF TypeOK
  <2>3. JobKnows(HostOf[i])'
    BY DEF JobKnows, TypeOK, Run, Job
  <2>4. QED
    BY <2>2, <2>3, BaseStep DEF AbsentOK, TypeOK, Run
<1>6. ASSUME NEW i \in Inst, NEW p \in Inst, ReplicaCreateSameHost(i, p) PROVE BaseInv'
  <2> USE <1>0, <1>6 DEF ReplicaCreateSameHost
  <2>1. job' \in [Hosts -> Job]
    BY RunType
  <2>2. TypeOK'
    BY <2>1 DEF TypeOK
  <2>3. JobKnows(HostOf[i])'
    BY DEF JobKnows, TypeOK, Run, Job
  <2>4. QED
    BY <2>2, <2>3, BaseStep DEF AbsentOK, TypeOK, Run
<1>7. ASSUME NEW i \in Inst, NEW p \in Inst, ReplicaCreatePrimary(i, p) PROVE BaseInv'
  <2> USE <1>0, <1>7 DEF ReplicaCreatePrimary
  <2>1. job' \in [Hosts -> Job]
    BY DEF TypeOK
  <2>2. TypeOK'
    BY <2>1 DEF TypeOK
  <2>3. JobKnows(HostOf[p])'
    BY DEF JobKnows, TypeOK
  <2>4. QED
    BY <2>2, <2>3, BaseStep DEF AbsentOK, TypeOK
<1>8. ASSUME NEW i \in Inst, NEW p \in Inst, ReplicaCreateRemote(i, p) PROVE BaseInv'
  <2> USE <1>0, <1>8 DEF ReplicaCreateRemote
  <2>1. job' \in [Hosts -> Job]
    BY RunType
  <2>2. TypeOK'
    BY <2>1 DEF TypeOK
  <2>3. JobKnows(HostOf[i])'
    BY DEF JobKnows, TypeOK, Run, Job
  <2>4. QED
    BY <2>2, <2>3, BaseStep DEF AbsentOK, TypeOK, Run
<1>9. ASSUME NEW i \in Inst, NEW p \in Inst, ReplicaDrop(i, p) PROVE BaseInv'
  <2> USE <1>0, <1>9 DEF ReplicaDrop
  <2>1. job' \in [Hosts -> Job]
    BY DEF TypeOK
  <2>2. TypeOK'
    BY <2>1 DEF TypeOK
  <2>3. JobKnows(HostOf[p])'
    BY DEF JobKnows, TypeOK
  <2>4. QED
    BY <2>2, <2>3, BaseStep DEF AbsentOK, TypeOK
<1>10. ASSUME NEW i \in Inst, NEW p \in Inst, RepointBegin(i, p) PROVE BaseInv'
  <2> USE <1>0, <1>10 DEF RepointBegin
  <2>1. job' \in [Hosts -> Job]
    BY RunType
  <2>2. TypeOK'
    BY <2>1 DEF TypeOK
  <2>3. JobKnows(HostOf[i])'
    BY DEF JobKnows, TypeOK, Run, Job
  <2>4. QED
    BY <2>2, <2>3, BaseStep DEF AbsentOK, TypeOK, Run
<1>11. ASSUME NEW h \in Hosts, EnsureNothing(h) PROVE BaseInv'
  <2> USE <1>0, <1>t, <1>11 DEF EnsureNothing
  <2>i. job[h].inst \in Inst /\ HostOf[job[h].inst] = h
    BY DEF JobsOK, JobKnows
  <2>1. job' \in [Hosts -> Job]
    BY GotoType
  <2>2. TypeOK'
    BY <2>i, <2>1 DEF TypeOK
  <2>3. JobKnows(h)'
    BY <2>i DEF JobsOK, JobKnows, TypeOK, Goto, Job
  <2>4. QED
    BY <2>i, <2>2, <2>3, BaseStep DEF AbsentOK, TypeOK, Goto
<1>12. ASSUME NEW h \in Hosts, EnsureLocal(h) PROVE BaseInv'
  <2> USE <1>0, <1>t, <1>12 DEF EnsureLocal
  <2>i. job[h].inst \in Inst /\ HostOf[job[h].inst] = h
    BY DEF JobsOK, JobKnows
  <2>1. job' \in [Hosts -> Job]
    BY GotoType
  <2>2. TypeOK'
    BY <2>i, <2>1 DEF TypeOK
  <2>3. JobKnows(h)'
    BY <2>i DEF JobsOK, JobKnows, TypeOK, Goto, Job
  <2>4. QED
    BY <2>i, <2>2, <2>3, BaseStep DEF AbsentOK, TypeOK, Goto
<1>13. ASSUME NEW h \in Hosts, EnsureRemote(h) PROVE BaseInv'
  <2> USE <1>0, <1>t, <1>13 DEF EnsureRemote
  <2>i. job[h].inst \in Inst /\ HostOf[job[h].inst] = h
    BY DEF JobsOK, JobKnows
  <2>1. job' \in [Hosts -> Job]
    BY GotoType
  <2>2. TypeOK'
    BY <2>i, <2>1 DEF TypeOK
  <2>3. JobKnows(h)'
    BY <2>i DEF JobsOK, JobKnows, TypeOK, Goto, Job
  <2>4. QED
    BY <2>i, <2>2, <2>3, BaseStep DEF AbsentOK, TypeOK, Goto
<1>14. ASSUME NEW h \in Hosts, EnsureFails(h) PROVE BaseInv'
  <2> USE <1>0, <1>t, <1>14 DEF EnsureFails
  <2>i. job[h].inst \in Inst /\ HostOf[job[h].inst] = h
    BY DEF JobsOK, JobKnows
  <2>1. job' \in [Hosts -> Job]
    BY ReturnType
  <2>2. TypeOK'
    BY <2>i, <2>1 DEF TypeOK
  <2>3. JobKnows(h)'
    BY DEF JobKnows, TypeOK, Return, NoJob
  <2>4. QED
    BY <2>i, <2>2, <2>3, BaseStep DEF AbsentOK, TypeOK, Return
<1>15. ASSUME NEW h \in Hosts, Backup(h) PROVE BaseInv'
  <2> DEFINE i == job[h].inst
  <2> DEFINE d == [st |-> "standby", src |-> cfg[job[h].inst].of, cur |-> TRUE]
  <2>f. /\ cfg' = cfg /\ Goto(h, "boot") /\ job[h].pc # "idle" /\ job[h].pc # "register"
        /\ up' \subseteq up /\ slots' \in [Inst -> SUBSET Inst] /\ pgdata' = Replaced(i, d)
    BY <1>0, <1>15 DEF Backup, TypeOK
  <2>i. i \in Inst /\ HostOf[i] = h /\ cfg[i].reg
    BY <1>0, <1>15 DEF Backup, JobsOK, JobKnows
  <2>d. d \in Data /\ d.st = "standby"
    BY <1>0, <1>t, <2>i DEF TypeOK, Data
  <2> HIDE DEF d
  <2>1. job' \in [Hosts -> Job]
    BY <1>0, <2>f, GotoType
  <2>2. pgdata' \in [Inst -> Data]
    BY <1>0, <2>f, <2>i, <2>d, ReplacedType
  <2>3. pgdata'[i] = d /\ \A j \in Inst : j # i => pgdata'[j].st = pgdata[j].st
    BY <1>0, <2>f, <2>i, <2>d, ReplacedState
  <2>4. TypeOK'
    BY <1>0, <2>f, <2>1, <2>2 DEF TypeOK
  <2>5. job'[h].pc = "boot" /\ job'[h].inst = i /\ job'[h].tgt = job[h].tgt
    BY <1>0, <2>f DEF Goto, TypeOK, Job
  <2>6. JobKnows(h)'
    BY <2>f, <2>i, <2>d, <2>3, <2>5 DEF JobKnows
  <2>7. QED
    BY <1>0, <2>f, <2>i, <2>3, <2>4, <2>6, BaseStep DEF AbsentOK, TypeOK, Goto
<1>16. ASSUME NEW h \in Hosts, BackupFails(h) PROVE BaseInv'
  <2> USE <1>0, <1>t, <1>16 DEF BackupFails
  <2>i. job[h].inst \in Inst /\ HostOf[job[h].inst] = h
    BY DEF JobsOK, JobKnows
  <2>1. job' \in [Hosts -> Job]
    BY ReturnType
  <2>d. PICK d \in Data : pgdata' = Replaced(job[h].inst, d)
    BY <2>i, <1>t DEF TypeOK, Data
  <2>r. pgdata' \in [Inst -> Data]
    BY <1>0, <2>i, <2>d, ReplacedType
  <2>s. /\ pgdata'[job[h].inst] = d
        /\ \A j \in Inst : j # job[h].inst => pgdata'[j].st = pgdata[j].st
    BY <1>0, <2>i, <2>d, ReplacedState
  <2>2. TypeOK'
    BY <2>i, <2>1, <2>r DEF TypeOK
  <2>3. JobKnows(h)'
    BY DEF JobKnows, TypeOK, Return, NoJob
  <2>4. QED
    BY <2>i, <2>2, <2>3, <2>s, BaseStep DEF AbsentOK, TypeOK, Return
<1>17. ASSUME NEW h \in Hosts, BackupCrashes(h) PROVE BaseInv'
  <2> USE <1>0, <1>t, <1>17 DEF BackupCrashes
  <2>i. job[h].inst \in Inst /\ HostOf[job[h].inst] = h
    BY DEF JobsOK, JobKnows
  <2>1. job' \in [Hosts -> Job]
    BY ReturnType
  <2>d. PICK d \in Data : pgdata' = Replaced(job[h].inst, d)
    BY <2>i, <1>t DEF TypeOK, Data
  <2>r. pgdata' \in [Inst -> Data]
    BY <1>0, <2>i, <2>d, ReplacedType
  <2>s. /\ pgdata'[job[h].inst] = d
        /\ \A j \in Inst : j # job[h].inst => pgdata'[j].st = pgdata[j].st
    BY <1>0, <2>i, <2>d, ReplacedState
  <2>2. TypeOK'
    BY <2>i, <2>1, <2>r DEF TypeOK
  <2>3. JobKnows(h)'
    BY DEF JobKnows, TypeOK, Return, NoJob
  <2>4. QED
    BY <2>i, <2>2, <2>3, <2>s, BaseStep DEF AbsentOK, TypeOK, Return
<1>18. ASSUME NEW h \in Hosts, BootUsable(h) PROVE BaseInv'
  <2> USE <1>0, <1>t, <1>18 DEF BootUsable
  <2>i. job[h].inst \in Inst /\ HostOf[job[h].inst] = h
    BY DEF JobsOK, JobKnows
  <2>1. job' \in [Hosts -> Job]
    BY ReturnType
  <2>2. TypeOK'
    BY <2>i, <2>1 DEF TypeOK
  <2>3. JobKnows(h)'
    BY DEF JobKnows, TypeOK, Return, NoJob
  <2>4. QED
    BY <2>i, <2>2, <2>3, BaseStep DEF AbsentOK, TypeOK, Return
<1>19. ASSUME NEW h \in Hosts, BootInitdb(h) PROVE BaseInv'
  <2> USE <1>0, <1>t, <1>19 DEF BootInitdb
  <2>i. job[h].inst \in Inst /\ HostOf[job[h].inst] = h
    BY DEF JobsOK, JobKnows
  <2>1. job' \in [Hosts -> Job]
    BY ReturnType
  <2>d. PICK d \in Data : pgdata' = Replaced(job[h].inst, d)
    BY <2>i, <1>t DEF TypeOK, Data
  <2>r. pgdata' \in [Inst -> Data]
    BY <1>0, <2>i, <2>d, ReplacedType
  <2>s. /\ pgdata'[job[h].inst] = d
        /\ \A j \in Inst : j # job[h].inst => pgdata'[j].st = pgdata[j].st
    BY <1>0, <2>i, <2>d, ReplacedState
  <2>2. TypeOK'
    BY <2>i, <2>1, <2>r DEF TypeOK
  <2>3. JobKnows(h)'
    BY DEF JobKnows, TypeOK, Return, NoJob
  <2>4. QED
    BY <2>i, <2>2, <2>3, <2>s, BaseStep DEF AbsentOK, TypeOK, Return
<1>20. ASSUME NEW h \in Hosts, BootFails(h) PROVE BaseInv'
  <2> USE <1>0, <1>t, <1>20 DEF BootFails
  <2>i. job[h].inst \in Inst /\ HostOf[job[h].inst] = h
    BY DEF JobsOK, JobKnows
  <2>1. job' \in [Hosts -> Job]
    BY ReturnType
  <2>2. TypeOK'
    BY <2>i, <2>1 DEF TypeOK
  <2>3. JobKnows(h)'
    BY DEF JobKnows, TypeOK, Return, NoJob
  <2>4. QED
    BY <2>i, <2>2, <2>3, BaseStep DEF AbsentOK, TypeOK, Return
<1>21. ASSUME NEW h \in Hosts, ReplicaRegister(h) PROVE BaseInv'
  <2> USE <1>0, <1>t, <1>21 DEF ReplicaRegister
  <2>i. job[h].inst \in Inst /\ HostOf[job[h].inst] = h
    BY DEF JobsOK, JobKnows
  <2>1. job' \in [Hosts -> Job]
    BY GotoType
  <2>t. job[h].tgt \in Inst
    BY DEF JobsOK, JobKnows
  <2>2. TypeOK'
    BY <2>i, <2>1, <2>t DEF TypeOK
  <2>3. JobKnows(h)'
    BY <2>i DEF JobsOK, JobKnows, TypeOK, Goto, Job
  <2>4. QED
    BY <2>i, <2>2, <2>3, BaseStep DEF AbsentOK, TypeOK, Goto
<1>22. ASSUME NEW h \in Hosts, Promote(h) PROVE BaseInv'
  <2> USE <1>0, <1>t, <1>22 DEF Promote
  <2>i. job[h].inst \in Inst /\ HostOf[job[h].inst] = h
    BY DEF JobsOK, JobKnows
  <2>1. job' \in [Hosts -> Job]
    BY GotoType
  <2>p. pgdata' \in [Inst -> Data]
    <3>1. NoData("promoted") \in Data
      OBVIOUS
    <3>2. QED
      BY <2>i, <3>1 DEF TypeOK, Promoted
  <2>2. TypeOK'
    BY <2>i, <2>1, <2>p DEF TypeOK, Promoted, NoData, Data
  <2>3. JobKnows(h)'
    BY <2>i DEF JobsOK, JobKnows, TypeOK, Goto, Job, Promoted, NoData, Data
  <2>4. QED
    BY <2>i, <2>2, <2>3, BaseStep DEF AbsentOK, TypeOK, Goto, Promoted, NoData, Data
<1>23. ASSUME NEW h \in Hosts, PromoteFails(h) PROVE BaseInv'
  <2> USE <1>0, <1>t, <1>23 DEF PromoteFails
  <2>i. job[h].inst \in Inst /\ HostOf[job[h].inst] = h
    BY DEF JobsOK, JobKnows
  <2>1. job' \in [Hosts -> Job]
    BY ReturnType
  <2>p. pgdata' \in [Inst -> Data]
    <3>1. NoData("promoted") \in Data
      OBVIOUS
    <3>2. QED
      BY <2>i, <3>1 DEF TypeOK, Promoted
  <2>2. TypeOK'
    BY <2>i, <2>1, <2>p DEF TypeOK, Promoted, NoData, Data
  <2>3. JobKnows(h)'
    BY DEF JobKnows, TypeOK, Return, NoJob
  <2>4. QED
    BY <2>i, <2>2, <2>3, BaseStep DEF AbsentOK, TypeOK, Return, Promoted, NoData, Data
<1>24. ASSUME NEW h \in Hosts, PromoteSave(h) PROVE BaseInv'
  <2> USE <1>0, <1>t, <1>24 DEF PromoteSave
  <2>i. job[h].inst \in Inst /\ HostOf[job[h].inst] = h
    BY DEF JobsOK, JobKnows
  <2>1. job' \in [Hosts -> Job]
    BY GotoType
  <2>2. TypeOK'
    BY <2>i, <2>1 DEF TypeOK
  <2>3. JobKnows(h)'
    BY <2>i DEF JobsOK, JobKnows, TypeOK, Goto, Job
  <2>4. QED
    BY <2>i, <2>2, <2>3, BaseStep DEF AbsentOK, TypeOK, Goto
<1>25. ASSUME NEW h \in Hosts, RepointWipe(h) PROVE BaseInv'
  <2> DEFINE i == job[h].inst
  <2> DEFINE d == NoData("empty")
  <2>f. /\ cfg' = cfg /\ Goto(h, "slot") /\ job[h].pc # "idle" /\ job[h].pc # "register"
        /\ up' \subseteq up /\ slots' \in [Inst -> SUBSET Inst] /\ pgdata' = Replaced(i, d)
    BY <1>0, <1>25 DEF RepointWipe, TypeOK, Wiped
  <2>i. i \in Inst /\ HostOf[i] = h /\ cfg[i].reg /\ job[h].tgt \in Inst
    BY <1>0, <1>25 DEF RepointWipe, JobsOK, JobKnows
  <2>d. d \in Data /\ d.st = "empty"
    BY <1>0, <1>t, <2>i DEF TypeOK, Data, NoData
  <2> HIDE DEF d
  <2>1. job' \in [Hosts -> Job]
    BY <1>0, <2>f, GotoType
  <2>2. pgdata' \in [Inst -> Data]
    BY <1>0, <2>f, <2>i, <2>d, ReplacedType
  <2>3. pgdata'[i] = d /\ \A j \in Inst : j # i => pgdata'[j].st = pgdata[j].st
    BY <1>0, <2>f, <2>i, <2>d, ReplacedState
  <2>4. TypeOK'
    BY <1>0, <2>f, <2>1, <2>2 DEF TypeOK
  <2>5. job'[h].pc = "slot" /\ job'[h].inst = i /\ job'[h].tgt = job[h].tgt
    BY <1>0, <2>f DEF Goto, TypeOK, Job
  <2>6. JobKnows(h)'
    BY <2>f, <2>i, <2>d, <2>3, <2>5 DEF JobKnows
  <2>7. QED
    BY <1>0, <2>f, <2>i, <2>3, <2>4, <2>6, BaseStep DEF AbsentOK, TypeOK, Goto
<1>26. ASSUME NEW h \in Hosts, RepointWipeFails(h) PROVE BaseInv'
  <2> USE <1>0, <1>t, <1>26 DEF RepointWipeFails
  <2>i. job[h].inst \in Inst /\ HostOf[job[h].inst] = h
    BY DEF JobsOK, JobKnows
  <2>1. job' \in [Hosts -> Job]
    BY ReturnType
  <2>2. /\ pgdata' \in [Inst -> Data] /\ slots' \in [Inst -> SUBSET Inst] /\ up' \subseteq up
        /\ \A j \in Inst : j # job[h].inst => pgdata'[j].st = pgdata[j].st
    <3>1. CASE \E s \in {"debris", "torn"} : Wiped(job[h].inst, s)
      <4>1. PICK s \in {"debris", "torn"} : Wiped(job[h].inst, s)
        BY <3>1
      <4>2. pgdata' = Replaced(job[h].inst, NoData(s)) /\ NoData(s) \in Data
        BY <4>1 DEF Wiped
      <4>3. pgdata' \in [Inst -> Data]
        BY <2>i, <4>2, ReplacedType
      <4>4. \A j \in Inst : j # job[h].inst => pgdata'[j].st = pgdata[j].st
        BY <2>i, <4>2, ReplacedState
      <4>5. QED
        BY <2>i, <4>1, <4>3, <4>4 DEF Wiped, TypeOK
    <3>2. CASE up' \in {up, up \ {job[h].inst}} /\ UNCHANGED <<pgdata, slots>>
      BY <3>2 DEF TypeOK
    <3>3. QED
      BY <3>1, <3>2
  <2>3. TypeOK'
    BY <2>1, <2>2 DEF TypeOK
  <2>4. JobKnows(h)'
    BY DEF JobKnows, TypeOK, Return, NoJob
  <2>5. QED
    BY <2>i, <2>2, <2>3, <2>4, BaseStep DEF AbsentOK, TypeOK, Return
<1>27. ASSUME NEW h \in Hosts, RepointSlot(h) PROVE BaseInv'
  <2> USE <1>0, <1>t, <1>27 DEF RepointSlot
  <2>i. job[h].inst \in Inst /\ HostOf[job[h].inst] = h
    BY DEF JobsOK, JobKnows
  <2>1. job' \in [Hosts -> Job]
    BY GotoType
  <2>2. TypeOK'
    BY <2>i, <2>1 DEF TypeOK
  <2>3. JobKnows(h)'
    BY <2>i DEF JobsOK, JobKnows, TypeOK, Goto, Job
  <2>4. QED
    BY <2>i, <2>2, <2>3, BaseStep DEF AbsentOK, TypeOK, Goto
<1>28. ASSUME NEW h \in Hosts, RepointSlotFails(h) PROVE BaseInv'
  <2> USE <1>0, <1>t, <1>28 DEF RepointSlotFails
  <2>i. job[h].inst \in Inst /\ HostOf[job[h].inst] = h
    BY DEF JobsOK, JobKnows
  <2>1. job' \in [Hosts -> Job]
    BY ReturnType
  <2>2. TypeOK'
    BY <2>i, <2>1 DEF TypeOK
  <2>3. JobKnows(h)'
    BY DEF JobKnows, TypeOK, Return, NoJob
  <2>4. QED
    BY <2>i, <2>2, <2>3, BaseStep DEF AbsentOK, TypeOK, Return
<1>29. ASSUME NEW h \in Hosts, RepointSave(h) PROVE BaseInv'
  <2> USE <1>0, <1>t, <1>29 DEF RepointSave
  <2>i. job[h].inst \in Inst /\ HostOf[job[h].inst] = h
    BY DEF JobsOK, JobKnows
  <2>1. job' \in [Hosts -> Job]
    BY GotoType
  <2>t. job[h].tgt \in Inst
    BY DEF JobsOK, JobKnows
  <2>2. TypeOK'
    BY <2>i, <2>1, <2>t DEF TypeOK
  <2>3. JobKnows(h)'
    BY <2>i DEF JobsOK, JobKnows, TypeOK, Goto, Job
  <2>4. QED
    BY <2>i, <2>2, <2>3, BaseStep DEF AbsentOK, TypeOK, Goto
<1>30. ASSUME NEW h \in Hosts, DestroyRemove(h) PROVE BaseInv'
  <2> USE <1>0, <1>t, <1>30 DEF DestroyRemove
  <2>i. job[h].inst \in Inst /\ HostOf[job[h].inst] = h /\ cfg[job[h].inst].reg
    BY DEF JobsOK, JobKnows
  <2>j. job' = [job EXCEPT ![h] = [pc |-> "dropslot", inst |-> job[h].inst, tgt |-> None]]
    OBVIOUS
  <2>1. job' \in [Hosts -> Job]
    BY <2>i, <2>j DEF TypeOK, Job
  <2>2. /\ pgdata' \in [Inst -> Data] /\ slots' \in [Inst -> SUBSET Inst]
        /\ up' \in {up, up \ {job[h].inst}}
        /\ \A j \in Inst : j # job[h].inst => pgdata'[j].st = pgdata[j].st
    <3>1. CASE \E s \in {"empty", "debris", "torn"} : Wiped(job[h].inst, s)
      <4>1. PICK s \in {"empty", "debris", "torn"} : Wiped(job[h].inst, s)
        BY <3>1
      <4>2. pgdata' = Replaced(job[h].inst, NoData(s)) /\ NoData(s) \in Data
        BY <4>1 DEF Wiped
      <4>3. pgdata' \in [Inst -> Data]
        BY <2>i, <4>2, ReplacedType
      <4>4. \A j \in Inst : j # job[h].inst => pgdata'[j].st = pgdata[j].st
        BY <2>i, <4>2, ReplacedState
      <4>5. QED
        BY <2>i, <4>1, <4>3, <4>4 DEF Wiped, TypeOK
    <3>2. CASE up' \in {up, up \ {job[h].inst}} /\ UNCHANGED <<pgdata, slots>>
      BY <3>2 DEF TypeOK
    <3>3. QED
      BY <3>1, <3>2
  <2>3. TypeOK'
    BY <2>1, <2>2 DEF TypeOK
  <2>4. JobKnows(h)'
    BY <2>i, <2>j, <2>2 DEF JobKnows, TypeOK
  <2>5. QED
    BY <2>i, <2>j, <2>2, <2>3, <2>4, BaseStep DEF AbsentOK, TypeOK
<1>31. ASSUME NEW h \in Hosts, DestroyDropSlot(h) PROVE BaseInv'
  <2> USE <1>0, <1>t, <1>31 DEF DestroyDropSlot
  <2>i. job[h].inst \in Inst /\ HostOf[job[h].inst] = h
    BY DEF JobsOK, JobKnows
  <2>1. job' \in [Hosts -> Job]
    BY GotoType
  <2>2. TypeOK'
    BY <2>i, <2>1 DEF TypeOK
  <2>3. JobKnows(h)'
    BY <2>i DEF JobsOK, JobKnows, TypeOK, Goto, Job
  <2>4. QED
    BY <2>i, <2>2, <2>3, BaseStep DEF AbsentOK, TypeOK, Goto
<1>32. ASSUME NEW h \in Hosts, DestroyUnregister(h) PROVE BaseInv'
  <2> USE <1>0, <1>t, <1>32 DEF DestroyUnregister
  <2>i. job[h].inst \in Inst /\ HostOf[job[h].inst] = h
    BY DEF JobsOK, JobKnows
  <2>1. job' \in [Hosts -> Job]
    BY ReturnType
  <2>2. TypeOK'
    BY <2>i, <2>1 DEF TypeOK
  <2>3. JobKnows(h)'
    BY DEF JobKnows, TypeOK, Return, NoJob
  <2>4. QED
    BY <2>i, <2>2, <2>3, BaseStep DEF AbsentOK, TypeOK, Return
<1>33. ASSUME NEW h \in Hosts, Interrupt(h) PROVE BaseInv'
  <2> USE <1>0, <1>33 DEF Interrupt
  <2>1. job' \in [Hosts -> Job]
    BY ReturnType
  <2>2. TypeOK'
    BY <2>1 DEF TypeOK
  <2>3. JobKnows(h)'
    BY DEF JobKnows, TypeOK, Return, NoJob
  <2>4. QED
    BY <2>2, <2>3, BaseStep DEF AbsentOK, TypeOK, Return
<1>34. ASSUME NEW h \in Hosts, Reboot(h) PROVE BaseInv'
  <2> USE <1>0, <1>34 DEF Reboot
  <2>1. job' \in [Hosts -> Job]
    BY ReturnType
  <2>2. TypeOK'
    BY <2>1 DEF TypeOK
  <2>3. JobKnows(h)'
    BY DEF JobKnows, TypeOK, Return, NoJob
  <2>4. QED
    BY <2>2, <2>3, BaseStep DEF AbsentOK, TypeOK, Return
<1>35. CASE UNCHANGED vars
  BY <1>0, <1>35 DEF vars, BaseInv, TypeOK, JobsOK, JobKnows, AbsentOK
<1>36. QED
  BY <1>1, <1>2, <1>3, <1>4, <1>5, <1>6, <1>7, <1>8, <1>9, <1>10, <1>11, <1>12,
     <1>13, <1>14, <1>15, <1>16, <1>17, <1>18, <1>19, <1>20, <1>21, <1>22, <1>23,
     <1>24, <1>25, <1>26, <1>27, <1>28, <1>29, <1>30, <1>31, <1>32, <1>33, <1>34,
     <1>35
     DEF Next, Begin, JobStep, StartStep

-----------------------------------------------------------------------------
(* The part of the invariant that needs the discipline. *)

LEMMA InitData == Init => DataOK
BY DEF Init, DataOK, GoneOK, RolesAgree, StandbyKeepsSlot, Absent, NoData, NoJob, Removed

\* Commands that leave entries and data directories alone and only add slots.
LEMMA SameData ==
  ASSUME TypeOK, DataOK, UNCHANGED <<cfg, pgdata>>,
         \A p \in Inst : slots[p] \subseteq slots'[p],
         \A h \in Hosts : job'[h].pc \in {"dropslot", "unregister"} => job'[h] = job[h]
  PROVE  DataOK'
<1>1. GoneOK'
  BY DEF DataOK, GoneOK
<1>2. RolesAgree'
  BY DEF DataOK, RolesAgree
<1>3. StandbyKeepsSlot'
  BY DEF DataOK, RolesAgree, StandbyKeepsSlot, TypeOK, Data
<1>4. QED
  BY <1>1, <1>2, <1>3 DEF DataOK

\* A new data directory of i that is no standby: the standbys copied from the
\* old one have lost their source, all others keep their slot.
LEMMA ReplacedData ==
  ASSUME TypeOK, DataOK, NEW i \in Inst, NEW d \in Data, pgdata' = Replaced(i, d),
         cfg' = cfg,
         \A p \in Inst : p # i => slots[p] \subseteq slots'[p],
         d.st # "standby",
         cfg[i].of # None => d.st # "initdb",
         ~cfg[i].reg => d.st \in Removed,
         \A h \in Hosts : job'[h].pc \in {"dropslot", "unregister"} =>
            \/ job'[h].inst = i /\ d.st \in Removed
            \/ job'[h] = job[h] /\ job[h].inst \in Inst /\ job[h].inst # i
  PROVE  DataOK'
<1>1. pgdata'[i] = d /\ \A j \in Inst : j # i => pgdata'[j].st = pgdata[j].st
  BY ReplacedState
<1>2. GoneOK'
  BY <1>1 DEF DataOK, GoneOK
<1>3. RolesAgree'
  BY <1>1 DEF DataOK, RolesAgree
<1>4. StandbyKeepsSlot'
  <2>1. SUFFICES ASSUME NEW j \in Inst, pgdata'[j].st = "standby"
                 PROVE  /\ cfg'[j].of = pgdata'[j].src
                        /\ pgdata'[j].cur => j \in slots'[pgdata'[j].src]
    BY DEF StandbyKeepsSlot
  <2>2. j # i /\ pgdata[j].st = "standby"
    BY <1>1, <2>1
  <2>3. pgdata[j].src \in Inst \cup {None} /\ cfg[j].of = pgdata[j].src
    BY <2>2 DEF TypeOK, Data, DataOK, StandbyKeepsSlot
  <2>4. CASE pgdata[j].src = i
    BY <2>2, <2>3, <2>4 DEF Replaced, TypeOK, Data
  <2>5. CASE pgdata[j].src # i
    <3>1. pgdata'[j] = pgdata[j]
      BY <2>2, <2>5 DEF Replaced
    <3>2. pgdata[j].src \in Inst
      BY <2>2, <2>3 DEF DataOK, RolesAgree
    <3>3. QED
      BY <2>2, <2>3, <2>5, <3>1, <3>2 DEF DataOK, StandbyKeepsSlot
  <2>6. QED
    BY <2>4, <2>5
<1>5. QED
  BY <1>2, <1>3, <1>4 DEF DataOK

\* A command that changes only its own instance's entry, of an instance that
\* holds no standby.
LEMMA EntryData ==
  ASSUME TypeOK, DataOK, NEW i \in Inst, NEW e \in Entry, cfg' = [cfg EXCEPT ![i] = e],
         UNCHANGED <<pgdata, slots>>,
         pgdata[i].st # "standby",
         e.of # None => pgdata[i].st # "initdb",
         ~e.reg => pgdata[i].st \in Removed,
         \A h \in Hosts : job'[h].pc \in {"dropslot", "unregister"} => job'[h] = job[h]
  PROVE  DataOK'
<1>1. cfg'[i] = e /\ \A j \in Inst : j # i => cfg'[j] = cfg[j]
  BY DEF TypeOK
<1>2. GoneOK'
  BY <1>1 DEF DataOK, GoneOK
<1>3. RolesAgree'
  BY <1>1 DEF DataOK, RolesAgree
<1>4. StandbyKeepsSlot'
  BY <1>1 DEF DataOK, StandbyKeepsSlot
<1>5. QED
  BY <1>2, <1>3, <1>4 DEF DataOK

\* Promotion ends recovery in the data directory of i.
LEMMA PromotedData ==
  ASSUME TypeOK, DataOK, NEW i \in Inst, Promoted(i), UNCHANGED <<cfg, slots>>,
         pgdata[i].st = "standby",
         \A h \in Hosts : job'[h].pc \in {"dropslot", "unregister"} =>
            job'[h] = job[h] /\ job[h].inst \in Inst
  PROVE  DataOK'
<1>1. pgdata' = [pgdata EXCEPT ![i] = NoData("promoted")]
  BY DEF Promoted
<1>2. pgdata'[i].st = "promoted" /\ \A j \in Inst : j # i => pgdata'[j] = pgdata[j]
  BY <1>1 DEF TypeOK, NoData
<1>3. GoneOK'
  BY <1>2 DEF DataOK, GoneOK, Removed
<1>4. RolesAgree'
  BY <1>2 DEF DataOK, RolesAgree
<1>5. StandbyKeepsSlot'
  BY <1>2 DEF DataOK, StandbyKeepsSlot
<1>6. QED
  BY <1>3, <1>4, <1>5 DEF DataOK

LEMMA NextData ==
  ASSUME KeepData = FALSE, LooseDrop = FALSE, BaseInv, DataOK, [Next]_vars
  PROVE  DataOK'
<1> USE HostAssumption, NoneAssumption
<1> USE DEF Idle, At
<1>0. TypeOK /\ JobsOK /\ AbsentOK
  BY DEF BaseInv
<1>t. \A s \in States : NoData(s) \in Data /\ NoData(s).st = s
  BY NoDataType DEF NoData
<1>g. ASSUME NEW h \in Hosts, job[h].pc # "idle"
      PROVE  job[h].inst \in Inst /\ HostOf[job[h].inst] = h
  BY <1>0, <1>g DEF JobsOK, JobKnows
<1>e. PrimaryEntry \in Entry /\ \A p \in Inst, b \in BOOLEAN : ReplicaEntry(p, b) \in Entry
  BY DEF PrimaryEntry, ReplicaEntry, Entry
<1>1. ASSUME NEW i \in Inst, Create(i) PROVE DataOK'
  BY <1>0, <1>e, <1>1, EntryData
     DEF Create, PrimaryEntry, DataOK, GoneOK, RolesAgree, Removed, AbsentOK
<1>2. ASSUME NEW i \in Inst, Stop(i) PROVE DataOK'
  BY <1>0, <1>2, SameData DEF Stop, TypeOK
<1>3. ASSUME NEW i \in Inst, StartBegin(i) PROVE DataOK'
  BY <1>0, <1>3, SameData DEF StartBegin, Run, TypeOK
<1>4. ASSUME NEW i \in Inst, PromoteBegin(i) PROVE DataOK'
  BY <1>0, <1>4, SameData DEF PromoteBegin, Run, TypeOK
<1>5. ASSUME NEW i \in Inst, DestroyBegin(i) PROVE DataOK'
  BY <1>0, <1>5, SameData DEF DestroyBegin, Run, TypeOK
<1>6. ASSUME NEW i \in Inst, NEW p \in Inst, ReplicaCreateSameHost(i, p) PROVE DataOK'
  <2>1. /\ cfg' = [cfg EXCEPT ![i] = ReplicaEntry(p, FALSE)] /\ UNCHANGED <<pgdata, slots>>
        /\ pgdata[i].st \in Removed
        /\ \A h \in Hosts : job'[h].pc \in {"dropslot", "unregister"} => job'[h] = job[h]
    BY <1>0, <1>6 DEF ReplicaCreateSameHost, Run, TypeOK, DataOK, GoneOK
  <2>2. QED
    BY <1>0, <1>e, <2>1, EntryData DEF ReplicaEntry, Removed
<1>7. ASSUME NEW i \in Inst, NEW p \in Inst, ReplicaCreatePrimary(i, p) PROVE DataOK'
  BY <1>0, <1>7, SameData DEF ReplicaCreatePrimary, TypeOK
<1>8. ASSUME NEW i \in Inst, NEW p \in Inst, ReplicaCreateRemote(i, p) PROVE DataOK'
  BY <1>0, <1>8, SameData DEF ReplicaCreateRemote, Run, TypeOK
<1>9. ASSUME NEW i \in Inst, NEW p \in Inst, ReplicaDrop(i, p) PROVE DataOK'
  <2>1. UNCHANGED <<cfg, pgdata, job>> /\ slots' = [slots EXCEPT ![p] = @ \ {i}]
    BY <1>9 DEF ReplicaDrop
  <2>2. pgdata[i].st = "standby" => pgdata[i].src # p
    <3>1. ~(cfg[i].reg /\ cfg[i].of = p)
      BY <1>9 DEF ReplicaDrop
    <3>2. QED
      BY <1>0, <3>1 DEF DataOK, StandbyKeepsSlot, AbsentOK
  <2>3. GoneOK' /\ RolesAgree'
    BY <2>1 DEF DataOK, GoneOK, RolesAgree
  <2>4. ASSUME NEW j \in Inst, pgdata[j].st = "standby", pgdata[j].cur
        PROVE  j \in slots'[pgdata[j].src]
    <3>1. pgdata[j].src \in Inst /\ j \in slots[pgdata[j].src]
      BY <1>0, <2>4 DEF DataOK, RolesAgree, StandbyKeepsSlot, TypeOK, Data
    <3>2. QED
      BY <1>0, <2>1, <2>2, <2>4, <3>1 DEF TypeOK
  <2>5. StandbyKeepsSlot'
    BY <2>1, <2>4 DEF DataOK, StandbyKeepsSlot
  <2>6. QED
    BY <2>3, <2>5 DEF DataOK
<1>10. ASSUME NEW i \in Inst, NEW p \in Inst, RepointBegin(i, p) PROVE DataOK'
  BY <1>0, <1>10, SameData DEF RepointBegin, Run, TypeOK
<1>11. ASSUME NEW h \in Hosts, EnsureNothing(h) PROVE DataOK'
  BY <1>0, <1>11, SameData DEF EnsureNothing, Goto, TypeOK, Job
<1>12. ASSUME NEW h \in Hosts, EnsureLocal(h) PROVE DataOK'
  BY <1>0, <1>12, SameData DEF EnsureLocal, Goto, TypeOK, Job
<1>13. ASSUME NEW h \in Hosts, EnsureRemote(h) PROVE DataOK'
  BY <1>0, <1>13, SameData DEF EnsureRemote, Goto, TypeOK, Job
<1>14. ASSUME NEW h \in Hosts, EnsureFails(h) PROVE DataOK'
  BY <1>0, <1>14, SameData DEF EnsureFails, Return, NoJob, TypeOK
<1>15. ASSUME NEW h \in Hosts, Backup(h) PROVE DataOK'
  <2> DEFINE i == job[h].inst
  <2> DEFINE p == cfg[i].of
  <2> DEFINE d == [st |-> "standby", src |-> p, cur |-> TRUE]
  <2>1. /\ i \in Inst /\ HostOf[i] = h /\ cfg[i].reg /\ p \in Inst
    BY <1>0, <1>15 DEF Backup, JobsOK, JobKnows, TypeOK, Entry
  <2>2. UNCHANGED <<cfg, slots>> /\ pgdata' = Replaced(i, d) /\ Goto(h, "boot") /\ i \in slots[p]
    BY <1>15 DEF Backup
  <2>3. d \in Data /\ d.st = "standby" /\ d.src = p
    BY <2>1 DEF Data, States
  <2> HIDE DEF d
  <2>4. pgdata'[i] = d /\ \A j \in Inst : j # i => pgdata'[j].st = pgdata[j].st
    BY <1>0, <2>1, <2>2, <2>3, ReplacedState
  <2>5. ASSUME NEW g \in Hosts, job'[g].pc \in {"dropslot", "unregister"}
        PROVE  job'[g] = job[g] /\ job[g].inst \in Inst /\ job[g].inst # i
    BY <1>0, <1>g, <2>1, <2>2, <2>5 DEF Goto, TypeOK, Job
  <2>6. GoneOK'
    BY <2>1, <2>2, <2>4, <2>5 DEF DataOK, GoneOK
  <2>7. RolesAgree'
    BY <2>1, <2>2, <2>3, <2>4 DEF DataOK, RolesAgree
  <2>8. ASSUME NEW j \in Inst, j # i, pgdata[j].st = "standby"
        PROVE  /\ pgdata'[j].src = pgdata[j].src
               /\ pgdata'[j].cur => pgdata[j].cur
    BY <1>0, <2>1, <2>2, <2>8 DEF Replaced, TypeOK, Data
  <2>9. StandbyKeepsSlot'
    BY <2>1, <2>2, <2>3, <2>4, <2>8 DEF DataOK, StandbyKeepsSlot
  <2>10. QED
    BY <2>6, <2>7, <2>9 DEF DataOK
<1>16. ASSUME NEW h \in Hosts, BackupFails(h) PROVE DataOK'
  <2> DEFINE i == job[h].inst
  <2>1. i \in Inst /\ HostOf[i] = h /\ cfg[i].reg
    BY <1>0, <1>16 DEF BackupFails, JobsOK, JobKnows
  <2>2. PICK s \in {"empty"} : pgdata' = Replaced(i, NoData(s))
    BY <1>16 DEF BackupFails
  <2>3. UNCHANGED cfg /\ Return(h) /\ \A p \in Inst : p # i => slots[p] \subseteq slots'[p]
    BY <1>0, <1>16 DEF BackupFails, TypeOK
  <2>4. ASSUME NEW g \in Hosts, job'[g].pc \in {"dropslot", "unregister"}
        PROVE  job'[g] = job[g] /\ job[g].inst \in Inst /\ job[g].inst # i
    BY <1>0, <1>g, <2>1, <2>3, <2>4 DEF Return, NoJob, TypeOK
  <2>5. NoData(s) \in Data /\ NoData(s).st = s
    BY <1>t, <2>2 DEF States
  <2>6. QED
    BY <1>0, <2>1, <2>2, <2>3, <2>4, <2>5, ReplacedData
<1>17. ASSUME NEW h \in Hosts, BackupCrashes(h) PROVE DataOK'
  <2> DEFINE i == job[h].inst
  <2>1. i \in Inst /\ HostOf[i] = h /\ cfg[i].reg
    BY <1>0, <1>17 DEF BackupCrashes, JobsOK, JobKnows
  <2>2. PICK s \in {"debris", "partial"} : pgdata' = Replaced(i, NoData(s))
    BY <1>17 DEF BackupCrashes
  <2>3. UNCHANGED cfg /\ Return(h) /\ \A p \in Inst : p # i => slots[p] \subseteq slots'[p]
    BY <1>0, <1>17 DEF BackupCrashes, TypeOK
  <2>4. ASSUME NEW g \in Hosts, job'[g].pc \in {"dropslot", "unregister"}
        PROVE  job'[g] = job[g] /\ job[g].inst \in Inst /\ job[g].inst # i
    BY <1>0, <1>g, <2>1, <2>3, <2>4 DEF Return, NoJob, TypeOK
  <2>5. NoData(s) \in Data /\ NoData(s).st = s
    BY <1>t, <2>2 DEF States
  <2>6. QED
    BY <1>0, <2>1, <2>2, <2>3, <2>4, <2>5, ReplacedData
<1>18. ASSUME NEW h \in Hosts, BootUsable(h) PROVE DataOK'
  BY <1>0, <1>18, SameData DEF BootUsable, Return, NoJob, TypeOK
<1>19. ASSUME NEW h \in Hosts, BootInitdb(h) PROVE DataOK'
  <2> DEFINE i == job[h].inst
  <2>1. i \in Inst /\ HostOf[i] = h /\ cfg[i].reg /\ cfg[i].of = None
    BY <1>0, <1>19 DEF BootInitdb, JobsOK, JobKnows
  <2>2. /\ pgdata' = Replaced(i, NoData("initdb")) /\ UNCHANGED <<cfg, slots>> /\ Return(h)
    BY <1>19 DEF BootInitdb
  <2>4. ASSUME NEW g \in Hosts, job'[g].pc \in {"dropslot", "unregister"}
        PROVE  job'[g] = job[g] /\ job[g].inst \in Inst /\ job[g].inst # i
    BY <1>0, <1>g, <2>1, <2>2, <2>4 DEF Return, NoJob, TypeOK
  <2>5. NoData("initdb") \in Data /\ NoData("initdb").st = "initdb"
    BY <1>t DEF States
  <2>6. QED
    BY <1>0, <2>1, <2>2, <2>4, <2>5, ReplacedData
<1>20. ASSUME NEW h \in Hosts, BootFails(h) PROVE DataOK'
  BY <1>0, <1>20, SameData DEF BootFails, Return, NoJob, TypeOK
<1>21. ASSUME NEW h \in Hosts, ReplicaRegister(h) PROVE DataOK'
  <2> DEFINE i == job[h].inst
  <2>1. i \in Inst /\ HostOf[i] = h
    BY <1>0, <1>21 DEF ReplicaRegister, JobsOK, JobKnows
  <2>2. pgdata[i].st \in Removed
    BY <1>0, <1>21, <2>1 DEF ReplicaRegister, JobsOK, JobKnows, DataOK, GoneOK, Removed
  <2>3. cfg' = [cfg EXCEPT ![i] = ReplicaEntry(job[h].tgt, TRUE)] /\ UNCHANGED <<pgdata, slots>>
    BY <1>21 DEF ReplicaRegister
  <2>4. \A g \in Hosts : job'[g].pc \in {"dropslot", "unregister"} => job'[g] = job[g]
    BY <1>0, <1>21 DEF ReplicaRegister, TypeOK, Goto, Job
  <2>5. ReplicaEntry(job[h].tgt, TRUE) \in Entry
    BY <1>0, <1>e, <1>21 DEF ReplicaRegister, JobsOK, JobKnows, Absent, Entry
  <2>6. QED
    BY <1>0, <2>1, <2>2, <2>3, <2>4, <2>5, EntryData DEF ReplicaEntry, PrimaryEntry, Absent, Removed
<1>22. ASSUME NEW h \in Hosts, Promote(h) PROVE DataOK'
  <2>1. CASE pgdata[job[h].inst].st = "standby"
    BY <1>0, <1>g, <1>22, <2>1, PromotedData DEF Promote, Goto, TypeOK, Job
  <2>2. CASE pgdata[job[h].inst].st # "standby"
    BY <1>0, <1>22, <2>2, SameData DEF Promote, Goto, TypeOK, Job
  <2>3. QED
    BY <2>1, <2>2
<1>23. ASSUME NEW h \in Hosts, PromoteFails(h) PROVE DataOK'
  <2>1. CASE Promoted(job[h].inst)
    BY <1>0, <1>g, <1>23, <2>1, PromotedData DEF PromoteFails, Return, NoJob, TypeOK
  <2>2. CASE UNCHANGED pgdata
    BY <1>0, <1>23, <2>2, SameData DEF PromoteFails, Return, NoJob, TypeOK
  <2>3. QED
    BY <1>23, <2>1, <2>2 DEF PromoteFails
<1>24. ASSUME NEW h \in Hosts, PromoteSave(h) PROVE DataOK'
  <2> DEFINE i == job[h].inst
  <2>1. i \in Inst /\ HostOf[i] = h
    BY <1>0, <1>24 DEF PromoteSave, JobsOK, JobKnows
  <2>2. pgdata[i].st # "standby"
    BY <1>0, <1>24, <2>1 DEF PromoteSave, JobsOK, JobKnows, DataOK, GoneOK, Removed
  <2>3. cfg' = [cfg EXCEPT ![i] = PrimaryEntry] /\ UNCHANGED <<pgdata, slots>>
    BY <1>24 DEF PromoteSave
  <2>4. \A g \in Hosts : job'[g].pc \in {"dropslot", "unregister"} => job'[g] = job[g]
    BY <1>0, <1>24 DEF PromoteSave, TypeOK, Goto, Job
  <2>5. PrimaryEntry \in Entry
    BY <1>0, <1>e, <1>24 DEF PromoteSave, JobsOK, JobKnows, Absent, Entry
  <2>6. QED
    BY <1>0, <2>1, <2>2, <2>3, <2>4, <2>5, EntryData DEF ReplicaEntry, PrimaryEntry, Absent, Removed
<1>25. ASSUME NEW h \in Hosts, RepointWipe(h) PROVE DataOK'
  <2> DEFINE i == job[h].inst
  <2>1. i \in Inst /\ HostOf[i] = h /\ cfg[i].reg
    BY <1>0, <1>25 DEF RepointWipe, JobsOK, JobKnows
  <2>2. PICK s \in {"empty"} : pgdata' = Replaced(i, NoData(s))
    BY <1>25 DEF RepointWipe, Wiped
  <2>3. UNCHANGED cfg /\ Goto(h, "slot") /\ \A p \in Inst : p # i => slots[p] \subseteq slots'[p]
    BY <1>0, <1>25 DEF RepointWipe, TypeOK, Wiped
  <2>4. ASSUME NEW g \in Hosts, job'[g].pc \in {"dropslot", "unregister"}
        PROVE  job'[g] = job[g] /\ job[g].inst \in Inst /\ job[g].inst # i
    BY <1>0, <1>g, <2>1, <2>3, <2>4 DEF Goto, Job, TypeOK
  <2>5. NoData(s) \in Data /\ NoData(s).st = s
    BY <1>t, <2>2 DEF States
  <2>6. QED
    BY <1>0, <2>1, <2>2, <2>3, <2>4, <2>5, ReplacedData
<1>26. ASSUME NEW h \in Hosts, RepointWipeFails(h) PROVE DataOK'
  <2> DEFINE i == job[h].inst
  <2>1. i \in Inst /\ HostOf[i] = h /\ cfg[i].reg
    BY <1>0, <1>26 DEF RepointWipeFails, JobsOK, JobKnows
  <2>2. UNCHANGED cfg /\ Return(h)
    BY <1>26 DEF RepointWipeFails
  <2>3. CASE \E s \in {"debris", "torn"} : Wiped(i, s)
    <3>1. PICK s \in {"debris", "torn"} : Wiped(i, s)
      BY <2>3
    <3>2. pgdata' = Replaced(i, NoData(s)) /\ \A p \in Inst : p # i => slots[p] \subseteq slots'[p]
      BY <1>0, <3>1 DEF Wiped, TypeOK
    <3>3. ASSUME NEW g \in Hosts, job'[g].pc \in {"dropslot", "unregister"}
          PROVE  job'[g] = job[g] /\ job[g].inst \in Inst /\ job[g].inst # i
      BY <1>0, <1>g, <2>1, <2>2, <3>3 DEF Return, NoJob, TypeOK
    <3>4. NoData(s) \in Data /\ NoData(s).st = s
      BY <1>t, <3>1 DEF States
    <3>5. QED
      BY <1>0, <2>1, <2>2, <3>1, <3>2, <3>3, <3>4, ReplacedData
  <2>4. CASE UNCHANGED <<pgdata, slots>>
    BY <1>0, <2>2, <2>4, SameData DEF Return, NoJob, TypeOK
  <2>5. QED
    BY <1>26, <2>3, <2>4 DEF RepointWipeFails
<1>27. ASSUME NEW h \in Hosts, RepointSlot(h) PROVE DataOK'
  BY <1>0, <1>27, SameData DEF RepointSlot, Goto, TypeOK, Job
<1>28. ASSUME NEW h \in Hosts, RepointSlotFails(h) PROVE DataOK'
  BY <1>0, <1>28, SameData DEF RepointSlotFails, Return, NoJob, TypeOK
<1>29. ASSUME NEW h \in Hosts, RepointSave(h) PROVE DataOK'
  <2> DEFINE i == job[h].inst
  <2>1. i \in Inst /\ HostOf[i] = h
    BY <1>0, <1>29 DEF RepointSave, JobsOK, JobKnows
  <2>2. pgdata[i].st = "empty"
    BY <1>0, <1>29, <2>1 DEF RepointSave, JobsOK, JobKnows, DataOK, GoneOK, Removed
  <2>3. cfg' = [cfg EXCEPT ![i] = ReplicaEntry(job[h].tgt, TRUE)] /\ UNCHANGED <<pgdata, slots>>
    BY <1>29 DEF RepointSave
  <2>4. \A g \in Hosts : job'[g].pc \in {"dropslot", "unregister"} => job'[g] = job[g]
    BY <1>0, <1>29 DEF RepointSave, TypeOK, Goto, Job
  <2>5. ReplicaEntry(job[h].tgt, TRUE) \in Entry
    BY <1>0, <1>e, <1>29 DEF RepointSave, JobsOK, JobKnows, Absent, Entry
  <2>6. QED
    BY <1>0, <2>1, <2>2, <2>3, <2>4, <2>5, EntryData DEF ReplicaEntry, PrimaryEntry, Absent, Removed
<1>30. ASSUME NEW h \in Hosts, DestroyRemove(h) PROVE DataOK'
  <2> DEFINE i == job[h].inst
  <2>1. i \in Inst /\ HostOf[i] = h /\ cfg[i].reg
    BY <1>0, <1>30 DEF DestroyRemove, JobsOK, JobKnows
  <2>2. PICK s \in Removed : Wiped(i, s)
    BY <1>30 DEF DestroyRemove, Removed
  <2>3. /\ UNCHANGED cfg /\ pgdata' = Replaced(i, NoData(s))
        /\ \A p \in Inst : p # i => slots[p] \subseteq slots'[p]
    BY <1>0, <1>30, <2>2 DEF DestroyRemove, Wiped, TypeOK
  <2>4. job' = [job EXCEPT ![h] = [pc |-> "dropslot", inst |-> i, tgt |-> None]]
    BY <1>30 DEF DestroyRemove
  <2>5. ASSUME NEW g \in Hosts, job'[g].pc \in {"dropslot", "unregister"}
        PROVE  \/ job'[g].inst = i
               \/ job'[g] = job[g] /\ job[g].inst \in Inst /\ job[g].inst # i
    BY <1>0, <1>g, <2>1, <2>4, <2>5 DEF TypeOK
  <2>6. NoData(s) \in Data /\ NoData(s).st = s /\ s # "standby" /\ s # "initdb"
    BY <1>t, <2>2 DEF States, Removed
  <2>7. QED
    BY <1>0, <2>1, <2>2, <2>3, <2>5, <2>6, ReplacedData
<1>31. ASSUME NEW h \in Hosts, DestroyDropSlot(h) PROVE DataOK'
  <2> DEFINE i == job[h].inst
  <2>1. i \in Inst /\ UNCHANGED <<cfg, pgdata>> /\ Goto(h, "unregister")
    BY <1>0, <1>g, <1>31 DEF DestroyDropSlot
  <2>2. pgdata[i].st # "standby"
    BY <1>31 DEF DestroyDropSlot, DataOK, GoneOK, Removed
  <2>3. GoneOK'
    BY <1>0, <1>31, <2>1 DEF DestroyDropSlot, DataOK, GoneOK, Goto, TypeOK, Job
  <2>4. RolesAgree'
    BY <2>1 DEF DataOK, RolesAgree
  <2>5. \A p, j \in Inst : j # i /\ j \in slots[p] => j \in slots'[p]
    BY <1>0, <1>31 DEF DestroyDropSlot, TypeOK
  <2>6. StandbyKeepsSlot'
    BY <1>0, <2>1, <2>2, <2>5 DEF DataOK, RolesAgree, StandbyKeepsSlot, TypeOK, Data
  <2>7. QED
    BY <2>3, <2>4, <2>6 DEF DataOK
<1>32. ASSUME NEW h \in Hosts, DestroyUnregister(h) PROVE DataOK'
  <2> DEFINE i == job[h].inst
  <2>1. i \in Inst /\ HostOf[i] = h
    BY <1>0, <1>32 DEF DestroyUnregister, JobsOK, JobKnows
  <2>2. pgdata[i].st \in Removed
    BY <1>0, <1>32, <2>1 DEF DestroyUnregister, JobsOK, JobKnows, DataOK, GoneOK, Removed
  <2>3. cfg' = [cfg EXCEPT ![i] = Absent] /\ UNCHANGED <<pgdata, slots>>
    BY <1>32 DEF DestroyUnregister
  <2>4. \A g \in Hosts : job'[g].pc \in {"dropslot", "unregister"} => job'[g] = job[g]
    BY <1>0, <1>32 DEF DestroyUnregister, TypeOK, Return, NoJob
  <2>5. Absent \in Entry
    BY <1>0, <1>e, <1>32 DEF DestroyUnregister, JobsOK, JobKnows, Absent, Entry
  <2>6. QED
    BY <1>0, <2>1, <2>2, <2>3, <2>4, <2>5, EntryData DEF ReplicaEntry, PrimaryEntry, Absent, Removed
<1>33. ASSUME NEW h \in Hosts, Interrupt(h) PROVE DataOK'
  BY <1>0, <1>33, SameData DEF Interrupt, Return, NoJob, TypeOK
<1>34. ASSUME NEW h \in Hosts, Reboot(h) PROVE DataOK'
  BY <1>0, <1>34, SameData DEF Reboot, Return, NoJob, TypeOK
<1>35. CASE UNCHANGED vars
  BY <1>0, <1>35, SameData DEF vars, TypeOK
<1>36. QED
  BY <1>1, <1>2, <1>3, <1>4, <1>5, <1>6, <1>7, <1>8, <1>9, <1>10, <1>11, <1>12,
     <1>13, <1>14, <1>15, <1>16, <1>17, <1>18, <1>19, <1>20, <1>21, <1>22, <1>23,
     <1>24, <1>25, <1>26, <1>27, <1>28, <1>29, <1>30, <1>31, <1>32, <1>33, <1>34,
     <1>35
     DEF Next, Begin, JobStep, StartStep

-----------------------------------------------------------------------------
(* The theorems. *)

\* What holds however pg is used, for every set of hosts and instances.
THEOREM BaseInvHolds == Spec => []BaseInv
<1>1. Init => BaseInv
  BY InitBase
<1>2. BaseInv /\ [Next]_vars => BaseInv'
  BY NextBase
<1>3. QED
  BY <1>1, <1>2, PTL DEF Spec

\* Every variable keeps its type, whatever the commands do.
THEOREM TypeCorrect == Spec => []TypeOK
<1>1. BaseInv => TypeOK
  BY DEF BaseInv
<1>2. QED
  BY <1>1, BaseInvHolds, PTL

\* The inductive invariant, in the disciplined use: destroy removes the data
\* directory and replica drop names no replica that is still configured.
THEOREM IInvHolds ==
  ASSUME KeepData = FALSE, LooseDrop = FALSE
  PROVE  Spec => []IInv
<1>1. Init => DataOK
  BY InitData
<1>2. BaseInv /\ DataOK /\ [Next]_vars => DataOK'
  BY NextData
<1>3. Spec => []DataOK
  BY <1>1, <1>2, BaseInvHolds, PTL DEF Spec
<1>4. QED
  BY <1>3, BaseInvHolds, PTL DEF IInv

\* What pg.yaml says of an instance's role agrees with its data directory.
THEOREM RolesAlwaysAgree ==
  ASSUME KeepData = FALSE, LooseDrop = FALSE
  PROVE  Spec => []RolesAgree
<1>1. IInv => RolesAgree
  BY DEF IInv, DataOK
<1>2. QED
  BY <1>1, IInvHolds, PTL

\* A standby follows the primary pg.yaml names, and its slot is there.
THEOREM SlotsAlwaysKept ==
  ASSUME KeepData = FALSE, LooseDrop = FALSE
  PROVE  Spec => []StandbyKeepsSlot
<1>1. IInv => StandbyKeepsSlot
  BY DEF IInv, DataOK
<1>2. QED
  BY <1>1, IInvHolds, PTL

\* No step runs initdb for an instance that pg.yaml calls a replica: the start
\* that reaches the container step either found data or has just copied it.
THEOREM NeverInitdbForReplica == Spec => ReplicaNeverInitdb
<1> DEFINE Step == \A i \in Inst :
                      cfg[i].of # None /\ pgdata[i].st # "initdb" => pgdata'[i].st # "initdb"
<1>1. BaseInv /\ [Next]_vars => Step
  <2> SUFFICES ASSUME BaseInv, [Next]_vars PROVE Step
    OBVIOUS
  <2>0. TypeOK /\ JobsOK
    BY DEF BaseInv
  <2>d. \A s \in States : NoData(s) \in Data /\ NoData(s).st = s
    BY NoDataType DEF NoData
  <2>r. ASSUME NEW j \in Inst, NEW d \in Data, pgdata' = Replaced(j, d),
               cfg[j].of = None \/ d.st # "initdb"
        PROVE  Step
    BY <2>0, <2>r, ReplacedState
  <2>i. ASSUME NEW h \in Hosts, job[h].pc # "idle" PROVE job[h].inst \in Inst
    BY <2>0, <2>i DEF JobsOK, JobKnows
  <2>1. CASE pgdata' = pgdata
    BY <2>1
  <2>2. ASSUME NEW h \in Hosts, Backup(h) PROVE Step
    <3> DEFINE p == cfg[job[h].inst].of
    <3> DEFINE d == [st |-> "standby", src |-> p, cur |-> TRUE]
    <3>1. job[h].inst \in Inst /\ d \in Data /\ d.st # "initdb"
      BY <2>0, <2>2, <2>i DEF Backup, At, TypeOK, Entry, Data, States
    <3>2. pgdata' = Replaced(job[h].inst, d)
      BY <2>2 DEF Backup
    <3> HIDE DEF d
    <3>3. QED
      BY <2>r, <3>1, <3>2
  <2>3. ASSUME NEW h \in Hosts,
               BackupFails(h) \/ BackupCrashes(h) \/ RepointWipe(h) \/ RepointWipeFails(h)
                 \/ DestroyRemove(h)
        PROVE  Step
    <3>1. job[h].inst \in Inst
      BY <2>3, <2>i DEF BackupFails, BackupCrashes, RepointWipe, RepointWipeFails,
                        DestroyRemove, At
    <3>2. \/ pgdata' = pgdata
          \/ \E s \in {"empty", "debris", "partial", "torn"} :
                pgdata' = Replaced(job[h].inst, NoData(s))
      BY <2>3 DEF BackupFails, BackupCrashes, RepointWipe, RepointWipeFails, DestroyRemove,
                  Wiped
    <3>3. QED
      BY <2>d, <2>r, <2>1, <3>1, <3>2 DEF States
  <2>4. ASSUME NEW h \in Hosts, BootInitdb(h) PROVE Step
    <3>1. job[h].inst \in Inst /\ cfg[job[h].inst].of = None
      BY <2>0, <2>4 DEF BootInitdb, At, JobsOK, JobKnows
    <3>2. pgdata' = Replaced(job[h].inst, NoData("initdb"))
      BY <2>4 DEF BootInitdb
    <3>3. QED
      BY <2>d, <2>r, <3>1, <3>2 DEF States
  <2>5. ASSUME NEW h \in Hosts, Promote(h) \/ PromoteFails(h) PROVE Step
    <3>1. job[h].inst \in Inst
      BY <2>5, <2>i DEF Promote, PromoteFails, At
    <3>2. pgdata' = pgdata \/ pgdata' = [pgdata EXCEPT ![job[h].inst] = NoData("promoted")]
      BY <2>5 DEF Promote, PromoteFails, Promoted
    <3>3. QED
      BY <2>0, <2>d, <3>1, <3>2 DEF TypeOK, States
  <2>6. CASE Begin
    BY <2>1, <2>6 DEF Begin, Create, Stop, StartBegin, PromoteBegin, DestroyBegin,
       ReplicaCreateSameHost, ReplicaCreatePrimary, ReplicaCreateRemote, ReplicaDrop,
       RepointBegin
  <2>7. ASSUME NEW h \in Hosts,
               EnsureNothing(h) \/ EnsureLocal(h) \/ EnsureRemote(h) \/ EnsureFails(h)
                 \/ BootUsable(h) \/ BootFails(h) \/ ReplicaRegister(h) \/ PromoteSave(h)
                 \/ RepointSlot(h) \/ RepointSlotFails(h) \/ RepointSave(h)
                 \/ DestroyDropSlot(h) \/ DestroyUnregister(h) \/ Interrupt(h) \/ Reboot(h)
        PROVE  Step
    BY <2>1, <2>7 DEF EnsureNothing, EnsureLocal, EnsureRemote, EnsureFails, BootUsable,
       BootFails, ReplicaRegister, PromoteSave, RepointSlot, RepointSlotFails, RepointSave,
       DestroyDropSlot, DestroyUnregister, Interrupt, Reboot
  <2>8. CASE UNCHANGED vars
    BY <2>1, <2>8 DEF vars
  <2>9. QED
    BY <2>2, <2>3, <2>4, <2>5, <2>6, <2>7, <2>8 DEF Next, JobStep, StartStep
<1>2. QED
  BY <1>1, BaseInvHolds, PTL DEF Spec, ReplicaNeverInitdb

=============================================================================
