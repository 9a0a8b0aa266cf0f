--------------------------- MODULE RestoreProofs ---------------------------
(***************************************************************************)
(* Proofs about Restore for every bound, tolerance and set of offsets.     *)
(***************************************************************************)
EXTENDS Restore, FiniteSetTheorems, NaturalsInduction, TLAPS

(* What holds at each point of the restore command: from the stop to the   *)
(* start the server is down, and the cleanup runs on a promoted server.    *)
StepsOK ==
    /\ cmd.pc \in {"wipe", "copy", "start"} => ~server.up
    /\ cmd.pc = "start" => conf.promote = cmd.promote
    /\ cmd.pc \in {"fast", "wait", "reset", "bounce", "restart"} => cmd.promote
    /\ cmd.pc \in {"reset", "bounce", "restart"} => server.st = "rw"
    /\ cmd.pc \in {"bounce", "restart"} => conf.set = {}

(* A server that will leave recovery was asked to by a --promote that still *)
(* waits for it, or by one that ended early.                               *)
PromotionAsked ==
    /\ server.st \in InRecovery /\ conf.promote
          => pending \/ (cmd.promote /\ cmd.pc \in {"start", "wait"})
    /\ server.st = "ending" => pending \/ cmd.pc = "wait"

(* CleanAfterPromote, also while a command has not yet stopped the server. *)
CleanUnlessPending ==
    server.st = "rw" /\ ~pending /\ cmd.pc \notin {"wait", "reset"} => conf.set = {}

(* The settings go with the data, so initdb's database starts without any.  *)
NoSettingsWithoutData == server.st \in {"empty", "debris"} => conf.set = {}

RInv ==
    /\ TypeOK /\ StepsOK /\ PromotionAsked /\ SettingsOutliveRecovery /\ CleanUnlessPending
    /\ NoSettingsWithoutData

-----------------------------------------------------------------------------
(* Types *)

\* What is passed to pgBackRest is less than an hour from what was asked for.
LEMMA PassedType ==
  ASSUME NEW t \in Times \cup {Null}, NEW off \in Offsets \cup {0}
  PROVE  Passed(t, off) \in Targets
<1>1. off \in -Hour..Hour
  BY OffsetsAssumption, HourAssumption
<1>2. CASE off >= 0
  <2>1. (off \div Hour) * Hour <= off /\ (off \div Hour) * Hour \in Nat
    BY <1>1, <1>2, HourAssumption
  <2>2. QED
    BY <1>1, <1>2, <2>1, HourAssumption, BoundsAssumption DEF Passed, WholeHours, Targets, Times, Null
<1>3. CASE off < 0
  <2>1. ((-off) \div Hour) * Hour <= -off /\ ((-off) \div Hour) * Hour \in Nat
    BY <1>1, <1>3, HourAssumption
  <2>2. QED
    BY <1>1, <1>3, <2>1, HourAssumption, BoundsAssumption DEF Passed, WholeHours, Targets, Times, Null
<1>4. QED
  BY <1>1, <1>2, <1>3, HourAssumption

LEMMA ConstTypes ==
  /\ NoConf \in Conf
  /\ NoCommand \in Command
  /\ 1 \in Times
BY BoundsAssumption, HourAssumption
   DEF NoConf, Conf, NoCommand, Command, Points, Times, Null, Targets

LEMMA NoDataType ==
  ASSUME TypeOK, NEW st \in {"empty", "debris"}
  PROVE  NoData(st) \in Server
BY DEF TypeOK, NoData, Server, States, InRecovery, Null

LEMMA GotoType ==
  ASSUME TypeOK, NEW pc \in Points, Goto(pc)
  PROVE  cmd' \in Command
BY DEF TypeOK, Goto, Command

LEMMA EndsType ==
  ASSUME TypeOK, NEW xacts \in SUBSET Times, Ends(xacts)
  PROVE  server' \in Server /\ repo' \subseteq Times /\ backups' \subseteq Backup
<1>1. server' \in Server
  BY DEF TypeOK, Ends, Server, States, InRecovery
<1>2. ASSUME NEW b \in backups PROVE [b EXCEPT !.live = @ /\ b.stop <= conf.target] \in Backup
  <2>1. b \in Backup
    BY DEF TypeOK
  <2>2. (b.live /\ b.stop <= conf.target) \in BOOLEAN
    OBVIOUS
  <2>3. QED
    BY <2>1, <2>2 DEF Backup
<1>3. QED
  BY <1>1, <1>2 DEF TypeOK, Ends

LEMMA InitRInv == Init => RInv
<1> SUFFICES ASSUME Init PROVE RInv
  OBVIOUS
<1>1. TypeOK
  BY ConstTypes DEF Init, TypeOK, Server, States, InRecovery, Null
<1>2. QED
  BY <1>1 DEF Init, RInv, StepsOK, PromotionAsked, SettingsOutliveRecovery,
              CleanUnlessPending, NoSettingsWithoutData, NoConf, NoCommand, InRecovery

LEMMA TypeStep ==
  ASSUME TypeOK, [Next]_vars
  PROVE  TypeOK'
<1> USE DEF Server, Command, Points, States, InRecovery, Idle, At, Return
<1>1. ASSUME NEW full \in BOOLEAN, CreateSnapshot(full) PROVE TypeOK'
  <2>1. [stop |-> now, full |-> full \/ backups = {}, live |-> TRUE] \in Backup
    BY DEF TypeOK, Backup
  <2>2. QED
    BY <1>1, <2>1 DEF TypeOK, CreateSnapshot
<1>2. ASSUME NEW b \in backups, DeleteSnapshot(b) PROVE TypeOK'
  BY <1>2, ConstTypes, GotoType DEF TypeOK, DeleteSnapshot
<1>3. ASSUME NEW t \in Times, NEW off \in Offsets, NEW promote \in BOOLEAN, RestoreBegin(t, off, promote) PROVE TypeOK'
  BY <1>3 DEF TypeOK, RestoreBegin
<1>4. CASE FastPath
  BY <1>4, ConstTypes, GotoType DEF TypeOK, FastPath
<1>5. CASE FastPathFails
  BY <1>5, ConstTypes, GotoType DEF TypeOK, FastPathFails
<1>6. CASE SlowPath
  BY <1>6, ConstTypes, GotoType DEF TypeOK, SlowPath
<1>7. CASE RestoreStop
  BY <1>7, ConstTypes, GotoType DEF TypeOK, RestoreStop
<1>8. CASE RestoreWipe
  BY <1>8, ConstTypes, NoDataType, GotoType DEF TypeOK, RestoreWipe
<1>9. CASE RestoreCopy
  <2>1. Passed(cmd.t, cmd.off) \in Targets
    BY PassedType DEF TypeOK
  <2>2. conf' \in Conf
    BY <1>9, <2>1 DEF TypeOK, RestoreCopy, Conf
  <2>3. server' \in Server
    <3>1. PICK b \in backups : server' = [server EXCEPT !.st = "recovery", !.live = b.live]
      BY <1>9 DEF RestoreCopy
    <3>2. b.live \in BOOLEAN
      BY DEF TypeOK, Backup
    <3>3. QED
      BY <3>1, <3>2 DEF TypeOK
  <2>4. QED
    BY <1>9, <2>2, <2>3, GotoType DEF TypeOK, RestoreCopy
<1>10. CASE RestoreStart
  <2>1. cmd' \in Command
    BY <1>10, ConstTypes, GotoType DEF RestoreStart
  <2>2. server' \in Server
    BY <1>10 DEF TypeOK, RestoreStart
  <2>3. QED
    BY <1>10, <2>1, <2>2 DEF TypeOK, RestoreStart
<1>11. CASE RestoreFails
  <2>1. server' \in Server /\ conf' \in Conf
    BY <1>11, ConstTypes, NoDataType DEF TypeOK, RestoreFails, Remains
  <2>2. QED
    BY <1>11, <2>1, ConstTypes DEF TypeOK, RestoreFails
<1>12. CASE PollPromoted
  BY <1>12, ConstTypes, GotoType DEF TypeOK, PollPromoted
<1>13. CASE PollGivesUp
  BY <1>13, ConstTypes, GotoType DEF TypeOK, PollGivesUp
<1>14. CASE ResetNext
  <2>1. cmd' \in Command
    BY <1>14, GotoType DEF TypeOK, ResetNext
  <2>2. conf' \in Conf
    BY <1>14 DEF TypeOK, ResetNext, Conf
  <2>3. QED
    BY <1>14, <2>1, <2>2 DEF TypeOK, ResetNext
<1>15. CASE ResetFails
  BY <1>15, ConstTypes, GotoType DEF TypeOK, ResetFails
<1>16. CASE RestartStops
  BY <1>16, ConstTypes, GotoType DEF TypeOK, RestartStops
<1>17. CASE RestartStarts
  BY <1>17, ConstTypes, GotoType DEF TypeOK, RestartStarts
<1>18. CASE RestartFails
  BY <1>18, ConstTypes, GotoType DEF TypeOK, RestartFails
<1>19. CASE Interrupt
  <2>1. ASSUME Remains PROVE server' \in Server /\ conf' \in Conf
    <3>1. PICK st \in {"empty", "debris"} : server' = NoData(st)
      BY <2>1 DEF Remains
    <3>2. server' \in Server
      BY <3>1, NoDataType
    <3>3. QED
      BY <2>1, <3>2, ConstTypes DEF Remains
  <2>2. ASSUME NEW u \in {server.up, FALSE}, server' = [server EXCEPT !.up = u], UNCHANGED conf
        PROVE  server' \in Server /\ conf' \in Conf
    BY <2>2 DEF TypeOK
  <2>3. server' \in Server /\ conf' \in Conf
    BY <1>19, <2>1, <2>2, Zenon DEF Interrupt
  <2>4. QED
    BY <1>19, <2>3, ConstTypes DEF TypeOK, Interrupt
<1>20. CASE StopInstance
  BY <1>20, ConstTypes, GotoType DEF TypeOK, StopInstance
<1>21. CASE StartInstance
  BY <1>21, ConstTypes, GotoType DEF TypeOK, StartInstance
<1>22. CASE Commit
  BY <1>22, ConstTypes, GotoType DEF TypeOK, Commit
<1>23. CASE Archive
  BY <1>23, ConstTypes, GotoType DEF TypeOK, Archive
<1>24. CASE Replay
  <2> DEFINE upTo == {x \in repo : HasTarget => x <= conf.target}
  <2>1. upTo \in SUBSET Times
    BY DEF TypeOK
  <2>2. CASE HasTarget /\ ~conf.promote
    <3>1. server' = [server EXCEPT !.st = "paused", !.xacts = upTo]
      BY <1>24, <2>2 DEF Replay
    <3>2. server' \in Server
      BY <2>1, <3>1 DEF TypeOK
    <3>3. QED
      BY <1>24, <2>2, <3>2 DEF TypeOK, Replay
  <2>3. CASE ~(HasTarget /\ ~conf.promote)
    <3>1. Ends(upTo)
      BY <1>24, <2>3 DEF Replay
    <3> HIDE DEF upTo
    <3>2. QED
      BY <1>24, <2>1, <3>1, EndsType DEF TypeOK, Replay
  <2>4. QED
    BY <2>2, <2>3
<1>25. CASE ReplayFails
  BY <1>25, ConstTypes, GotoType DEF TypeOK, ReplayFails
<1>26. CASE EndRecovery
  <2>1. server.xacts \in SUBSET Times
    BY DEF TypeOK
  <2>2. QED
    BY <1>26, <2>1, EndsType DEF TypeOK, EndRecovery
<1>27. CASE Tick
  BY <1>27, BoundsAssumption DEF TypeOK, Tick, Times
<1>28. CASE UNCHANGED vars
  BY <1>28 DEF TypeOK, vars
<1>29. QED
  BY <1>1, <1>2, <1>3, <1>4, <1>5, <1>6, <1>7, <1>8, <1>9, <1>10, <1>11, <1>12,
     <1>13, <1>14, <1>15, <1>16, <1>17, <1>18, <1>19, <1>20, <1>21, <1>22, <1>23, <1>24, <1>25, <1>26, <1>27, <1>28 DEF Next, RestoreStep, Postgres

\* CASE by CASE, no step of the command, of pg stop or start or of PostgreSQL
\* breaks RInv.
LEMMA RStep ==
  ASSUME RInv, [Next]_vars
  PROVE  RInv'
<1> USE DEF RInv, InRecovery, Settings, Idle, At, Goto, Return, NoCommand
<1> DEFINE Rest == /\ StepsOK /\ PromotionAsked /\ SettingsOutliveRecovery /\ CleanUnlessPending
                   /\ NoSettingsWithoutData
<1> SUFFICES Rest'
  BY TypeStep
<1>0. /\ server \in Server /\ conf \in Conf /\ cmd \in Command
      /\ pending \in BOOLEAN
  BY DEF TypeOK
<1> USE DEF Server, Conf, Command, StepsOK, PromotionAsked, SettingsOutliveRecovery,
            CleanUnlessPending, NoSettingsWithoutData
<1>1. ASSUME NEW full \in BOOLEAN, CreateSnapshot(full) PROVE Rest'
  BY <1>0, <1>1 DEF CreateSnapshot
<1>2. ASSUME NEW b \in backups, DeleteSnapshot(b) PROVE Rest'
  BY <1>0, <1>2 DEF DeleteSnapshot
<1>3. ASSUME NEW t \in Times, NEW off \in Offsets, NEW promote \in BOOLEAN, RestoreBegin(t, off, promote) PROVE Rest'
  BY <1>0, <1>3 DEF RestoreBegin
<1>4. CASE FastPath
  BY <1>0, <1>4 DEF FastPath, CanResume
<1>5. CASE FastPathFails
  BY <1>0, <1>5 DEF FastPathFails, CanResume
<1>6. CASE SlowPath
  BY <1>0, <1>6 DEF SlowPath
<1>7. CASE RestoreStop
  BY <1>0, <1>7 DEF RestoreStop
<1>8. CASE RestoreWipe
  BY <1>0, <1>8 DEF RestoreWipe, NoData, NoConf
<1>9. CASE RestoreCopy
  BY <1>0, <1>9 DEF RestoreCopy
<1>10. CASE RestoreStart
  <2>1. StepsOK'
    BY <1>0, <1>10 DEF RestoreStart
  <2>2. PromotionAsked'
    BY <1>0, <1>10 DEF RestoreStart
  <2>3. SettingsOutliveRecovery'
    BY <1>0, <1>10 DEF RestoreStart
  <2>4. CleanUnlessPending'
    BY <1>0, <1>10 DEF RestoreStart
  <2>5. NoSettingsWithoutData'
    BY <1>0, <1>10 DEF RestoreStart
  <2>6. QED
    BY <2>1, <2>2, <2>3, <2>4, <2>5
<1>11. CASE RestoreFails
  <2>1. StepsOK'
    BY <1>0, <1>11 DEF RestoreFails, Remains, NoData, NoConf
  <2>2. PromotionAsked'
    BY <1>0, <1>11 DEF RestoreFails, Remains, NoData, NoConf
  <2>3. SettingsOutliveRecovery'
    BY <1>0, <1>11 DEF RestoreFails, Remains, NoData, NoConf
  <2>4. CleanUnlessPending'
    BY <1>0, <1>11 DEF RestoreFails, Remains, NoData, NoConf
  <2>5. NoSettingsWithoutData'
    BY <1>0, <1>11 DEF RestoreFails, Remains, NoData, NoConf
  <2>6. QED
    BY <2>1, <2>2, <2>3, <2>4, <2>5
<1>12. CASE PollPromoted
  BY <1>0, <1>12 DEF PollPromoted
<1>13. CASE PollGivesUp
  BY <1>0, <1>13 DEF PollGivesUp
<1>14. CASE ResetNext
  <2>1. PICK i \in 1..3 :
           /\ ResetOrder[i] \in conf.set
           /\ \A j \in 1..(i - 1) : ResetOrder[j] \notin conf.set
           /\ conf' = [conf EXCEPT !.set = conf.set \ {ResetOrder[i]}]
           /\ IF i = 3 THEN Goto("bounce") ELSE UNCHANGED cmd
    BY <1>14 DEF ResetNext
  <2>2. CASE i = 3
    <3>1. "target_time" \notin conf.set /\ "target_action" \notin conf.set
      BY <2>1, <2>2, 1 \in 1..(i - 1), 2 \in 1..(i - 1) DEF ResetOrder
    <3>2. conf'.set = {}
      BY <1>0, <2>1, <2>2, <3>1 DEF ResetOrder
    <3>3. QED
      BY <1>0, <1>14, <2>1, <2>2, <3>2 DEF ResetNext
  <2>3. CASE i # 3
    BY <1>0, <1>14, <2>1, <2>3 DEF ResetNext
  <2>4. QED
    BY <2>2, <2>3
<1>15. CASE ResetFails
  BY <1>0, <1>15 DEF ResetFails
<1>16. CASE RestartStops
  BY <1>0, <1>16 DEF RestartStops
<1>17. CASE RestartStarts
  <2>1. StepsOK'
    BY <1>0, <1>17 DEF RestartStarts
  <2>2. PromotionAsked'
    BY <1>0, <1>17 DEF RestartStarts
  <2>3. SettingsOutliveRecovery'
    BY <1>0, <1>17 DEF RestartStarts
  <2>4. CleanUnlessPending'
    BY <1>0, <1>17 DEF RestartStarts
  <2>5. NoSettingsWithoutData'
    BY <1>0, <1>17 DEF RestartStarts
  <2>6. QED
    BY <2>1, <2>2, <2>3, <2>4, <2>5
<1>18. CASE RestartFails
  BY <1>0, <1>18 DEF RestartFails
<1>19. CASE Interrupt
  <2>1. StepsOK'
    BY <1>0, <1>19 DEF Interrupt, Remains, NoData, NoConf
  <2>2. PromotionAsked'
    BY <1>0, <1>19 DEF Interrupt, Remains, NoData, NoConf
  <2>3. SettingsOutliveRecovery'
    BY <1>0, <1>19 DEF Interrupt, Remains, NoData, NoConf
  <2>4. CleanUnlessPending'
    BY <1>0, <1>19 DEF Interrupt, Remains, NoData, NoConf
  <2>5. NoSettingsWithoutData'
    BY <1>0, <1>19 DEF Interrupt, Remains, NoData, NoConf
  <2>6. QED
    BY <2>1, <2>2, <2>3, <2>4, <2>5
<1>20. CASE StopInstance
  BY <1>0, <1>20 DEF StopInstance
<1>21. CASE StartInstance
  BY <1>0, <1>21 DEF StartInstance
<1>22. CASE Commit
  BY <1>0, <1>22 DEF Commit
<1>23. CASE Archive
  BY <1>0, <1>23 DEF Archive
<1>24. CASE Replay
  <2>1. server.up /\ server.st = "recovery" /\ UNCHANGED <<conf, cmd, pending>>
    BY <1>24 DEF Replay
  <2>2. CASE HasTarget /\ ~conf.promote
    BY <1>0, <1>24, <2>1, <2>2 DEF Replay
  <2>3. CASE ~(HasTarget /\ ~conf.promote)
    <3>1. server'.st = "rw"
      BY <1>0, <1>24, <2>3 DEF Replay, Ends
    <3>2. conf.promote
      BY <2>1, <2>3 DEF HasTarget
    <3>3. pending \/ cmd.pc = "wait"
      BY <2>1, <3>2
    <3>4. QED
      BY <1>0, <2>1, <3>1, <3>3
  <2>4. QED
    BY <2>2, <2>3
<1>25. CASE ReplayFails
  BY <1>0, <1>25 DEF ReplayFails
<1>26. CASE EndRecovery
  <2>1. server'.st = "rw" /\ server.st = "ending" /\ UNCHANGED <<conf, cmd, pending>>
    BY <1>0, <1>26 DEF EndRecovery, Ends
  <2>2. QED
    BY <1>0, <1>26, <2>1 DEF EndRecovery
<1>27. CASE Tick
  BY <1>0, <1>27 DEF Tick
<1>28. CASE UNCHANGED vars
  BY <1>28 DEF vars
<1>29. QED
  BY <1>1, <1>2, <1>3, <1>4, <1>5, <1>6, <1>7, <1>8, <1>9, <1>10, <1>11, <1>12,
     <1>13, <1>14, <1>15, <1>16, <1>17, <1>18, <1>19, <1>20, <1>21, <1>22, <1>23, <1>24, <1>25, <1>26, <1>27, <1>28 DEF Next, RestoreStep, Postgres

\* Only PostgreSQL itself ends a recovery.
LEMMA OnlyReplayPromotes ==
  ASSUME server \in Server, [Next]_vars, server.st \in InRecovery, server'.st = "rw"
  PROVE  Replay \/ EndRecovery
BY DEF Next, RestoreStep, Postgres, vars, Server, CreateSnapshot, DeleteSnapshot,
   RestoreBegin, FastPath, FastPathFails, SlowPath, RestoreStop, RestoreWipe, NoData,
   Remains, InRecovery, RestoreCopy, RestoreStart, RestoreFails, PollPromoted, PollGivesUp, ResetNext,
   ResetFails, RestartStops, RestartStarts, RestartFails, Interrupt, StopInstance,
   StartInstance, Commit, Archive, ReplayFails, Tick

-----------------------------------------------------------------------------
(* Theorems about every behaviour *)

\* RInv holds throughout: the argument by steps behind the theorems below.
THEOREM RInvHolds == Spec => []RInv
<1>1. Init => RInv
  BY InitRInv
<1>2. RInv /\ [Next]_vars => RInv'
  BY RStep
<1>3. QED
  BY <1>1, <1>2, PTL DEF Spec

\* The variables have their types; in particular the target that pgBackRest gets
\* is less than an hour from the clock's range whatever offset it was written in.
THEOREM TypeCorrect == Spec => []TypeOK
<1>1. RInv => TypeOK
  BY DEF RInv
<1>2. QED
  BY <1>1, RInvHolds, PTL

\* The settings a recovery works by are not reset before it has ended
\* (clearPostPromoteRecoveryConfig), however commands fail or are interrupted.
THEOREM RecoveryKeepsItsSettings == Spec => []SettingsOutliveRecovery
<1>1. RInv => SettingsOutliveRecovery
  BY DEF RInv
<1>2. QED
  BY <1>1, RInvHolds, PTL

\* No recovery settings are left in a read-write instance, unless a restore
\* --promote was cut short.
THEOREM PromotedIsClean == Spec => []CleanAfterPromote
<1>1. RInv => CleanAfterPromote
  BY DEF RInv, CleanUnlessPending, CleanAfterPromote, Idle
<1>2. QED
  BY <1>1, RInvHolds, PTL

\* No step ends a recovery that nobody asked to promote, whatever fails and
\* however often the server is started.
THEOREM PausedUntilPromoted == Spec => PausedStaysPaused
<1>1. ASSUME RInv, [Next]_vars, server.st \in InRecovery, server'.st = "rw"
      PROVE  cmd.promote \/ pending
  <2>1. server \in Server
    BY <1>1 DEF RInv, TypeOK
  <2>2. Replay \/ EndRecovery
    BY <1>1, <2>1, OnlyReplayPromotes
  <2>3. CASE Replay
    <3>1. server.st = "recovery" /\ ~(HasTarget /\ ~conf.promote)
      BY <1>1, <2>1, <2>3, ZenonT(40) DEF Replay, Server
    <3>2. conf.promote
      BY <1>1, <3>1
         DEF RInv, SettingsOutliveRecovery, InRecovery, HasTarget, Settings
    <3>3. QED
      BY <1>1, <3>1, <3>2 DEF RInv, PromotionAsked, InRecovery
  <2>4. CASE EndRecovery
    BY <1>1, <2>4 DEF EndRecovery, RInv, PromotionAsked, StepsOK
  <2>5. QED
    BY <2>2, <2>3, <2>4
<1>2. RInv /\ [Next]_vars => [server.st \in InRecovery /\ server'.st = "rw" => cmd.promote \/ pending]_vars
  BY <1>1
<1>3. QED
  BY <1>2, RInvHolds, PTL DEF Spec, PausedStaysPaused

-----------------------------------------------------------------------------
(* The snapshots *)

\* No two snapshots end at the same time, none in the future, and each is a full
\* one or has one before it.
BackupsOK ==
    /\ \A b, c \in backups : b.stop = c.stop => b = c
    /\ \A b \in backups : b.stop <= now
    /\ \A d \in backups : \E f \in backups : f.full /\ f.stop <= d.stop

BInv == TypeOK /\ BackupsOK

LEMMA InitBInv == Init => BInv
BY InitRInv DEF RInv, BInv, BackupsOK, Init

\* A full snapshot, or one whose dependents stay, can be removed when another
\* full one is left.
LEMMA DeleteKeeps ==
  ASSUME BInv, NEW b \in backups, DeleteSnapshot(b)
  PROVE  BackupsOK' /\ backups' # {}
<1> PICK gone \in Dependents(b) : backups' = backups \ ({b} \cup gone)
  BY DEF DeleteSnapshot
<1>0. \A c \in backups : c.stop \in Int /\ c.full \in BOOLEAN
  BY BoundsAssumption DEF BInv, TypeOK, Backup, Times
<1>1. \A f \in backups : f.full /\ f # b => f \in backups'
  BY DEF Dependents, After
<1>2. \A d \in backups' : \E f \in backups' : f.full /\ f.stop <= d.stop
  <2> SUFFICES ASSUME NEW d \in backups'
               PROVE  \E f \in backups' : f.full /\ f.stop <= d.stop
    OBVIOUS
  <2>1. d \in backups /\ d # b /\ d \notin gone
    OBVIOUS
  <2>2. PICK f \in backups : f.full /\ f.stop <= d.stop
    BY <2>1 DEF BInv, BackupsOK
  <2>3. CASE f # b
    BY <1>1, <2>2, <2>3
  <2>4. CASE f = b /\ ~d.full
    <3>1. d.stop > b.stop
      BY <1>0, <2>1, <2>2, <2>4 DEF BInv, BackupsOK
    <3>2. PICK g \in backups : g.full /\ g.stop > b.stop /\ g.stop < d.stop
      BY <2>1, <2>2, <2>4, <3>1 DEF Dependents, After
    <3>3. g # b
      BY <1>0, <3>2
    <3>4. QED
      BY <1>0, <1>1, <2>1, <3>2, <3>3
  <2>5. CASE d.full
    BY <1>0, <2>1, <2>5
  <2>6. QED
    BY <2>3, <2>4, <2>5
<1>3. backups' # {}
  <2>1. PICK f \in backups : f.full
    BY DEF BInv, BackupsOK
  <2>2. CASE f # b
    BY <1>1, <2>1, <2>2
  <2>3. CASE f = b
    <3>1. Cardinality({g \in backups : g.full}) # 1
      BY <2>1, <2>3 DEF DeleteSnapshot
    <3>2. {g \in backups : g.full} # {b}
      BY <3>1, FS_Singleton
    <3>3. PICK g \in backups : g.full /\ g # b
      BY <2>1, <2>3, <3>2
    <3>4. QED
      BY <1>1, <3>3
  <2>4. QED
    BY <2>2, <2>3
<1>4. now' = now
  BY DEF DeleteSnapshot
<1>5. QED
  BY <1>2, <1>3, <1>4 DEF BInv, BackupsOK

\* The end of recovery only marks snapshots.
LEMMA EndsKeeps ==
  ASSUME BInv, NEW xacts, Ends(xacts), now' = now
  PROVE  BackupsOK' /\ (backups # {} => backups' # {})
<1> DEFINE mark(b) == [b EXCEPT !.live = @ /\ b.stop <= conf.target]
<1>1. \A b \in backups : mark(b).stop = b.stop /\ mark(b).full = b.full
  BY DEF BInv, TypeOK, Backup
<1>2. backups' = {mark(b) : b \in backups}
  BY DEF Ends
<1> HIDE DEF mark
<1>3. QED
  BY <1>1, <1>2 DEF BInv, BackupsOK

LEMMA BStep ==
  ASSUME BInv, [Next]_vars
  PROVE  BInv' /\ (backups # {} => backups' # {})
<1> DEFINE Goal == BackupsOK' /\ (backups # {} => backups' # {})
<1> SUFFICES Goal
  BY TypeStep DEF BInv
<1>0. now \in Int /\ \A b \in backups : b.stop \in Int /\ b.full \in BOOLEAN
  BY BoundsAssumption DEF BInv, TypeOK, Backup, Times
<1>1. ASSUME NEW full \in BOOLEAN, CreateSnapshot(full) PROVE Goal
  <2> DEFINE new == [stop |-> now, full |-> full \/ backups = {}, live |-> TRUE]
  <2>1. backups' = backups \cup {new} /\ now' = now /\ \A b \in backups : b.stop < now
    BY <1>1 DEF CreateSnapshot
  <2>2. new.stop = now /\ (backups = {} => new.full)
    OBVIOUS
  <2> HIDE DEF new
  <2>3. \A b, c \in backups' : b.stop = c.stop => b = c
    BY <1>0, <2>1, <2>2 DEF BInv, BackupsOK
  <2>4. \A b \in backups' : b.stop <= now'
    BY <1>0, <2>1, <2>2 DEF BInv, BackupsOK
  <2>5. \A d \in backups : \E f \in backups' : f.full /\ f.stop <= d.stop
    BY <2>1 DEF BInv, BackupsOK
  <2>6. \E f \in backups' : f.full /\ f.stop <= new.stop
    <3>1. CASE backups = {}
      BY <1>0, <2>1, <2>2, <3>1
    <3>2. CASE backups # {}
      <4>1. PICK f \in backups : f.full
        BY <3>2 DEF BInv, BackupsOK
      <4>2. QED
        BY <1>0, <2>1, <2>2, <4>1
    <3>3. QED
      BY <3>1, <3>2
  <2>7. QED
    BY <2>1, <2>3, <2>4, <2>5, <2>6 DEF BackupsOK
<1>2. ASSUME NEW b \in backups, DeleteSnapshot(b) PROVE Goal
  BY <1>2, DeleteKeeps
<1>3. CASE Replay
  <2>1. CASE UNCHANGED <<now, backups>>
    BY <2>1 DEF BInv, BackupsOK
  <2>2. ASSUME NEW xacts, Ends(xacts) PROVE Goal
    BY <1>3, <2>2, EndsKeeps DEF Replay
  <2>3. QED
    BY <1>3, <2>1, <2>2 DEF Replay
<1>4. CASE EndRecovery
  BY <1>4, EndsKeeps DEF EndRecovery
<1>5. CASE Tick
  BY <1>0, <1>5 DEF Tick, BInv, BackupsOK
<1>6. CASE UNCHANGED <<now, backups>>
  BY <1>6 DEF BInv, BackupsOK
<1>7. QED
  BY <1>1, <1>2, <1>3, <1>4, <1>5, <1>6
     DEF Next, RestoreStep, Postgres, vars, RestoreBegin, FastPath, FastPathFails, SlowPath,
         RestoreStop, RestoreWipe, RestoreCopy, RestoreStart, RestoreFails, PollPromoted,
         PollGivesUp, ResetNext, ResetFails, RestartStops, RestartStarts, RestartFails,
         Interrupt, StopInstance, StartInstance, Commit, Archive, ReplayFails

\* pg snapshot delete never takes the last full backup, nor leaves an incremental
\* one without the full one it builds on.
THEOREM FullAlwaysRemains == Spec => FullBackupRemains
<1>1. Init => BInv
  BY InitBInv
<1>2. BInv /\ [Next]_vars => BInv'
  BY BStep
<1>3. BInv /\ [Next]_vars => [backups # {} => backups' # {}]_vars
  BY BStep
<1>4. BInv => \A d \in backups : \E f \in backups : f.full /\ f.stop <= d.stop
  BY DEF BInv, BackupsOK
<1>5. QED
  BY <1>1, <1>2, <1>3, <1>4, PTL DEF Spec, FullBackupRemains

-----------------------------------------------------------------------------
(* The database a promotion gives *)

\* What pgBackRest was told, what the paused server has replayed, and what the
\* fast path knew when it resumed it.
TargetOK ==
    /\ At("start") => server.st = "recovery" /\ conf.target = cmd.t
    /\ At("wait") => server.st \in {"recovery", "loop", "ending", "rw"}
    /\ At("wait") /\ server.st \in {"recovery", "loop"} => conf.promote /\ conf.target = cmd.t
    /\ server.st \in {"paused", "ending"} => server.xacts = {x \in repo : x <= conf.target}
    /\ At("wait") /\ server.st = "ending" =>
          \E r \in server.xacts : Near(cmd.t, r) /\ \A x \in server.xacts : x <= r

TInv == RInv /\ TargetOK

LEMMA LatestIsMax ==
  ASSUME NEW S \in SUBSET Times, S # {}
  PROVE  Latest(S) \in S /\ \A x \in S : x <= Latest(S)
<1> DEFINE T == {MaxTime - x : x \in S}
<1>1. S \subseteq Nat /\ \A x \in S : x <= MaxTime
  BY BoundsAssumption DEF Times
<1>2. T \subseteq Nat /\ T # {}
  <2>1. \A x \in S : MaxTime - x \in Nat
    BY <1>1, BoundsAssumption
  <2>2. QED
    BY <2>1
<1>3. PICK m \in T : \A y \in T : ~(<<y, m>> \in OpToRel(<, Nat))
  <2> HIDE DEF T
  <2>1. QED
    BY <1>2, NatLessThanWellFounded, WFMin
<1>4. \A y \in T : ~(y < m)
  BY <1>2, <1>3 DEF OpToRel
<1>5. PICK x \in S : m = MaxTime - x
  OBVIOUS
<1>6. \A y \in S : x >= y
  BY <1>1, <1>4, <1>5, BoundsAssumption
<1>7. Max(S) \in S /\ \A y \in S : Max(S) >= y
  BY <1>6 DEF Max
<1>8. QED
  BY <1>1, <1>7 DEF Latest

\* --time is written in offsets of whole hours only.
WholeHourOffsets == \A off \in Offsets : WholeHours(off) = off

LEMMA PassedWhole ==
  ASSUME WholeHourOffsets, NEW t \in Times \cup {Null}, NEW off \in Offsets \cup {0}
  PROVE  Passed(t, off) = t
<1>1. WholeHours(0) = 0
  BY HourAssumption DEF WholeHours
<1>2. t \in Int /\ off \in Int
  BY BoundsAssumption, OffsetsAssumption, HourAssumption DEF Times, Null
<1>3. QED
  BY <1>1, <1>2 DEF WholeHourOffsets, Passed

LEMMA InitTarget == Init => TargetOK
BY DEF Init, TargetOK, At, NoCommand

LEMMA TargetStep ==
  ASSUME WholeHourOffsets, TInv, [Next]_vars
  PROVE  TargetOK'
<1> USE DEF TInv, InRecovery, Idle, At, Goto, Return, NoCommand
<1>0. /\ server \in Server /\ conf \in Conf /\ cmd \in Command
  BY DEF RInv, TypeOK
<1> USE DEF Server, Conf, Command, TargetOK
<1>1. ASSUME NEW full \in BOOLEAN, CreateSnapshot(full) PROVE TargetOK'
  BY <1>0, <1>1 DEF CreateSnapshot
<1>2. ASSUME NEW b \in backups, DeleteSnapshot(b) PROVE TargetOK'
  BY <1>0, <1>2 DEF DeleteSnapshot
<1>3. ASSUME NEW t \in Times, NEW off \in Offsets, NEW promote \in BOOLEAN, RestoreBegin(t, off, promote) PROVE TargetOK'
  BY <1>0, <1>3 DEF RestoreBegin
<1>4. CASE FastPath
  <2>1. server.st = "paused" /\ UNCHANGED <<conf, repo>> /\ cmd'.pc = "wait" /\ cmd'.t = cmd.t
    BY <1>0, <1>4 DEF FastPath, CanResume
  <2>2. server'.st = "ending" /\ server'.xacts = server.xacts
    BY <1>0, <1>4 DEF FastPath
  <2>3. server.xacts # {} /\ Near(cmd.t, Latest(server.xacts))
    BY <1>4 DEF FastPath, CanResume, Latest
  <2>4. \E r \in server.xacts : Near(cmd.t, r) /\ \A x \in server.xacts : x <= r
    BY <1>0, <2>3, LatestIsMax
  <2>5. QED
    BY <2>1, <2>2, <2>4
<1>5. CASE FastPathFails
  BY <1>0, <1>5 DEF FastPathFails, CanResume
<1>6. CASE SlowPath
  BY <1>0, <1>6 DEF SlowPath
<1>7. CASE RestoreStop
  BY <1>0, <1>7 DEF RestoreStop
<1>8. CASE RestoreWipe
  BY <1>0, <1>8 DEF RestoreWipe, NoData
<1>9. CASE RestoreCopy
  <2>1. Passed(cmd.t, cmd.off) = cmd.t
    BY <1>0, PassedWhole
  <2>2. conf'.target = cmd.t
    BY <1>9, <2>1 DEF RestoreCopy
  <2>3. server'.st = "recovery" /\ cmd'.pc = "start" /\ cmd'.t = cmd.t
    BY <1>0, <1>9 DEF RestoreCopy
  <2>4. QED
    BY <2>2, <2>3
<1>10. CASE RestoreStart
  <2>1. server'.st = "recovery" /\ conf' = conf /\ conf.target = cmd.t
    BY <1>0, <1>10 DEF RestoreStart
  <2>2. CASE cmd.promote
    BY <1>0, <1>10, <2>1, <2>2 DEF RestoreStart, RInv, StepsOK
  <2>3. CASE ~cmd.promote
    BY <1>0, <1>10, <2>1, <2>3 DEF RestoreStart
  <2>4. QED
    BY <2>2, <2>3
<1>11. CASE RestoreFails
  BY <1>0, <1>11 DEF RestoreFails, Remains, NoData
<1>12. CASE PollPromoted
  BY <1>0, <1>12 DEF PollPromoted
<1>13. CASE PollGivesUp
  BY <1>0, <1>13 DEF PollGivesUp
<1>14. CASE ResetNext
  BY <1>0, <1>14 DEF ResetNext, RInv, StepsOK
<1>15. CASE ResetFails
  BY <1>0, <1>15 DEF ResetFails
<1>16. CASE RestartStops
  BY <1>0, <1>16 DEF RestartStops, RInv, StepsOK
<1>17. CASE RestartStarts
  BY <1>0, <1>17 DEF RestartStarts
<1>18. CASE RestartFails
  BY <1>0, <1>18 DEF RestartFails
<1>19. CASE Interrupt
  BY <1>0, <1>19 DEF Interrupt, Remains, NoData
<1>20. CASE StopInstance
  BY <1>0, <1>20 DEF StopInstance
<1>21. CASE StartInstance
  BY <1>0, <1>21 DEF StartInstance
<1>22. CASE Commit
  BY <1>0, <1>22 DEF Commit
<1>23. CASE Archive
  BY <1>0, <1>23 DEF Archive
<1>24. CASE Replay
  <2>1. server.up /\ server.st = "recovery" /\ UNCHANGED <<conf, cmd>> /\ HasTarget
    BY <1>24 DEF Replay, RInv, SettingsOutliveRecovery, HasTarget, Settings
  <2>2. CASE ~conf.promote
    <3>1. /\ server'.st = "paused" /\ repo' = repo
          /\ server'.xacts = {x \in repo : x <= conf.target}
      <4>1. {x \in repo : HasTarget => x <= conf.target} = {x \in repo : x <= conf.target}
        BY <2>1
      <4>2. QED
        BY <1>0, <1>24, <2>1, <2>2, <4>1 DEF Replay
    <3>2. cmd.pc # "wait" /\ cmd.pc # "start"
      BY <2>1, <2>2 DEF RInv, StepsOK
    <3>3. QED
      BY <2>1, <3>1, <3>2
  <2>3. CASE conf.promote
    <3>1. server'.st = "rw"
      BY <1>0, <1>24, <2>3 DEF Replay, Ends
    <3>2. cmd.pc # "start"
      BY <2>1 DEF RInv, StepsOK
    <3>3. QED
      BY <2>1, <3>1, <3>2
  <2>4. QED
    BY <2>2, <2>3
<1>25. CASE ReplayFails
  BY <1>0, <1>25 DEF ReplayFails, RInv, StepsOK
<1>26. CASE EndRecovery
  <2>1. server'.st = "rw" /\ server.up /\ UNCHANGED cmd
    BY <1>0, <1>26 DEF EndRecovery, Ends
  <2>2. QED
    BY <2>1 DEF RInv, StepsOK
<1>27. CASE Tick
  BY <1>0, <1>27 DEF Tick
<1>28. CASE UNCHANGED vars
  BY <1>28 DEF vars
<1>29. QED
  BY <1>1, <1>2, <1>3, <1>4, <1>5, <1>6, <1>7, <1>8, <1>9, <1>10, <1>11, <1>12,
     <1>13, <1>14, <1>15, <1>16, <1>17, <1>18, <1>19, <1>20, <1>21, <1>22, <1>23, <1>24, <1>25, <1>26, <1>27, <1>28 DEF Next, RestoreStep, Postgres

\* A restore --promote that sees its promotion gives the database at the
\* requested time, for targets in whole-hour offsets.  (restore_zone shows that
\* the others are missed.)
THEOREM PromotionHitsTarget == WholeHourOffsets => (Spec => PromotesAtTarget)
<1> SUFFICES ASSUME WholeHourOffsets PROVE Spec => PromotesAtTarget
  OBVIOUS
<1> DEFINE Hit == /\ \A x \in repo : x <= cmd.t - Tolerance => x \in server'.xacts
                  /\ \A x \in server'.xacts : x < cmd.t + Tolerance
<1>1. ASSUME TInv, [Next]_vars, server.st \in InRecovery, server'.st = "rw", At("wait") PROVE Hit
  <2>0. server \in Server /\ cmd.t \in Int /\ Tolerance \in Nat \ {0} /\ repo \subseteq Int
    BY <1>1, BoundsAssumption, HourAssumption DEF TInv, RInv, TypeOK, Command, Times, Null
  <2>1. conf.target \in Int
    BY <1>1, HourAssumption, BoundsAssumption DEF TInv, RInv, TypeOK, Conf, Targets
  <2>2. Replay \/ EndRecovery
    BY <1>1, <2>0, OnlyReplayPromotes
  <2>3. CASE Replay
    <3>1. server.st = "recovery" /\ conf.promote /\ conf.target = cmd.t /\ HasTarget
      BY <1>1, <2>3 DEF Replay, TInv, TargetOK, RInv, SettingsOutliveRecovery, InRecovery,
                        HasTarget, Settings
    <3>2. server'.xacts = {x \in repo : x <= cmd.t}
      BY <2>0, <2>3, <3>1, ZenonT(40) DEF Replay, Ends, Server
    <3>3. \A x \in repo : x <= cmd.t - Tolerance => x <= cmd.t
      BY <2>0
    <3>4. \A x \in repo : x <= cmd.t => x < cmd.t + Tolerance
      BY <2>0
    <3>5. QED
      BY <3>2, <3>3, <3>4
  <2>4. CASE EndRecovery
    <3>1. server.st = "ending" /\ server'.xacts = server.xacts
      BY <2>0, <2>4 DEF EndRecovery, Ends, Server
    <3>2. server.xacts = {x \in repo : x <= conf.target}
      BY <1>1, <3>1 DEF TInv, TargetOK
    <3>3. PICK r \in server.xacts : Near(cmd.t, r) /\ \A x \in server.xacts : x <= r
      BY <1>1, <3>1 DEF TInv, TargetOK
    <3>4. r \in Int /\ r <= conf.target
      BY <2>0, <3>2
    <3>5. cmd.t - Tolerance < r /\ r < cmd.t + Tolerance
      BY <2>0, <3>3, <3>4 DEF Near
    <3>6. ASSUME NEW x \in repo, x <= cmd.t - Tolerance PROVE x \in server'.xacts
      BY <2>0, <2>1, <3>1, <3>2, <3>4, <3>5, <3>6
    <3>7. ASSUME NEW x \in server'.xacts PROVE x < cmd.t + Tolerance
      <4>1. x \in server.xacts /\ x \in Int /\ x <= r
        BY <2>0, <3>1, <3>2, <3>3, <3>7
      <4>2. QED
        BY <2>0, <3>4, <3>5, <4>1
    <3>8. QED
      BY <3>6, <3>7
  <2>5. QED
    BY <2>2, <2>3, <2>4
<1>2. Init => TInv
  BY InitRInv, InitTarget DEF TInv
<1>3. TInv /\ [Next]_vars => TInv'
  BY RStep, TargetStep DEF TInv
<1>4. TInv /\ [Next]_vars => [server.st \in InRecovery /\ server'.st = "rw" /\ At("wait") => Hit]_vars
  BY <1>1
<1>5. QED
  BY <1>2, <1>3, <1>4, PTL DEF Spec, PromotesAtTarget

=============================================================================
