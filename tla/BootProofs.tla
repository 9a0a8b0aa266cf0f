----------------------------- MODULE BootProofs -----------------------------
(***************************************************************************)
(* Proofs about Boot for every set of instances, add-ons and users, every  *)
(* number of commands and reboots.                                         *)
(*                                                                         *)
(* Every step of a command but the last of a toggle replaces the command's *)
(* own job by one that its action computes (StepJob); the invariants then  *)
(* follow from what each action does to the containers (StepEffect).       *)
(***************************************************************************)
EXTENDS Boot, TLAPS

StartPoints == {"query", "start", "rm", "create", "wait", "archive", "tstop", "tstart", "save"}
StopPoints == {"stop", "smigrate", "retry", "clear"}

(* Which commands reach which control points: only a start command brings  *)
(* a container up, and no stop command gets to the restart loop, because   *)
(* an instance is stopped with a manager that has not probed podman.       *)
JobInv(j) ==
    /\ j.pc \in StartPoints => j.op \in Starts
    /\ j.pc \in StopPoints => j.op \in Stops
    /\ j.pc \in {"flag", "sync"} <=> j.op \in Toggles
    /\ j.pc = "idle" => j.op = "none"
    /\ j.pc \in {"list", "restart", "rmstale"} => j.op \notin Stops
    /\ j.pc = "migrate" /\ j.op \in Stops => j.cur \notin Instances

JobsInv == \A p \in Procs : JobInv(proc[p])

(* A container that was stopped on purpose is out of everybody's reach: no *)
(* command aims at it, and while podman is stale or a repair is under way  *)
(* there is none.                                                          *)
KeptInv ==
    /\ stale => kept = {}
    /\ \A p \in Procs : proc[p].pc \in Repairing => kept = {}
    /\ \A p \in Procs : JobAims(proc[p]) \cap kept = {}
    /\ KeptStaysDown

IInv == TypeOK /\ JobsInv /\ KeptInv

Good(j) == j \in Job /\ JobOK(j) /\ JobInv(j)

(* k may take the place of job j: it belongs to the same command and aims  *)
(* at nothing that j does not aim at.                                      *)
Follows(j, k) ==
    /\ Good(k)
    /\ JobAims(k) \subseteq JobAims(j)
    /\ k.op = j.op /\ k.cfg = j.cfg

-----------------------------------------------------------------------------
(* The jobs that the actions build. *)

LEMMA IdleGood == Good(Idle) /\ JobAims(Idle) = {} /\ Idle.pc = "idle" /\ Idle.op = "none"
BY KindsAssumption
   DEF Good, Idle, Job, JobOK, JobInv, Ops, Points, Repairing, Toggles, Starts, Stops,
       StartPoints, StopPoints, JobAims, Aims

LEMMA NextTargetFollows ==
  ASSUME NEW j \in Job, j.op \notin Toggles
  PROVE  Follows(j, NextTarget(j)) /\ NextTarget(j).pc = "next"
<1>1. NextTarget(j) \in Job
  BY DEF NextTarget, Job, Points
<1>2. JobOK(NextTarget(j)) /\ JobInv(NextTarget(j))
  BY DEF NextTarget, Job, JobOK, JobInv, StartPoints, StopPoints
<1>3. JobAims(NextTarget(j)) \subseteq JobAims(j)
  BY DEF NextTarget, Job, JobAims, Aims
<1>4. NextTarget(j).op = j.op /\ NextTarget(j).cfg = j.cfg /\ NextTarget(j).pc = "next"
  BY DEF NextTarget, Job
<1> QED BY <1>1, <1>2, <1>3, <1>4 DEF Good, Follows

LEMMA ProceedFollows ==
  ASSUME NEW j \in Job, j.cur # None, j.op \notin Toggles
  PROVE  Follows(j, Proceed(j)) /\ Proceed(j).pc \notin Repairing
<1>1. CASE Work(j.op) = "next"
  BY <1>1, NextTargetFollows DEF Proceed, Repairing
<1>2. CASE Work(j.op) # "next"
  <2>1. Proceed(j) = [j EXCEPT !.pc = Work(j.op)]
    BY <1>2 DEF Proceed
  <2>2. \/ Work(j.op) = "query" /\ j.op \in Starts
        \/ Work(j.op) = "stop" /\ j.op \in Stops
    BY <1>2 DEF Work
  <2>3. Proceed(j) \in Job /\ JobOK(Proceed(j)) /\ JobInv(Proceed(j))
    BY <2>1, <2>2 DEF Job, Points, JobOK, JobInv, StartPoints, StopPoints
  <2>4. JobAims(Proceed(j)) = JobAims(j)
    BY <2>1 DEF Job, JobAims, Aims
  <2> QED BY <2>1, <2>2, <2>3, <2>4 DEF Good, Follows, Repairing, Job
<1> QED BY <1>1, <1>2

LEMMA ReachedFollows ==
  ASSUME NEW j, Good(j), j.op \in Starts, j.cur # None
  PROVE  Follows(j, Reached(j)) /\ Reached(j).pc \notin Repairing
<1>0. j.op \notin Toggles /\ j \in Job
  BY DEF Starts, Toggles, Good
<1>1. CASE j.cur \in Instances
  <2>1. Reached(j) = [j EXCEPT !.pc = "wait"]
    BY <1>1 DEF Reached
  <2>2. JobAims(Reached(j)) = JobAims(j)
    BY <1>0, <2>1 DEF Job, JobAims, Aims
  <2> QED BY <1>0, <1>1, <2>1, <2>2
          DEF Follows, Good, Job, Points, JobOK, JobInv, StartPoints, StopPoints, Repairing
<1>2. CASE j.cur \notin Instances /\ j.inst # None
  <2>1. Reached(j) = [j EXCEPT !.pc = "archive", !.cur = j.inst]
    BY <1>2 DEF Reached
  <2>2. JobAims(Reached(j)) \subseteq JobAims(j)
    BY <1>0, <2>1 DEF Job, JobAims, Aims
  <2>3. Reached(j) \in Job /\ j.inst \in Instances
    BY <1>0, <1>2, <2>1 DEF Job, Points, Containers
  <2> QED BY <1>0, <1>2, <2>1, <2>2, <2>3
          DEF Follows, Good, Job, JobOK, JobInv, StartPoints, StopPoints, Repairing
<1>3. CASE j.cur \notin Instances /\ j.inst = None
  <2>1. Reached(j) = NextTarget(j)
    BY <1>3 DEF Reached
  <2> QED BY <1>0, <2>1, NextTargetFollows DEF Repairing
<1> QED BY <1>1, <1>2, <1>3

LEMMA TunedFollows ==
  ASSUME NEW j, Good(j), j.op \in Starts, j.cur \in Instances
  PROVE  Follows(j, Tuned(j)) /\ Tuned(j).pc \notin Repairing
<1>0. j.op \notin Toggles /\ j \in Job
  BY DEF Starts, Toggles, Good
<1>1. CASE j.inst = None /\ j.cur \in Pitr
  <2>1. Tuned(j) = [j EXCEPT !.cur = Backup, !.inst = j.cur, !.pc = "query"]
    BY <1>1 DEF Tuned
  <2>2. JobAims(Tuned(j)) \subseteq JobAims(j)
    BY <1>0, <1>1, <2>1, KindsAssumption DEF Job, JobAims, Aims, Containers
  <2>3. Tuned(j) \in Job
    BY <1>0, <2>1 DEF Job, Points, Containers
  <2> QED BY <1>0, <1>1, <2>1, <2>2, <2>3, KindsAssumption
          DEF Follows, Good, Job, JobOK, JobInv, StartPoints, StopPoints, Repairing, Containers
<1>2. CASE ~(j.inst = None /\ j.cur \in Pitr)
  <2>1. Tuned(j) = [j EXCEPT !.pc = "save"]
    BY <1>2 DEF Tuned
  <2>2. JobAims(Tuned(j)) = JobAims(j)
    BY <1>0, <2>1 DEF Job, JobAims, Aims
  <2> QED BY <1>0, <2>1, <2>2, KindsAssumption
          DEF Follows, Good, Job, Points, JobOK, JobInv, StartPoints, StopPoints, Repairing,
              Containers
<1> QED BY <1>1, <1>2

(* The moves to another control point with the same container at hand.     *)
LEMMA MoveFollows ==
  ASSUME NEW j, Good(j), NEW pc,
         \/ j.pc = "query" /\ pc \in {"rm", "create", "start"}
         \/ j.pc = "start" /\ pc = "rm"
         \/ j.pc = "rm" /\ pc = "create"
         \/ j.pc = "wait" /\ pc = "tstop"
         \/ j.pc = "archive" /\ pc \in {"tstop", "save"}
         \/ j.pc = "tstop" /\ pc = "tstart"
         \/ j.pc \in {"stop", "retry"} /\ pc \in {"smigrate", "clear"}
         \/ j.pc = "smigrate" /\ pc = "retry"
         \/ j.pc = "flag" /\ pc = "sync"
  PROVE  Follows(j, [j EXCEPT !.pc = pc]) /\ pc \notin Repairing
<1> DEFINE k == [j EXCEPT !.pc = pc]
<1>1. k \in Job /\ k.pc = pc /\ k.op = j.op /\ k.cfg = j.cfg /\ k.cur = j.cur
  BY DEF Good, Job, Points
<1>2. JobOK(k)
  BY <1>1 DEF Good, JobOK
<1>3. JobInv(k)
  BY <1>1 DEF Good, JobInv, StartPoints, StopPoints, Starts, Stops, Toggles
<1>4. JobAims(k) = JobAims(j)
  BY DEF Good, Job, JobAims, Aims
<1> QED BY <1>1, <1>2, <1>3, <1>4 DEF Follows, Good, Repairing

LEMMA Repoint ==
  ASSUME NEW j \in Job, NEW pc \in Points
  PROVE  LET k == [j EXCEPT !.pc = pc] IN
         /\ k \in Job /\ k.pc = pc /\ k.op = j.op /\ k.cfg = j.cfg /\ k.cur = j.cur
         /\ k.todo = j.todo /\ k.inst = j.inst
BY DEF Job

-----------------------------------------------------------------------------
(* Every step of a command but the last one of a toggle puts a job in the  *)
(* place of the command's own and leaves the others alone.                 *)

NewJob(p, j) ==
    /\ proc' = [proc EXCEPT ![p] = j]
    /\ Good(j)
    /\ JobAims(j) \subseteq JobAims(proc[p])
    /\ j.pc \in Repairing => stale \/ proc[p].pc \in Repairing
    /\ j = Idle \/ (j.op = proc[p].op /\ j.cfg = proc[p].cfg)

LEMMA NewJobFollows ==
  ASSUME NEW p, NEW j, Follows(proc[p], j), j.pc \notin Repairing,
         proc' = [proc EXCEPT ![p] = j]
  PROVE  NewJob(p, j)
BY DEF NewJob, Follows

LEMMA RepairJob ==
  ASSUME TypeOK, JobsInv, NEW p \in Procs,
         \/ Finish(p) \/ Construct(p) \/ Migrate(p) \/ ListStopped(p) \/ RestartOne(p)
         \/ RemoveStale(p) \/ RestartDone(p)
  PROVE  \E j : NewJob(p, j)
<1> DEFINE J == proc[p]
<1>0. Good(J) /\ J \in Job
  BY DEF TypeOK, JobsInv, Good
<1>1. CASE Finish(p)
  <2>1. NewJob(p, Idle)
    BY <1>1, IdleGood DEF NewJob, Finish, Repairing
  <2> QED BY <2>1
<1>2. CASE Construct(p)
  <2>0. J.pc = "next" /\ J.op \notin Toggles
    BY <1>0, <1>2 DEF Construct, Good, JobInv
  <2>1. PICK c \in First(J.todo) :
          LET probe == Probes(J.op, c) /\ ~J.probed
              j == [J EXCEPT !.cur = c, !.todo = @ \ {c}, !.probed = @ \/ probe] IN
          proc' = [proc EXCEPT ![p] = IF probe /\ NeedsMigrate
                                      THEN [j EXCEPT !.pc = "migrate"] ELSE Proceed(j)]
    BY <1>2 DEF Construct
  <2> DEFINE probe == Probes(J.op, c) /\ ~J.probed
             j == [J EXCEPT !.cur = c, !.todo = @ \ {c}, !.probed = @ \/ probe]
             m == [j EXCEPT !.pc = "migrate"]
  <2>2. c \in Containers /\ c \in J.todo /\ c # None
    BY <1>0, KindsAssumption DEF First, Job
  <2>3. probe \in BOOLEAN
    BY DEF Probes
  <2>4. j \in Job /\ j.op = J.op /\ j.cfg = J.cfg /\ j.cur = c /\ j.pc = J.pc
        /\ j.todo = J.todo \ {c} /\ j.inst = J.inst
    BY <1>0, <2>2, <2>3 DEF Job
  <2>5. JobAims(j) \subseteq JobAims(J)
    BY <2>2, <2>4 DEF JobAims, Aims
  <2>6. CASE probe /\ NeedsMigrate
    <3>1. m \in Job /\ m.pc = "migrate" /\ m.op = J.op /\ m.cfg = J.cfg /\ m.cur = c
          /\ m.todo = j.todo /\ m.inst = j.inst
      <4> HIDE DEF j
      <4> QED BY <2>4, Repoint DEF Points, Repairing
    <3>2. JobAims(m) = JobAims(j)
      BY <3>1, <2>4 DEF JobAims
    <3>3. JobOK(m)
      BY <3>1, <2>2 DEF JobOK
    <3>4. J.op \in Stops => c \notin Instances
      BY <2>6 DEF Probes
    <3>5. JobInv(m)
      BY <3>1, <3>4, <2>0 DEF JobInv, StartPoints, StopPoints
    <3>6. stale
      BY <2>6 DEF NeedsMigrate
    <3>7. proc' = [proc EXCEPT ![p] = m]
      BY <2>1, <2>6
    <3>8. NewJob(p, m)
      BY <3>1, <3>2, <3>3, <3>5, <3>6, <3>7, <2>5 DEF NewJob, Good
    <3> QED BY <3>8
  <2>7. CASE ~(probe /\ NeedsMigrate)
    <3>1. Follows(j, Proceed(j)) /\ Proceed(j).pc \notin Repairing
      BY <2>0, <2>2, <2>4, ProceedFollows
    <3>2. proc' = [proc EXCEPT ![p] = Proceed(j)]
      BY <2>1, <2>7
    <3>3. NewJob(p, Proceed(j))
      BY <3>1, <3>2, <2>4, <2>5 DEF NewJob, Follows
    <3> QED BY <3>3
  <2> QED BY <2>6, <2>7
<1>3. CASE Migrate(p)
  <2>1. J.pc = "migrate" /\ J.op \notin Toggles /\ J.cur # None
    BY <1>0, <1>3 DEF Migrate, Good, JobInv, JobOK
  <2>2. CASE J.cur \in Instances
    <3> DEFINE m == [J EXCEPT !.pc = "list"]
    <3>1. proc' = [proc EXCEPT ![p] = m]
      BY <1>3, <2>2 DEF Migrate
    <3>2. m \in Job /\ m.pc = "list" /\ m.op = J.op /\ m.cfg = J.cfg /\ m.cur = J.cur
          /\ m.todo = J.todo /\ m.inst = J.inst
      BY <1>0 DEF Job, Points, Repairing
    <3>3. JobAims(m) = JobAims(J)
      BY <3>2 DEF JobAims
    <3>4. JobOK(m) /\ JobInv(m)
      BY <3>2, <2>1, <2>2, <1>0 DEF Good, JobOK, JobInv, StartPoints, StopPoints
    <3>5. NewJob(p, m)
      BY <3>1, <3>2, <3>3, <3>4, <2>1 DEF NewJob, Good, Repairing
    <3> QED BY <3>5
  <2>3. CASE J.cur \notin Instances
    <3>1. proc' = [proc EXCEPT ![p] = Proceed(J)]
      BY <1>3, <2>3 DEF Migrate
    <3> QED BY <3>1, <2>1, <1>0, ProceedFollows, NewJobFollows
  <2> QED BY <2>2, <2>3
<1>4. CASE ListStopped(p)
  <2>1. J.pc = "list" /\ J.op \notin Toggles /\ J.cur # None /\ J.op \notin Stops
    BY <1>0, <1>4 DEF ListStopped, Good, JobInv, JobOK
  <2>2. CASE stale
    <3>1. proc' = [proc EXCEPT ![p] = Proceed(J)]
      BY <1>4, <2>2 DEF ListStopped
    <3> QED BY <3>1, <2>1, <1>0, ProceedFollows, NewJobFollows
  <2>3. CASE ~stale
    <3> DEFINE L == {c \in Containers : ctr[c] \in {"exited", "improper"}}
               m == [J EXCEPT !.pc = "restart", !.left = L]
    <3>1. proc' = [proc EXCEPT ![p] = m]
      BY <1>4, <2>3 DEF ListStopped
    <3>2. m \in Job /\ m.pc = "restart" /\ m.op = J.op /\ m.cfg = J.cfg /\ m.cur = J.cur
          /\ m.todo = J.todo /\ m.inst = J.inst
      BY <1>0 DEF Job, Points, Repairing
    <3>3. JobAims(m) = JobAims(J)
      BY <3>2 DEF JobAims
    <3>4. JobOK(m) /\ JobInv(m)
      BY <3>2, <2>1 DEF JobOK, JobInv, StartPoints, StopPoints
    <3>5. NewJob(p, m)
      BY <3>1, <3>2, <3>3, <3>4, <2>1 DEF NewJob, Good, Repairing
    <3> QED BY <3>5
  <2> QED BY <2>2, <2>3
<1>5. CASE RestartOne(p)
  <2>1. J.pc = "restart" /\ J.op \notin Toggles /\ J.cur # None /\ J.op \notin Stops
    BY <1>0, <1>5 DEF RestartOne, Good, JobInv, JobOK
  <2>2. PICK c \in J.left :
          \/ proc' = [proc EXCEPT ![p].left = @ \ {c}]
          \/ proc' = [proc EXCEPT ![p].left = @ \ {c}, ![p].bad = c, ![p].pc = "rmstale"]
    BY <1>5 DEF RestartOne
  <2>3. c \in Containers /\ c # None
    BY <1>0, KindsAssumption DEF Job
  <2> DEFINE m == [J EXCEPT !.left = @ \ {c}]
             n == [J EXCEPT !.left = @ \ {c}, !.bad = c, !.pc = "rmstale"]
  <2>4. m \in Job /\ m.pc = J.pc /\ m.op = J.op /\ m.cfg = J.cfg /\ m.cur = J.cur
        /\ m.todo = J.todo /\ m.inst = J.inst /\ m.bad = J.bad
    BY <1>0 DEF Job
  <2>5. n \in Job /\ n.pc = "rmstale" /\ n.op = J.op /\ n.cfg = J.cfg /\ n.cur = J.cur
        /\ n.todo = J.todo /\ n.inst = J.inst /\ n.bad = c
    BY <1>0, <2>3 DEF Job, Points, Repairing
  <2>6. JobAims(m) = JobAims(J) /\ JobAims(n) = JobAims(J)
    BY <2>4, <2>5 DEF JobAims
  <2>7. JobOK(m) /\ JobInv(m)
    BY <2>4, <1>0 DEF Good, JobOK, JobInv
  <2>8. JobOK(n) /\ JobInv(n)
    BY <2>5, <2>1, <2>3 DEF JobOK, JobInv, StartPoints, StopPoints
  <2>9. proc' = [proc EXCEPT ![p] = m] \/ proc' = [proc EXCEPT ![p] = n]
    BY <2>2 DEF TypeOK
  <2>10. NewJob(p, m) \/ NewJob(p, n)
    BY <2>1, <2>4, <2>5, <2>6, <2>7, <2>8, <2>9 DEF NewJob, Good, Repairing
  <2> QED BY <2>10
<1>6. CASE RemoveStale(p)
  <2> DEFINE m == [J EXCEPT !.pc = "restart", !.bad = None]
  <2>1. J.pc = "rmstale" /\ J.op \notin Toggles /\ J.cur # None /\ J.op \notin Stops
    BY <1>0, <1>6 DEF RemoveStale, Good, JobInv, JobOK
  <2>2. proc' = [proc EXCEPT ![p] = m]
    BY <1>6 DEF RemoveStale, TypeOK
  <2>3. m \in Job /\ m.pc = "restart" /\ m.op = J.op /\ m.cfg = J.cfg /\ m.cur = J.cur
        /\ m.todo = J.todo /\ m.inst = J.inst
    BY <1>0 DEF Job, Points, Repairing
  <2>4. JobAims(m) = JobAims(J)
    BY <2>3 DEF JobAims
  <2>5. JobOK(m) /\ JobInv(m)
    BY <2>3, <2>1 DEF JobOK, JobInv, StartPoints, StopPoints
  <2>6. NewJob(p, m)
    BY <2>1, <2>2, <2>3, <2>4, <2>5 DEF NewJob, Good, Repairing
  <2> QED BY <2>6
<1>7. CASE RestartDone(p)
  <2>1. J.pc = "restart" /\ J.op \notin Toggles /\ J.cur # None
    BY <1>0, <1>7 DEF RestartDone, Good, JobInv, JobOK
  <2>2. proc' = [proc EXCEPT ![p] = Proceed(J)]
    BY <1>7 DEF RestartDone
  <2> QED BY <2>1, <2>2, <1>0, ProceedFollows, NewJobFollows
<1> QED BY <1>1, <1>2, <1>3, <1>4, <1>5, <1>6, <1>7

LEMMA NextJob ==
  ASSUME NEW p \in Procs, Good(proc[p]), proc[p].op \notin Toggles,
         proc' = [proc EXCEPT ![p] = NextTarget(proc[p])]
  PROVE  \E j : NewJob(p, j)
<1>1. proc[p] \in Job
  BY DEF Good
<1>2. Follows(proc[p], NextTarget(proc[p])) /\ NextTarget(proc[p]).pc \notin Repairing
  BY <1>1, NextTargetFollows DEF Repairing
<1> QED BY <1>2, NewJobFollows

LEMMA GotoJob ==
  ASSUME TypeOK, NEW p \in Procs, Good(proc[p]), NEW pc, Goto(p, pc),
         LET q == proc[p].pc IN
         \/ q = "query" /\ pc \in {"rm", "create", "start"}
         \/ q = "start" /\ pc = "rm"
         \/ q = "rm" /\ pc = "create"
         \/ q = "wait" /\ pc = "tstop"
         \/ q = "archive" /\ pc \in {"tstop", "save"}
         \/ q = "tstop" /\ pc = "tstart"
         \/ q \in {"stop", "retry"} /\ pc \in {"smigrate", "clear"}
         \/ q = "smigrate" /\ pc = "retry"
         \/ q = "flag" /\ pc = "sync"
  PROVE  \E j : NewJob(p, j)
<1> DEFINE k == [proc[p] EXCEPT !.pc = pc]
<1>1. Follows(proc[p], k) /\ pc \notin Repairing
  BY MoveFollows
<1>2. k.pc = pc
  BY DEF Good, Job
<1>3. proc' = [proc EXCEPT ![p] = k]
  BY DEF Goto, TypeOK
<1> QED BY <1>1, <1>2, <1>3, NewJobFollows

(* What a step at one of StartPoints does to its own job.                  *)
LEMMA StartJob ==
  ASSUME TypeOK, JobsInv, NEW p \in Procs,
         \/ Query(p) \/ PrepareFails(p) \/ Drifted(p) \/ StartContainer(p) \/ Remove(p)
         \/ Create(p) \/ Wait(p) \/ Archive(p) \/ BounceStop(p) \/ BounceStart(p) \/ Save(p)
  PROVE  \E j : NewJob(p, j)
<1>0. Good(proc[p]) /\ proc[p] \in Job
  BY DEF TypeOK, JobsInv, Good
<1>1. proc[p].pc \in StartPoints
  BY DEF Query, PrepareFails, Drifted, StartContainer, Remove, Create, Wait, Archive,
         BounceStop, BounceStart, Save, StartPoints
<1>2. proc[p].op \in Starts /\ proc[p].op \notin Toggles /\ proc[p].cur # None
  BY <1>0, <1>1 DEF Good, JobInv, JobOK, StartPoints, Starts, Toggles
<1>3. ASSUME proc' = [proc EXCEPT ![p] = NextTarget(proc[p])] PROVE \E j : NewJob(p, j)
  BY <1>0, <1>2, <1>3, NextJob
<1>4. ASSUME Fail(p) PROVE \E j : NewJob(p, j)
  BY <1>3, <1>4 DEF Fail
<1>5. ASSUME Success(p) PROVE \E j : NewJob(p, j)
  <2>1. proc' = [proc EXCEPT ![p] = Reached(proc[p])]
    BY <1>5 DEF Success
  <2> QED BY <1>0, <1>2, <2>1, ReachedFollows, NewJobFollows
<1>6. ASSUME proc[p].cur \in Instances, proc' = [proc EXCEPT ![p] = Tuned(proc[p])]
      PROVE  \E j : NewJob(p, j)
  BY <1>0, <1>2, <1>6, TunedFollows, NewJobFollows
<1>7. CASE Query(p)
  <2>1. \/ Fail(p) \/ Success(p) \/ Goto(p, "create") \/ Goto(p, "start")
    BY <1>7 DEF Query
  <2>2. proc[p].pc = "query"
    BY <1>7 DEF Query
  <2> QED BY <2>1, <2>2, <1>0, <1>4, <1>5, GotoJob
<1>8. CASE PrepareFails(p)
  BY <1>8, <1>4 DEF PrepareFails
<1>9. CASE Drifted(p)
  <2>1. proc[p].pc = "query" /\ Goto(p, "rm")
    BY <1>9 DEF Drifted
  <2> QED BY <2>1, <1>0, GotoJob
<1>10. CASE StartContainer(p)
  <2>1. Fail(p) \/ Success(p) \/ Goto(p, "rm")
    BY <1>10 DEF StartContainer
  <2>2. proc[p].pc = "start"
    BY <1>10 DEF StartContainer
  <2> QED BY <2>1, <2>2, <1>0, <1>4, <1>5, GotoJob
<1>11. CASE Remove(p)
  <2>1. proc[p].pc = "rm" /\ (Fail(p) \/ Goto(p, "create"))
    BY <1>11 DEF Remove
  <2> QED BY <2>1, <1>0, <1>4, GotoJob
<1>12. CASE Create(p)
  BY <1>12, <1>4, <1>5 DEF Create
<1>13. CASE Wait(p)
  <2>1. \/ Fail(p) \/ Goto(p, "tstop") \/ proc' = [proc EXCEPT ![p] = Tuned(proc[p])]
    BY <1>13 DEF Wait
  <2>2. proc[p].pc = "wait" /\ proc[p].cur \in Instances
    BY <1>13, <1>0 DEF Wait, Good, JobOK
  <2> QED BY <2>1, <2>2, <1>0, <1>4, <1>6, GotoJob
<1>14. CASE Archive(p)
  <2>1. proc[p].pc = "archive" /\ (Goto(p, "tstop") \/ Goto(p, "save"))
    BY <1>14 DEF Archive
  <2> QED BY <2>1, <1>0, GotoJob
<1>15. CASE BounceStop(p)
  <2>1. proc[p].pc = "tstop" /\ Goto(p, "tstart")
    BY <1>15 DEF BounceStop
  <2> QED BY <2>1, <1>0, GotoJob
<1>16. CASE BounceStart(p)
  BY <1>16, <1>0, <1>6 DEF BounceStart, Good, JobOK
<1>17. CASE Save(p)
  BY <1>17, <1>3 DEF Save
<1> QED BY <1>7, <1>8, <1>9, <1>10, <1>11, <1>12, <1>13, <1>14, <1>15, <1>16, <1>17

LEMMA StopJob ==
  ASSUME TypeOK, JobsInv, NEW p \in Procs,
         Stop(p) \/ StopMigrates(p) \/ Clear(p) \/ SaveFlag(p)
  PROVE  \E j : NewJob(p, j)
<1>0. Good(proc[p]) /\ proc[p] \in Job
  BY DEF TypeOK, JobsInv, Good
<1>1. ASSUME proc[p].op \notin Toggles, proc' = [proc EXCEPT ![p] = NextTarget(proc[p])]
      PROVE  \E j : NewJob(p, j)
  BY <1>0, <1>1, NextJob
<1>2. CASE Stop(p)
  <2>1. \/ proc' = [proc EXCEPT ![p] = NextTarget(proc[p])]
        \/ proc' = [proc EXCEPT ![p] = [proc[p] EXCEPT !.pc = "smigrate"]]
        \/ Goto(p, "clear")
    BY <1>2 DEF Stop
  <2>2. \/ proc' = [proc EXCEPT ![p] = NextTarget(proc[p])]
        \/ Goto(p, "smigrate")
        \/ Goto(p, "clear")
    BY <2>1 DEF Goto, TypeOK
  <2>3. proc[p].pc \in {"stop", "retry"} /\ proc[p].op \notin Toggles
    BY <1>0, <1>2 DEF Stop, Good, JobInv
  <2> QED BY <2>2, <2>3, <1>0, <1>1, GotoJob
<1>3. CASE StopMigrates(p)
  <2>1. proc[p].pc = "smigrate" /\ Goto(p, "retry")
    BY <1>3 DEF StopMigrates
  <2> QED BY <2>1, <1>0, GotoJob
<1>4. CASE Clear(p)
  BY <1>4, <1>0, <1>1 DEF Clear, Good, JobInv
<1>5. CASE SaveFlag(p)
  <2>1. \/ Goto(p, "sync")
        \/ proc' = [proc EXCEPT ![p] = Idle]
    BY <1>5 DEF SaveFlag
  <2>2. proc[p].pc = "flag"
    BY <1>5 DEF SaveFlag
  <2>3. CASE proc' = [proc EXCEPT ![p] = Idle]
    <3>1. NewJob(p, Idle)
      BY <2>3, IdleGood DEF NewJob, Repairing
    <3> QED BY <3>1
  <2> QED BY <2>1, <2>2, <2>3, <1>0, GotoJob
<1> QED BY <1>2, <1>3, <1>4, <1>5

LEMMA StepJob ==
  ASSUME TypeOK, JobsInv, NEW p \in Procs, Step(p), ~SyncBootService(p)
  PROVE  \E j : NewJob(p, j)
BY RepairJob, StartJob, StopJob DEF Step

-----------------------------------------------------------------------------
(* What a step of a command does to the containers.                        *)

(* A container comes up because the command aims at it, or in the restart  *)
(* loop of a repair; one joins `kept` when it is down and unwanted; the    *)
(* record of podman does not become stale.                                 *)
Effect(p) ==
    /\ ctr' \in [Containers -> States]
    /\ stale' \in BOOLEAN /\ (stale' => stale)
    /\ Up' \subseteq Up \cup JobAims(proc[p]) \/ proc[p].pc \in Repairing
    /\ kept \subseteq kept' /\ kept' \subseteq Containers
    /\ \A c \in kept' \ kept : Unwanted(c) /\ ctr'[c] # "running"
    /\ proc[p].op \in Stops => Up' \subseteq Up

(* Nothing is created or started.                                          *)
LEMMA NoStart ==
  ASSUME TypeOK, NEW p \in Procs, kept' = kept, stale' \in {FALSE, stale}, ctr' = ctr
  PROVE  Effect(p)
<1>1. ctr' \in [Containers -> States] /\ kept' \subseteq Containers
  BY DEF TypeOK
<1>2. Up' = Up
  BY DEF Up
<1>3. CASE stale' = FALSE
  BY <1>1, <1>2, <1>3 DEF Effect
<1>4. CASE stale' = stale
  BY <1>1, <1>2, <1>4, Zenon DEF Effect, TypeOK
<1> QED BY <1>3, <1>4

(* One container is given another state.                                   *)
LEMMA OneSet ==
  ASSUME TypeOK, NEW p \in Procs, NEW c \in Containers, NEW s \in States,
         kept' = kept, stale' = stale, ctr' = [ctr EXCEPT ![c] = s],
         s = "running" => ctr[c] = "running" \/ c \in JobAims(proc[p])
                          \/ proc[p].pc \in Repairing,
         proc[p].op \in Stops => s # "running"
  PROVE  Effect(p)
<1>1. ctr' \in [Containers -> States] /\ ctr'[c] = s
      /\ \A d \in Containers \ {c} : ctr'[d] = ctr[d]
  BY DEF TypeOK
<1>2. Up' \subseteq Up \cup JobAims(proc[p]) \/ proc[p].pc \in Repairing
  BY <1>1 DEF Up
<1>3. proc[p].op \in Stops => Up' \subseteq Up
  BY <1>1 DEF Up
<1> QED BY <1>1, <1>2, <1>3 DEF Effect, TypeOK

LEMMA CurAimed ==
  ASSUME NEW j \in Job, j.op \in Starts, j.cur # None
  PROVE  j.cur \in JobAims(j)
BY DEF Job, JobAims, Aims

LEMMA AfterStartState ==
  ASSUME NEW s \in States
  PROVE  AfterStart(s) \in States
BY DEF AfterStart, States

LEMMA AfterStopState ==
  ASSUME NEW s \in States, NEW r \in AfterStop(s)
  PROVE  r \in States /\ r # "running"
<1>1. AfterStop(s) = IF s = "running" THEN {"exited"}
                     ELSE IF s = "ghost" THEN {"exited", "ghost"} ELSE {s}
  BY DEF AfterStop
<1> QED BY <1>1 DEF States

LEMMA StepEffect ==
  ASSUME TypeOK, JobsInv, NEW p \in Procs, Step(p)
  PROVE  Effect(p)
<1> DEFINE J == proc[p]
<1>0. Good(J) /\ J \in Job
  BY DEF TypeOK, JobsInv, Good
<1>1. J.cur # None => J.cur \in Containers /\ ctr[J.cur] \in States
  BY <1>0 DEF Job, TypeOK
<1>2. CASE Finish(p) \/ Construct(p) \/ Migrate(p) \/ ListStopped(p) \/ RestartDone(p)
  BY <1>2, NoStart DEF Finish, Construct, Migrate, ListStopped, RestartDone
<1>3. CASE RestartOne(p)
  <2>1. PICK c \in J.left : ctr' = ctr \/ ctr' = [ctr EXCEPT ![c] = AfterStart(ctr[c])]
    BY <1>3 DEF RestartOne
  <2>2. c \in Containers /\ ctr[c] \in States
    BY <1>0 DEF Job, TypeOK
  <2>3. J.op \notin Stops /\ J.pc \in Repairing
    BY <1>0, <1>3 DEF RestartOne, Good, JobInv, Repairing
  <2>4. kept' = kept /\ stale' = stale
    BY <1>3 DEF RestartOne
  <2>5. CASE ctr' = ctr
    BY <2>4, <2>5, NoStart
  <2>6. CASE ctr' = [ctr EXCEPT ![c] = AfterStart(ctr[c])]
    BY <2>2, <2>3, <2>4, <2>6, AfterStartState, OneSet
  <2> QED BY <2>1, <2>5, <2>6
<1>4. CASE RemoveStale(p)
  <2>1. J.bad \in Containers
    BY <1>0, <1>4 DEF RemoveStale, Good, JobOK, Job
  <2>2. kept' = kept /\ stale' = stale
        /\ (ctr' = ctr \/ ctr' = [ctr EXCEPT ![J.bad] = "none"])
    BY <1>4 DEF RemoveStale
  <2>3. CASE ctr' = ctr
    BY <2>2, <2>3, NoStart
  <2>4. CASE ctr' = [ctr EXCEPT ![J.bad] = "none"]
    BY <2>1, <2>2, <2>4, OneSet DEF States
  <2> QED BY <2>2, <2>3, <2>4
<1>5. CASE Query(p) \/ PrepareFails(p) \/ Drifted(p) \/ Wait(p) \/ Archive(p) \/ Save(p)
  BY <1>5, NoStart DEF Query, PrepareFails, Drifted, Wait, Archive, Save
<1>6. CASE StartContainer(p) \/ BounceStart(p)
  <2>1. ctr' = [ctr EXCEPT ![J.cur] = AfterStart(ctr[J.cur])] /\ kept' = kept /\ stale' = stale
    BY <1>6 DEF StartContainer, BounceStart
  <2>2. J.op \in Starts /\ J.cur # None
    BY <1>0, <1>6 DEF StartContainer, BounceStart, Good, JobInv, JobOK, StartPoints
  <2>3. J.op \notin Stops
    BY <2>2 DEF Starts, Stops
  <2> QED BY <1>0, <1>1, <2>1, <2>2, <2>3, CurAimed, AfterStartState, OneSet
<1>7. CASE Remove(p) \/ Create(p)
  <2>1. J.op \in Starts /\ J.cur # None
    BY <1>0, <1>7 DEF Remove, Create, Good, JobInv, JobOK, StartPoints
  <2>2. J.op \notin Stops
    BY <2>1 DEF Starts, Stops
  <2>3. kept' = kept /\ stale' = stale
        /\ \/ ctr' = ctr
           \/ ctr' = [ctr EXCEPT ![J.cur] = "none"]
           \/ ctr' = [ctr EXCEPT ![J.cur] = "running"]
    BY <1>7 DEF Remove, Create
  <2>4. CASE ctr' = ctr
    BY <2>3, <2>4, NoStart
  <2>5. CASE ctr' = [ctr EXCEPT ![J.cur] = "none"]
    BY <1>1, <2>1, <2>3, <2>5, OneSet DEF States
  <2>6. CASE ctr' = [ctr EXCEPT ![J.cur] = "running"]
    BY <1>0, <1>1, <2>1, <2>2, <2>3, <2>6, CurAimed, OneSet DEF States
  <2> QED BY <2>3, <2>4, <2>5, <2>6
<1>8. CASE BounceStop(p)
  <2>1. PICK s \in AfterStop(ctr[J.cur]) : ctr' = [ctr EXCEPT ![J.cur] = s]
    BY <1>8 DEF BounceStop
  <2>2. J.cur # None /\ kept' = kept /\ stale' = stale
    BY <1>0, <1>8 DEF BounceStop, Good, JobOK
  <2> QED BY <1>1, <2>1, <2>2, AfterStopState, OneSet
<1>9. CASE Stop(p)
  <2>1. J.cur # None /\ stale' = stale
    BY <1>0, <1>9 DEF Stop, Good, JobOK
  <2>2. CASE stale
    BY <1>9, <2>1, <2>2, NoStart DEF Stop
  <2>3. CASE ~stale
    <3>1. PICK s \in AfterStop(ctr[J.cur]) :
            ctr' = [ctr EXCEPT ![J.cur] = s] /\ (kept' = kept \/ Keep(J.cur, s))
      BY <1>9, <2>3 DEF Stop
    <3>2. s \in States /\ s # "running"
      BY <1>1, <2>1, AfterStopState
    <3>3. CASE kept' = kept
      BY <1>1, <2>1, <3>1, <3>2, <3>3, OneSet
    <3>4. CASE Keep(J.cur, s)
      <4>1. kept' \subseteq kept \cup {J.cur} /\ kept \subseteq kept'
            /\ (J.cur \in kept' \ kept => Unwanted(J.cur))
        BY <3>4 DEF Keep
      <4>2. ctr' \in [Containers -> States] /\ ctr'[J.cur] = s
            /\ \A d \in Containers \ {J.cur} : ctr'[d] = ctr[d]
        BY <1>1, <2>1, <3>1, <3>2 DEF TypeOK
      <4>3. Up' \subseteq Up
        BY <3>2, <4>2 DEF Up
      <4> QED BY <1>1, <2>1, <3>2, <4>1, <4>2, <4>3 DEF Effect, TypeOK
    <3> QED BY <3>1, <3>3, <3>4
  <2> QED BY <2>2, <2>3
<1>10. CASE StopMigrates(p) \/ SaveFlag(p) \/ SyncBootService(p)
  BY <1>10, NoStart DEF StopMigrates, SaveFlag, SyncBootService
<1>11. CASE Clear(p)
  <2> DEFINE s == IF ctr[J.cur] \in {"exited", "none"} THEN ctr[J.cur] ELSE "none"
  <2>1. J.cur # None /\ stale' = stale
    BY <1>0, <1>11 DEF Clear, Good, JobOK
  <2>2. \/ ctr' = [ctr EXCEPT ![J.cur] = s] /\ Keep(J.cur, s)
        \/ ctr' = ctr /\ kept' = kept
    BY <1>11 DEF Clear
  <2>3. s \in States /\ s # "running"
    BY <1>1, <2>1 DEF States
  <2>4. CASE ctr' = ctr /\ kept' = kept
    BY <2>1, <2>4, NoStart
  <2>5. CASE ctr' = [ctr EXCEPT ![J.cur] = s] /\ Keep(J.cur, s)
    <3> HIDE DEF s
    <3>1. kept' \subseteq kept \cup {J.cur} /\ kept \subseteq kept'
          /\ (J.cur \in kept' \ kept => Unwanted(J.cur))
      BY <2>5 DEF Keep
    <3>2. ctr' \in [Containers -> States] /\ ctr'[J.cur] = s
          /\ \A d \in Containers \ {J.cur} : ctr'[d] = ctr[d]
      BY <1>1, <2>1, <2>5, <2>3 DEF TypeOK
    <3>3. Up' \subseteq Up
      BY <2>3, <3>2 DEF Up
    <3> QED BY <1>1, <2>1, <2>3, <3>1, <3>2, <3>3 DEF Effect, TypeOK
  <2> QED BY <2>2, <2>4, <2>5
<1> QED BY <1>2, <1>3, <1>4, <1>5, <1>6, <1>7, <1>8, <1>9, <1>10, <1>11 DEF Step

-----------------------------------------------------------------------------
(* The other variables keep their types.                                   *)

RestOK ==
    /\ unit \in BOOLEAN /\ pending \in BOOLEAN
    /\ auto \subseteq Containers /\ due \subseteq Containers
    /\ commands \in 0..MaxCommands /\ reboots \in 0..MaxReboots

LEMMA StepRest ==
  ASSUME TypeOK, NEW p \in Procs, Step(p)
  PROVE  RestOK'
<1>1. commands' = commands /\ reboots' = reboots
  BY DEF Step, Finish, Construct, Migrate, ListStopped, RestartOne, RemoveStale, RestartDone,
         Query, PrepareFails, Drifted, StartContainer, Remove, Create, Wait, Archive,
         BounceStop, BounceStart, Save, Stop, StopMigrates, Clear, SaveFlag, SyncBootService
<1>2. proc[p].cfg \subseteq Containers
  BY DEF TypeOK, Job
<1>3. auto' \in {auto, proc[p].cfg}
  BY DEF Step, Finish, Construct, Migrate, ListStopped, RestartOne, RemoveStale, RestartDone,
         Query, PrepareFails, Drifted, StartContainer, Remove, Create, Wait, Archive,
         BounceStop, BounceStart, Save, Stop, StopMigrates, Clear, SaveFlag, SyncBootService
<1>4. due' \subseteq due
  BY DEF Step, Finish, Construct, Migrate, ListStopped, RestartOne, RemoveStale, RestartDone,
         Query, PrepareFails, Drifted, StartContainer, Remove, Create, Wait, Archive,
         BounceStop, BounceStart, Save, Stop, StopMigrates, Clear, SaveFlag, SyncBootService,
         Fail, Success
<1>5. unit' \in {unit, TRUE, FALSE} /\ pending' \in {pending, FALSE}
  <2>1. CASE SyncBootService(p)
    BY <2>1 DEF SyncBootService
  <2>2. CASE SaveFlag(p)
    BY <2>2 DEF SaveFlag
  <2>3. CASE ~SyncBootService(p) /\ ~SaveFlag(p)
    BY <2>3
       DEF Step, Finish, Construct, Migrate, ListStopped, RestartOne, RemoveStale, RestartDone,
         Query, PrepareFails, Drifted, StartContainer, Remove, Create, Wait, Archive,
         BounceStop, BounceStart, Save, Stop, StopMigrates, Clear
  <2> QED BY <2>1, <2>2, <2>3
<1>6. unit' \in BOOLEAN /\ pending' \in BOOLEAN
  BY <1>5, Zenon DEF TypeOK
<1> QED BY <1>1, <1>2, <1>3, <1>4, <1>6 DEF RestOK, TypeOK

LEMMA TypeParts ==
  ASSUME RestOK, ctr \in [Containers -> States], stale \in BOOLEAN, kept \subseteq Containers,
         proc \in [Procs -> Job], \A p \in Procs : JobOK(proc[p])
  PROVE  TypeOK
BY DEF TypeOK, RestOK

(* A command's own job is replaced.                                        *)
LEMMA JobReplaced ==
  ASSUME TypeOK, JobsInv, NEW p \in Procs, NEW j, Good(j), proc' = [proc EXCEPT ![p] = j]
  PROVE  /\ proc' \in [Procs -> Job] /\ \A q \in Procs : JobOK(proc'[q])
         /\ JobsInv'
         /\ proc'[p] = j /\ \A q \in Procs \ {p} : proc'[q] = proc[q]
<1>1. proc' \in [Procs -> Job] /\ proc'[p] = j /\ \A q \in Procs \ {p} : proc'[q] = proc[q]
  BY DEF TypeOK, Good
<1>2. \A q \in Procs : JobOK(proc'[q]) /\ JobInv(proc'[q])
  BY <1>1 DEF TypeOK, JobsInv, Good
<1> QED BY <1>1, <1>2 DEF JobsInv

(* A step that replaces its own job keeps the whole invariant.             *)
LEMMA StepKeeps ==
  ASSUME IInv, NEW p \in Procs, Step(p), ~SyncBootService(p)
  PROVE  IInv'
<1>0. TypeOK /\ JobsInv
  BY DEF IInv
<1>1. PICK j : NewJob(p, j)
  BY <1>0, StepJob
<1>2. Effect(p)
  BY <1>0, StepEffect
<1>3. /\ proc' \in [Procs -> Job] /\ \A q \in Procs : JobOK(proc'[q])
      /\ JobsInv'
      /\ proc'[p] = j /\ \A q \in Procs \ {p} : proc'[q] = proc[q]
  BY <1>0, <1>1, JobReplaced DEF NewJob
<1>4. TypeOK'
  BY <1>0, <1>2, <1>3, StepRest, TypeParts DEF Effect, TypeOK, RestOK
<1>5. \A q \in Procs : JobAims(proc'[q]) \subseteq JobAims(proc[q])
  BY <1>1, <1>3 DEF NewJob
<1>6. \A q \in Procs : proc'[q].pc \in Repairing => stale \/ \E r \in Procs : proc[r].pc \in Repairing
  BY <1>1, <1>3 DEF NewJob
<1>7. kept' = {} \/ ~(stale \/ \E r \in Procs : proc[r].pc \in Repairing)
  BY <1>2 DEF IInv, KeptInv, Effect, Unwanted
<1>8. \A q \in Procs : JobAims(proc'[q]) \cap kept' = {}
  BY <1>2, <1>5 DEF IInv, KeptInv, Effect, Unwanted
<1>9. kept' \cap Up' = {}
  <2>1. CASE kept' = {}
    BY <2>1
  <2>2. CASE kept' # {}
    <3>1. Up' \subseteq Up \cup JobAims(proc[p])
      BY <1>2, <1>7, <2>2 DEF Effect
    <3>2. kept \cap Up' = {}
      BY <3>1 DEF IInv, KeptInv, KeptStaysDown
    <3>3. (kept' \ kept) \cap Up' = {}
      BY <1>2 DEF Effect, Up
    <3> QED BY <3>2, <3>3
  <2> QED BY <2>1, <2>2
<1>10. stale' => kept' = {}
  BY <1>2, <1>7 DEF Effect
<1>11. KeptInv'
  BY <1>6, <1>7, <1>8, <1>9, <1>10 DEF KeptInv, KeptStaysDown
<1> QED BY <1>3, <1>4, <1>11 DEF IInv

-----------------------------------------------------------------------------
(* The steps that begin, end or cut off a command.                         *)

LEMMA TargetsContainers ==
  ASSUME NEW op \in {"start", "stop", "kill", "status"}, NEW T \in Targets(op)
  PROVE  T \subseteq Containers
<1>1. Targets(op) \subseteq {{c} : c \in Containers} \cup {{c} : c \in Instances}
                             \cup {Instances, StopAll}
  BY DEF Targets
<1>2. Instances \subseteq Containers /\ StopAll \subseteq Containers
  BY DEF Containers, StopAll
<1> QED BY <1>1, <1>2

(* A command that has just begun.                                          *)
Acting == {"start", "boot", "stop", "kill", "status"}
Begun(op, T, C) == [Idle EXCEPT !.op = op, !.pc = "next", !.todo = T, !.cfg = C]
Toggled(op, c, C) == [Idle EXCEPT !.op = op, !.pc = "flag", !.cur = c, !.cfg = C]

LEMMA BeginGood ==
  ASSUME NEW op \in Acting,
         NEW T \in SUBSET Containers, NEW C \in SUBSET Containers
  PROVE  /\ Good(Begun(op, T, C)) /\ JobAims(Begun(op, T, C)) = Aims(op, T)
         /\ Begun(op, T, C).pc = "next" /\ Begun(op, T, C).op = op /\ Begun(op, T, C).cfg = C
<1> DEFINE j == Begun(op, T, C)
<1>1. j \in Job
  BY DEF Acting, Begun, Idle, Job, Ops, Starts, Stops, Toggles, Points, Repairing
<1>2. j.op = op /\ j.pc = "next" /\ j.todo = T /\ j.cfg = C /\ j.cur = None /\ j.inst = None
  BY DEF Begun, Idle
<1>3. JobOK(j) /\ JobInv(j)
  BY <1>2 DEF JobOK, JobInv, StartPoints, StopPoints, Toggles, Acting
<1>4. JobAims(j) = Aims(op, T)
  <2>1. (T \cup {None, None}) \ {None} = T
    BY KindsAssumption
  <2> QED BY <1>2, <2>1 DEF JobAims
<1> QED BY <1>1, <1>2, <1>3, <1>4 DEF Good

LEMMA ToggleGood ==
  ASSUME NEW op \in Toggles, NEW c \in Containers, NEW C, C \subseteq Containers
  PROVE  /\ Good(Toggled(op, c, C)) /\ JobAims(Toggled(op, c, C)) = {}
         /\ Toggled(op, c, C).pc = "flag" /\ Toggled(op, c, C).op = op
<1> DEFINE j == Toggled(op, c, C)
<1>1. j \in Job
  BY DEF Toggled, Idle, Job, Ops, Starts, Stops, Toggles, Points, Repairing
<1>2. j.op = op /\ j.pc = "flag" /\ j.cur = c
  BY DEF Toggled, Idle
<1>3. JobOK(j) /\ JobInv(j)
  BY <1>2, KindsAssumption DEF JobOK, JobInv, StartPoints, StopPoints
<1>4. JobAims(j) = {}
  BY <1>2 DEF JobAims, Aims, Toggles, Starts
<1> QED BY <1>1, <1>2, <1>3, <1>4 DEF Good

(* No container changes, one job is replaced, and what it aims at leaves   *)
(* `kept`.                                                                 *)
LEMMA QuietKeeps ==
  ASSUME IInv, NEW p \in Procs, NEW j, Good(j), j.pc \notin Repairing,
         proc' = [proc EXCEPT ![p] = j], kept' \subseteq kept, JobAims(j) \cap kept' = {},
         ctr' = ctr, stale' = stale, RestOK'
  PROVE  IInv'
<1>0. TypeOK /\ JobsInv
  BY DEF IInv
<1>1. /\ proc' \in [Procs -> Job] /\ \A q \in Procs : JobOK(proc'[q])
      /\ JobsInv'
      /\ proc'[p] = j /\ \A q \in Procs \ {p} : proc'[q] = proc[q]
  BY <1>0, JobReplaced
<1>2. TypeOK'
  BY <1>0, <1>1 DEF TypeOK, RestOK
<1>3. Up' = Up
  BY DEF Up
<1>4. \A q \in Procs : JobAims(proc'[q]) \cap kept' = {}
  BY <1>1 DEF IInv, KeptInv
<1>5. \A q \in Procs : proc'[q].pc \in Repairing => kept' = {}
  BY <1>1 DEF IInv, KeptInv
<1>6. kept' \cap Up' = {} /\ (stale' => kept' = {})
  BY <1>3 DEF IInv, KeptInv, KeptStaysDown
<1> QED BY <1>1, <1>2, <1>4, <1>5, <1>6 DEF IInv, KeptInv, KeptStaysDown

(* Jobs only become idle.                                                  *)
LEMMA IdleKeeps ==
  ASSUME IInv, proc' \in [Procs -> Job],
         \A q \in Procs : proc'[q] \in {proc[q], Idle},
         kept' \subseteq kept, Up' \subseteq Up, ctr' \in [Containers -> States],
         stale' \in BOOLEAN, stale' => kept' = {}, RestOK'
  PROVE  IInv'
<1>1. \A q \in Procs : JobOK(proc'[q]) /\ JobInv(proc'[q])
  BY IdleGood DEF Good, IInv, TypeOK, JobsInv
<1>2. TypeOK'
  BY <1>1 DEF TypeOK, RestOK, IInv
<1>3. \A q \in Procs : JobAims(proc'[q]) \cap kept' = {}
  BY IdleGood DEF IInv, KeptInv
<1>4. \A q \in Procs : proc'[q].pc \in Repairing => kept' = {}
  BY IdleGood DEF IInv, KeptInv, Repairing
<1>5. kept' \cap Up' = {}
  BY DEF IInv, KeptInv, KeptStaysDown
<1> QED BY <1>1, <1>2, <1>3, <1>4, <1>5 DEF IInv, KeptInv, JobsInv, KeptStaysDown

LEMMA InitInv == Init => IInv
<1> SUFFICES ASSUME Init PROVE IInv
  OBVIOUS
<1>1. \A p \in Procs : proc[p] = Idle
  BY DEF Init
<1>2. proc \in [Procs -> Job]
  BY IdleGood DEF Init, Good
<1>8. unit \in BOOLEAN /\ pending \in BOOLEAN
  BY Zenon DEF Init
<1>9. auto \subseteq Containers /\ due = {} /\ commands = 0 /\ reboots = 0
  BY DEF Init
<1>3. RestOK
  BY <1>8, <1>9, BoundsAssumption DEF RestOK
<1>4. ctr \in [Containers -> States]
  BY BoundsAssumption DEF Init, States
<1>5. TypeOK
  BY <1>1, <1>2, <1>3, <1>4, IdleGood, TypeParts DEF Init, Good
<1>6. JobsInv
  BY <1>1, IdleGood DEF JobsInv, Good
<1>7. KeptInv
  BY DEF Init, KeptInv, KeptStaysDown
<1> QED BY <1>5, <1>6, <1>7 DEF IInv

LEMMA NextInv == IInv /\ [Next]_vars => IInv'
<1> SUFFICES ASSUME IInv, [Next]_vars PROVE IInv'
  OBVIOUS
<1>0. TypeOK /\ JobsInv
  BY DEF IInv
<1>1. ASSUME NEW p \in Users, NEW op \in {"start", "stop", "kill", "status"},
             NEW T \in Targets(op), Begin(p, op, T)
      PROVE  IInv'
  <2> DEFINE j == Begun(op, T, auto)
  <2>1. T \in SUBSET Containers /\ auto \in SUBSET Containers
    BY <1>0, TargetsContainers DEF TypeOK
  <2>2. Good(j) /\ JobAims(j) = Aims(op, T) /\ j.pc = "next"
    <3>1. op \in Acting
      BY DEF Acting
    <3> QED BY <2>1, <3>1, BeginGood
  <2>3. RestOK'
    BY <1>0, <1>1, BoundsAssumption DEF Begin, TypeOK, RestOK
  <2>4. proc' = [proc EXCEPT ![p] = j] /\ kept' = kept \ Aims(op, T) /\ ctr' = ctr /\ stale' = stale
    BY <1>1 DEF Begin, Begun
  <2> HIDE DEF j
  <2> QED BY <2>2, <2>3, <2>4, QuietKeeps DEF Procs, Repairing
<1>2. ASSUME NEW p \in Users, NEW op \in Toggles, NEW c \in Containers, BeginToggle(p, op, c)
      PROVE  IInv'
  <2> DEFINE C == IF op = "enable" THEN auto \cup {c} ELSE auto \ {c}
             j == Toggled(op, c, C)
  <2>1. C \subseteq Containers
    BY <1>0 DEF TypeOK
  <2>2. proc' = [proc EXCEPT ![p] = j] /\ kept' = kept /\ ctr' = ctr /\ stale' = stale
    BY <1>2 DEF BeginToggle, Toggled
  <2> HIDE DEF C
  <2>3. Good(j) /\ JobAims(j) = {} /\ j.pc = "flag"
    BY <2>1, ToggleGood
  <2>4. RestOK'
    BY <1>0, <1>2, BoundsAssumption DEF BeginToggle, TypeOK, RestOK
  <2> HIDE DEF j
  <2> QED BY <2>2, <2>3, <2>4, QuietKeeps DEF Procs, Repairing
<1>3. CASE BootStarts
  <2>1. RestOK'
    BY <1>0, <1>3 DEF BootStarts, TypeOK, RestOK
  <2>2. kept' = kept \ Aims("boot", auto) /\ ctr' = ctr /\ stale' = stale
    BY <1>3 DEF BootStarts
  <2>3. CASE auto = {}
    <3>1. proc' = proc
      BY <1>3, <2>3 DEF BootStarts
    <3>2. Up' = Up
      BY <2>2 DEF Up
    <3> QED BY <1>0, <2>1, <2>2, <3>1, <3>2, IdleKeeps DEF TypeOK, IInv, KeptInv
  <2>4. CASE auto # {}
    <3> DEFINE j == Begun("boot", auto, auto)
    <3>1. proc' = [proc EXCEPT ![Service] = j]
      BY <1>3, <2>4 DEF BootStarts, Begun
    <3>2. Good(j) /\ JobAims(j) = Aims("boot", auto) /\ j.pc = "next"
      <4>1. "boot" \in Acting /\ auto \in SUBSET Containers
        BY <1>0 DEF TypeOK, Acting
      <4>2. \A op \in Acting : /\ Good(Begun(op, auto, auto)) /\ Begun(op, auto, auto).pc = "next"
                               /\ JobAims(Begun(op, auto, auto)) = Aims(op, auto)
        BY <4>1, BeginGood
      <4> QED BY <4>1, <4>2, Zenon
    <3> HIDE DEF j
    <3> QED BY <2>1, <2>2, <3>1, <3>2, QuietKeeps DEF Procs, Repairing
  <2> QED BY <2>3, <2>4
<1>4. ASSUME NEW p \in Procs, Step(p) PROVE IInv'
  <2>1. CASE SyncBootService(p)
    <3>1. proc' \in [Procs -> Job] /\ \A q \in Procs : proc'[q] \in {proc[q], Idle}
      BY <1>0, <2>1, IdleGood DEF SyncBootService, TypeOK, Good
    <3>2. kept' = kept /\ ctr' = ctr /\ stale' = stale
      BY <2>1 DEF SyncBootService
    <3>3. Up' = Up
      BY <3>2 DEF Up
    <3> QED BY <1>0, <1>4, <3>1, <3>2, <3>3, StepRest, IdleKeeps DEF TypeOK, IInv, KeptInv
  <2>2. CASE ~SyncBootService(p)
    BY <1>4, <2>2, StepKeeps
  <2> QED BY <2>1, <2>2
<1>5. ASSUME NEW p \in Procs, Interrupt(p) PROVE IInv'
  <2>1. proc' \in [Procs -> Job] /\ \A q \in Procs : proc'[q] \in {proc[q], Idle}
    BY <1>0, <1>5, IdleGood DEF Interrupt, TypeOK, Good
  <2>2. kept' = kept /\ ctr' = ctr /\ stale' = stale
    BY <1>5 DEF Interrupt
  <2>3. Up' = Up
    BY <2>2 DEF Up
  <2>4. RestOK'
    BY <1>0, <1>5 DEF Interrupt, TypeOK, RestOK
  <2> QED BY <1>0, <2>1, <2>2, <2>3, <2>4, IdleKeeps DEF TypeOK, IInv, KeptInv
<1>6. CASE Reboot
  <2>1. proc' \in [Procs -> Job] /\ \A q \in Procs : proc'[q] \in {proc[q], Idle}
    BY <1>6, IdleGood DEF Reboot, Good
  <2>2. ctr' \in [Containers -> States] /\ Up' = {}
    BY <1>6 DEF Reboot, Up
  <2>3. stale' \in BOOLEAN /\ kept' \subseteq kept /\ (stale' => kept' = {})
    BY <1>6 DEF Reboot
  <2>4. RestOK'
    BY <1>0, <1>6, BoundsAssumption DEF Reboot, TypeOK, RestOK
  <2> QED BY <2>1, <2>2, <2>3, <2>4, IdleKeeps
<1>7. CASE UNCHANGED vars
  BY <1>7 DEF vars, IInv, TypeOK, JobsInv, KeptInv, KeptStaysDown, Up
<1> QED BY <1>1, <1>2, <1>3, <1>4, <1>5, <1>6, <1>7 DEF Next

LEMMA Invariance == Spec => []IInv
BY InitInv, NextInv, PTL DEF Spec

(* The variables of every behaviour keep their types: a job at each control*)
(* point has the container that its podman calls name.                     *)
THEOREM TypeCorrect == Spec => []TypeOK
BY Invariance, PTL DEF IInv

(* A container stopped on purpose on a healthy podman stays down, whatever *)
(* number of commands, reboots and repairs run beside and after the stop:  *)
(* ensurePodmanStateReady reaches restartStoppedContainers only when its   *)
(* probe failed.                                                           *)
THEOREM StoppedStaysDown == Spec => []KeptStaysDown
BY Invariance, PTL DEF IInv, KeptInv

(* A step of a stop command never brings a container up: the manager that  *)
(* stops an instance has not probed podman, and the others, which may have *)
(* repaired it, do not go on to restartStoppedContainers.                  *)
THEOREM StopsOnlyStop == Spec => StopNeverStarts
<1>1. ASSUME IInv, [Next]_vars
      PROVE  [\A p \in Procs : proc[p].op \in Stops /\ proc'[p] # proc[p] => Up' \subseteq Up]_vars
  <2>0. TypeOK /\ JobsInv
    BY <1>1 DEF IInv
  <2> SUFFICES ASSUME Next, NEW p \in Procs, proc[p].op \in Stops, proc'[p] # proc[p]
               PROVE  Up' \subseteq Up
    BY <1>1
  <2>1. ASSUME ctr' = ctr PROVE Up' \subseteq Up
    BY <2>1 DEF Up
  <2>2. CASE \E q \in Users : \E op \in {"start", "stop", "kill", "status"} :
                \E T \in Targets(op) : Begin(q, op, T)
    BY <2>1, <2>2 DEF Begin
  <2>3. CASE \E q \in Users, op \in Toggles, c \in Containers : BeginToggle(q, op, c)
    BY <2>1, <2>3 DEF BeginToggle
  <2>4. CASE BootStarts
    BY <2>1, <2>4 DEF BootStarts
  <2>5. ASSUME NEW q \in Procs, Step(q) PROVE Up' \subseteq Up
    <3>1. CASE SyncBootService(q)
      BY <2>1, <3>1 DEF SyncBootService
    <3>2. CASE ~SyncBootService(q)
      <4>1. PICK j : NewJob(q, j)
        BY <2>0, <2>5, <3>2, StepJob
      <4>2. p = q
        BY <2>0, <4>1 DEF NewJob, TypeOK
      <4> QED BY <2>0, <2>5, <4>2, StepEffect DEF Effect
    <3> QED BY <3>1, <3>2
  <2>6. CASE \E q \in Procs : Interrupt(q)
    BY <2>1, <2>6 DEF Interrupt
  <2>7. CASE Reboot
    BY <2>7 DEF Reboot, Up
  <2> QED BY <2>2, <2>3, <2>4, <2>5, <2>6, <2>7 DEF Next
<1> QED BY <1>1, Invariance, PTL DEF Spec, StopNeverStarts

=============================================================================
