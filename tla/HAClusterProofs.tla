--------------------------- MODULE HAClusterProofs ---------------------------
(***************************************************************************)
(* Theorems about HACluster, for any hosts, any members and any number of  *)
(* commands and faults.                                                    *)
(***************************************************************************)
EXTENDS HACluster, NaturalsInduction, WellFoundedInduction, TLAPS

-----------------------------------------------------------------------------
(* What a command still has to do: parts of the inductive invariant that   *)
(* speak of the steps left                                                 *)

\* Steps that are for a member, and those of them that only the host of the
\* member does.
HomeOps == {"rmbox", "unregister", "erase", "yml", "restoreyml", "wipe", "rm", "run",
            "register", "start", "stop", "softstop", "rejoined"}
MemberOps == HomeOps \cup {"enter", "leave", "leaveremote"}
SaveOps == {"enter", "leave", "leaveremote", "forget", "record", "unrecord"}
Builds == {"run", "register"}
Drops == {"leave", "leaveremote", "forget"}

\* The steps that pause the cluster, and those that end a pause or account for it.
Opens == {"pause", "freeze"}
Closes == {"clear", "unpause", "count", "resume"}

Has(todo, ops) == \E i \in DOMAIN todo : todo[i].do \in ops

\* Steps are for members, and for members of the host.
Placed(h, todo) ==
  \A i \in DOMAIN todo :
    /\ IF todo[i].do \in MemberOps THEN todo[i].for \in Members ELSE todo[i].for = None
    /\ todo[i].do \in HomeOps => Home[todo[i].for] = h
    /\ todo[i].do = "leaveremote" => Home[todo[i].for] # h

\* A command saves once, works out the members to make anew before that, and
\* makes nothing when what it saves leaves a member out.
SavesOnce(todo) ==
  \A i, j \in DOMAIN todo :
    /\ i < j /\ todo[i].do \in SaveOps => todo[j].do \notin SaveOps \cup {"order"}
    /\ todo[i].do \in Drops => todo[j].do \notin Builds \cup {"order"}

\* A pause is ended later in the same command, unless it is all that was asked for.
PauseOps == {"extension", "setup", "restore"}
Window(op, todo) ==
  /\ \A i \in DOMAIN todo : todo[i].do \in Opens =>
       /\ \/ op = "pause"
          \/ op \in PauseOps /\ \E j \in DOMAIN todo : i < j /\ todo[j].do \in Closes
       /\ \A j \in DOMAIN todo : i < j => todo[j].do \notin Opens
  /\ op \in PauseOps => \A i \in DOMAIN todo :
       /\ todo[i].do # "start"
       /\ todo[i].do = "ask" => \E j \in DOMAIN todo : i < j /\ todo[j].do \in Opens

\* The order of the steps of a restore with the bootstrap member b.
Rank(s, b) ==
  CASE s.do = "ask"        -> 1
    [] s.do = "freeze"     -> 2
    [] s.do = "softstop"   -> 3
    [] s.do = "list"       -> 4
    [] s.do = "clear"      -> 5
    [] s.do = "restoreyml" -> 6
    [] s.do = "await"      -> 10
    [] s.do = "wipe" /\ s.for = b -> 7
    [] s.do = "rm" /\ s.for = b   -> 8
    [] s.do = "run" /\ s.for = b  -> 9
    [] OTHER               -> 11

RejoinOps == {"yml", "wipe", "rm", "run"}

\* The steps of a restore of a host with the members ms come in this order, none
\* but the first and those for single members may be missing before the head has
\* its rank, and what follows the wait for the leader is for the other members.
Ranked(todo, ms, b) ==
  /\ b \in ms
  /\ \A i \in DOMAIN todo :
       /\ todo[i].do = "restoreyml" => todo[i].for = b
       /\ Rank(todo[i], b) = 11 => todo[i].do \in RejoinOps /\ todo[i].for \in ms \ {b}
  /\ \A i, j \in DOMAIN todo : i < j =>
       \/ Rank(todo[i], b) < Rank(todo[j], b)
       \/ Rank(todo[i], b) = Rank(todo[j], b) /\ Rank(todo[i], b) \in {3, 11}
  /\ \A r \in {2, 4, 5, 6, 7, 8, 9, 10} : Rank(todo[1], b) <= r =>
       \E i \in DOMAIN todo : Rank(todo[i], b) = r
  /\ Rank(todo[1], b) <= 2 =>
       \A m \in ms : \E i \in DOMAIN todo : todo[i].do = "softstop" /\ todo[i].for = m

-----------------------------------------------------------------------------
(* The inductive invariant *)

\* What a command read is what pg.yaml still says, as long as it matters.
Fresh(h, c) ==
  c.op \in {"setup", "restore"} \/ Has(c.todo, SaveOps \cup {"order"}) => c.seen = conf[h]

\* What a command makes is for a member that pg.yaml lists, or will before.
Backed(h, todo) ==
  \A i \in DOMAIN todo : todo[i].do \in Builds =>
    \/ todo[i].for \in Known(h)
    \/ \E j \in DOMAIN todo : j < i /\ todo[j].do = "enter" /\ todo[j].for = todo[i].for

\* The container, and the registration, of a member that is taken out of
\* pg.yaml is gone by then, or goes before.
BoxGone(todo, i, m) ==
  \/ box[m] = "none" \/ m \in stray
  \/ \E j \in DOMAIN todo : j < i /\ todo[j].do = "rmbox" /\ todo[j].for = m
RegGone(h, todo, i, m) ==
  \/ m \notin reg \/ m \in stray
  \/ \E j \in DOMAIN todo : /\ j < i
                            /\ \/ todo[j].do = "unregister" /\ todo[j].for = m
                               \/ todo[j].do = "unregisterall" /\ m \in Own(h)
Emptied(h, todo) ==
  \A i \in DOMAIN todo, m \in Members :
    \/ todo[i].do = "leave" /\ todo[i].for = m /\ Home[m] = h
    \/ todo[i].do = "forget" /\ m \in Own(h)
    => BoxGone(todo, i, m) /\ RegGone(h, todo, i, m)

\* The command of a host, and how it fits what is there.
Mine(h) == Local(h, Entry(h).members)
Fit(h) ==
  /\ cmd[h].todo # <<>>
  /\ cmd[h].base <= gen
  /\ Placed(h, cmd[h].todo)
  /\ SavesOnce(cmd[h].todo)
  /\ cmd[h].op \in {"setup", "restore"} => ~Has(cmd[h].todo, SaveOps)
  /\ Fresh(h, cmd[h])
  /\ Backed(h, cmd[h].todo)
  /\ Emptied(h, cmd[h].todo)
  /\ Window(cmd[h].op, cmd[h].todo)
  /\ cmd[h].op = "restore" => \E b \in Members : Ranked(cmd[h].todo, Mine(h), b)
CommandsFit == \A h \in Hosts : cmd[h] # None => Fit(h)

\* A member that runs has a database.
RunsOnData == \A m \in Members : role[m] # "none" => data[m] # None

\* The command of host h has still to end a pause, and will not pause again.
Owes(h) ==
  /\ cmd[h] # None /\ cmd[h].op \in PauseOps
  /\ Has(cmd[h].todo, Closes) /\ ~Has(cmd[h].todo, Opens)

\* The inductive form of PauseExplained: the command that explains the pause
\* has still to end it.
PauseOwed == dcs.pause => held \/ cut \/ \E h \in Hosts : Owes(h)

\* A restore of host h with the bootstrap member b that nothing has crossed.
\* From the freeze to the wait for the leader: only replicas run on other hosts,
\* and none of them can be elected.
Frozen(h) == \A m \in Members : Home[m] # h /\ Up(m) => role[m] = "replica"
Unelected(h) ==
  \/ dcs.pause
  \/ ~dcs.set /\ \A m \in Members : Up(m) => role[m] = "replica"
  \/ \A m \in Members : Home[m] # h => ~Up(m)

\* From the cleared keys on: a leader is a member of the host that the restore
\* did not stop, and keeps leading.
Leading(h, b) ==
  /\ dcs.set /\ dcs.leader # None
  /\ Leads(Leader) /\ Home[Leader] = h /\ Leader \notin Mine(h) \ {b}
HasRestored(h, b) == dcs.leader = b /\ data[b] \in restored /\ data[b] > cmd[h].base

\* What holds of it, by the rank r of its next step, where todo is left.
Holds(h, b, r, todo) ==
  /\ r \in 3..10 => Frozen(h)
  /\ r \in 3..5 =>
       /\ Unelected(h)
       /\ \A m \in Mine(h) :
             \/ ~Up(m)
             \/ \E i \in DOMAIN todo : todo[i].do = "softstop" /\ todo[i].for = m
  /\ r \in 6..10 =>
       /\ ~dcs.set \/ Leading(h, b)
       /\ \A m \in Mine(h) \ {b} : ~Up(m)
  /\ r \in 6..9 => ~Up(b)
  /\ r \in 7..10 => yml[b] = "restore"
  /\ r = 10 => live[b] = "restore"
  /\ r \in 8..10 /\ stray = {} => data[b] = None \/ HasRestored(h, b)
  /\ r = 11 => Leading(h, b) /\ (stray = {} => HasRestored(h, b))

\* The restore of host h, if it has one that nothing crossed, is in order.
Uncrossed(h) ==
  cmd[h] # None /\ cmd[h].op = "restore" /\ ~cmd[h].blind =>
    \E b \in Members : /\ Ranked(cmd[h].todo, Mine(h), b)
                       /\ Holds(h, b, Rank(cmd[h].todo[1], b), cmd[h].todo)
RestoresHold == \A h \in Hosts : Uncrossed(h)

-----------------------------------------------------------------------------
(* Sequences *)

\* Induction up to n, with the property as a set.
LEMMA Climb ==
  ASSUME NEW n \in Nat, NEW S, 0 \in S, \A k \in 0..(n - 1) : k \in S => k + 1 \in S
  PROVE  n \in S
<1> DEFINE B == {k \in Nat : k <= n /\ k \notin S}
<1>1. SUFFICES ASSUME B # {} PROVE FALSE OBVIOUS
<1>2. IsWellFoundedOn(OpToRel(<, Nat), Nat) BY NatLessThanWellFounded
<1>3. B \subseteq Nat OBVIOUS
<1>4. PICK k \in B : \A y \in B : ~(<<y, k>> \in OpToRel(<, Nat))
  BY <1>1, <1>2, <1>3, WFMin, Zenon
<1>5. \A y \in B : ~(y < k) BY <1>4 DEF OpToRel
<1>6. k \in Nat /\ k <= n /\ k # 0 /\ k \notin S OBVIOUS
<1>7. k - 1 \in 0..(n - 1) /\ (k - 1) + 1 = k /\ k - 1 < k BY <1>6
<1>8. k - 1 \in S BY <1>5, <1>6, <1>7
<1> QED BY <1>6, <1>7, <1>8

\* Only gives a sequence over the set that leaves none of its elements out.
LEMMA OnlyFacts ==
  ASSUME NEW T, NEW seq \in Seq(T), NEW set
  PROVE  /\ Only(seq, set) \in Seq(set)
         /\ \A j \in DOMAIN seq : seq[j] \in set =>
              \E k \in DOMAIN Only(seq, set) : Only(seq, set)[k] = seq[j]
<1> DEFINE n == Len(seq)
           V(f, i) == IF i = 0 THEN <<>>
                      ELSE IF seq[i] \in set THEN Append(f[i - 1], seq[i]) ELSE f[i - 1]
           E(f, k) == f = [i \in 0..k |-> V(f, i)]
           F == CHOOSE f : E(f, n)
<1>0. n \in Nat OBVIOUS
<1>1. Only(seq, set) = F[n]
  BY DEF Only
<1>2. \E f : E(f, n)
  <2> DEFINE S == {k \in 0..n : \E f : E(f, k)}
  <2>1. 0 \in S
    <3>1. E([i \in 0..0 |-> <<>>], 0) OBVIOUS
    <3>2. 0 \in 0..n BY <1>0
    <3> HIDE DEF E, V
    <3> QED BY <3>1, <3>2, Zenon
  <2>2. ASSUME NEW k \in 0..(n - 1), k \in S PROVE k + 1 \in S
    <3>1. PICK f : E(f, k) BY <2>2
    <3> DEFINE g == [i \in 0..(k + 1) |-> IF i = k + 1 THEN V(f, k + 1) ELSE f[i]]
    <3> HIDE DEF V
    <3>2. k \in Nat /\ k + 1 \in 0..n BY <1>0
    <3>3. \A i \in 0..k : f[i] = V(f, i) BY <3>1
    <3>4. \A i \in 0..(k + 1) : V(g, i) = V(f, i) BY <3>2 DEF V
    <3>5. \A i \in 0..(k + 1) : g[i] = V(g, i) BY <3>2, <3>3, <3>4
    <3>6. E(g, k + 1) BY <3>5
    <3> QED BY <3>2, <3>6
  <2> HIDE DEF S
  <2>3. n \in S BY <1>0, <2>1, <2>2, Climb
  <2> QED BY <2>3 DEF S
<1>3. \A k \in 0..n : F[k] = V(F, k)
  <2> HIDE DEF V
  <2>1. E(F, n) BY <1>2
  <2> HIDE DEF F
  <2> QED BY <2>1
<1> HIDE DEF F
<1> DEFINE G(k) == /\ F[k] \in Seq(set)
                   /\ \A j \in 1..k : seq[j] \in set => \E l \in DOMAIN F[k] : F[k][l] = seq[j]
<1>4. G(n)
  <2> DEFINE S == {k \in 0..n : G(k)}
  <2>1. 0 \in S
    <3>1. F[0] = <<>> BY <1>0, <1>3
    <3>2. <<>> \in Seq(set) /\ 1..0 = {} OBVIOUS
    <3>3. 0 \in 0..n BY <1>0
    <3>4. G(0)
      <4>1. \A j \in 1..0 : FALSE BY <3>2
      <4>2. F[0] \in Seq(set) BY <3>1, <3>2
      <4> QED BY <4>1, <4>2
    <3> HIDE DEF G
    <3> QED BY <3>3, <3>4
  <2>2. ASSUME NEW k \in 0..(n - 1), k \in S PROVE k + 1 \in S
    <3>0. k \in Nat /\ k + 1 \in 0..n /\ k + 1 # 0 /\ (k + 1) - 1 = k BY <1>0
    <3>1. G(k) BY <2>2
    <3>2. CASE seq[k + 1] \notin set
      <4>1. F[k + 1] = F[k] BY <1>3, <3>0, <3>2
      <4> QED BY <4>1, <3>0, <3>1, <3>2
    <3>3. CASE seq[k + 1] \in set
      <4>1. F[k + 1] = Append(F[k], seq[k + 1]) BY <1>3, <3>0, <3>3
      <4>2. F[k + 1] \in Seq(set) BY <4>1, <3>1, <3>3
      <4>3. Len(F[k + 1]) \in DOMAIN F[k + 1] /\ F[k + 1][Len(F[k + 1])] = seq[k + 1]
        BY <4>1, <3>1, <3>3
      <4>4. \A l \in DOMAIN F[k] : l \in DOMAIN F[k + 1] /\ F[k + 1][l] = F[k][l]
        BY <4>1, <3>1, <3>3
      <4>5. \A j \in 1..(k + 1) : j = k + 1 \/ j \in 1..k BY <3>0
      <4>6. \A j \in 1..(k + 1) : seq[j] \in set => \E l \in DOMAIN F[k + 1] : F[k + 1][l] = seq[j]
        BY <4>3, <4>4, <4>5, <3>1
      <4> QED BY <4>2, <4>6, <3>0
    <3> QED BY <3>2, <3>3
  <2> HIDE DEF S
  <2>3. n \in S BY <1>0, <2>1, <2>2, Climb
  <2> QED BY <2>3 DEF S
<1> QED BY <1>1, <1>4

\* Sorted gives every member of the set, and nothing else.
LEMMA SortedFacts ==
  ASSUME NEW ms \in SUBSET Members
  PROVE  /\ Sorted(ms) \in Seq(ms)
         /\ \A m \in ms : \E k \in DOMAIN Sorted(ms) : Sorted(ms)[k] = m
<1>1. Order \in Seq(Members) BY ClusterAssumption
<1>2. \A m \in ms : \E j \in DOMAIN Order : Order[j] = m BY DEF Members, Range
<1>3. /\ Only(Order, ms) \in Seq(ms)
      /\ \A j \in DOMAIN Order : Order[j] \in ms =>
           \E k \in DOMAIN Only(Order, ms) : Only(Order, ms)[k] = Order[j]
  BY <1>1, OnlyFacts
<1>4. ASSUME NEW m \in ms PROVE \E k \in DOMAIN Sorted(ms) : Sorted(ms)[k] = m
  <2>1. PICK j \in DOMAIN Order : Order[j] = m BY <1>2
  <2> QED BY <1>3, <2>1 DEF Sorted
<1> QED BY <1>3, <1>4 DEF Sorted

\* For gives the operations, in their order, for the one member.
LEMMA ForFacts ==
  ASSUME NEW m \in Members \cup {None}, NEW ops \in Seq(StepOps)
  PROVE  /\ For(m, ops) \in Seq(Steps) /\ Len(For(m, ops)) = Len(ops)
         /\ DOMAIN For(m, ops) = 1..Len(ops)
         /\ \A i \in 1..Len(ops) : For(m, ops)[i] = Step(ops[i], m)
<1>1. DOMAIN ops = 1..Len(ops) /\ Len(ops) \in Nat OBVIOUS
<1>2. \A i \in 1..Len(ops) : Step(ops[i], m) \in Steps BY <1>1 DEF Step, Steps
<1>3. For(m, ops) \in [1..Len(ops) -> Steps] BY <1>1, <1>2 DEF For
<1> QED BY <1>1, <1>3 DEF For

\* ForEach gives every operation for every member, and nothing else.
LEMMA ForEachFacts ==
  ASSUME NEW S \in SUBSET Members, NEW ms \in Seq(S), NEW ops \in Seq(StepOps),
         Len(ops) \in 1..4
  PROVE  /\ ForEach(ms, ops) \in Seq(Steps)
         /\ \A i \in DOMAIN ForEach(ms, ops) :
              \E k \in DOMAIN ms, l \in DOMAIN ops : ForEach(ms, ops)[i] = Step(ops[l], ms[k])
         /\ \A k \in DOMAIN ms, l \in DOMAIN ops :
              \E i \in DOMAIN ForEach(ms, ops) : ForEach(ms, ops)[i] = Step(ops[l], ms[k])
<1> DEFINE n == Len(ops)
           w == Len(ms) * n
           K(i) == ((i - 1) \div n) + 1
           L(i) == ((i - 1) % n) + 1
<1>1. /\ n \in Nat /\ DOMAIN ops = 1..n /\ Len(ms) \in Nat /\ DOMAIN ms = 1..Len(ms) /\ w \in Nat
      /\ n = 1 \/ n = 2 \/ n = 3 \/ n = 4
  <2>1. n \in 1..4 /\ Len(ms) \in Nat OBVIOUS
  <2>2. w \in Nat BY <2>1
  <2> QED BY <2>1, <2>2
<1>2. \A i \in 1..w : K(i) \in 1..Len(ms) /\ L(i) \in 1..n
  <2> SUFFICES ASSUME NEW i \in 1..w PROVE K(i) \in 1..Len(ms) /\ L(i) \in 1..n
    OBVIOUS
  <2>0. i \in Nat /\ i >= 1 /\ i <= w BY <1>1
  <2>1. CASE n = 1 BY <1>1, <2>0, <2>1
  <2>2. CASE n = 2 BY <1>1, <2>0, <2>2
  <2>3. CASE n = 3 BY <1>1, <2>0, <2>3
  <2>4. CASE n = 4 BY <1>1, <2>0, <2>4
  <2> QED BY <1>1, <2>1, <2>2, <2>3, <2>4
<1>3. \A k \in 1..Len(ms), l \in 1..n : (k - 1) * n + l \in 1..w /\ K((k - 1) * n + l) = k /\ L((k - 1) * n + l) = l
  <2> SUFFICES ASSUME NEW k \in 1..Len(ms), NEW l \in 1..n
               PROVE  (k - 1) * n + l \in 1..w /\ K((k - 1) * n + l) = k /\ L((k - 1) * n + l) = l
    OBVIOUS
  <2>0. k \in Nat /\ l \in Nat /\ k >= 1 /\ k <= Len(ms) /\ l >= 1 /\ l <= n BY <1>1
  <2>1. CASE n = 1 BY <1>1, <2>0, <2>1
  <2>2. CASE n = 2 BY <1>1, <2>0, <2>2
  <2>3. CASE n = 3 BY <1>1, <2>0, <2>3
  <2>4. CASE n = 4 BY <1>1, <2>0, <2>4
  <2> QED BY <1>1, <2>1, <2>2, <2>3, <2>4
<1> HIDE DEF n, w, K, L
<1>4. ForEach(ms, ops) = [i \in 1..w |-> Step(ops[L(i)], ms[K(i)])]
  BY DEF ForEach, n, w, K, L
<1>5. \A k \in DOMAIN ms, l \in DOMAIN ops : Step(ops[l], ms[k]) \in Steps
  BY DEF Step, Steps
<1>6. ForEach(ms, ops) \in Seq(Steps) BY <1>1, <1>2, <1>4, <1>5
<1>7. ASSUME NEW i \in DOMAIN ForEach(ms, ops)
      PROVE  \E k \in DOMAIN ms, l \in DOMAIN ops : ForEach(ms, ops)[i] = Step(ops[l], ms[k])
  BY <1>1, <1>2, <1>4, <1>7
<1>8. ASSUME NEW k \in DOMAIN ms, NEW l \in DOMAIN ops
      PROVE  \E i \in DOMAIN ForEach(ms, ops) : ForEach(ms, ops)[i] = Step(ops[l], ms[k])
  <2>1. (k - 1) * n + l \in 1..w /\ K((k - 1) * n + l) = k /\ L((k - 1) * n + l) = l
    BY <1>1, <1>3, <1>8
  <2> QED BY <1>4, <2>1
<1> QED BY <1>6, <1>7, <1>8

\* A sequence with a length has something in it.
LEMMA NotEmpty ==
  ASSUME NEW S, NEW s \in Seq(S), Len(s) # 0
  PROVE  s # <<>>
  OBVIOUS

\* A sequence whose elements are in a set is a sequence over that set.
LEMMA SeqIn ==
  ASSUME NEW S, NEW T, NEW s \in Seq(S), \A i \in DOMAIN s : s[i] \in T
  PROVE  s \in Seq(T)
  OBVIOUS

\* What is at which place of two sequences put together.
LEMMA CatFacts ==
  ASSUME NEW S, NEW s \in Seq(S), NEW t \in Seq(S)
  PROVE  /\ s \o t \in Seq(S) /\ Len(s \o t) = Len(s) + Len(t)
         /\ Len(s) \in Nat /\ Len(t) \in Nat
         /\ DOMAIN (s \o t) = 1..(Len(s) + Len(t))
         /\ \A i \in DOMAIN s : i \in DOMAIN (s \o t) /\ (s \o t)[i] = s[i]
         /\ \A i \in DOMAIN t : Len(s) + i \in DOMAIN (s \o t) /\ (s \o t)[Len(s) + i] = t[i]
         /\ \A i \in DOMAIN (s \o t) :
              \/ i \in DOMAIN s /\ (s \o t)[i] = s[i]
              \/ i > Len(s) /\ i - Len(s) \in DOMAIN t /\ (s \o t)[i] = t[i - Len(s)]
  OBVIOUS

\* The steps that make a container anew.
LEMMA RecreateOps ==
  /\ RecreateMember \in Seq(StepOps) /\ Len(RecreateMember) = 3
  /\ RecreateMember[1] = "yml" /\ RecreateMember[2] = "rm" /\ RecreateMember[3] = "run"
<1>1. "yml" \in StepOps /\ "rm" \in StepOps /\ "run" \in StepOps BY DEF StepOps
<1>2. <<"yml">> \in Seq(StepOps) /\ Recreate \in Seq(StepOps) BY <1>1 DEF Recreate
<1> QED BY <1>2 DEF RecreateMember, Recreate

-----------------------------------------------------------------------------
(* How commands move *)

\* The command is the same but for what is left of it, and for what it knows.
Kept(c, d) ==
  /\ d \in Commands
  /\ d.op = c.op /\ d.clean = c.clean /\ d.seen = c.seen /\ d.base = c.base /\ d.stale = c.stale
  /\ c.blind => d.blind

\* Host h goes on with todo, and ends when there is nothing in it.
Moved(h, todo) ==
  /\ todo = <<>> => cmd'[h] = None
  /\ todo # <<>> => Kept(cmd[h], cmd'[h]) /\ cmd'[h].todo = todo

\* The commands of the hosts in hs stay where they are.
Stay(hs) ==
  \A g \in hs : /\ cmd[g] = None => cmd'[g] = None
                /\ cmd[g] # None => Kept(cmd[g], cmd'[g]) /\ cmd'[g].todo = cmd[g].todo

\* Their restores no longer know what runs.
Crossed(hs) == \A g \in hs : cmd[g] # None /\ cmd[g].op = "restore" => cmd'[g].blind

CmdType == cmd \in [Hosts -> Commands \cup {None}]

\* The head and the rest of what is left.
LEMMA HeadRest ==
  ASSUME NEW todo \in Seq(Steps), todo # <<>>
  PROVE  /\ Head(todo) = todo[1] /\ 1 \in DOMAIN todo /\ todo[1] \in Steps
         /\ Len(todo) \in Nat \ {0} /\ DOMAIN todo = 1..Len(todo)
         /\ Tail(todo) \in Seq(Steps) /\ DOMAIN Tail(todo) = 1..(Len(todo) - 1)
         /\ \A i \in DOMAIN Tail(todo) : i + 1 \in DOMAIN todo /\ Tail(todo)[i] = todo[i + 1]
         /\ \A i \in DOMAIN todo : i = 1 \/ (i - 1 \in DOMAIN Tail(todo) /\ Tail(todo)[i - 1] = todo[i])
  OBVIOUS

\* A command is no None.
LEMMA CommandIsSome ==
  ASSUME NEW c \in Commands
  PROVE  c # None
  BY ClusterAssumption

\* What is left of a command is None or a command.
LEMMA RestFacts ==
  ASSUME NEW c \in Commands, NEW todo \in Seq(Steps)
  PROVE  /\ todo = <<>> => Rest(c, todo) = None
         /\ todo # <<>> => Kept(c, Rest(c, todo)) /\ Rest(c, todo).todo = todo
         /\ Rest(c, todo) \in Commands \cup {None}
  BY DEF Rest, Kept, Commands

\* A command that no longer knows what runs is the same but for that.
LEMMA DoubtsFacts ==
  ASSUME NEW c \in Commands, NEW cond \in BOOLEAN
  PROVE  /\ Doubts(c, cond) \in Commands /\ Kept(c, Doubts(c, cond))
         /\ Doubts(c, cond).todo = c.todo /\ Doubts(c, cond).blind = (c.blind \/ cond)
  BY DEF Doubts, Kept, Commands

\* Then moves host h and lets the others stay.
LEMMA ThenMoves ==
  ASSUME CmdType, NEW h \in Hosts, cmd[h] # None, NEW todo \in Seq(Steps), Then(h, todo)
  PROVE  Moved(h, todo) /\ Stay(Hosts \ {h}) /\ CmdType'
<1>1. cmd[h] \in Commands BY DEF CmdType
<1>2. cmd'[h] = Rest(cmd[h], todo) BY DEF Then, CmdType
<1>3. \A g \in Hosts \ {h} : cmd'[g] = cmd[g] BY DEF Then, CmdType
<1>4. CmdType'
  <2>1. Rest(cmd[h], todo) \in Commands \cup {None} BY <1>1, RestFacts
  <2> QED BY <2>1 DEF Then, CmdType
<1>5. Moved(h, todo) BY <1>1, <1>2, RestFacts DEF Moved
<1>6. Stay(Hosts \ {h}) BY <1>3 DEF Stay, Kept, CmdType
<1> QED BY <1>4, <1>5, <1>6

\* Skip drops the head.
LEMMA SkipMoves ==
  ASSUME CmdType, NEW h \in Hosts, cmd[h] # None, cmd[h].todo # <<>>, Skip(h)
  PROVE  Moved(h, Tail(cmd[h].todo)) /\ Stay(Hosts \ {h}) /\ CmdType'
<1>1. Tail(cmd[h].todo) \in Seq(Steps) BY HeadRest DEF CmdType, Commands
<1> QED BY <1>1, ThenMoves DEF Skip

\* Blinded changes what the restores of hs know, and nothing else.
LEMMA BlindedStays ==
  ASSUME CmdType, NEW hs \in SUBSET Hosts, NEW g \in Hosts
  PROVE  /\ cmd[g] = None => Blinded(hs)[g] = None
         /\ cmd[g] # None => Kept(cmd[g], Blinded(hs)[g]) /\ Blinded(hs)[g].todo = cmd[g].todo
         /\ g \in hs /\ cmd[g] # None /\ cmd[g].op = "restore" => Blinded(hs)[g].blind
         /\ Blinded(hs)[g] \in Commands \cup {None}
         /\ g \notin hs => Blinded(hs)[g] = cmd[g]
<1>1. CASE cmd[g] = None BY <1>1 DEF Blinded
<1>2. CASE cmd[g] # None
  <2>1. cmd[g] \in Commands BY <1>2 DEF CmdType
  <2>2. CASE g \in hs /\ cmd[g].op = "restore"
    <3>1. Blinded(hs)[g] = [cmd[g] EXCEPT !.blind = TRUE] BY <1>2, <2>2 DEF Blinded
    <3> QED BY <1>2, <2>1, <2>2, <3>1 DEF Kept, Commands
  <2>3. CASE ~(g \in hs /\ cmd[g].op = "restore")
    <3>1. Blinded(hs)[g] = cmd[g] BY <1>2, <2>3 DEF Blinded
    <3> QED BY <1>2, <2>1, <2>3, <3>1 DEF Kept
  <2> QED BY <2>2, <2>3
<1> QED BY <1>1, <1>2

\* SkipLoud drops the head and crosses the restores of the other hosts.
LEMMA SkipLoudMoves ==
  ASSUME CmdType, NEW h \in Hosts, cmd[h] # None, cmd[h].todo # <<>>, SkipLoud(h)
  PROVE  Moved(h, Tail(cmd[h].todo)) /\ Stay(Hosts \ {h}) /\ Crossed(Hosts \ {h}) /\ CmdType'
<1> DEFINE B == Blinded(Hosts \ {h})
<1>1. cmd[h] \in Commands /\ Tail(cmd[h].todo) \in Seq(Steps) BY HeadRest DEF CmdType, Commands
<1>2. DOMAIN B = Hosts BY DEF Blinded
<1>3. B[h] = cmd[h] BY BlindedStays
<1>4. cmd' = [B EXCEPT ![h] = Rest(B[h], Tail(cmd[h].todo))] BY DEF SkipLoud
<1> HIDE DEF B
<1>5. cmd'[h] = Rest(cmd[h], Tail(cmd[h].todo)) BY <1>2, <1>3, <1>4
<1>6. \A g \in Hosts \ {h} : cmd'[g] = B[g] BY <1>2, <1>4
<1>7. Moved(h, Tail(cmd[h].todo)) BY <1>1, <1>5, RestFacts DEF Moved
<1>8. Stay(Hosts \ {h}) /\ Crossed(Hosts \ {h}) BY <1>6, BlindedStays DEF Stay, Crossed, B
<1>9. CmdType'
  <2>1. \A g \in Hosts : cmd'[g] \in Commands \cup {None}
    <3>1. cmd'[h] \in Commands \cup {None} BY <1>1, <1>5, RestFacts
    <3>2. \A g \in Hosts : B[g] \in Commands \cup {None} BY BlindedStays DEF B
    <3> QED BY <1>6, <3>1, <3>2
  <2>2. cmd' = [g \in Hosts |-> cmd'[g]] BY <1>2, <1>4
  <2> QED BY <2>1, <2>2 DEF CmdType
<1> QED BY <1>7, <1>8, <1>9

\* End leaves nothing to do.
LEMMA EndMoves ==
  ASSUME CmdType, NEW h \in Hosts, End(h)
  PROVE  cmd'[h] = None /\ Stay(Hosts \ {h}) /\ CmdType'
  BY DEF End, Stay, CmdType, Kept

\* A command that is left alone stays.
LEMMA SameStays ==
  ASSUME CmdType, UNCHANGED cmd
  PROVE  Stay(Hosts) /\ CmdType'
  BY DEF Stay, CmdType, Kept

-----------------------------------------------------------------------------
(* Types *)

\* The next step of a command, and the member it is for.
Now(h) == cmd[h].todo[1]

\* A step of host h is the head of what is left, of a member of h.
LEMMA AtFacts ==
  ASSUME TypeOK, CommandsFit, NEW h \in Hosts, cmd[h] # None
  PROVE  /\ cmd[h] \in Commands /\ Fit(h)
         /\ cmd[h].todo \in Seq(Steps) /\ cmd[h].todo # <<>>
         /\ 1 \in DOMAIN cmd[h].todo /\ Now(h) \in Steps
         /\ Op(h) = Now(h).do /\ M(h) = Now(h).for
         /\ Op(h) \in MemberOps => M(h) \in Members
         /\ Op(h) \in HomeOps => Home[M(h)] = h
         /\ CmdType
         /\ Entry(h) \in Scopes
<1>1. cmd[h] \in Commands /\ CmdType BY DEF TypeOK, CmdType
<1>2. Fit(h) BY DEF CommandsFit
<1>3. cmd[h].todo \in Seq(Steps) /\ cmd[h].todo # <<>> BY <1>1, <1>2 DEF Fit, Commands
<1>4. Head(cmd[h].todo) = cmd[h].todo[1] /\ 1 \in DOMAIN cmd[h].todo /\ cmd[h].todo[1] \in Steps
  BY <1>3, HeadRest
<1>5. Entry(h) \in Scopes BY <1>1 DEF Entry, Scopes, Commands
<1>6. Placed(h, cmd[h].todo) BY <1>2 DEF Fit
<1> QED BY <1>1, <1>2, <1>3, <1>4, <1>5, <1>6 DEF Now, Op, M, Placed

\* The members that a command makes anew are those pg.yaml of its host lists.
LEMMA ReorderFacts ==
  ASSUME TypeOK, CommandsFit, NEW h \in Hosts, Reorder(h)
  PROVE  \E s \in Seq(Steps) :
           /\ \A i \in DOMAIN s : /\ s[i].do \in {"yml", "rm", "run", "rejoined"}
                                  /\ s[i].for \in Own(h)
           /\ Then(h, s \o Tail(cmd[h].todo))
<1>0. cmd[h] # None /\ Op(h) = "order" BY DEF Reorder, At, Op
<1>1. /\ cmd[h] \in Commands /\ Fit(h)
      /\ cmd[h].todo \in Seq(Steps) /\ 1 \in DOMAIN cmd[h].todo /\ Entry(h) \in Scopes
      /\ Op(h) = Now(h).do
  BY <1>0, AtFacts
<1>2. cmd[h].seen = conf[h]
  <2>1. Has(cmd[h].todo, SaveOps \cup {"order"}) BY <1>0, <1>1 DEF Has, Now
  <2> QED BY <1>1, <2>1 DEF Fit, Fresh
<1> DEFINE all == Local(h, Entry(h).members)
           some == IF cmd[h].op = "setup" THEN all \cap cmd[h].stale ELSE all
           first == Sorted(some \ {Listed})
           last == Sorted(some \cap {Listed})
           back == IF cmd[h].op = "setup" THEN <<"rejoined">> ELSE <<>>
           s == ForEach(first \o last, RecreateMember \o back)
<1>3. all = Own(h) /\ Own(h) \in SUBSET Members
  BY <1>1, <1>2 DEF Own, Local, Entry, Known, Scopes
<1>4. first \o last \in Seq(Own(h))
  <2>1. some \ {Listed} \in SUBSET Own(h) /\ some \cap {Listed} \in SUBSET Own(h) BY <1>3
  <2>2. \A S \in SUBSET Own(h) : Sorted(S) \in Seq(Own(h))
    <3> SUFFICES ASSUME NEW S \in SUBSET Own(h) PROVE Sorted(S) \in Seq(Own(h)) OBVIOUS
    <3>1. S \in SUBSET Members BY <1>3
    <3>2. Sorted(S) \in Seq(S) BY <3>1, SortedFacts
    <3> QED BY <3>2
  <2>3. first \in Seq(Own(h)) /\ last \in Seq(Own(h)) BY <2>1, <2>2
  <2> QED BY <2>3
<1>5. /\ RecreateMember \o back \in Seq(StepOps) /\ Len(RecreateMember \o back) \in 1..4
      /\ \A l \in DOMAIN (RecreateMember \o back) :
           (RecreateMember \o back)[l] \in {"yml", "rm", "run", "rejoined"}
  <2>1. PICK T : T = {"yml", "rm", "run", "rejoined"} OBVIOUS
  <2>2. RecreateMember \in Seq(T) /\ Len(RecreateMember) = 3
    <3>1. \A l \in DOMAIN RecreateMember : l = 1 \/ l = 2 \/ l = 3 BY RecreateOps
    <3>2. \A l \in DOMAIN RecreateMember : RecreateMember[l] \in T BY <2>1, <3>1, RecreateOps
    <3> QED BY <3>2, RecreateOps, SeqIn
  <2>3. <<"rejoined">> \in Seq(T) /\ Len(<<"rejoined">>) = 1 BY <2>1
  <2>4. <<>> \in Seq(T) /\ Len(<<>>) = 0 OBVIOUS
  <2>5. back \in Seq(T) /\ (Len(back) = 0 \/ Len(back) = 1)
    <3>1. CASE cmd[h].op = "setup" BY <2>3, <3>1
    <3>2. CASE cmd[h].op # "setup" BY <2>4, <3>2
    <3> QED BY <3>1, <3>2
  <2> HIDE DEF back
  <2>6. RecreateMember \o back \in Seq(T) /\ Len(RecreateMember \o back) \in 1..4
    <3>1. /\ RecreateMember \o back \in Seq(T)
          /\ Len(RecreateMember \o back) = Len(RecreateMember) + Len(back)
      BY <2>2, <2>5, CatFacts, ZenonT(40)
    <3>2. PICK n, x : n = Len(RecreateMember \o back) /\ x = Len(back) OBVIOUS
    <3>3. n = 3 + x /\ (x = 0 \/ x = 1) BY <2>2, <2>5, <3>1, <3>2
    <3>4. n \in 1..4 BY <3>3
    <3> QED BY <3>1, <3>2, <3>4
  <2>7. T \subseteq StepOps BY <2>1 DEF StepOps
  <2>8. \A l \in DOMAIN (RecreateMember \o back) : (RecreateMember \o back)[l] \in T BY <2>6
  <2>9. RecreateMember \o back \in Seq(StepOps) BY <2>6, <2>7
  <2> QED BY <2>1, <2>6, <2>8, <2>9
<1>6. Then(h, s \o Tail(cmd[h].todo)) BY DEF Reorder
<1> DEFINE ms == first \o last
           ops == RecreateMember \o back
<1>7. /\ s \in Seq(Steps)
      /\ \A i \in DOMAIN s : \E k \in DOMAIN ms, l \in DOMAIN ops : s[i] = Step(ops[l], ms[k])
  <2> HIDE DEF all, some, first, last, back
  <2> QED BY <1>3, <1>4, <1>5, ForEachFacts
<1> HIDE DEF s, ms, ops
<1>8. \A i \in DOMAIN s : s[i].do \in {"yml", "rm", "run", "rejoined"} /\ s[i].for \in Own(h)
  <2> SUFFICES ASSUME NEW i \in DOMAIN s
               PROVE  s[i].do \in {"yml", "rm", "run", "rejoined"} /\ s[i].for \in Own(h)
    OBVIOUS
  <2>1. PICK k \in DOMAIN ms, l \in DOMAIN ops : s[i] = Step(ops[l], ms[k]) BY <1>7
  <2>2. ms[k] \in Own(h) BY <1>4 DEF ms
  <2>3. ops[l] \in {"yml", "rm", "run", "rejoined"} BY <1>5 DEF ops
  <2> QED BY <2>1, <2>2, <2>3 DEF Step
<1> QED BY <1>6, <1>7, <1>8

\* The steps that any command of h does, and where they take it.
LEMMA DoMoves ==
  ASSUME TypeOK, CommandsFit, NEW h \in Hosts, Do(h)
  PROVE  /\ cmd[h] # None /\ Stay(Hosts \ {h}) /\ CmdType'
         /\ \/ cmd'[h] = None
            \/ Moved(h, Tail(cmd[h].todo))
            \/ Reorder(h)
            \/ Count(h) /\ Moved(h, For(None, <<"resume">>))
<1>0. cmd[h] # None
  BY DEF Do, Save, WriteYml, Wipe, Halt, Rm, Run, StartMember, Register, Ask, Pause, Resume, Switch,
         List, Clear, Await, Reorder, Rejoined, Count, At
<1>1. /\ cmd[h] \in Commands /\ CmdType
      /\ cmd[h].todo \in Seq(Steps) /\ cmd[h].todo # <<>> /\ Entry(h) \in Scopes
  BY <1>0, AtFacts
<1>2. Tail(cmd[h].todo) \in Seq(Steps) BY <1>1, HeadRest
<1>3. CASE Skip(h) BY <1>0, <1>1, <1>3, SkipMoves
<1>4. CASE SkipLoud(h) BY <1>0, <1>1, <1>4, SkipLoudMoves
<1>5. CASE End(h) BY <1>0, <1>1, <1>5, EndMoves
<1>6. ASSUME NEW d \in Commands, Kept(cmd[h], d), cmd' = [cmd EXCEPT ![h] = Rest(d, Tail(cmd[h].todo))]
      PROVE  Moved(h, Tail(cmd[h].todo)) /\ Stay(Hosts \ {h}) /\ CmdType'
  <2>1. /\ Tail(cmd[h].todo) = <<>> => Rest(d, Tail(cmd[h].todo)) = None
        /\ Tail(cmd[h].todo) # <<>> => /\ Kept(d, Rest(d, Tail(cmd[h].todo)))
                                       /\ Rest(d, Tail(cmd[h].todo)).todo = Tail(cmd[h].todo)
        /\ Rest(d, Tail(cmd[h].todo)) \in Commands \cup {None}
    BY <1>2, RestFacts
  <2>2. cmd'[h] = Rest(d, Tail(cmd[h].todo)) /\ \A g \in Hosts \ {h} : cmd'[g] = cmd[g]
    BY <1>1, <1>6 DEF CmdType
  <2>3. CmdType' BY <1>1, <1>6, <2>1 DEF CmdType
  <2>4. Moved(h, Tail(cmd[h].todo)) BY <1>6, <2>1, <2>2 DEF Moved, Kept
  <2> QED BY <1>1, <2>2, <2>3, <2>4 DEF Stay, Kept, CmdType
<1>7. CASE Pause(h)
  <2>1. CASE ~(Accessible \/ Op(h) = "freeze") BY <1>5, <1>7, <2>1 DEF Pause
  <2>2. CASE Accessible \/ Op(h) = "freeze"
    <3> DEFINE d == Doubts(cmd[h], Op(h) = "freeze" /\ Unfrozen(h))
    <3>1. d \in Commands /\ Kept(cmd[h], d) BY <1>1, DoubtsFacts
    <3>2. cmd' = [cmd EXCEPT ![h] = Rest(d, Tail(cmd[h].todo))]
      BY <1>1, <1>7, <2>2 DEF Pause
    <3> QED BY <1>0, <3>1, <3>2, <1>6
  <2> QED BY <2>1, <2>2
<1>8. CASE List(h)
  <2> DEFINE d == [cmd[h] EXCEPT !.led = Listed]
  <2>1. Listed \in Members \cup {None} BY DEF Listed, TypeOK
  <2>2. d \in Commands /\ Kept(cmd[h], d) BY <1>1, <2>1 DEF Commands, Kept
  <2>3. cmd' = [cmd EXCEPT ![h] = Rest(d, Tail(cmd[h].todo))]
    BY <1>1, <1>8 DEF List, CmdType
  <2> QED BY <1>0, <2>2, <2>3, <1>6
<1>9. CASE Reorder(h)
  <2>1. PICK s \in Seq(Steps) : Then(h, s \o Tail(cmd[h].todo)) BY <1>9, ReorderFacts
  <2>2. s \o Tail(cmd[h].todo) \in Seq(Steps) BY <1>2
  <2> QED BY <1>0, <1>1, <1>9, <2>1, <2>2, ThenMoves
<1>10. CASE Count(h)
  <2>1. For(None, <<"resume">>) \in Seq(Steps) /\ For(None, <<"resume">>) # <<>>
    <3>1. "resume" \in StepOps BY DEF StepOps
    <3> DEFINE ops == <<"resume">>
    <3>2. ops \in Seq(StepOps) /\ Len(ops) = 1 BY <3>1
    <3> HIDE DEF ops
    <3>3. For(None, ops) \in Seq(Steps) /\ Len(For(None, ops)) = 1 BY <3>2, ForFacts
    <3>4. Len(For(None, ops)) # 0 BY <3>3
    <3>5. For(None, ops) # <<>> BY <3>3, <3>4, NotEmpty, Zenon
    <3> QED BY <3>3, <3>5 DEF ops
  <2>2. CASE Then(h, For(None, <<"resume">>)) BY <1>0, <1>1, <1>10, <2>1, <2>2, ThenMoves
  <2>3. CASE Then(h, <<>>)
    <3>1. <<>> \in Seq(Steps) OBVIOUS
    <3>2. Moved(h, <<>>) /\ Stay(Hosts \ {h}) /\ CmdType' BY <1>0, <1>1, <2>3, <3>1, ThenMoves
    <3> QED BY <1>0, <3>2 DEF Moved
  <2> QED BY <1>10, <2>2, <2>3 DEF Count
<1> QED BY <1>3, <1>4, <1>5, <1>7, <1>8, <1>9, <1>10
        DEF Do, Save, WriteYml, Wipe, Halt, Rm, Run, StartMember, Register, Ask, Resume, Switch,
            Clear, Await, Rejoined

-----------------------------------------------------------------------------
(* How a command keeps fitting *)

\* What steps of others, Patroni and faults leave alone for host h.
Spared(h) ==
  /\ conf'[h] = conf[h] /\ gen <= gen' /\ stray \subseteq stray'
  /\ \A m \in Members : Home[m] = h => /\ box[m] = "none" => box'[m] = "none"
                                       /\ m \notin reg => m \notin reg'

\* A command that stays where it is keeps fitting.
LEMMA FitStays ==
  ASSUME TypeOK, TypeOK', NEW h \in Hosts, cmd[h] # None, Fit(h), Spared(h),
         Kept(cmd[h], cmd'[h]), cmd'[h].todo = cmd[h].todo
  PROVE  Fit(h)'
<1> DEFINE todo == cmd[h].todo
<1>1. /\ cmd'[h].op = cmd[h].op /\ cmd'[h].seen = cmd[h].seen /\ cmd'[h].base = cmd[h].base
      /\ Mine(h)' = Mine(h) /\ Own(h)' = Own(h) /\ Known(h)' = Known(h)
  BY DEF Kept, Mine, Entry, Local, Own, Known, Spared
<1>2. (cmd[h].base <= gen)'
  <2>1. cmd[h].base \in Nat /\ gen \in Nat /\ gen' \in Nat BY DEF TypeOK, Commands
  <2> QED BY <1>1, <2>1 DEF Fit, Spared
<1>3. Fresh(h, cmd[h])' BY <1>1 DEF Fit, Fresh, Spared, Has
<1>4. Backed(h, todo)' BY <1>1 DEF Fit, Backed
<1>5. Emptied(h, todo)'
  <2> SUFFICES ASSUME NEW i \in DOMAIN todo, NEW m \in Members,
                      \/ todo[i].do = "leave" /\ todo[i].for = m /\ Home[m] = h
                      \/ todo[i].do = "forget" /\ m \in Own(h)
               PROVE  BoxGone(todo, i, m)' /\ RegGone(h, todo, i, m)'
    BY <1>1 DEF Emptied
  <2>1. Home[m] = h BY DEF Own, Local
  <2>2. BoxGone(todo, i, m) /\ RegGone(h, todo, i, m) BY DEF Fit, Emptied
  <2> QED BY <1>1, <2>1, <2>2 DEF BoxGone, RegGone, Spared
<1> QED BY <1>1, <1>2, <1>3, <1>4, <1>5 DEF Fit

\* The commands of the hosts that a step leaves alone keep fitting.
LEMMA OthersFit ==
  ASSUME TypeOK, TypeOK', CommandsFit, NEW hs \in SUBSET Hosts, Stay(hs), \A g \in hs : Spared(g)
  PROVE  \A g \in hs : cmd'[g] # None => Fit(g)'
<1> SUFFICES ASSUME NEW g \in hs, cmd'[g] # None PROVE Fit(g)' OBVIOUS
<1>1. cmd[g] # None /\ Fit(g) /\ Spared(g) BY DEF Stay, CommandsFit
<1>2. Kept(cmd[g], cmd'[g]) /\ cmd'[g].todo = cmd[g].todo BY <1>1 DEF Stay
<1> QED BY <1>1, <1>2, FitStays

\* What a step of host h may do besides going on to the rest: what it saves,
\* which containers and registrations it makes, and that it takes away what it is
\* there to take away, or leaves a stray member.
Effect(h) ==
  /\ \/ conf'[h] = conf[h] /\ Op(h) \notin SaveOps
     \/ conf'[h] = Saved(h) /\ Op(h) \in SaveOps
     \/ conf'[h] = conf[h] /\ cmd'[h] = None
  /\ gen <= gen' /\ stray \subseteq stray'
  /\ \A m \in Members : Home[m] = h =>
       /\ box[m] = "none" /\ ~(Op(h) = "run" /\ M(h) = m) => box'[m] = "none"
       /\ m \notin reg /\ ~(Op(h) = "register" /\ M(h) = m) => m \notin reg'
       /\ Op(h) = "rmbox" /\ M(h) = m => box'[m] = "none" \/ m \in stray'
       /\ Op(h) = "unregister" /\ M(h) = m => m \notin reg' \/ m \in stray'
       /\ Op(h) = "unregisterall" /\ m \in Entry(h).members => m \notin reg' \/ m \in stray'

\* A rank is one of the eleven.
LEMMA RankRange ==
  ASSUME NEW s, NEW b
  PROVE  Rank(s, b) \in 1..11
  BY DEF Rank

\* The rest of a restore comes in the same order.
LEMMA RankedTail ==
  ASSUME NEW todo \in Seq(Steps), NEW ms, NEW b, Ranked(todo, ms, b), todo # <<>>, Tail(todo) # <<>>
  PROVE  /\ Ranked(Tail(todo), ms, b)
         /\ Rank(todo[1], b) <= Rank(Tail(todo)[1], b)
<1> DEFINE t == Tail(todo)
<1>1. /\ t \in Seq(Steps) /\ 1 \in DOMAIN todo /\ 1 \in DOMAIN t /\ t[1] = todo[2] /\ 2 \in DOMAIN todo
      /\ \A i \in DOMAIN t : i \in Nat /\ i + 1 \in DOMAIN todo /\ t[i] = todo[i + 1]
      /\ \A i \in DOMAIN todo : i \in Nat /\ (i = 1 \/ (i - 1 \in DOMAIN t /\ t[i - 1] = todo[i]))
  BY HeadRest
<1>2. /\ \A i \in DOMAIN todo : Rank(todo[i], b) \in 1..11
      /\ \A i \in DOMAIN t : Rank(t[i], b) \in 1..11
  BY RankRange
<1> HIDE DEF t
<1>3. \A i, j \in DOMAIN todo : i < j =>
        Rank(todo[i], b) < Rank(todo[j], b) \/ (Rank(todo[i], b) = Rank(todo[j], b) /\ Rank(todo[i], b) \in {3, 11})
  BY DEF Ranked
<1>4. /\ Rank(todo[1], b) <= Rank(t[1], b)
      /\ Rank(todo[1], b) \in 1..11 /\ Rank(t[1], b) \in 1..11
      /\ Rank(todo[1], b) < Rank(t[1], b) \/ Rank(todo[1], b) \in {3, 11}
  <2>1. 1 \in DOMAIN todo /\ 2 \in DOMAIN todo /\ t[1] = todo[2] BY <1>1
  <2>2. \/ Rank(todo[1], b) < Rank(todo[2], b)
        \/ Rank(todo[1], b) = Rank(todo[2], b) /\ Rank(todo[1], b) \in {3, 11}
    BY <1>3, <2>1
  <2>3. Rank(todo[1], b) \in 1..11 /\ Rank(todo[2], b) \in 1..11 BY <1>2, <2>1
  <2>4. Rank(todo[1], b) <= Rank(todo[2], b) BY <2>2, <2>3
  <2> QED BY <2>1, <2>2, <2>3, <2>4
<1>5. \A r \in {2, 4, 5, 6, 7, 8, 9, 10} : Rank(t[1], b) <= r => \E i \in DOMAIN t : Rank(t[i], b) = r
  <2> SUFFICES ASSUME NEW r \in {2, 4, 5, 6, 7, 8, 9, 10}, Rank(t[1], b) <= r
               PROVE  \E i \in DOMAIN t : Rank(t[i], b) = r
    OBVIOUS
  <2>1. Rank(todo[1], b) <= r BY <1>4
  <2>2. PICK i \in DOMAIN todo : Rank(todo[i], b) = r BY <2>1 DEF Ranked
  <2>3. i # 1 BY <1>4, <2>2
  <2> QED BY <1>1, <2>2, <2>3
<1>6. Rank(t[1], b) <= 2 => \A m \in ms : \E i \in DOMAIN t : t[i].do = "softstop" /\ t[i].for = m
  <2> SUFFICES ASSUME Rank(t[1], b) <= 2, NEW m \in ms
               PROVE  \E i \in DOMAIN t : t[i].do = "softstop" /\ t[i].for = m
    OBVIOUS
  <2>1. Rank(todo[1], b) <= 2 BY <1>4
  <2>2. PICK i \in DOMAIN todo : todo[i].do = "softstop" /\ todo[i].for = m BY <2>1 DEF Ranked
  <2>3. Rank(todo[i], b) = 3 BY <2>2 DEF Rank
  <2>4. i # 1 BY <2>1, <2>3
  <2> QED BY <1>1, <2>2, <2>4
<1>7. \A i \in DOMAIN t : /\ t[i].do = "restoreyml" => t[i].for = b
                          /\ Rank(t[i], b) = 11 => t[i].do \in RejoinOps /\ t[i].for \in ms \ {b}
  <2> SUFFICES ASSUME NEW i \in DOMAIN t
               PROVE  /\ t[i].do = "restoreyml" => t[i].for = b
                      /\ Rank(t[i], b) = 11 => t[i].do \in RejoinOps /\ t[i].for \in ms \ {b}
    OBVIOUS
  <2>1. i + 1 \in DOMAIN todo /\ t[i] = todo[i + 1] BY <1>1
  <2> QED BY <2>1 DEF Ranked
<1>8. \A i, j \in DOMAIN t : i < j =>
        Rank(t[i], b) < Rank(t[j], b) \/ (Rank(t[i], b) = Rank(t[j], b) /\ Rank(t[i], b) \in {3, 11})
  <2> SUFFICES ASSUME NEW i \in DOMAIN t, NEW j \in DOMAIN t, i < j
               PROVE  Rank(t[i], b) < Rank(t[j], b) \/ (Rank(t[i], b) = Rank(t[j], b) /\ Rank(t[i], b) \in {3, 11})
    OBVIOUS
  <2>1. /\ i + 1 \in DOMAIN todo /\ j + 1 \in DOMAIN todo /\ i + 1 < j + 1
        /\ t[i] = todo[i + 1] /\ t[j] = todo[j + 1]
    BY <1>1
  <2>2. \/ Rank(todo[i + 1], b) < Rank(todo[j + 1], b)
        \/ Rank(todo[i + 1], b) = Rank(todo[j + 1], b) /\ Rank(todo[i + 1], b) \in {3, 11}
    BY <1>3, <2>1
  <2> QED BY <2>1, <2>2
<1>9. b \in ms BY DEF Ranked
<1> QED BY <1>4, <1>5, <1>6, <1>7, <1>8, <1>9 DEF Ranked, t

\* A command that goes on to its rest keeps fitting.
LEMMA FitMoves ==
  ASSUME TypeOK, TypeOK', NEW h \in Hosts, cmd[h] # None, Fit(h), Effect(h),
         Moved(h, Tail(cmd[h].todo)), cmd'[h] # None
  PROVE  Fit(h)'
<1>a. cmd[h] \in Commands BY DEF TypeOK
<1>b. PICK todo \in Seq(Steps) : todo = cmd[h].todo BY <1>a DEF Commands
<1>c. PICK t : t = Tail(todo) OBVIOUS
<1>1. /\ todo # <<>> /\ cmd[h].base \in Nat /\ gen \in Nat /\ gen' \in Nat
      /\ Placed(h, todo) /\ SavesOnce(todo) /\ Window(cmd[h].op, todo)
  BY <1>a, <1>b DEF TypeOK, Commands, Fit
<1>2. /\ t \in Seq(Steps) /\ 1 \in DOMAIN todo
      /\ \A i \in DOMAIN t : i \in Nat /\ i + 1 \in DOMAIN todo /\ t[i] = todo[i + 1] /\ 1 < i + 1
      /\ \A i \in DOMAIN todo : i \in Nat /\ (i = 1 \/ (i - 1 \in DOMAIN t /\ t[i - 1] = todo[i]))
      /\ Op(h) = todo[1].do /\ M(h) = todo[1].for
  <2>1. Op(h) = Head(todo).do /\ M(h) = Head(todo).for BY <1>b DEF Op, M
  <2> QED BY <1>1, <1>c, <2>1, HeadRest
<1>3. /\ t # <<>> /\ cmd'[h].todo = t /\ cmd'[h].base = cmd[h].base
      /\ cmd'[h].op = cmd[h].op /\ cmd'[h].seen = cmd[h].seen /\ Mine(h)' = Mine(h)
  BY <1>b, <1>c DEF Moved, Kept, Mine, Entry, Local
<1>4. \A ops : Has(t, ops) => Has(todo, ops) BY <1>2 DEF Has
<1>5. Placed(h, t) BY <1>1, <1>2 DEF Placed
<1>6. SavesOnce(t)
  <2> SUFFICES ASSUME NEW i \in DOMAIN t, NEW j \in DOMAIN t
               PROVE  /\ i < j /\ t[i].do \in SaveOps => t[j].do \notin SaveOps \cup {"order"}
                      /\ t[i].do \in Drops => t[j].do \notin Builds \cup {"order"}
    BY DEF SavesOnce
  <2>1. /\ i + 1 \in DOMAIN todo /\ j + 1 \in DOMAIN todo /\ (i < j => i + 1 < j + 1)
        /\ t[i] = todo[i + 1] /\ t[j] = todo[j + 1]
    BY <1>2
  <2> QED BY <1>1, <2>1 DEF SavesOnce
<1>7. ASSUME Op(h) \in SaveOps
      PROVE  Fresh(h, cmd[h])' /\ Backed(h, t)' /\ Emptied(h, t)'
  <2>1. \A i \in DOMAIN t : t[i].do \notin SaveOps \cup {"order"}
    BY <1>1, <1>2, <1>7 DEF SavesOnce
  <2>2. cmd[h].op \notin {"setup", "restore"} BY <1>2, <1>7, <1>b DEF Fit, Has
  <2>3. Fresh(h, cmd[h])' BY <1>3, <2>1, <2>2 DEF Fresh, Has
  <2>4. cmd[h].seen = conf[h] BY <1>2, <1>7, <1>b DEF Fit, Fresh, Has
  <2>5. conf'[h] = Saved(h) BY <1>7 DEF Effect
  <2>6. Backed(h, t)'
    <3> SUFFICES ASSUME NEW i \in DOMAIN t, t[i].do \in Builds
                 PROVE  t[i].for \in Known(h)' \/ \E j \in DOMAIN t : j < i /\ t[j].do = "enter" /\ t[j].for = t[i].for
      BY DEF Backed
    <3>1. i + 1 \in DOMAIN todo /\ t[i] = todo[i + 1] BY <1>2
    <3>2. Op(h) \notin Drops BY <1>1, <1>2, <3>1 DEF SavesOnce
    <3>3. Op(h) \in {"enter", "record", "unrecord"} BY <1>7, <3>2 DEF SaveOps, Drops
    <3>4. Entry(h) \in Scopes /\ Entry(h).members = Known(h)
      BY <2>4 DEF Entry, Known, TypeOK, Scopes
    <3>5. Known(h)' = IF Op(h) = "enter" THEN Known(h) \cup {M(h)} ELSE Known(h)
      <4>1. Saved(h) \in Scopes => Saved(h) # None BY ClusterAssumption
      <4>2. CASE Op(h) = "enter"
        <5>1. Saved(h) = [Entry(h) EXCEPT !.members = Entry(h).members \cup {M(h)}]
          BY <4>2 DEF Saved
        <5>2. M(h) \in Members BY <1>1, <1>2, <4>2 DEF Placed, MemberOps
        <5>3. Saved(h) \in Scopes /\ Saved(h).members = Entry(h).members \cup {M(h)}
          BY <3>4, <5>1, <5>2 DEF Scopes
        <5> QED BY <2>5, <3>4, <4>1, <4>2, <5>3 DEF Known
      <4>3. CASE Op(h) \in {"record", "unrecord"}
        <5>1. Saved(h) \in Scopes /\ Saved(h).members = Entry(h).members
          BY <3>4, <4>3 DEF Saved, Scopes
        <5> QED BY <2>5, <3>4, <4>1, <4>3, <5>1 DEF Known
      <4> QED BY <3>3, <4>2, <4>3
    <3>6. \/ todo[i + 1].for \in Known(h)
          \/ \E j \in DOMAIN todo : j < i + 1 /\ todo[j].do = "enter" /\ todo[j].for = todo[i + 1].for
      BY <3>1, <1>b DEF Fit, Backed
    <3>7. CASE todo[i + 1].for \in Known(h) BY <3>1, <3>5, <3>7
    <3>8. ASSUME NEW j \in DOMAIN todo, j < i + 1, todo[j].do = "enter", todo[j].for = todo[i + 1].for
          PROVE  t[i].for \in Known(h)'
      <4>1. j = 1
        <5>1. j = 1 \/ (j - 1 \in DOMAIN t /\ t[j - 1] = todo[j]) BY <1>2
        <5> QED BY <2>1, <3>8, <5>1 DEF SaveOps
      <4> QED BY <1>2, <3>1, <3>5, <3>8, <4>1
    <3> QED BY <3>6, <3>7, <3>8
  <2>7. Emptied(h, t)' BY <2>1 DEF Emptied, SaveOps
  <2> QED BY <2>3, <2>6, <2>7
<1>8. ASSUME Op(h) \notin SaveOps
      PROVE  Fresh(h, cmd[h])' /\ Backed(h, t)' /\ Emptied(h, t)'
  <2>1. conf'[h] = conf[h] /\ Known(h)' = Known(h) /\ Own(h)' = Own(h)
    BY <1>8 DEF Effect, Known, Own, Local
  <2>2. Fresh(h, cmd[h])' BY <1>3, <1>4, <2>1, <1>b DEF Fit, Fresh
  <2>3. Backed(h, t)'
    <3> SUFFICES ASSUME NEW i \in DOMAIN t, t[i].do \in Builds
                 PROVE  t[i].for \in Known(h) \/ \E j \in DOMAIN t : j < i /\ t[j].do = "enter" /\ t[j].for = t[i].for
      BY <2>1 DEF Backed
    <3>1. i \in Nat /\ i + 1 \in DOMAIN todo /\ t[i] = todo[i + 1] BY <1>2
    <3>2. \/ todo[i + 1].for \in Known(h)
          \/ \E j \in DOMAIN todo : j < i + 1 /\ todo[j].do = "enter" /\ todo[j].for = todo[i + 1].for
      BY <3>1, <1>b DEF Fit, Backed
    <3>3. ASSUME NEW j \in DOMAIN todo, j < i + 1, todo[j].do = "enter", todo[j].for = todo[i + 1].for
          PROVE  \E k \in DOMAIN t : k < i /\ t[k].do = "enter" /\ t[k].for = t[i].for
      <4>1. j # 1 BY <1>2, <1>8, <3>3 DEF SaveOps
      <4>2. j \in Nat /\ j - 1 \in DOMAIN t /\ t[j - 1] = todo[j] BY <1>2, <4>1
      <4> QED BY <3>1, <3>3, <4>2
    <3> QED BY <3>1, <3>2, <3>3
  <2>4. Emptied(h, t)'
    <3> SUFFICES ASSUME NEW i \in DOMAIN t, NEW m \in Members,
                        \/ t[i].do = "leave" /\ t[i].for = m /\ Home[m] = h
                        \/ t[i].do = "forget" /\ m \in Own(h)
                 PROVE  BoxGone(t, i, m)' /\ RegGone(h, t, i, m)'
      BY <2>1 DEF Emptied
    <3>1. i \in Nat /\ i + 1 \in DOMAIN todo /\ t[i] = todo[i + 1] BY <1>2
    <3>2. BoxGone(todo, i + 1, m) /\ RegGone(h, todo, i + 1, m) BY <3>1, <1>b DEF Fit, Emptied
    <3>3. Home[m] = h BY DEF Own, Local
    <3>4. Op(h) \notin Builds BY <1>1, <1>2, <3>1 DEF SavesOnce, Drops
    <3>5. stray \subseteq stray' BY DEF Effect
    <3>6. BoxGone(t, i, m)'
      <4>1. box[m] = "none" => box'[m] = "none" BY <3>3, <3>4 DEF Effect, Builds
      <4>2. ASSUME NEW j \in DOMAIN todo, j < i + 1, todo[j].do = "rmbox", todo[j].for = m
            PROVE  BoxGone(t, i, m)'
        <5>1. CASE j = 1 BY <1>2, <3>3, <4>2, <5>1 DEF Effect, BoxGone
        <5>2. CASE j # 1
          <6>1. j \in Nat /\ j - 1 \in DOMAIN t /\ t[j - 1] = todo[j] /\ j - 1 < i
            BY <1>2, <3>1, <4>2, <5>2
          <6> QED BY <4>2, <6>1 DEF BoxGone
        <5> QED BY <5>1, <5>2
      <4> QED BY <3>2, <3>5, <4>1, <4>2 DEF BoxGone
    <3>7. RegGone(h, t, i, m)'
      <4>1. m \notin reg => m \notin reg' BY <3>3, <3>4 DEF Effect, Builds
      <4>2. ASSUME NEW j \in DOMAIN todo, j < i + 1,
                   \/ todo[j].do = "unregister" /\ todo[j].for = m
                   \/ todo[j].do = "unregisterall" /\ m \in Own(h)
            PROVE  RegGone(h, t, i, m)'
        <5>1. CASE j = 1 /\ todo[1].do = "unregister"
          BY <1>2, <3>3, <4>2, <5>1 DEF Effect, RegGone
        <5>2. CASE j = 1 /\ todo[1].do = "unregisterall"
          <6>1. t[i].do = "forget" \/ t[i].do = "leave" OBVIOUS
          <6>2. cmd[h].seen = conf[h] BY <3>1, <6>1, <1>b DEF Fit, Fresh, Has, SaveOps
          <6>3. m \in Own(h) => m \in Entry(h).members
            BY <6>2 DEF Own, Local, Known, Entry
          <6> QED BY <1>2, <3>3, <4>2, <5>2, <6>3 DEF Effect, RegGone
        <5>3. CASE j # 1
          <6>1. j \in Nat /\ j - 1 \in DOMAIN t /\ t[j - 1] = todo[j] /\ j - 1 < i
            BY <1>2, <3>1, <4>2, <5>3
          <6> QED BY <2>1, <4>2, <6>1 DEF RegGone
        <5> QED BY <4>2, <5>1, <5>2, <5>3
      <4> QED BY <3>2, <3>5, <4>1, <4>2 DEF RegGone
    <3> QED BY <3>6, <3>7
  <2> QED BY <2>2, <2>3, <2>4
<1>9. Window(cmd[h].op, t)
  <2>1. ASSUME NEW i \in DOMAIN t, NEW ops, \E j \in DOMAIN todo : i + 1 < j /\ todo[j].do \in ops
        PROVE  \E j \in DOMAIN t : i < j /\ t[j].do \in ops
    <3>1. PICK j \in DOMAIN todo : i + 1 < j /\ todo[j].do \in ops BY <2>1
    <3>2. i \in Nat /\ j \in Nat /\ j # 1 BY <1>2, <3>1
    <3>3. j - 1 \in DOMAIN t /\ t[j - 1] = todo[j] /\ i < j - 1 BY <1>2, <3>1, <3>2
    <3> QED BY <3>1, <3>3
  <2>2. ASSUME NEW i \in DOMAIN t, t[i].do \in Opens
        PROVE  /\ \/ cmd[h].op = "pause"
                  \/ cmd[h].op \in PauseOps /\ \E j \in DOMAIN t : i < j /\ t[j].do \in Closes
               /\ \A j \in DOMAIN t : i < j => t[j].do \notin Opens
    <3>1. i \in Nat /\ i + 1 \in DOMAIN todo /\ t[i] = todo[i + 1] BY <1>2
    <3>2. /\ \/ cmd[h].op = "pause"
             \/ cmd[h].op \in PauseOps /\ \E j \in DOMAIN todo : i + 1 < j /\ todo[j].do \in Closes
          /\ \A j \in DOMAIN todo : i + 1 < j => todo[j].do \notin Opens
      BY <1>1, <2>2, <3>1 DEF Window
    <3>3. \A j \in DOMAIN t : i < j => t[j].do \notin Opens
      <4> SUFFICES ASSUME NEW j \in DOMAIN t, i < j PROVE t[j].do \notin Opens OBVIOUS
      <4>1. j + 1 \in DOMAIN todo /\ t[j] = todo[j + 1] /\ i + 1 < j + 1 BY <1>2, <3>1
      <4> QED BY <3>2, <4>1
    <3> QED BY <2>1, <3>2, <3>3
  <2>3. ASSUME NEW i \in DOMAIN t, cmd[h].op \in PauseOps
        PROVE  /\ t[i].do # "start"
               /\ t[i].do = "ask" => \E j \in DOMAIN t : i < j /\ t[j].do \in Opens
    <3>1. i + 1 \in DOMAIN todo /\ t[i] = todo[i + 1] BY <1>2
    <3>2. /\ todo[i + 1].do # "start"
          /\ todo[i + 1].do = "ask" => \E j \in DOMAIN todo : i + 1 < j /\ todo[j].do \in Opens
      BY <1>1, <2>3, <3>1 DEF Window
    <3> QED BY <2>1, <3>1, <3>2
  <2> QED BY <2>2, <2>3 DEF Window
<1>10. cmd[h].op = "restore" => \E b \in Members : Ranked(t, Mine(h), b)
  BY <1>1, <1>3, RankedTail, <1>b, <1>c DEF Fit
<1>11. (cmd[h].base <= gen)' BY <1>1, <1>3 DEF Fit, Effect
<1>12. cmd[h].op \in {"setup", "restore"} => ~Has(t, SaveOps) BY <1>4, <1>b DEF Fit
<1> QED BY <1>3, <1>5, <1>6, <1>7, <1>8, <1>9, <1>10, <1>11, <1>12 DEF Fit

\* A command, no restore, that has only to resume the cluster fits.
LEMMA FitResumes ==
  ASSUME TypeOK, TypeOK', NEW h \in Hosts, cmd[h] # None, Fit(h), cmd[h].op # "restore",
         NEW op \in {"resume", "unpause"}, Moved(h, For(None, <<op>>)),
         conf'[h] = conf[h], gen' = gen
  PROVE  Fit(h)'
<1>1. PICK t : t = For(None, <<op>>) OBVIOUS
<1>2. PICK ops : ops = <<op>> OBVIOUS
<1>3. ops \in Seq(StepOps) /\ Len(ops) = 1 /\ ops[1] = op BY <1>2 DEF StepOps
<1>4. t \in Seq(Steps) /\ Len(t) = 1 /\ DOMAIN t = 1..1 /\ t[1] = Step(op, None)
  <2>1. t = For(None, ops) BY <1>1, <1>2
  <2>2. /\ For(None, ops) \in Seq(Steps) /\ Len(For(None, ops)) = Len(ops)
        /\ DOMAIN For(None, ops) = 1..Len(ops)
        /\ \A i \in 1..Len(ops) : For(None, ops)[i] = Step(ops[i], None)
    BY <1>3, ForFacts
  <2>3. t \in Seq(Steps) /\ Len(t) = 1 /\ DOMAIN t = 1..1 BY <1>3, <2>1, <2>2
  <2>4. t[1] = Step(ops[1], None) BY <1>3, <2>1, <2>2
  <2> QED BY <1>3, <2>3, <2>4
<1>5. t # <<>> BY <1>4
<1>6. \A i \in DOMAIN t : i = 1 /\ t[i].do = op /\ t[i].for = None BY <1>4 DEF Step
<1>7. /\ cmd'[h].todo = t /\ cmd'[h].base = cmd[h].base
      /\ cmd'[h].op = cmd[h].op /\ cmd'[h].seen = cmd[h].seen
  BY <1>1, <1>5 DEF Moved, Kept
<1> HIDE <1>1, <1>2
<1>8. Placed(h, t) BY <1>6 DEF Placed, MemberOps, HomeOps
<1>9. SavesOnce(t) BY <1>6 DEF SavesOnce, SaveOps, Drops
<1>10. ~Has(t, SaveOps \cup {"order"}) /\ ~Has(t, SaveOps) BY <1>6 DEF Has, SaveOps
<1>11. Fresh(h, cmd[h])' BY <1>7, <1>10 DEF Fit, Fresh
<1>12. Backed(h, t)' BY <1>6 DEF Backed, Builds
<1>13. Emptied(h, t)' BY <1>6 DEF Emptied
<1>14. Window(cmd[h].op, t) BY <1>6 DEF Window, Opens
<1> QED BY <1>5, <1>7, <1>8, <1>9, <1>10, <1>11, <1>12, <1>13, <1>14 DEF Fit

\* A restore that gives the rest of one member up keeps fitting: what is left is
\* for other members, after the wait for the leader.
LEMMA FitGivesUp ==
  ASSUME TypeOK, TypeOK', NEW h \in Hosts, cmd[h] # None, Fit(h), cmd[h].op = "restore",
         NEW t \in Seq(Steps), t # <<>>, Moved(h, t), conf'[h] = conf[h], gen' = gen,
         NEW b \in Members, Ranked(cmd[h].todo, Mine(h), b),
         \A i \in DOMAIN t : \E j \in DOMAIN cmd[h].todo :
           t[i] = cmd[h].todo[j] /\ Rank(cmd[h].todo[j], b) = 11
  PROVE  Fit(h)' /\ Ranked(t, Mine(h), b)
<1>1. \A i \in DOMAIN t : /\ Rank(t[i], b) = 11 /\ t[i].do \in RejoinOps
                          /\ t[i].for \in Mine(h) \ {b}
  BY DEF Ranked
<1>2. /\ cmd'[h].todo = t /\ cmd'[h].base = cmd[h].base
      /\ cmd'[h].op = "restore" /\ cmd'[h].seen = cmd[h].seen /\ Mine(h)' = Mine(h)
  BY DEF Moved, Kept, Mine, Entry, Local
<1>3. Mine(h) \subseteq Own(h)
  <2>1. cmd[h].seen = conf[h] BY DEF Fit, Fresh
  <2> QED BY <2>1 DEF Mine, Own, Local, Entry, Known
<1>4. Own(h) \subseteq Members /\ \A m \in Own(h) : m \in Known(h) /\ Home[m] = h
  BY DEF TypeOK, Own, Local, Known, Scopes
<1>5. Placed(h, t) BY <1>1, <1>3, <1>4 DEF Placed, RejoinOps, MemberOps, HomeOps
<1>6. SavesOnce(t) BY <1>1 DEF SavesOnce, RejoinOps, SaveOps, Drops
<1>7. ~Has(t, SaveOps \cup {"order"}) /\ ~Has(t, SaveOps) BY <1>1 DEF Has, RejoinOps, SaveOps
<1>8. Fresh(h, cmd[h])' BY <1>2 DEF Fit, Fresh
<1>9. Backed(h, t)'
  <2>1. Known(h)' = Known(h) BY DEF Known
  <2> QED BY <1>1, <1>3, <1>4, <2>1 DEF Backed
<1>10. Emptied(h, t)' BY <1>1 DEF Emptied, RejoinOps
<1>11. Window("restore", t) BY <1>1 DEF Window, Opens, RejoinOps
<1>12. Ranked(t, Mine(h), b)
  <2>1. 1 \in DOMAIN t BY HeadRest
  <2>2. b \in Mine(h) BY DEF Ranked
  <2>3. \A i \in DOMAIN t : t[i].do # "restoreyml" BY <1>1 DEF RejoinOps
  <2>4. Rank(t[1], b) = 11 BY <1>1, <2>1
  <2>5. \A i, j \in DOMAIN t : Rank(t[i], b) = Rank(t[j], b) /\ Rank(t[i], b) \in {3, 11} BY <1>1
  <2>6. \A r \in {2, 4, 5, 6, 7, 8, 9, 10} : ~(Rank(t[1], b) <= r) BY <2>4
  <2> QED BY <1>1, <2>2, <2>3, <2>4, <2>5, <2>6 DEF Ranked
<1> QED BY <1>2, <1>5, <1>6, <1>7, <1>8, <1>9, <1>10, <1>11, <1>12 DEF Fit

\* A restore works out no members to make anew, and counts none.
LEMMA RestoreOps ==
  ASSUME NEW todo, NEW ms, NEW b, Ranked(todo, ms, b), NEW i \in DOMAIN todo
  PROVE  todo[i].do \notin {"order", "count", "resume", "unpause", "register", "start", "stop", "pause"}
  BY ZenonT(40) DEF Ranked, Rank, RejoinOps

\* A command that has worked out the members to make anew keeps fitting.
LEMMA FitReorders ==
  ASSUME TypeOK, TypeOK', CommandsFit, NEW h \in Hosts, Reorder(h), cmd'[h] # None
  PROVE  Fit(h)'
<1>0. cmd[h] # None /\ Op(h) = "order" BY DEF Reorder, At, Op
<1>1. /\ cmd[h] \in Commands /\ Fit(h) /\ CmdType
      /\ cmd[h].todo \in Seq(Steps) /\ cmd[h].todo # <<>> /\ Op(h) = Now(h).do
  BY <1>0, AtFacts
<1>a. PICK todo \in Seq(Steps) : todo = cmd[h].todo BY <1>1
<1>b. PICK s \in Seq(Steps) :
        /\ \A i \in DOMAIN s : s[i].do \in {"yml", "rm", "run", "rejoined"} /\ s[i].for \in Own(h)
        /\ Then(h, s \o Tail(todo))
  BY <1>a, ReorderFacts
<1>c. PICK t \in Seq(Steps) : t = Tail(todo) BY <1>1, <1>a, HeadRest
<1>d. PICK u \in Seq(Steps) : u = s \o t BY CatFacts
<1>e. PICK n \in Nat : n = Len(s) OBVIOUS
<1>2. /\ 1 \in DOMAIN todo /\ todo[1].do = "order"
      /\ \A i \in DOMAIN t : i \in Nat /\ i + 1 \in DOMAIN todo /\ t[i] = todo[i + 1] /\ 1 < i + 1
      /\ \A i \in DOMAIN todo : i \in Nat /\ (i = 1 \/ (i - 1 \in DOMAIN t /\ t[i - 1] = todo[i]))
  BY <1>0, <1>1, <1>a, <1>c, HeadRest, SMTT(30) DEF Now
<1>3. /\ u # <<>> /\ cmd'[h].todo = u /\ cmd'[h].base = cmd[h].base
      /\ cmd'[h].op = cmd[h].op /\ cmd'[h].seen = cmd[h].seen
  <2>1. Then(h, u) BY <1>b, <1>c, <1>d
  <2>2. Moved(h, u) BY <1>0, <1>1, <2>1, ThenMoves
  <2> QED BY <2>2 DEF Moved, Kept
<1>4. conf' = conf /\ gen' = gen /\ Known(h)' = Known(h) BY DEF Reorder, tally, Known
<1>5. /\ \A i \in DOMAIN s : i \in DOMAIN u /\ u[i] = s[i]
      /\ \A i \in DOMAIN t : n + i \in DOMAIN u /\ u[n + i] = t[i]
      /\ \A i \in DOMAIN u :
           \/ i \in DOMAIN s /\ u[i] = s[i]
           \/ i > n /\ i - n \in DOMAIN t /\ u[i] = t[i - n]
      /\ DOMAIN s = 1..n /\ DOMAIN u \subseteq Nat
  BY <1>d, <1>e, CatFacts
<1>6. \A i \in DOMAIN u :
        \/ i <= n /\ u[i].do \in {"yml", "rm", "run", "rejoined"} /\ u[i].for \in Own(h)
        \/ i > n /\ i - n + 1 \in DOMAIN todo /\ i - n + 1 > 1 /\ u[i] = todo[i - n + 1]
  <2> SUFFICES ASSUME NEW i \in DOMAIN u
               PROVE  \/ i <= n /\ u[i].do \in {"yml", "rm", "run", "rejoined"} /\ u[i].for \in Own(h)
                      \/ i > n /\ i - n + 1 \in DOMAIN todo /\ i - n + 1 > 1 /\ u[i] = todo[i - n + 1]
    OBVIOUS
  <2>1. CASE i \in DOMAIN s /\ u[i] = s[i] BY <1>5, <1>b, <2>1
  <2>2. CASE i > n /\ i - n \in DOMAIN t /\ u[i] = t[i - n] BY <1>2, <2>2
  <2> QED BY <1>5, <2>1, <2>2
<1>7. \A k \in DOMAIN todo : k \in Nat /\ (k = 1 \/ (k - 1 + n \in DOMAIN u /\ u[k - 1 + n] = todo[k]))
  <2> SUFFICES ASSUME NEW k \in DOMAIN todo, k # 1
               PROVE  k \in Nat /\ k - 1 + n \in DOMAIN u /\ u[k - 1 + n] = todo[k]
    BY <1>2
  <2>1. k \in Nat /\ k - 1 \in DOMAIN t /\ t[k - 1] = todo[k] BY <1>2
  <2>2. n + (k - 1) \in DOMAIN u /\ u[n + (k - 1)] = t[k - 1] BY <1>5, <2>1
  <2>3. n + (k - 1) = k - 1 + n BY <2>1
  <2> QED BY <2>1, <2>2, <2>3
<1>8. /\ Placed(h, todo) /\ SavesOnce(todo) /\ Window(cmd[h].op, todo)
      /\ Backed(h, todo) /\ cmd[h].base <= gen /\ cmd[h].seen = conf[h]
      /\ cmd[h].op \in {"setup", "restore"} => ~Has(todo, SaveOps)
      /\ cmd[h].op # "restore"
  <2>1. Has(todo, SaveOps \cup {"order"}) BY <1>2 DEF Has
  <2> QED BY <1>1, <1>2, <1>a, <2>1, RestoreOps DEF Fit, Fresh
<1>9. Own(h) \subseteq Members /\ \A m \in Own(h) : m \in Known(h) /\ Home[m] = h
  BY DEF TypeOK, Own, Local, Known, Scopes
<1>10. \A k \in DOMAIN todo : todo[k].do \notin Drops BY <1>2, <1>8 DEF SavesOnce
<1>11. Placed(h, u) BY <1>6, <1>8, <1>9 DEF Placed, MemberOps, HomeOps
<1>12. SavesOnce(u)
  <2> SUFFICES ASSUME NEW i \in DOMAIN u, NEW j \in DOMAIN u
               PROVE  /\ i < j /\ u[i].do \in SaveOps => u[j].do \notin SaveOps \cup {"order"}
                      /\ u[i].do \notin Drops
    BY DEF SavesOnce
  <2>1. u[i].do \notin Drops BY <1>6, <1>10 DEF Drops
  <2>2. ASSUME i < j, u[i].do \in SaveOps PROVE u[j].do \notin SaveOps \cup {"order"}
    <3>1. i > n /\ i - n + 1 \in DOMAIN todo /\ u[i] = todo[i - n + 1] BY <1>6, <2>2 DEF SaveOps
    <3>2. j \in Nat /\ i \in Nat /\ j > n BY <1>5, <2>2, <3>1
    <3>3. j - n + 1 \in DOMAIN todo /\ u[j] = todo[j - n + 1] BY <1>6, <3>2
    <3>4. i - n + 1 < j - n + 1 BY <2>2, <3>1, <3>2
    <3> QED BY <1>8, <2>2, <3>1, <3>3, <3>4 DEF SavesOnce
  <2> QED BY <2>1, <2>2
<1>13. \A ops : ops \cap {"yml", "rm", "run", "rejoined"} = {} /\ Has(u, ops) => Has(todo, ops)
  BY <1>6 DEF Has
<1>14. Fresh(h, cmd[h])' BY <1>3, <1>4, <1>8 DEF Fresh
<1>15. Backed(h, u)'
  <2> SUFFICES ASSUME NEW i \in DOMAIN u, u[i].do \in Builds
               PROVE  u[i].for \in Known(h) \/ \E j \in DOMAIN u : j < i /\ u[j].do = "enter" /\ u[j].for = u[i].for
    BY <1>4 DEF Backed
  <2>1. CASE i <= n BY <1>6, <1>9, <2>1, <1>5
  <2>2. CASE i > n
    <3>1. i \in Nat /\ i - n + 1 \in DOMAIN todo /\ u[i] = todo[i - n + 1] BY <1>5, <1>6, <2>2
    <3>2. \/ u[i].for \in Known(h)
          \/ \E j \in DOMAIN todo : j < i - n + 1 /\ todo[j].do = "enter" /\ todo[j].for = u[i].for
      BY <1>8, <3>1 DEF Backed
    <3>3. ASSUME NEW j \in DOMAIN todo, j < i - n + 1, todo[j].do = "enter", todo[j].for = u[i].for
          PROVE  \E k \in DOMAIN u : k < i /\ u[k].do = "enter" /\ u[k].for = u[i].for
      <4>1. j # 1 BY <1>2, <3>3
      <4>2. j \in Nat /\ j - 1 + n \in DOMAIN u /\ u[j - 1 + n] = todo[j] BY <1>7, <4>1
      <4>3. j - 1 + n < i BY <3>1, <3>3, <4>2
      <4> QED BY <3>3, <4>2, <4>3
    <3> QED BY <3>2, <3>3
  <2> QED BY <1>5, <2>1, <2>2
<1>16. Emptied(h, u)'
  <2>1. \A i \in DOMAIN u : u[i].do \notin Drops BY <1>6, <1>10 DEF Drops
  <2> QED BY <2>1 DEF Emptied, Drops
<1>17. Window(cmd[h].op, u)
  <2>1. ASSUME NEW i \in DOMAIN u, i > n, NEW ops,
               \E j \in DOMAIN todo : i - n + 1 < j /\ todo[j].do \in ops
        PROVE  \E j \in DOMAIN u : i < j /\ u[j].do \in ops
    <3>1. PICK j \in DOMAIN todo : i - n + 1 < j /\ todo[j].do \in ops BY <2>1
    <3>2. i \in Nat /\ j \in Nat /\ j # 1 BY <1>5, <1>7, <2>1, <3>1
    <3>3. j - 1 + n \in DOMAIN u /\ u[j - 1 + n] = todo[j] /\ i < j - 1 + n BY <1>7, <3>1, <3>2
    <3> QED BY <3>1, <3>3
  <2>2. ASSUME NEW i \in DOMAIN u, u[i].do \in Opens
        PROVE  /\ \/ cmd[h].op = "pause"
                  \/ cmd[h].op \in PauseOps /\ \E j \in DOMAIN u : i < j /\ u[j].do \in Closes
               /\ \A j \in DOMAIN u : i < j => u[j].do \notin Opens
    <3>1. i \in Nat /\ i > n /\ i - n + 1 \in DOMAIN todo /\ u[i] = todo[i - n + 1]
      BY <1>5, <1>6, <2>2 DEF Opens
    <3>2. /\ \/ cmd[h].op = "pause"
             \/ cmd[h].op \in PauseOps /\ \E j \in DOMAIN todo : i - n + 1 < j /\ todo[j].do \in Closes
          /\ \A j \in DOMAIN todo : i - n + 1 < j => todo[j].do \notin Opens
      BY <1>8, <2>2, <3>1 DEF Window
    <3>3. \A j \in DOMAIN u : i < j => u[j].do \notin Opens
      <4> SUFFICES ASSUME NEW j \in DOMAIN u, i < j PROVE u[j].do \notin Opens OBVIOUS
      <4>1. j \in Nat /\ j > n BY <1>5, <3>1
      <4>2. j - n + 1 \in DOMAIN todo /\ u[j] = todo[j - n + 1] /\ i - n + 1 < j - n + 1
        BY <1>6, <3>1, <4>1
      <4> QED BY <3>2, <4>2
    <3> QED BY <2>1, <3>1, <3>2, <3>3
  <2>3. ASSUME NEW i \in DOMAIN u, cmd[h].op \in PauseOps
        PROVE  /\ u[i].do # "start"
               /\ u[i].do = "ask" => \E j \in DOMAIN u : i < j /\ u[j].do \in Opens
    <3>1. CASE i <= n BY <1>5, <1>6, <3>1, SMTT(30)
    <3>2. CASE i > n
      <4>1. i - n + 1 \in DOMAIN todo /\ u[i] = todo[i - n + 1] BY <1>5, <1>6, <3>2
      <4>2. /\ todo[i - n + 1].do # "start"
            /\ todo[i - n + 1].do = "ask" => \E j \in DOMAIN todo : i - n + 1 < j /\ todo[j].do \in Opens
        BY <1>8, <2>3, <4>1 DEF Window
      <4> QED BY <2>1, <3>2, <4>1, <4>2
    <3> QED BY <1>5, <3>1, <3>2
  <2> QED BY <2>2, <2>3 DEF Window
<1>18. cmd[h].op \in {"setup", "restore"} => ~Has(u, SaveOps)
  <2>1. SaveOps \cap {"yml", "rm", "run", "rejoined"} = {} BY DEF SaveOps
  <2> QED BY <1>8, <1>13, <2>1
<1> QED BY <1>3, <1>4, <1>8, <1>11, <1>12, <1>14, <1>15, <1>16, <1>17, <1>18 DEF Fit

-----------------------------------------------------------------------------
(* Types *)

\* What a step saves is of the scope, and this is what it lists.
LEMMA SavedFacts ==
  ASSUME TypeOK, CommandsFit, NEW h \in Hosts, cmd[h] # None, Op(h) \in SaveOps
  PROVE  /\ Saved(h) \in Scopes \cup {None}
         /\ Saved(h) # None => Saved(h).members =
              IF Op(h) = "enter" THEN Entry(h).members \cup {M(h)}
              ELSE IF Op(h) \in {"leave", "leaveremote"} THEN Entry(h).members \ {M(h)}
              ELSE Entry(h).members
         /\ Op(h) \in {"enter", "leave", "record", "unrecord"} => Saved(h) # None
         /\ Op(h) = "forget" => Saved(h) = None
         /\ Op(h) = "leaveremote" /\ Saved(h) = None => Entry(h).members \ {M(h)} = {}
<1>1. Entry(h) \in Scopes /\ (Op(h) \in MemberOps => M(h) \in Members) BY AtFacts
<1>2. None \notin Scopes BY ClusterAssumption
<1>3. \A ms \in SUBSET Members :
        /\ [Entry(h) EXCEPT !.members = ms] \in Scopes
        /\ [Entry(h) EXCEPT !.members = ms].members = ms
  BY <1>1 DEF Scopes
<1>4. \A x \in BOOLEAN : /\ [Entry(h) EXCEPT !.exts = x] \in Scopes
                         /\ [Entry(h) EXCEPT !.exts = x].members = Entry(h).members
  BY <1>1 DEF Scopes
<1>5. Entry(h).members \in SUBSET Members BY <1>1 DEF Scopes
<1>6. CASE Op(h) = "enter"
  <2>1. Saved(h) = [Entry(h) EXCEPT !.members = Entry(h).members \cup {M(h)}] BY <1>6 DEF Saved
  <2>2. Entry(h).members \cup {M(h)} \in SUBSET Members BY <1>1, <1>5, <1>6 DEF MemberOps
  <2> QED BY <1>2, <1>3, <1>6, <2>1, <2>2
<1>7. CASE Op(h) = "leave"
  <2>1. Saved(h) = [Entry(h) EXCEPT !.members = Entry(h).members \ {M(h)}] BY <1>7 DEF Saved
  <2>2. Entry(h).members \ {M(h)} \in SUBSET Members BY <1>5
  <2> QED BY <1>2, <1>3, <1>7, <2>1, <2>2
<1>8. CASE Op(h) = "leaveremote"
  <2>1. Saved(h) = IF Entry(h).members \ {M(h)} = {} THEN None
                   ELSE [Entry(h) EXCEPT !.members = Entry(h).members \ {M(h)}]
    BY <1>8 DEF Saved
  <2>2. Entry(h).members \ {M(h)} \in SUBSET Members BY <1>5
  <2> QED BY <1>2, <1>3, <1>8, <2>1, <2>2
<1>9. CASE Op(h) = "forget" BY <1>9 DEF Saved
<1>10. CASE Op(h) = "record"
  <2>1. Saved(h) = [Entry(h) EXCEPT !.exts = TRUE] BY <1>10 DEF Saved
  <2> QED BY <1>2, <1>4, <1>10, <2>1
<1>11. CASE Op(h) = "unrecord"
  <2>1. Saved(h) = [Entry(h) EXCEPT !.exts = FALSE] BY <1>11 DEF Saved
  <2> QED BY <1>2, <1>4, <1>11, <2>1
<1> QED BY <1>6, <1>7, <1>8, <1>9, <1>10, <1>11 DEF SaveOps

\* What TypeOK says of everything but the commands.
RestOK ==
  /\ conf \in [Hosts -> Scopes \cup {None}]
  /\ box \in [Members -> {"none", "down", "up"}]
  /\ yml \in [Members -> {"none", "plain", "restore"}]
  /\ live \in [Members -> {"none", "plain", "restore"}]
  /\ data \in [Members -> 1..MaxGen \cup {None}]
  /\ role \in [Members -> {"none", "replica", "primary"}]
  /\ \A m \in Members : role[m] # "none" => Up(m)
  /\ dcs \in [set : BOOLEAN, leader : Members \cup {None}, pause : BOOLEAN]
  /\ dcs.leader # None \/ dcs.pause => dcs.set
  /\ reg \subseteq Members
  /\ gen \in 1..MaxGen
  /\ begun \in 0..MaxCommands /\ faults \in 0..MaxFaults
  /\ restored \subseteq 1..gen
  /\ cut \in BOOLEAN /\ held \in BOOLEAN
  /\ stray \subseteq Members

\* The steps of commands keep the types.
LEMMA DoTypes ==
  ASSUME TypeOK, CommandsFit, NEW h \in Hosts, Do(h)
  PROVE  TypeOK'
<1>1. cmd[h] # None /\ CmdType' BY DoMoves
<1>2. (Op(h) \in MemberOps => M(h) \in Members) /\ Entry(h) \in Scopes /\ cmd[h] \in Commands
  BY <1>1, AtFacts
<1>3. RestOK BY DEF TypeOK, RestOK
<1>4. SUFFICES RestOK' BY <1>1 DEF TypeOK, RestOK, CmdType
<1>5. \A ops : At(h, ops) => Op(h) \in ops BY DEF At, Op
<1>6. CASE Save(h)
  <2>1. Op(h) \in SaveOps BY <1>5, <1>6 DEF Save, SaveOps
  <2>2. Saved(h) \in Scopes \cup {None} BY <1>1, <2>1, SavedFacts
  <2> QED BY <1>3, <1>6, <2>2 DEF Save, RestOK, node, tally, hist, Up
<1>7. CASE WriteYml(h)
  <2>1. M(h) \in Members BY <1>2, <1>5, <1>7 DEF WriteYml, MemberOps, HomeOps
  <2> QED BY <1>3, <1>7, <2>1 DEF WriteYml, RestOK, tally, hist, Up, PlainYml, RestoreYml
<1>8. CASE Wipe(h)
  <2>1. M(h) \in Members BY <1>2, <1>5, <1>8 DEF Wipe, MemberOps, HomeOps
  <2> QED BY <1>3, <1>8, <2>1 DEF Wipe, RestOK, tally, hist, Up
<1>9. CASE Halt(h)
  <2>1. M(h) \in Members BY <1>2, <1>5, <1>9 DEF Halt, MemberOps, HomeOps
  <2> QED BY <1>3, <1>9, <2>1 DEF Halt, RestOK, tally, hist, Up, Down
<1>10. CASE Rm(h)
  <2>1. M(h) \in Members BY <1>2, <1>5, <1>10 DEF Rm, MemberOps, HomeOps
  <2> QED BY <1>3, <1>10, <2>1 DEF Rm, RestOK, tally, hist, Up
<1>11. CASE Run(h)
  <2>1. M(h) \in Members BY <1>2, <1>5, <1>11 DEF Run, MemberOps, HomeOps
  <2> QED BY <1>3, <1>11, <2>1 DEF Run, RestOK, tally, hist, Up
<1>12. CASE StartMember(h)
  <2>1. M(h) \in Members BY <1>2, <1>5, <1>12 DEF StartMember, MemberOps, HomeOps
  <2> QED BY <1>3, <1>12, <2>1 DEF StartMember, RestOK, tally, hist, Up
<1>13. CASE Register(h)
  <2>1. reg' \subseteq Members
    <3>1. Op(h) \in {"register", "unregister", "unregisterall"} BY <1>5, <1>13 DEF Register
    <3>2. Op(h) = "register" => M(h) \in Members BY <1>2 DEF MemberOps, HomeOps
    <3> QED BY <1>3, <1>13, <3>1, <3>2 DEF Register, RestOK
  <2> QED BY <1>3, <1>13, <2>1 DEF Register, RestOK, node, tally, hist, Up
<1>14. CASE Ask(h) BY <1>3, <1>14 DEF Ask, RestOK, node, tally, hist, Up
<1>15. CASE Pause(h)
  <2>2. dcs' \in [set : BOOLEAN, leader : Members \cup {None}, pause : BOOLEAN]
        /\ (dcs.leader # None \/ dcs.pause => dcs.set)'
    BY <1>3, <1>15, ZenonT(40) DEF Pause, RestOK, Accessible
  <2>3. held' \in BOOLEAN BY <1>3, <1>15 DEF Pause, RestOK
  <2> QED BY <1>3, <1>15, <2>2, <2>3 DEF Pause, RestOK, node, tally, Up
<1>16. CASE Resume(h)
  <2>1. dcs' \in [set : BOOLEAN, leader : Members \cup {None}, pause : BOOLEAN]
        /\ (dcs.leader # None \/ dcs.pause => dcs.set)'
    BY <1>3, <1>16, ZenonT(40) DEF Resume, RestOK, Accessible
  <2>2. held' \in BOOLEAN /\ cut' \in BOOLEAN BY <1>3, <1>16 DEF Resume, RestOK
  <2> QED BY <1>3, <1>16, <2>1, <2>2 DEF Resume, RestOK, node, tally, Up
<1>17. CASE Switch(h)
  <2>1. CASE UNCHANGED <<dcs, role>> BY <1>3, <1>17, <2>1 DEF Switch, RestOK, tally, hist, Up
  <2>2. CASE ~UNCHANGED <<dcs, role>>
    <3>1. PICK c \in Members :
            /\ Joined(c) /\ role[c] = "replica" /\ Accessible
            /\ dcs' = [dcs EXCEPT !.leader = c]
            /\ role' = [m \in Members |-> IF m = c THEN "primary"
                                          ELSE IF m = Leader /\ Leads(m) THEN "replica"
                                          ELSE role[m]]
      BY <1>17, <2>2 DEF Switch
    <3>2. \A m \in Members : Leads(m) => role[m] # "none" BY DEF Leads
    <3>3. /\ dcs' \in [set : BOOLEAN, leader : Members \cup {None}, pause : BOOLEAN]
          /\ (dcs.leader # None \/ dcs.pause => dcs.set)'
      BY <1>3, <3>1 DEF RestOK, Accessible
    <3>4. /\ role' \in [Members -> {"none", "replica", "primary"}]
          /\ \A m \in Members : role'[m] # "none" => Up(m)
      BY <1>3, <3>1, <3>2 DEF RestOK
    <3> QED BY <1>3, <1>17, <3>3, <3>4 DEF Switch, RestOK, tally, hist, Up
  <2> QED BY <2>1, <2>2
<1>18. CASE List(h) BY <1>3, <1>18 DEF List, RestOK, node, tally, hist, Up
<1>19. CASE Clear(h)
  <2>1. NoCluster \in [set : BOOLEAN, leader : Members \cup {None}, pause : BOOLEAN]
        /\ NoCluster.leader = None /\ NoCluster.pause = FALSE
    BY DEF NoCluster
  <2>2. dcs' = dcs \/ dcs' = NoCluster BY <1>19 DEF Clear
  <2>3. held' \in BOOLEAN /\ cut' \in BOOLEAN BY <1>3, <1>19 DEF Clear, RestOK
  <2> QED BY <1>3, <1>19, <2>1, <2>2, <2>3 DEF Clear, RestOK, node, tally, Up
<1>20. CASE Await(h) BY <1>3, <1>20 DEF Await, RestOK, node, tally, hist, Up
<1>21. CASE Reorder(h) BY <1>3, <1>21 DEF Reorder, RestOK, node, tally, hist, Up
<1>22. CASE Rejoined(h) BY <1>3, <1>22 DEF Rejoined, RestOK, node, tally, hist, Up
<1>23. CASE Count(h)
  <2>1. held' \in BOOLEAN BY <1>3, <1>23 DEF Count, RestOK
  <2> QED BY <1>3, <1>23, <2>1 DEF Count, RestOK, node, tally, Up
<1> QED BY <1>6, <1>7, <1>8, <1>9, <1>10, <1>11, <1>12, <1>13, <1>14, <1>15, <1>16, <1>17, <1>18,
           <1>19, <1>20, <1>21, <1>22, <1>23 DEF Do

\* Patroni keeps the types, and touches no command, no pg.yaml, no container and
\* no registration.
LEMMA PatroniTypes ==
  ASSUME TypeOK, Patroni
  PROVE  /\ TypeOK' /\ UNCHANGED <<conf, box, reg, cmd, begun, faults, hist>> /\ gen <= gen'
<1>1. RestOK /\ CmdType BY DEF TypeOK, RestOK, CmdType
<1>2. SUFFICES RestOK' /\ UNCHANGED <<conf, box, reg, cmd, begun, faults, hist>> /\ gen <= gen'
  BY <1>1 DEF TypeOK, RestOK, CmdType
<1>3. gen \in Nat /\ gen <= gen /\ gen <= gen + 1 BY <1>1 DEF RestOK
<1>4. ASSUME NEW m \in Members, Bootstrap(m)
      PROVE  RestOK' /\ UNCHANGED <<conf, box, reg, cmd, begun, faults, hist>> /\ gen <= gen'
  <2>1. gen + 1 \in 1..MaxGen /\ 1..gen \subseteq 1..(gen + 1) /\ gen + 1 \in 1..(gen + 1)
    BY <1>1, <1>4, ClusterAssumption DEF RestOK, Bootstrap
  <2>2. gen' = gen + 1 /\ restored' \subseteq 1..gen' BY <1>1, <1>4, <2>1 DEF RestOK, Bootstrap
  <2>3. data' \in [Members -> 1..MaxGen \cup {None}] BY <1>1, <1>4, <2>1 DEF RestOK, Bootstrap
  <2> QED BY <1>1, <1>3, <1>4, <2>1, <2>2, <2>3 DEF RestOK, Bootstrap, hist, Up
<1>5. ASSUME NEW m \in Members, Follow(m)
      PROVE  RestOK' /\ UNCHANGED <<conf, box, reg, cmd, begun, faults, hist>> /\ gen <= gen'
  <2>1. Leader \in Members BY <1>1, <1>5 DEF Follow, Leader, RestOK
  <2> QED BY <1>1, <1>3, <1>5, <2>1 DEF RestOK, Follow, hist, tally, Up
<1>6. ASSUME NEW m \in Members, Standby(m)
      PROVE  RestOK' /\ UNCHANGED <<conf, box, reg, cmd, begun, faults, hist>> /\ gen <= gen'
  BY <1>1, <1>3, <1>6 DEF RestOK, Standby, hist, tally, Up
<1>7. ASSUME NEW m \in Members, Claim(m)
      PROVE  RestOK' /\ UNCHANGED <<conf, box, reg, cmd, begun, faults, hist>> /\ gen <= gen'
  <2>1. dcs.pause \in BOOLEAN BY <1>1 DEF RestOK
  <2>2. dcs' \in [set : BOOLEAN, leader : Members \cup {None}, pause : BOOLEAN] /\ dcs'.set
    BY <1>7, <2>1 DEF Claim
  <2>3. /\ role' \in [Members -> {"none", "replica", "primary"}]
        /\ \A x \in Members : role'[x] # "none" => Up(x)
    BY <1>1, <1>7 DEF Claim, RestOK
  <2> QED BY <1>1, <1>3, <1>7, <2>2, <2>3 DEF RestOK, Claim, hist, tally, Up
<1>8. ASSUME Expire
      PROVE  RestOK' /\ UNCHANGED <<conf, box, reg, cmd, begun, faults, hist>> /\ gen <= gen'
  BY <1>1, <1>3, <1>8 DEF RestOK, Expire, hist, tally, node, Up
<1> QED BY <1>4, <1>5, <1>6, <1>7, <1>8 DEF Patroni

\* What is left after a step failed, where the command goes on.
LEMMA AfterFacts ==
  ASSUME TypeOK, CommandsFit, NEW h \in Hosts, cmd[h] # None, After(h) # None
  PROVE  \/ Op(h) \in Soft /\ After(h) = Tail(cmd[h].todo)
         \/ /\ cmd[h].op = "restore" /\ M(h) # None
            /\ Op(h) \notin Soft
            /\ \A i \in DOMAIN Tail(cmd[h].todo) : Tail(cmd[h].todo)[i].do # "await"
            /\ After(h) \in Seq(Range(Tail(cmd[h].todo)))
         \/ cmd[h].op = "setup" /\ After(h) = For(None, <<"unpause">>) /\ Op(h) \notin Soft
<1> DEFINE rest == Tail(cmd[h].todo)
           rejoining == cmd[h].op = "restore" /\ M(h) # None /\ \A s \in Range(rest) : s.do # "await"
<1>1. rest \in Seq(Steps)
  <2>1. cmd[h].todo \in Seq(Steps) /\ cmd[h].todo # <<>> BY AtFacts
  <2> QED BY <2>1, HeadRest
<1>2. CASE Op(h) \in Soft
  <2>1. After(h) = rest BY <1>2 DEF After
  <2> QED BY <1>2, <2>1
<1>3. CASE Op(h) \notin Soft /\ rejoining
  <2> DEFINE set == {s \in Range(rest) : s.for # M(h)}
  <2>1. After(h) = Only(rest, set) BY <1>3 DEF After
  <2>2. Only(rest, set) \in Seq(set) BY <1>1, OnlyFacts
  <2>3. Only(rest, set) \in Seq(Range(rest)) BY <2>2
  <2>4. \A i \in DOMAIN rest : rest[i].do # "await" BY <1>3 DEF Range
  <2> QED BY <1>3, <2>1, <2>3, <2>4
<1>4. CASE /\ Op(h) \notin Soft /\ ~rejoining
           /\ cmd[h].op = "setup" /\ M(h) # None /\ Op(h) # "register"
  <2>1. After(h) = For(None, <<"unpause">>) BY <1>4 DEF After
  <2> QED BY <1>4, <2>1
<1>5. CASE /\ Op(h) \notin Soft /\ ~rejoining
           /\ ~(cmd[h].op = "setup" /\ M(h) # None /\ Op(h) # "register")
  BY <1>5 DEF After
<1> QED BY <1>2, <1>3, <1>4, <1>5

\* A fault of a command keeps the types.
LEMMA FailTypes ==
  ASSUME TypeOK, CommandsFit, NEW h \in Hosts, Fail(h)
  PROVE  /\ TypeOK' /\ cmd[h] # None /\ Stay(Hosts \ {h})
         /\ UNCHANGED <<conf, box, reg, gen>> /\ stray \subseteq stray'
         /\ After(h) = None => cmd'[h] = None
         /\ After(h) # None => Moved(h, After(h)) /\ After(h) \in Seq(Steps)
<1>1. cmd[h] # None BY DEF Fail
<1>2. /\ cmd[h] \in Commands /\ CmdType /\ (Op(h) \in MemberOps => M(h) \in Members)
      /\ Entry(h) \in Scopes /\ cmd[h].todo \in Seq(Steps) /\ cmd[h].todo # <<>>
  BY <1>1, AtFacts
<1>3. RestOK BY DEF TypeOK, RestOK
<1>4. stray' \subseteq Members /\ stray \subseteq stray'
  <2>1. Op(h) \in {"rmbox", "unregister"} => M(h) \in Members BY <1>2 DEF MemberOps, HomeOps
  <2>2. Local(h, Entry(h).members) \subseteq Members BY <1>2 DEF Local, Scopes
  <2>3. stray \subseteq Members BY <1>3 DEF RestOK
  <2>4. CASE Op(h) \in {"rmbox", "unregister"} BY <2>1, <2>3, <2>4 DEF Fail
  <2>5. CASE Op(h) = "unregisterall" BY <2>2, <2>3, <2>5 DEF Fail
  <2>6. CASE Op(h) \notin {"rmbox", "unregister", "unregisterall"} BY <2>3, <2>6 DEF Fail
  <2> QED BY <2>4, <2>5, <2>6
<1>5. After(h) # None => After(h) \in Seq(Steps)
  <2>1. Tail(cmd[h].todo) \in Seq(Steps) BY <1>2, HeadRest
  <2>2. Range(Tail(cmd[h].todo)) \subseteq Steps BY <2>1 DEF Range
  <2>3. \A s \in Seq(Range(Tail(cmd[h].todo))) : s \in Seq(Steps) BY <2>2
  <2>4. For(None, <<"unpause">>) \in Seq(Steps)
    <3>1. PICK ops : ops = <<"unpause">> OBVIOUS
    <3>2. ops \in Seq(StepOps) BY <3>1 DEF StepOps
    <3>3. For(None, ops) \in Seq(Steps) BY <3>2, ForFacts
    <3> QED BY <3>1, <3>3
  <2> QED BY <1>1, <2>1, <2>3, <2>4, AfterFacts
<1>6. /\ Stay(Hosts \ {h}) /\ CmdType'
      /\ After(h) = None => cmd'[h] = None
      /\ After(h) # None => Moved(h, After(h))
  <2>1. CASE After(h) = None
    <3>1. End(h) BY <2>1 DEF Fail
    <3> QED BY <1>2, <2>1, <3>1, EndMoves
  <2>2. CASE After(h) # None
    <3>1. PICK d : d = Doubts(cmd[h], Op(h) = "softstop") OBVIOUS
    <3>2. PICK t : t = After(h) OBVIOUS
    <3>3. d \in Commands /\ Kept(cmd[h], d) BY <1>2, <3>1, DoubtsFacts
    <3>4. cmd' = [cmd EXCEPT ![h] = Rest(d, t)] BY <2>2, <3>1, <3>2 DEF Fail
    <3>5. t \in Seq(Steps) BY <1>5, <2>2, <3>2
    <3>6. /\ t = <<>> => Rest(d, t) = None
          /\ t # <<>> => Kept(d, Rest(d, t)) /\ Rest(d, t).todo = t
          /\ Rest(d, t) \in Commands \cup {None}
      BY <3>3, <3>5, RestFacts
    <3>7. cmd'[h] = Rest(d, t) /\ \A g \in Hosts \ {h} : cmd'[g] = cmd[g] BY <1>2, <3>4 DEF CmdType
    <3>8. CmdType' BY <1>2, <3>4, <3>6 DEF CmdType
    <3>9. Moved(h, t) BY <3>3, <3>6, <3>7 DEF Moved, Kept
    <3>10. Stay(Hosts \ {h}) BY <1>2, <3>7 DEF Stay, Kept, CmdType
    <3> QED BY <2>2, <3>2, <3>8, <3>9, <3>10
  <2> QED BY <2>1, <2>2
<1>7. cut' \in BOOLEAN /\ faults' \in 0..MaxFaults
  BY <1>3, ClusterAssumption DEF Fail, RestOK
<1>8. RestOK' BY <1>3, <1>4, <1>7 DEF Fail, RestOK, node, Up
<1>9. TypeOK' BY <1>6, <1>8 DEF TypeOK, RestOK, CmdType
<1> QED BY <1>1, <1>4, <1>5, <1>6, <1>9 DEF Fail, node

\* Interrupting a command keeps the types.
LEMMA KillTypes ==
  ASSUME TypeOK, NEW h \in Hosts, Kill(h)
  PROVE  /\ TypeOK' /\ cmd[h] # None /\ cmd'[h] = None /\ Stay(Hosts \ {h})
         /\ UNCHANGED <<conf, box, reg, gen, stray, dcs, held>>
         /\ cut' = (cut \/ Pauses(cmd[h]))
<1>1. RestOK /\ CmdType BY DEF TypeOK, RestOK, CmdType
<1>2. cmd'[h] = None /\ Stay(Hosts \ {h}) /\ CmdType' BY <1>1, EndMoves DEF Kill
<1>3. cut' \in BOOLEAN /\ faults' \in 0..MaxFaults
  BY <1>1, ClusterAssumption DEF Kill, RestOK
<1>4. RestOK' BY <1>1, <1>3 DEF Kill, RestOK, node, Up
<1> QED BY <1>2, <1>4 DEF TypeOK, RestOK, CmdType, Kill, node

\* A container that dies keeps the types, and crosses every restore.
LEMMA DieTypes ==
  ASSUME TypeOK, NEW m \in Members, Die(m)
  PROVE  /\ TypeOK' /\ Stay(Hosts) /\ Crossed(Hosts)
         /\ UNCHANGED <<conf, dcs, reg, gen, hist>>
         /\ \A x \in Members : box[x] = "none" <=> box'[x] = "none"
<1>1. RestOK /\ CmdType BY DEF TypeOK, RestOK, CmdType
<1>2. Stay(Hosts) /\ Crossed(Hosts) /\ CmdType'
  <2>1. \A g \in Hosts : cmd'[g] = Blinded(Hosts)[g] BY DEF Die
  <2>2. \A g \in Hosts : cmd'[g] \in Commands \cup {None} BY <1>1, <2>1, BlindedStays
  <2>3. cmd' = [g \in Hosts |-> cmd'[g]] BY DEF Die, Blinded
  <2>4. CmdType' BY <2>2, <2>3 DEF CmdType
  <2> QED BY <1>1, <2>1, <2>4, BlindedStays DEF Stay, Crossed
<1>3. faults' \in 0..MaxFaults BY <1>1, ClusterAssumption DEF Die, RestOK
<1>4. /\ RestOK' /\ UNCHANGED <<conf, dcs, reg, gen, hist>>
      /\ \A x \in Members : box[x] = "none" <=> box'[x] = "none"
  BY <1>1, <1>3 DEF Die, RestOK, Up, Down, hist
<1> QED BY <1>2, <1>4 DEF TypeOK, RestOK, CmdType

-----------------------------------------------------------------------------
(* How commands begin *)

\* What holds of the steps a command begins with.
Launch(h, op, todo) ==
  /\ op \in CommandOps /\ todo \in Seq(Steps) /\ todo # <<>>
  /\ Placed(h, todo) /\ SavesOnce(todo)
  /\ op \in {"setup", "restore"} => ~Has(todo, SaveOps)
  /\ Backed(h, todo) /\ Emptied(h, todo) /\ Window(op, todo)
  /\ op = "restore" => todo[1].do = "ask" /\ \E b \in Members : Ranked(todo, Own(h), b)

\* A command that begins so fits, and leaves the others as they are.
LEMMA BeginFits ==
  ASSUME TypeOK, NEW h \in Hosts, NEW op \in CommandOps, NEW todo \in Seq(Steps), NEW clean \in BOOLEAN,
         NEW stale \in SUBSET Members, Begin(h, op, todo, clean, stale), Launch(h, op, todo), CommandsFit
  PROVE  /\ TypeOK' /\ CommandsFit' /\ Stay(Hosts \ {h}) /\ cmd[h] = None
         /\ UNCHANGED <<conf, node, dcs, reg, gen, restored, faults, hist>>
         /\ cmd'[h] # None /\ cmd'[h].todo = todo /\ cmd'[h].op = op /\ ~cmd'[h].blind
         /\ cmd'[h].base = gen /\ Mine(h)' = Own(h)
<1>1. RestOK /\ CmdType BY DEF TypeOK, RestOK, CmdType
<1> DEFINE c == [op |-> op, todo |-> todo, clean |-> clean, seen |-> conf[h],
                 led |-> None, base |-> gen, blind |-> FALSE, stale |-> stale]
<1>2. c \in Commands BY <1>1 DEF RestOK, Commands, Launch
<1>3. /\ cmd' = [cmd EXCEPT ![h] = c] /\ cmd[h] = None
      /\ UNCHANGED <<conf, node, dcs, reg, gen, restored, faults, hist>>
  BY DEF Begin
<1>4. /\ c.op = op /\ c.todo = todo /\ c.seen = conf[h] /\ c.base = gen /\ c.blind = FALSE OBVIOUS
<1> HIDE DEF c
<1>5. cmd'[h] = c /\ \A g \in Hosts \ {h} : cmd'[g] = cmd[g] BY <1>1, <1>3 DEF CmdType
<1>6. CmdType' BY <1>1, <1>2, <1>3 DEF CmdType
<1>7. Stay(Hosts \ {h}) BY <1>1, <1>5 DEF Stay, Kept, CmdType
<1>8. begun' \in 0..MaxCommands BY <1>1, ClusterAssumption DEF Begin, RestOK
<1>9. TypeOK' BY <1>1, <1>3, <1>6, <1>8 DEF RestOK, TypeOK, CmdType, node, hist, Up
<1>10. c # None BY <1>2, CommandIsSome
<1>11. Mine(h)' = Own(h) BY <1>4, <1>5 DEF Mine, Own, Local, Entry, Known
<1>12. Fit(h)'
  <2>1. gen \in Nat BY <1>1 DEF RestOK
  <2>2. Own(h)' = Own(h) /\ Known(h)' = Known(h) /\ box' = box /\ reg' = reg /\ stray' = stray
    BY <1>3 DEF Own, Local, Known, node, hist
  <2>3. Backed(h, todo)' BY <2>2 DEF Launch, Backed
  <2>4. Emptied(h, todo)'
    <3>1. \A i, m : BoxGone(todo, i, m)' = BoxGone(todo, i, m) /\ RegGone(h, todo, i, m)' = RegGone(h, todo, i, m)
      BY <2>2 DEF BoxGone, RegGone
    <3> QED BY <2>2, <3>1 DEF Launch, Emptied
  <2>5. Fresh(h, cmd[h])' BY <1>3, <1>4, <1>5 DEF Fresh
  <2>6. (cmd[h].base <= gen)' BY <1>3, <1>4, <1>5, <2>1
  <2> QED BY <1>4, <1>5, <1>11, <2>3, <2>4, <2>5, <2>6 DEF Launch, Fit
<1>13. CommandsFit'
  <2>1. gen \in Nat /\ gen <= gen' BY <1>1, <1>3 DEF RestOK
  <2>2. \A g \in Hosts \ {h} : Spared(g) BY <1>3, <2>1 DEF Spared, node, hist
  <2>3. \A g \in Hosts \ {h} : cmd'[g] # None => Fit(g)' BY <1>7, <1>9, <2>2, OthersFit
  <2> QED BY <1>12, <2>3 DEF CommandsFit
<1> QED BY <1>3, <1>4, <1>5, <1>7, <1>9, <1>10, <1>11, <1>13

\* One step alone.
LEMMA LaunchOne ==
  ASSUME NEW h, NEW op \in CommandOps \ PauseOps, NEW todo \in Seq(Steps), Len(todo) = 1,
         todo[1].do \in {"enter", "leave", "leaveremote", "pause", "resume", "switchover", "failover",
                         "unrecord"},
         IF todo[1].do \in MemberOps THEN todo[1].for \in Members ELSE todo[1].for = None,
         todo[1].do \in {"leave", "leaveremote"} => Home[todo[1].for] # h,
         todo[1].do = "pause" => op = "pause"
  PROVE  Launch(h, op, todo)
<1>1. todo # <<>> /\ \A i \in DOMAIN todo : i = 1
  <2>0. Len(todo) # 0 OBVIOUS
  <2>1. todo # <<>> BY <2>0, NotEmpty, Zenon
  <2>2. DOMAIN todo = 1..Len(todo) OBVIOUS
  <2>3. DOMAIN todo = 1..1 BY <2>2
  <2> QED BY <2>1, <2>3
<1>2. Placed(h, todo) BY <1>1 DEF Placed, HomeOps
<1>3. SavesOnce(todo)
  <2> SUFFICES ASSUME NEW i \in DOMAIN todo, NEW j \in DOMAIN todo
               PROVE  ~(i < j) /\ todo[j].do \notin Builds \cup {"order"}
    BY DEF SavesOnce
  <2> QED BY <1>1 DEF Builds
<1>4. Backed(h, todo) BY <1>1 DEF Backed, Builds
<1>5. Emptied(h, todo) BY <1>1 DEF Emptied
<1>6. Window(op, todo)
  <2>1. \A i \in DOMAIN todo : todo[i].do \in Opens => op = "pause" BY <1>1 DEF Opens
  <2>2. \A i, j \in DOMAIN todo : ~(i < j) BY <1>1
  <2> QED BY <2>1, <2>2 DEF Window
<1>7. op \notin {"setup", "restore"} BY DEF PauseOps
<1> QED BY <1>1, <1>2, <1>3, <1>4, <1>5, <1>6, <1>7 DEF Launch

\* The one step of a command, for a member or for none.
LEMMA ForOne ==
  ASSUME NEW m \in Members \cup {None}, NEW op \in StepOps
  PROVE  /\ For(m, <<op>>) \in Seq(Steps) /\ Len(For(m, <<op>>)) = 1
         /\ For(m, <<op>>)[1].do = op /\ For(m, <<op>>)[1].for = m
<1>1. PICK ops : ops = <<op>> OBVIOUS
<1>2. ops \in Seq(StepOps) /\ Len(ops) = 1 /\ ops[1] = op BY <1>1
<1>3. For(m, ops) \in Seq(Steps) /\ Len(For(m, ops)) = 1 /\ For(m, ops)[1] = Step(op, m)
  <2>1. /\ For(m, ops) \in Seq(Steps) /\ Len(For(m, ops)) = Len(ops)
        /\ \A i \in 1..Len(ops) : For(m, ops)[i] = Step(ops[i], m)
    BY <1>2, ForFacts
  <2> QED BY <1>2, <2>1
<1> QED BY <1>1, <1>3 DEF Step

\* The sequence s has the operations ops for each of the members ms, and nothing else.
Spread(s, ms, ops) ==
  /\ s \in Seq(Steps)
  /\ \A i \in DOMAIN s : \E l \in DOMAIN ops : s[i].do = ops[l] /\ s[i].for \in ms
  /\ \A m \in ms, l \in DOMAIN ops : \E i \in DOMAIN s : s[i].do = ops[l] /\ s[i].for = m

\* The same steps for each of some members of the host.
LEMMA EachFacts ==
  ASSUME NEW ms \in SUBSET Members, NEW ops \in Seq(StepOps), Len(ops) \in 1..4
  PROVE  Spread(ForEach(Sorted(ms), ops), ms, ops)
<1>0. PICK s : s = ForEach(Sorted(ms), ops) OBVIOUS
<1>1. PICK q : q = Sorted(ms) OBVIOUS
<1>2. q \in Seq(ms) /\ \A m \in ms : \E k \in DOMAIN q : q[k] = m BY <1>1, SortedFacts
<1>3. s = ForEach(q, ops) BY <1>0, <1>1
<1>4. /\ s \in Seq(Steps)
      /\ \A i \in DOMAIN s : \E k \in DOMAIN q, l \in DOMAIN ops : s[i] = Step(ops[l], q[k])
      /\ \A k \in DOMAIN q, l \in DOMAIN ops : \E i \in DOMAIN s : s[i] = Step(ops[l], q[k])
  BY <1>2, <1>3, ForEachFacts
<1>5. ASSUME NEW i \in DOMAIN s
      PROVE  \E l \in DOMAIN ops : s[i].do = ops[l] /\ s[i].for \in ms
  <2>1. PICK k \in DOMAIN q, l \in DOMAIN ops : s[i] = Step(ops[l], q[k]) BY <1>4
  <2>2. q[k] \in ms BY <1>2
  <2> QED BY <2>1, <2>2 DEF Step
<1>6. ASSUME NEW m \in ms, NEW l \in DOMAIN ops
      PROVE  \E i \in DOMAIN s : s[i].do = ops[l] /\ s[i].for = m
  <2>1. PICK k \in DOMAIN q : q[k] = m BY <1>2
  <2>2. PICK i \in DOMAIN s : s[i] = Step(ops[l], q[k]) BY <1>4
  <2> QED BY <2>1, <2>2 DEF Step
<1> QED BY <1>0, <1>4, <1>5, <1>6 DEF Spread

\* The same of the sequence that is the two.
LEMMA CatIs ==
  ASSUME NEW S, NEW s \in Seq(S), NEW t \in Seq(S), NEW u, u = s \o t
  PROVE  /\ u \in Seq(S) /\ Len(u) = Len(s) + Len(t) /\ Len(s) \in Nat /\ Len(t) \in Nat
         /\ DOMAIN u = 1..(Len(s) + Len(t))
         /\ \A i \in DOMAIN s : i \in DOMAIN u /\ u[i] = s[i]
         /\ \A i \in DOMAIN t : Len(s) + i \in DOMAIN u /\ u[Len(s) + i] = t[i]
         /\ \A i \in DOMAIN u :
              \/ i \in DOMAIN s /\ u[i] = s[i]
              \/ i > Len(s) /\ i - Len(s) \in DOMAIN t /\ u[i] = t[i - Len(s)]
  BY CatFacts

\* pg ha create.
LEMMA CreateLaunches ==
  ASSUME NEW h \in Hosts, NEW m \in Members, Home[m] = h
  PROVE  Launch(h, "create", For(m, <<"enter">> \o RecreateMember \o <<"register">>))
<1>1. PICK ops : ops = <<"enter">> \o RecreateMember \o <<"register">> OBVIOUS
<1>2. /\ ops \in Seq(StepOps) /\ Len(ops) = 5 /\ ops[1] = "enter" /\ ops[2] = "yml" /\ ops[3] = "rm"
      /\ ops[4] = "run" /\ ops[5] = "register"
  <2>1. "enter" \in StepOps /\ "register" \in StepOps BY DEF StepOps
  <2>2. PICK a, z : a = <<"enter">> /\ z = <<"register">> OBVIOUS
  <2>3. a \in Seq(StepOps) /\ Len(a) = 1 /\ a[1] = "enter" BY <2>1, <2>2
  <2>4. z \in Seq(StepOps) /\ Len(z) = 1 /\ z[1] = "register" BY <2>1, <2>2
  <2>5. PICK x : x = a \o RecreateMember OBVIOUS
  <2>6. /\ x \in Seq(StepOps) /\ Len(x) = 4 /\ x[1] = "enter" /\ x[2] = "yml" /\ x[3] = "rm" /\ x[4] = "run"
    <3>0. a \in Seq(StepOps) /\ RecreateMember \in Seq(StepOps) /\ x = a \o RecreateMember
      BY <2>3, <2>5, RecreateOps
    <3>1. /\ x \in Seq(StepOps) /\ Len(x) = Len(a) + Len(RecreateMember)
          /\ \A i \in DOMAIN a : x[i] = a[i]
          /\ \A i \in DOMAIN RecreateMember : x[Len(a) + i] = RecreateMember[i]
      BY <3>0, CatIs
    <3>2. DOMAIN a = 1..1 /\ DOMAIN RecreateMember = 1..3 BY <2>3, RecreateOps
    <3>3. 1 + 1 = 2 /\ 1 + 2 = 3 /\ 1 + 3 = 4 OBVIOUS
    <3>4. x[1] = "enter" /\ x[1 + 1] = "yml" /\ x[1 + 2] = "rm" /\ x[1 + 3] = "run"
      BY <2>3, <3>1, <3>2, RecreateOps
    <3> QED BY <2>3, <3>1, <3>3, <3>4, RecreateOps
  <2>7. ops = x \o z BY <1>1, <2>2, <2>5
  <2>a. x \in Seq(StepOps) /\ z \in Seq(StepOps) /\ ops = x \o z BY <2>4, <2>6, <2>7
  <2>8. /\ ops \in Seq(StepOps) /\ Len(ops) = Len(x) + Len(z)
        /\ \A i \in DOMAIN x : ops[i] = x[i]
        /\ \A i \in DOMAIN z : ops[Len(x) + i] = z[i]
    BY <2>a, CatIs
  <2>9. DOMAIN x = 1..4 /\ DOMAIN z = 1..1 /\ 4 + 1 = 5 BY <2>4, <2>6
  <2>10. ops[1] = x[1] /\ ops[2] = x[2] /\ ops[3] = x[3] /\ ops[4] = x[4] /\ ops[4 + 1] = z[1]
    BY <2>6, <2>8, <2>9
  <2> QED BY <2>4, <2>6, <2>8, <2>9, <2>10
<1>3. PICK t : t = For(m, ops) OBVIOUS
<1>4. t \in Seq(Steps) /\ Len(t) = 5 /\ DOMAIN t = 1..5 /\ \A i \in 1..5 : t[i] = Step(ops[i], m)
  BY <1>2, <1>3, ForFacts
<1>5. /\ t[1].do = "enter" /\ t[2].do = "yml" /\ t[3].do = "rm" /\ t[4].do = "run" /\ t[5].do = "register"
      /\ \A i \in DOMAIN t : t[i].for = m
      /\ \A i \in DOMAIN t : i = 1 \/ i = 2 \/ i = 3 \/ i = 4 \/ i = 5
  BY <1>2, <1>4 DEF Step
<1>6. t # <<>> BY <1>4
<1>7. Placed(h, t) BY <1>5 DEF Placed, MemberOps, HomeOps
<1>8. SavesOnce(t)
  <2>1. \A i \in DOMAIN t : t[i].do \notin Drops BY <1>5 DEF Drops
  <2>2. \A i \in DOMAIN t : i # 1 => t[i].do \notin SaveOps \cup {"order"} BY <1>5 DEF SaveOps
  <2>3. \A i, j \in DOMAIN t : i < j => j # 1 BY <1>5
  <2> QED BY <2>1, <2>2, <2>3 DEF SavesOnce
<1>9. Backed(h, t)
  <2> SUFFICES ASSUME NEW i \in DOMAIN t, t[i].do \in Builds
               PROVE  \E j \in DOMAIN t : j < i /\ t[j].do = "enter" /\ t[j].for = t[i].for
    BY DEF Backed
  <2>1. i = 4 \/ i = 5 BY <1>5 DEF Builds
  <2>2. 1 \in DOMAIN t /\ 1 < i /\ t[1].do = "enter" /\ t[1].for = t[i].for BY <1>4, <1>5, <2>1
  <2> QED BY <2>2
<1>10. Emptied(h, t) BY <1>5 DEF Emptied
<1>11. Window("create", t) BY <1>5 DEF Window, Opens, PauseOps
<1> QED BY <1>1, <1>3, <1>4, <1>6, <1>7, <1>8, <1>9, <1>10, <1>11 DEF Launch, CommandOps

\* pg ha remove --member, of a member of the host.
LEMMA RemoveLaunches ==
  ASSUME NEW h \in Hosts, NEW m \in Members, Home[m] = h
  PROVE  Launch(h, "remove", For(m, <<"rmbox", "unregister", "erase", "leave">>))
<1>1. PICK ops : ops = <<"rmbox", "unregister", "erase", "leave">> OBVIOUS
<1>2. /\ ops \in Seq(StepOps) /\ Len(ops) = 4 /\ ops[1] = "rmbox" /\ ops[2] = "unregister"
      /\ ops[3] = "erase" /\ ops[4] = "leave"
  BY <1>1 DEF StepOps
<1>3. PICK t : t = For(m, ops) OBVIOUS
<1>4. t \in Seq(Steps) /\ Len(t) = 4 /\ DOMAIN t = 1..4 /\ \A i \in 1..4 : t[i] = Step(ops[i], m)
  BY <1>2, <1>3, ForFacts
<1>5. /\ t[1].do = "rmbox" /\ t[2].do = "unregister" /\ t[3].do = "erase" /\ t[4].do = "leave"
      /\ \A i \in DOMAIN t : t[i].for = m
      /\ \A i \in DOMAIN t : i = 1 \/ i = 2 \/ i = 3 \/ i = 4
      /\ 1 \in DOMAIN t /\ 2 \in DOMAIN t
  BY <1>2, <1>4 DEF Step
<1>6. t # <<>> BY <1>5
<1>7. Placed(h, t) BY <1>5 DEF Placed, MemberOps, HomeOps
<1>8. SavesOnce(t)
  <2>1. \A i \in DOMAIN t : t[i].do \notin Builds \cup {"order"} BY <1>5 DEF Builds
  <2>2. \A i \in DOMAIN t : i # 4 => t[i].do \notin SaveOps BY <1>5 DEF SaveOps
  <2>3. \A i, j \in DOMAIN t : i < j => i # 4 BY <1>5
  <2> QED BY <2>1, <2>2, <2>3 DEF SavesOnce
<1>9. Backed(h, t) BY <1>5 DEF Backed, Builds
<1>10. Emptied(h, t)
  <2> SUFFICES ASSUME NEW i \in DOMAIN t, NEW x \in Members,
                      \/ t[i].do = "leave" /\ t[i].for = x /\ Home[x] = h
                      \/ t[i].do = "forget" /\ x \in Own(h)
               PROVE  BoxGone(t, i, x) /\ RegGone(h, t, i, x)
    BY DEF Emptied
  <2>1. i = 4 /\ x = m BY <1>5
  <2>2. 1 < i /\ 2 < i BY <2>1
  <2> QED BY <1>5, <2>1, <2>2 DEF BoxGone, RegGone
<1>11. Window("remove", t) BY <1>5 DEF Window, Opens, PauseOps
<1> QED BY <1>1, <1>3, <1>4, <1>6, <1>7, <1>8, <1>9, <1>10, <1>11 DEF Launch, CommandOps

\* pg ha extension install.
LEMMA InstallLaunches ==
  ASSUME NEW h \in Hosts, NEW ops \in Seq(StepOps),
         \/ Len(ops) = 3 /\ ops[1] = "pause" /\ ops[2] = "record" /\ ops[3] = "count"
         \/ /\ Len(ops) = 4 /\ ops[1] = "pause" /\ ops[2] = "order" /\ ops[3] = "record"
            /\ ops[4] = "count"
  PROVE  Launch(h, "extension", For(None, ops))
<1>1. PICK t : t = For(None, ops) OBVIOUS
<1>2. PICK n \in Nat : n = Len(ops) OBVIOUS
<1>3. n \in {3, 4} BY <1>2
<1>4. t \in Seq(Steps) /\ Len(t) = n /\ DOMAIN t = 1..n /\ \A i \in 1..n : t[i] = Step(ops[i], None)
  BY <1>1, <1>2, ForFacts
<1>5. /\ \A i \in DOMAIN t : t[i].do = ops[i] /\ t[i].for = None
      /\ \A i \in DOMAIN t : i \in 1..n /\ (i = 1 \/ i = 2 \/ i = 3 \/ i = 4)
      /\ 1 \in DOMAIN t /\ n \in DOMAIN t /\ 1 < n /\ t[n].do = "count" /\ t[1].do = "pause"
  <2>1. \A i \in DOMAIN t : t[i].do = ops[i] /\ t[i].for = None BY <1>4 DEF Step
  <2>2. \A i \in DOMAIN t : i \in 1..n /\ (i = 1 \/ i = 2 \/ i = 3 \/ i = 4) BY <1>3, <1>4
  <2>3. 1 \in DOMAIN t /\ n \in DOMAIN t /\ 1 < n BY <1>3, <1>4
  <2>4. ops[n] = "count" /\ ops[1] = "pause" BY <1>2
  <2> QED BY <2>1, <2>2, <2>3, <2>4
<1>6. t # <<>> BY <1>5
<1>7. \A i \in DOMAIN t : /\ t[i].do \in {"pause", "order", "record", "count"}
                          /\ t[i].do = "pause" => i = 1
                          /\ t[i].do = "record" => i = n - 1
                          /\ t[i].do = "order" => i = n - 2
  BY <1>2, <1>3, <1>5
<1>8. Placed(h, t) BY <1>5, <1>7 DEF Placed, MemberOps, HomeOps
<1>9. SavesOnce(t)
  <2> SUFFICES ASSUME NEW i \in DOMAIN t, NEW j \in DOMAIN t
               PROVE  /\ i < j /\ t[i].do \in SaveOps => t[j].do \notin SaveOps \cup {"order"}
                      /\ t[i].do \notin Drops
    BY DEF SavesOnce
  <2>1. t[i].do \notin Drops BY <1>7 DEF Drops
  <2>2. ASSUME i < j, t[i].do \in SaveOps PROVE t[j].do \notin SaveOps \cup {"order"}
    <3>1. i = n - 1 BY <1>7, <2>2 DEF SaveOps
    <3>2. j # n - 1 /\ j # n - 2 BY <1>5, <2>2, <3>1
    <3> QED BY <1>7, <3>2 DEF SaveOps
  <2> QED BY <2>1, <2>2
<1>10. Backed(h, t) BY <1>7 DEF Backed, Builds
<1>11. Emptied(h, t) BY <1>7 DEF Emptied
<1>12. Window("extension", t)
  <2>1. ASSUME NEW i \in DOMAIN t, t[i].do \in Opens
        PROVE  /\ \E j \in DOMAIN t : i < j /\ t[j].do \in Closes
               /\ \A j \in DOMAIN t : i < j => t[j].do \notin Opens
    <3>1. i = 1 BY <1>7, <2>1 DEF Opens
    <3>2. t[n].do \in Closes BY <1>5 DEF Closes
    <3>3. \A j \in DOMAIN t : i < j => t[j].do \notin Opens BY <1>7, <3>1 DEF Opens
    <3> QED BY <1>5, <3>1, <3>2, <3>3
  <2>2. \A i \in DOMAIN t : t[i].do # "start" /\ t[i].do # "ask" BY <1>7
  <2>3. "extension" \in PauseOps BY DEF PauseOps
  <2> QED BY <2>1, <2>2, <2>3 DEF Window
<1> QED BY <1>1, <1>4, <1>6, <1>8, <1>9, <1>10, <1>11, <1>12 DEF Launch, CommandOps

\* The members of a host are what its pg.yaml lists of them.
LEMMA OwnFacts ==
  ASSUME TypeOK, NEW h \in Hosts
  PROVE  Own(h) \subseteq Members /\ \A m \in Own(h) : m \in Known(h) /\ Home[m] = h
  BY DEF TypeOK, Own, Local, Known, Scopes

\* pg ha start and stop.
LEMMA StartStopLaunches ==
  ASSUME TypeOK, NEW h \in Hosts, NEW op \in {"start", "stop"}, NEW ms \in SUBSET Own(h), ms # {}
  PROVE  Launch(h, op, ForEach(Sorted(ms), <<op>>))
<1>1. PICK ops : ops = <<op>> OBVIOUS
<1>2. ops \in Seq(StepOps) /\ Len(ops) = 1 /\ DOMAIN ops = 1..1 /\ ops[1] = op BY <1>1 DEF StepOps
<1>3. PICK t : t = ForEach(Sorted(ms), ops) OBVIOUS
<1>4. ms \in SUBSET Members /\ \A m \in ms : m \in Members /\ Home[m] = h BY OwnFacts
<1>5. Len(ops) \in 1..4 BY <1>2
<1>6. /\ t \in Seq(Steps)
      /\ \A i \in DOMAIN t : \E l \in DOMAIN ops : t[i].do = ops[l] /\ t[i].for \in ms
      /\ \A m \in ms, l \in DOMAIN ops : \E i \in DOMAIN t : t[i].do = ops[l] /\ t[i].for = m
  <2>1. Spread(t, ms, ops) BY <1>2, <1>3, <1>4, <1>5, EachFacts
  <2> QED BY <2>1 DEF Spread
<1>7. \A i \in DOMAIN t : t[i].do = op /\ t[i].for \in ms BY <1>2, <1>6
<1>8. DOMAIN t # {}
  <2>1. PICK m \in ms : TRUE OBVIOUS
  <2>2. 1 \in DOMAIN ops BY <1>2
  <2> QED BY <1>6, <2>1, <2>2
<1>9. t # <<>> BY <1>8
<1>10. Placed(h, t) BY <1>4, <1>7 DEF Placed, MemberOps, HomeOps
<1>11. SavesOnce(t) BY <1>7 DEF SavesOnce, SaveOps, Drops
<1>12. Backed(h, t) BY <1>7 DEF Backed, Builds
<1>13. Emptied(h, t) BY <1>7 DEF Emptied
<1>14. Window(op, t) BY <1>7 DEF Window, Opens, PauseOps
<1> QED BY <1>1, <1>3, <1>6, <1>9, <1>10, <1>11, <1>12, <1>13, <1>14 DEF Launch, CommandOps

\* pg ha remove --scope-all.
LEMMA RemoveAllLaunches ==
  ASSUME TypeOK, NEW h \in Hosts
  PROVE  Launch(h, "removeall", For(None, <<"list", "softclear", "unregisterall">>)
                                  \o ForEach(Sorted(Own(h)), <<"rmbox", "erase">>)
                                  \o For(None, <<"forget">>))
<1>1. PICK p, e, x, y, z, a, t :
        /\ p = <<"list", "softclear", "unregisterall">> /\ e = <<"rmbox", "erase">>
        /\ x = For(None, p) /\ y = ForEach(Sorted(Own(h)), e) /\ z = For(None, <<"forget">>)
        /\ a = x \o y /\ t = a \o z
  OBVIOUS
<1>2. p \in Seq(StepOps) /\ Len(p) = 3 /\ p[1] = "list" /\ p[2] = "softclear" /\ p[3] = "unregisterall"
  BY <1>1 DEF StepOps
<1>3. e \in Seq(StepOps) /\ Len(e) = 2 /\ DOMAIN e = 1..2 /\ e[1] = "rmbox" /\ e[2] = "erase"
  BY <1>1 DEF StepOps
<1>4. x \in Seq(Steps) /\ Len(x) = 3 /\ DOMAIN x = 1..3 /\ \A i \in 1..3 : x[i] = Step(p[i], None)
  BY <1>1, <1>2, ForFacts
<1>5. /\ x[1].do = "list" /\ x[2].do = "softclear" /\ x[3].do = "unregisterall"
      /\ \A i \in DOMAIN x : x[i].for = None /\ (i = 1 \/ i = 2 \/ i = 3)
  BY <1>2, <1>4 DEF Step
<1>6. Own(h) \in SUBSET Members /\ \A m \in Own(h) : Home[m] = h BY OwnFacts
<1>7. Len(e) \in 1..4 BY <1>3
<1>8. /\ y \in Seq(Steps)
      /\ \A i \in DOMAIN y : \E l \in DOMAIN e : y[i].do = e[l] /\ y[i].for \in Own(h)
      /\ \A m \in Own(h), l \in DOMAIN e : \E i \in DOMAIN y : y[i].do = e[l] /\ y[i].for = m
  <2>1. Own(h) \in SUBSET Members /\ e \in Seq(StepOps) /\ Len(e) \in 1..4 BY <1>3, <1>6, <1>7
  <2>2. Spread(y, Own(h), e) BY <1>1, <2>1, EachFacts
  <2> QED BY <2>2 DEF Spread
<1>9. /\ \A i \in DOMAIN y : y[i].do \in {"rmbox", "erase"} /\ y[i].for \in Own(h)
      /\ \A m \in Own(h) : \E i \in DOMAIN y : y[i].do = "rmbox" /\ y[i].for = m
  <2>1. \A l \in DOMAIN e : e[l] \in {"rmbox", "erase"}
    <3>1. \A l \in 1..2 : l = 1 \/ l = 2 OBVIOUS
    <3> QED BY <1>3, <3>1
  <2>2. 1 \in DOMAIN e BY <1>3
  <2> QED BY <1>3, <1>8, <2>1, <2>2
<1>10. z \in Seq(Steps) /\ Len(z) = 1 /\ z[1].do = "forget" /\ z[1].for = None
  <2>1. "forget" \in StepOps BY DEF StepOps
  <2> QED BY <1>1, <2>1, ForOne
<1>11. PICK n \in Nat : n = Len(y) BY <1>8
<1>a. a \in Seq(Steps) /\ Len(a) = 3 + n /\ DOMAIN a = 1..(3 + n)
      /\ (\A i \in DOMAIN x : i \in DOMAIN a /\ a[i] = x[i])
      /\ (\A i \in DOMAIN y : 3 + i \in DOMAIN a /\ a[3 + i] = y[i])
      /\ (\A i \in DOMAIN a : \/ i \in DOMAIN x /\ a[i] = x[i]
                              \/ i > 3 /\ i - 3 \in DOMAIN y /\ a[i] = y[i - 3])
  <2>1. x \in Seq(Steps) /\ y \in Seq(Steps) /\ a = x \o y BY <1>1, <1>4, <1>8
  <2>2. /\ a \in Seq(Steps) /\ Len(a) = Len(x) + Len(y) /\ DOMAIN a = 1..(Len(x) + Len(y))
        /\ \A i \in DOMAIN x : i \in DOMAIN a /\ a[i] = x[i]
        /\ \A i \in DOMAIN y : Len(x) + i \in DOMAIN a /\ a[Len(x) + i] = y[i]
        /\ \A i \in DOMAIN a :
              \/ i \in DOMAIN x /\ a[i] = x[i]
              \/ i > Len(x) /\ i - Len(x) \in DOMAIN y /\ a[i] = y[i - Len(x)]
    BY <2>1, CatIs
  <2>3. Len(x) = 3 /\ Len(y) = n BY <1>4, <1>11
  <2> QED BY <2>2, <2>3
<1>b. t \in Seq(Steps) /\ DOMAIN t = 1..(4 + n)
      /\ (\A i \in DOMAIN a : i \in DOMAIN t /\ t[i] = a[i]) /\ t[4 + n] = z[1]
  <2>1. a \in Seq(Steps) /\ z \in Seq(Steps) /\ t = a \o z BY <1>1, <1>a, <1>10
  <2>2. /\ t \in Seq(Steps) /\ DOMAIN t = 1..(Len(a) + Len(z))
        /\ \A i \in DOMAIN a : i \in DOMAIN t /\ t[i] = a[i]
        /\ \A i \in DOMAIN z : Len(a) + i \in DOMAIN t /\ t[Len(a) + i] = z[i]
    BY <2>1, CatIs
  <2>3. Len(a) = 3 + n /\ Len(z) = 1 /\ DOMAIN z = 1..1 BY <1>a, <1>10
  <2>4. (3 + n) + 1 = 4 + n BY <1>11
  <2>5. 1 \in DOMAIN z BY <2>3
  <2>6. t[Len(a) + 1] = z[1] BY <2>2, <2>5
  <2> QED BY <2>2, <2>3, <2>4, <2>6
<1>12. /\ \A i \in DOMAIN t :
            /\ i \in Nat /\ i <= 4 + n
            /\ \/ i < 4 + n /\ i <= 3 /\ t[i].do \in {"list", "softclear", "unregisterall"} /\ t[i].for = None
               \/ i < 4 + n /\ i > 3 /\ t[i].do \in {"rmbox", "erase"} /\ t[i].for \in Own(h)
               \/ i = 4 + n /\ t[i].do = "forget" /\ t[i].for = None
       /\ 3 \in DOMAIN t /\ t[3].do = "unregisterall"
       /\ \A m \in Own(h) : \E j \in DOMAIN t : j < 4 + n /\ t[j].do = "rmbox" /\ t[j].for = m
  <2>1. ASSUME NEW i \in DOMAIN t
        PROVE  /\ i \in Nat /\ i <= 4 + n
               /\ \/ i < 4 + n /\ i <= 3 /\ t[i].do \in {"list", "softclear", "unregisterall"} /\ t[i].for = None
                  \/ i < 4 + n /\ i > 3 /\ t[i].do \in {"rmbox", "erase"} /\ t[i].for \in Own(h)
                  \/ i = 4 + n /\ t[i].do = "forget" /\ t[i].for = None
    <3>1. i \in Nat /\ i <= 4 + n /\ (i = 4 + n \/ i \in DOMAIN a) BY <1>11, <1>a, <1>b
    <3>2. CASE i = 4 + n BY <1>10, <1>b, <3>1, <3>2
    <3>3. CASE i \in DOMAIN a
      <4>1. t[i] = a[i] /\ i < 4 + n BY <1>11, <1>a, <1>b, <3>3
      <4>2. CASE i \in DOMAIN x /\ a[i] = x[i]
        <5>1. i <= 3 /\ x[i].do \in {"list", "softclear", "unregisterall"} /\ x[i].for = None
          BY <1>5, <4>2
        <5> QED BY <3>1, <4>1, <4>2, <5>1
      <4>3. CASE i > 3 /\ i - 3 \in DOMAIN y /\ a[i] = y[i - 3]
        <5>1. a[i].do \in {"rmbox", "erase"} /\ a[i].for \in Own(h) BY <1>9, <4>3
        <5> QED BY <3>1, <4>1, <4>3, <5>1
      <4> QED BY <1>a, <3>3, <4>2, <4>3
    <3> QED BY <3>1, <3>2, <3>3
  <2>2. 3 \in DOMAIN t /\ t[3].do = "unregisterall"
    <3>1. 3 \in DOMAIN x BY <1>4
    <3> QED BY <1>5, <1>a, <1>b, <3>1
  <2>3. ASSUME NEW m \in Own(h)
        PROVE  \E j \in DOMAIN t : j < 4 + n /\ t[j].do = "rmbox" /\ t[j].for = m
    <3>1. PICK i \in DOMAIN y : y[i].do = "rmbox" /\ y[i].for = m BY <1>9
    <3>2. 3 + i \in DOMAIN a /\ a[3 + i] = y[i] BY <1>a
    <3>3. 3 + i \in DOMAIN t /\ t[3 + i] = y[i] BY <1>b, <3>2
    <3>4. 3 + i < 4 + n BY <1>11, <1>a, <3>2
    <3> QED BY <3>1, <3>3, <3>4
  <2> QED BY <2>1, <2>2, <2>3
<1>13. t # <<>> BY <1>b, <1>12
<1>14. Placed(h, t) BY <1>6, <1>12 DEF Placed, MemberOps, HomeOps
<1>15. SavesOnce(t)
  <2>1. \A i \in DOMAIN t : t[i].do \notin Builds \cup {"order"} BY <1>12 DEF Builds
  <2>2. \A i \in DOMAIN t : t[i].do \in SaveOps => i = 4 + n BY <1>12 DEF SaveOps
  <2>3. \A i, j \in DOMAIN t : i < j => i # 4 + n BY <1>11, <1>12
  <2> QED BY <2>1, <2>2, <2>3 DEF SavesOnce
<1>16. Backed(h, t) BY <1>12 DEF Backed, Builds
<1>17. Emptied(h, t)
  <2> SUFFICES ASSUME NEW i \in DOMAIN t, NEW m \in Members,
                      \/ t[i].do = "leave" /\ t[i].for = m /\ Home[m] = h
                      \/ t[i].do = "forget" /\ m \in Own(h)
               PROVE  BoxGone(t, i, m) /\ RegGone(h, t, i, m)
    BY DEF Emptied
  <2>1. i = 4 + n /\ m \in Own(h) BY <1>12
  <2>2. 3 < i BY <1>11, <2>1
  <2>3. \E j \in DOMAIN t : j < i /\ t[j].do = "rmbox" /\ t[j].for = m BY <1>12, <2>1
  <2>4. 3 \in DOMAIN t /\ t[3].do = "unregisterall" BY <1>12
  <2>5. BoxGone(t, i, m) BY <2>3 DEF BoxGone
  <2>6. RegGone(h, t, i, m) BY <2>1, <2>2, <2>4 DEF RegGone
  <2> QED BY <2>5, <2>6
<1>18. Window("removeall", t) BY <1>12 DEF Window, Opens, PauseOps
<1> QED BY <1>1, <1>b, <1>13, <1>14, <1>15, <1>16, <1>17, <1>18 DEF Launch, CommandOps

\* pg backup setup.
LEMMA SetupLaunches ==
  ASSUME TypeOK, NEW h \in Hosts, Own(h) # {}, NEW w,
         w = <<>> \/ w = For(None, <<"pause", "order", "unpause">>)
  PROVE  Launch(h, "setup", Trust(h) \o w)
<1>1. PICK p, x, t : p = <<"register">> /\ x = ForEach(Sorted(Own(h)), p) /\ t = x \o w OBVIOUS
<1>2. p \in Seq(StepOps) /\ Len(p) = 1 /\ DOMAIN p = 1..1 /\ p[1] = "register" BY <1>1 DEF StepOps
<1>3. Own(h) \in SUBSET Members /\ \A m \in Own(h) : Home[m] = h /\ m \in Known(h) BY OwnFacts
<1>4. Len(p) \in 1..4 BY <1>2
<1>5. /\ x \in Seq(Steps)
      /\ \A i \in DOMAIN x : \E l \in DOMAIN p : x[i].do = p[l] /\ x[i].for \in Own(h)
      /\ \A m \in Own(h), l \in DOMAIN p : \E i \in DOMAIN x : x[i].do = p[l] /\ x[i].for = m
  <2>1. Own(h) \in SUBSET Members /\ p \in Seq(StepOps) /\ Len(p) \in 1..4 BY <1>2, <1>3, <1>4
  <2>2. Spread(x, Own(h), p) BY <1>1, <2>1, EachFacts
  <2> QED BY <2>2 DEF Spread
<1>6. \A i \in DOMAIN x : x[i].do = "register" /\ x[i].for \in Own(h) BY <1>2, <1>5
<1>7. DOMAIN x # {}
  <2>1. PICK m \in Own(h) : TRUE OBVIOUS
  <2>2. 1 \in DOMAIN p BY <1>2
  <2> QED BY <1>5, <2>1, <2>2
<1>8. /\ w \in Seq(Steps)
      /\ \A i \in DOMAIN w :
           /\ w[i].for = None
           /\ \/ i = 1 /\ w[i].do = "pause" /\ 3 \in DOMAIN w /\ w[3].do = "unpause"
              \/ i = 2 /\ w[i].do = "order"
              \/ i = 3 /\ w[i].do = "unpause"
  <2>1. CASE w = <<>> BY <2>1
  <2>2. CASE w = For(None, <<"pause", "order", "unpause">>)
    <3>1. PICK ops : ops = <<"pause", "order", "unpause">> OBVIOUS
    <3>2. ops \in Seq(StepOps) /\ Len(ops) = 3 /\ ops[1] = "pause" /\ ops[2] = "order" /\ ops[3] = "unpause"
      BY <3>1 DEF StepOps
    <3>3. w = For(None, ops) BY <2>2, <3>1
    <3>4. w \in Seq(Steps) /\ Len(w) = 3 /\ DOMAIN w = 1..3 /\ \A i \in 1..3 : w[i] = Step(ops[i], None)
      BY <3>2, <3>3, ForFacts
    <3> QED BY <3>2, <3>4 DEF Step
  <2> QED BY <2>1, <2>2
<1>9. PICK n \in Nat : n = Len(x) BY <1>5
<1>10. /\ t \in Seq(Steps)
       /\ \A i \in DOMAIN x : i \in DOMAIN t /\ t[i] = x[i]
       /\ \A i \in DOMAIN w : n + i \in DOMAIN t /\ t[n + i] = w[i]
       /\ \A i \in DOMAIN t : \/ i \in DOMAIN x /\ t[i] = x[i]
                              \/ i > n /\ i - n \in DOMAIN w /\ t[i] = w[i - n]
  <2>1. x \in Seq(Steps) /\ w \in Seq(Steps) /\ t = x \o w BY <1>1, <1>5, <1>8
  <2>2. /\ t \in Seq(Steps)
        /\ \A i \in DOMAIN x : i \in DOMAIN t /\ t[i] = x[i]
        /\ \A i \in DOMAIN w : Len(x) + i \in DOMAIN t /\ t[Len(x) + i] = w[i]
        /\ \A i \in DOMAIN t :
              \/ i \in DOMAIN x /\ t[i] = x[i]
              \/ i > Len(x) /\ i - Len(x) \in DOMAIN w /\ t[i] = w[i - Len(x)]
    BY <2>1, CatIs
  <2> QED BY <1>9, <2>2
<1>11. \A i \in DOMAIN t :
         /\ i \in Nat
         /\ \/ t[i].do = "register" /\ t[i].for \in Own(h)
            \/ /\ t[i].for = None
               /\ \/ i = n + 1 /\ t[i].do = "pause" /\ n + 3 \in DOMAIN t /\ t[n + 3].do = "unpause"
                  \/ t[i].do \in {"order", "unpause"}
  <2> SUFFICES ASSUME NEW i \in DOMAIN t
               PROVE  /\ i \in Nat
                      /\ \/ t[i].do = "register" /\ t[i].for \in Own(h)
                         \/ /\ t[i].for = None
                            /\ \/ i = n + 1 /\ t[i].do = "pause" /\ n + 3 \in DOMAIN t /\ t[n + 3].do = "unpause"
                               \/ t[i].do \in {"order", "unpause"}
    OBVIOUS
  <2>0. i \in Nat BY <1>10
  <2>1. CASE i \in DOMAIN x /\ t[i] = x[i] BY <1>6, <2>0, <2>1
  <2>2. CASE i > n /\ i - n \in DOMAIN w /\ t[i] = w[i - n]
    <3>1. CASE i - n = 1 /\ w[i - n].do = "pause" /\ 3 \in DOMAIN w /\ w[3].do = "unpause"
      <4>1. i = n + 1 BY <1>9, <2>0, <3>1
      <4>2. n + 3 \in DOMAIN t /\ t[n + 3] = w[3] BY <1>10, <3>1
      <4> QED BY <1>8, <2>0, <2>2, <3>1, <4>1, <4>2
    <3>2. CASE w[i - n].do \in {"order", "unpause"} BY <1>8, <2>0, <2>2, <3>2
    <3> QED BY <1>8, <2>2, <3>1, <3>2
  <2> QED BY <1>10, <2>1, <2>2
<1>12. t # <<>> BY <1>7, <1>10
<1>13. Placed(h, t) BY <1>3, <1>11 DEF Placed, MemberOps, HomeOps
<1>14. SavesOnce(t) BY <1>11 DEF SavesOnce, SaveOps, Drops
<1>15. Backed(h, t) BY <1>3, <1>11 DEF Backed, Builds
<1>16. Emptied(h, t) BY <1>11 DEF Emptied
<1>17. ~Has(t, SaveOps) BY <1>11 DEF Has, SaveOps
<1>18. Window("setup", t)
  <2>1. ASSUME NEW i \in DOMAIN t, t[i].do \in Opens
        PROVE  /\ \E j \in DOMAIN t : i < j /\ t[j].do \in Closes
               /\ \A j \in DOMAIN t : i < j => t[j].do \notin Opens
    <3>1. i = n + 1 /\ n + 3 \in DOMAIN t /\ t[n + 3].do = "unpause" BY <1>11, <2>1 DEF Opens
    <3>2. t[n + 3].do \in Closes /\ i < n + 3 BY <1>9, <3>1 DEF Closes
    <3>3. \A j \in DOMAIN t : i < j => t[j].do \notin Opens
      <4> SUFFICES ASSUME NEW j \in DOMAIN t, i < j PROVE t[j].do \notin Opens OBVIOUS
      <4>1. j # n + 1 BY <1>11, <3>1
      <4> QED BY <1>11, <4>1 DEF Opens
    <3> QED BY <3>1, <3>2, <3>3
  <2>2. \A i \in DOMAIN t : t[i].do # "start" /\ t[i].do # "ask" BY <1>11
  <2>3. "setup" \in PauseOps BY DEF PauseOps
  <2> QED BY <2>1, <2>2, <2>3 DEF Window
<1>19. t = Trust(h) \o w BY <1>1 DEF Trust
<1> QED BY <1>10, <1>12, <1>13, <1>14, <1>15, <1>16, <1>17, <1>18, <1>19 DEF Launch, CommandOps

\* The steps of a restore up to the cleared keys, n of which stop the members.
Cleared(d, n, own) ==
  /\ d \in Seq(Steps) /\ Len(d) = n + 4
  /\ d[1] = Step("ask", None) /\ d[2] = Step("freeze", None)
  /\ d[n + 3] = Step("list", None) /\ d[n + 4] = Step("clear", None)
  /\ \A i \in 3..(n + 2) : d[i].do = "softstop" /\ d[i].for \in own
  /\ \A m \in own : \E i \in 3..(n + 2) : d[i].do = "softstop" /\ d[i].for = m

\* Demolish lays them out so.
LEMMA DemolishFacts ==
  ASSUME TypeOK, NEW h \in Hosts
  PROVE  \E n \in Nat : Cleared(Demolish(h, <<"ask", "freeze">>), n, Own(h))
<1>1. PICK p, q, e, x, y, z, a, d :
        /\ p = <<"ask", "freeze">> /\ e = <<"softstop">> /\ q = <<"list", "clear">>
        /\ x = For(None, p) /\ y = ForEach(Sorted(Own(h)), e) /\ z = For(None, q)
        /\ a = x \o y /\ d = a \o z
  OBVIOUS
<1>2. p \in Seq(StepOps) /\ Len(p) = 2 /\ p[1] = "ask" /\ p[2] = "freeze" BY <1>1 DEF StepOps
<1>3. e \in Seq(StepOps) /\ Len(e) = 1 /\ DOMAIN e = 1..1 /\ e[1] = "softstop" BY <1>1 DEF StepOps
<1>4. q \in Seq(StepOps) /\ Len(q) = 2 /\ q[1] = "list" /\ q[2] = "clear" BY <1>1 DEF StepOps
<1>5. x \in Seq(Steps) /\ Len(x) = 2 /\ DOMAIN x = 1..2 /\ \A i \in 1..2 : x[i] = Step(p[i], None)
  BY <1>1, <1>2, ForFacts
<1>6. z \in Seq(Steps) /\ Len(z) = 2 /\ DOMAIN z = 1..2 /\ \A i \in 1..2 : z[i] = Step(q[i], None)
  BY <1>1, <1>4, ForFacts
<1>7. Own(h) \in SUBSET Members /\ e \in Seq(StepOps) /\ Len(e) \in 1..4 BY <1>3, OwnFacts
<1>8. Spread(y, Own(h), e) BY <1>1, <1>7, EachFacts
<1>9. /\ y \in Seq(Steps)
      /\ \A i \in DOMAIN y : y[i].do = "softstop" /\ y[i].for \in Own(h)
      /\ \A m \in Own(h) : \E i \in DOMAIN y : y[i].do = "softstop" /\ y[i].for = m
  <2>1. 1 \in DOMAIN e /\ \A l \in DOMAIN e : e[l] = "softstop" BY <1>3
  <2> QED BY <1>8, <2>1, SMTT(30) DEF Spread
<1>10. PICK n \in Nat : n = Len(y) BY <1>9
<1>11. /\ a \in Seq(Steps) /\ Len(a) = 2 + n
       /\ \A i \in DOMAIN x : a[i] = x[i]
       /\ \A i \in DOMAIN y : a[2 + i] = y[i]
  <2>1. x \in Seq(Steps) /\ y \in Seq(Steps) /\ a = x \o y BY <1>1, <1>5, <1>9
  <2>2. /\ a \in Seq(Steps) /\ Len(a) = Len(x) + Len(y)
        /\ \A i \in DOMAIN x : a[i] = x[i]
        /\ \A i \in DOMAIN y : a[Len(x) + i] = y[i]
    BY <2>1, CatIs
  <2> QED BY <1>5, <1>10, <2>2
<1>12. /\ d \in Seq(Steps) /\ Len(d) = (2 + n) + 2
       /\ \A i \in DOMAIN a : d[i] = a[i]
       /\ \A i \in DOMAIN z : d[(2 + n) + i] = z[i]
  <2>1. a \in Seq(Steps) /\ z \in Seq(Steps) /\ d = a \o z BY <1>1, <1>6, <1>11
  <2>2. /\ d \in Seq(Steps) /\ Len(d) = Len(a) + Len(z)
        /\ \A i \in DOMAIN a : d[i] = a[i]
        /\ \A i \in DOMAIN z : d[Len(a) + i] = z[i]
    BY <2>1, CatIs
  <2> QED BY <1>6, <1>11, <2>2
<1>13. DOMAIN a = 1..(2 + n) /\ DOMAIN y = 1..n BY <1>9, <1>10, <1>11
<1>14. d[1] = Step("ask", None) /\ d[2] = Step("freeze", None)
  <2>1. 1 \in DOMAIN a /\ 2 \in DOMAIN a /\ 1 \in DOMAIN x /\ 2 \in DOMAIN x BY <1>5, <1>10, <1>13
  <2> QED BY <1>2, <1>5, <1>11, <1>12, <2>1
<1>15. d[n + 3] = Step("list", None) /\ d[n + 4] = Step("clear", None)
  <2>1. (2 + n) + 1 = n + 3 /\ (2 + n) + 2 = n + 4 BY <1>10
  <2>2. 1 \in DOMAIN z /\ 2 \in DOMAIN z BY <1>6
  <2>3. d[(2 + n) + 1] = z[1] /\ d[(2 + n) + 2] = z[2] BY <1>12, <2>2
  <2> QED BY <1>4, <1>6, <2>1, <2>2, <2>3
<1>16. \A i \in DOMAIN y : 2 + i \in 3..(n + 2) /\ d[2 + i] = y[i] BY <1>10, <1>11, <1>12, <1>13
<1>17. \A i \in 3..(n + 2) : i - 2 \in DOMAIN y /\ 2 + (i - 2) = i BY <1>10, <1>13
<1>18. \A i \in 3..(n + 2) : d[i] = y[i - 2] /\ i - 2 \in DOMAIN y
  <2> SUFFICES ASSUME NEW i \in 3..(n + 2) PROVE d[i] = y[i - 2] /\ i - 2 \in DOMAIN y OBVIOUS
  <2>1. i - 2 \in DOMAIN y /\ 2 + (i - 2) = i BY <1>17
  <2>2. d[2 + (i - 2)] = y[i - 2] BY <1>16, <2>1
  <2> QED BY <2>1, <2>2
<1>19. \A i \in 3..(n + 2) : d[i].do = "softstop" /\ d[i].for \in Own(h) BY <1>9, <1>18
<1>20. \A m \in Own(h) : \E i \in 3..(n + 2) : d[i].do = "softstop" /\ d[i].for = m
  <2> SUFFICES ASSUME NEW m \in Own(h) PROVE \E i \in 3..(n + 2) : d[i].do = "softstop" /\ d[i].for = m
    OBVIOUS
  <2>1. PICK k \in DOMAIN y : y[k].do = "softstop" /\ y[k].for = m BY <1>9
  <2>2. 2 + k \in 3..(n + 2) /\ d[2 + k] = y[k] BY <1>16
  <2> QED BY <2>1, <2>2
<1>21. Len(d) = n + 4 BY <1>10, <1>12
<1>22. Cleared(d, n, Own(h)) BY <1>12, <1>14, <1>15, <1>19, <1>20, <1>21 DEF Cleared
<1>23. d = Demolish(h, <<"ask", "freeze">>) BY <1>1 DEF Demolish
<1> QED BY <1>10, <1>22, <1>23

\* The steps that wipe a member and make its container anew.
LEMMA WipeOps ==
  ASSUME NEW first \in StepOps, NEW ops, ops = <<first, "wipe">> \o Recreate
  PROVE  /\ ops \in Seq(StepOps) /\ Len(ops) = 4 /\ ops[1] = first
         /\ ops[2] = "wipe" /\ ops[3] = "rm" /\ ops[4] = "run"
<1>1. PICK f, g : f = <<first, "wipe">> /\ g = <<"rm", "run">> OBVIOUS
<1>2. f \in Seq(StepOps) /\ Len(f) = 2 /\ f[1] = first /\ f[2] = "wipe" BY <1>1 DEF StepOps
<1>3. g \in Seq(StepOps) /\ Len(g) = 2 /\ g[1] = "rm" /\ g[2] = "run" BY <1>1 DEF StepOps
<1>4. f \in Seq(StepOps) /\ g \in Seq(StepOps) /\ ops = f \o g BY <1>1, <1>2, <1>3 DEF Recreate
<1>5. /\ ops \in Seq(StepOps) /\ Len(ops) = Len(f) + Len(g)
      /\ \A i \in DOMAIN f : ops[i] = f[i]
      /\ \A i \in DOMAIN g : ops[Len(f) + i] = g[i]
  BY ONLY <1>4, CatIs
<1>6. 1 \in DOMAIN f /\ 2 \in DOMAIN f /\ 1 \in DOMAIN g /\ 2 \in DOMAIN g BY <1>2, <1>3
<1>7. 2 + 1 = 3 /\ 2 + 2 = 4 OBVIOUS
<1>8. ops[2 + 1] = "rm" /\ ops[2 + 2] = "run" BY <1>2, <1>3, <1>5, <1>6
<1> QED BY <1>2, <1>3, <1>5, <1>6, <1>7, <1>8

\* All the steps of a restore with the bootstrap member b.
Layout(t, n, own, b) ==
  /\ t \in Seq(Steps) /\ 1..(n + 9) \subseteq DOMAIN t
  /\ \A i \in DOMAIN t :
       \/ i = 1 /\ t[i] = Step("ask", None)
       \/ i = 2 /\ t[i] = Step("freeze", None)
       \/ i \in 3..(n + 2) /\ t[i].do = "softstop" /\ t[i].for \in own
       \/ i = n + 3 /\ t[i] = Step("list", None)
       \/ i = n + 4 /\ t[i] = Step("clear", None)
       \/ i = n + 5 /\ t[i] = Step("restoreyml", b)
       \/ i = n + 6 /\ t[i] = Step("wipe", b)
       \/ i = n + 7 /\ t[i] = Step("rm", b)
       \/ i = n + 8 /\ t[i] = Step("run", b)
       \/ i = n + 9 /\ t[i] = Step("await", None)
       \/ i > n + 9 /\ t[i].do \in RejoinOps /\ t[i].for \in own \ {b}
  /\ \A m \in own : \E i \in DOMAIN t : t[i].do = "softstop" /\ t[i].for = m

\* pg ha restore lays them out so.
LEMMA RestoreFacts ==
  ASSUME TypeOK, NEW h \in Hosts, NEW b \in Own(h)
  PROVE  \E n \in Nat :
           Layout(Demolish(h, <<"ask", "freeze">>) \o Rebuild(b) \o For(None, <<"await">>) \o Rejoin(h, b),
                  n, Own(h), b)
<1>1. PICK d, o, e, r, w, j, x, y, t :
        /\ d = Demolish(h, <<"ask", "freeze">>)
        /\ o = <<"restoreyml", "wipe">> \o Recreate /\ e = <<"yml", "wipe">> \o Recreate
        /\ r = For(b, o) /\ w = For(None, <<"await">>) /\ j = ForEach(Sorted(Own(h) \ {b}), e)
        /\ x = d \o r /\ y = x \o w /\ t = y \o j
  OBVIOUS
<1>2. PICK n \in Nat : Cleared(d, n, Own(h)) BY <1>1, DemolishFacts
<1>3. Own(h) \subseteq Members /\ b \in Members BY OwnFacts
<1>5. /\ o \in Seq(StepOps) /\ Len(o) = 4 /\ o[1] = "restoreyml"
      /\ o[2] = "wipe" /\ o[3] = "rm" /\ o[4] = "run"
  <2>1. "restoreyml" \in StepOps BY DEF StepOps
  <2> QED BY <1>1, <2>1, WipeOps, ZenonT(40)
<1>6. /\ e \in Seq(StepOps) /\ Len(e) = 4 /\ e[1] = "yml"
      /\ e[2] = "wipe" /\ e[3] = "rm" /\ e[4] = "run"
  <2>1. "yml" \in StepOps BY DEF StepOps
  <2> QED BY <1>1, <2>1, WipeOps, ZenonT(40)
<1>7. /\ r \in Seq(Steps) /\ Len(r) = 4 /\ DOMAIN r = 1..4
      /\ \A i \in 1..4 : r[i] = Step(o[i], b)
  BY <1>1, <1>3, <1>5, ForFacts
<1>8. w \in Seq(Steps) /\ Len(w) = 1 /\ w[1] = Step("await", None)
  <2>1. PICK ops : ops = <<"await">> OBVIOUS
  <2>2. ops \in Seq(StepOps) /\ Len(ops) = 1 /\ ops[1] = "await" BY <2>1 DEF StepOps
  <2>3. w = For(None, ops) BY <1>1, <2>1
  <2>4. w \in Seq(Steps) /\ Len(w) = 1 /\ \A i \in 1..1 : w[i] = Step(ops[i], None)
    BY <2>2, <2>3, ForFacts
  <2> QED BY <2>2, <2>4
<1>9. j \in Seq(Steps) /\ \A i \in DOMAIN j : j[i].do \in RejoinOps /\ j[i].for \in Own(h) \ {b}
  <2>1. Own(h) \ {b} \in SUBSET Members /\ e \in Seq(StepOps) /\ Len(e) \in 1..4 BY <1>3, <1>6
  <2>2. Spread(j, Own(h) \ {b}, e) BY <1>1, <2>1, EachFacts
  <2>3. \A l \in DOMAIN e : l = 1 \/ l = 2 \/ l = 3 \/ l = 4 BY <1>6
  <2>4. \A l \in DOMAIN e : e[l] \in RejoinOps BY <1>6, <2>3 DEF RejoinOps
  <2> QED BY <2>2, <2>4 DEF Spread
<1>10. d \in Seq(Steps) /\ Len(d) = n + 4 /\ DOMAIN d = 1..(n + 4) BY <1>2 DEF Cleared
<1>11. /\ x \in Seq(Steps) /\ Len(x) = (n + 4) + 4 /\ DOMAIN x = 1..(n + 8)
       /\ \A i \in DOMAIN d : x[i] = d[i]
       /\ \A i \in DOMAIN r : x[(n + 4) + i] = r[i]
  <2>1. d \in Seq(Steps) /\ r \in Seq(Steps) /\ x = d \o r BY <1>1, <1>7, <1>10
  <2>2. /\ x \in Seq(Steps) /\ Len(x) = Len(d) + Len(r)
        /\ \A i \in DOMAIN d : x[i] = d[i]
        /\ \A i \in DOMAIN r : x[Len(d) + i] = r[i]
    BY <2>1, CatIs
  <2> QED BY <1>7, <1>10, <2>2
<1>12. /\ y \in Seq(Steps) /\ Len(y) = n + 9 /\ DOMAIN y = 1..(n + 9)
       /\ \A i \in DOMAIN x : y[i] = x[i]
       /\ y[n + 9] = w[1]
  <2>1. x \in Seq(Steps) /\ w \in Seq(Steps) /\ y = x \o w BY <1>1, <1>8, <1>11
  <2>2. /\ y \in Seq(Steps) /\ Len(y) = Len(x) + Len(w)
        /\ \A i \in DOMAIN x : y[i] = x[i]
        /\ \A i \in DOMAIN w : y[Len(x) + i] = w[i]
    BY <2>1, CatIs
  <2>3. 1 \in DOMAIN w BY <1>8
  <2>4. y[Len(x) + 1] = w[1] BY <2>2, <2>3
  <2>5. Len(x) + 1 = n + 9 /\ Len(y) = n + 9 BY <1>2, <1>8, <1>11, <2>2
  <2> QED BY <2>2, <2>4, <2>5
<1>13. /\ t \in Seq(Steps) /\ 1..(n + 9) \subseteq DOMAIN t
       /\ \A i \in 1..(n + 9) : t[i] = y[i]
       /\ \A i \in DOMAIN t : i \in Nat /\ i >= 1
       /\ \A i \in DOMAIN t : i > n + 9 => t[i].do \in RejoinOps /\ t[i].for \in Own(h) \ {b}
  <2>1. y \in Seq(Steps) /\ j \in Seq(Steps) /\ t = y \o j BY <1>1, <1>9, <1>12
  <2>2. /\ t \in Seq(Steps)
        /\ \A i \in DOMAIN y : i \in DOMAIN t /\ t[i] = y[i]
        /\ \A i \in DOMAIN t :
              \/ i \in DOMAIN y /\ t[i] = y[i]
              \/ i > Len(y) /\ i - Len(y) \in DOMAIN j /\ t[i] = j[i - Len(y)]
    BY <2>1, CatIs
  <2>3. \A i \in DOMAIN t : i \in Nat /\ i >= 1 BY <2>2
  <2>4. ASSUME NEW i \in DOMAIN t, i > n + 9 PROVE t[i].do \in RejoinOps /\ t[i].for \in Own(h) \ {b}
    <3>1. i \notin DOMAIN y BY <1>2, <1>12, <2>4
    <3>2. i - Len(y) \in DOMAIN j /\ t[i] = j[i - Len(y)] BY <2>2, <3>1
    <3> QED BY <1>9, <3>2
  <2> QED BY <1>12, <2>2, <2>3, <2>4
<1>14. \A i \in 1..(n + 4) : t[i] = d[i]
  <2> SUFFICES ASSUME NEW i \in 1..(n + 4) PROVE t[i] = d[i] OBVIOUS
  <2>1. i \in 1..(n + 9) /\ i \in DOMAIN x /\ i \in DOMAIN d BY <1>10, <1>11
  <2> QED BY <1>11, <1>12, <1>13, <2>1
<1>15. /\ t[n + 5] = Step("restoreyml", b) /\ t[n + 6] = Step("wipe", b) /\ t[n + 7] = Step("rm", b)
       /\ t[n + 8] = Step("run", b)
  <2>1. ASSUME NEW i \in 1..4 PROVE t[(n + 4) + i] = Step(o[i], b)
    <3>1. (n + 4) + i \in 1..(n + 9) /\ (n + 4) + i \in DOMAIN x /\ i \in DOMAIN r BY <1>7, <1>11, SMTT(30)
    <3> QED BY <1>7, <1>11, <1>12, <1>13, <3>1, ZenonT(40)
  <2>2. (n + 4) + 1 = n + 5 /\ (n + 4) + 2 = n + 6 /\ (n + 4) + 3 = n + 7 /\ (n + 4) + 4 = n + 8
    OBVIOUS
  <2>3. 1 \in 1..4 /\ 2 \in 1..4 /\ 3 \in 1..4 /\ 4 \in 1..4 OBVIOUS
  <2> QED BY <1>5, <2>1, <2>2, <2>3
<1>16. t[n + 9] = Step("await", None)
  <2>1. n + 9 \in 1..(n + 9) OBVIOUS
  <2> QED BY <1>8, <1>12, <1>13, <2>1
<1>17. /\ t[1] = Step("ask", None) /\ t[2] = Step("freeze", None)
       /\ t[n + 3] = Step("list", None) /\ t[n + 4] = Step("clear", None)
  <2>1. 1 \in 1..(n + 4) /\ 2 \in 1..(n + 4) /\ n + 3 \in 1..(n + 4) /\ n + 4 \in 1..(n + 4) OBVIOUS
  <2>2. /\ d[1] = Step("ask", None) /\ d[2] = Step("freeze", None)
        /\ d[n + 3] = Step("list", None) /\ d[n + 4] = Step("clear", None)
    BY <1>2 DEF Cleared
  <2> QED BY <1>14, <2>1, <2>2
<1>18. /\ \A i \in 3..(n + 2) : i \in DOMAIN t /\ t[i].do = "softstop" /\ t[i].for \in Own(h)
       /\ \A m \in Own(h) : \E i \in DOMAIN t : t[i].do = "softstop" /\ t[i].for = m
  <2>1. \A i \in 3..(n + 2) : i \in 1..(n + 4) /\ i \in 1..(n + 9) OBVIOUS
  <2>2. \A i \in 3..(n + 2) : i \in DOMAIN t /\ t[i] = d[i] BY <1>13, <1>14, <2>1
  <2>3. /\ \A i \in 3..(n + 2) : d[i].do = "softstop" /\ d[i].for \in Own(h)
        /\ \A m \in Own(h) : \E i \in 3..(n + 2) : d[i].do = "softstop" /\ d[i].for = m
    BY <1>2 DEF Cleared
  <2> QED BY <2>2, <2>3
<1>19. ASSUME NEW i \in DOMAIN t
       PROVE  \/ i = 1 /\ t[i] = Step("ask", None)
              \/ i = 2 /\ t[i] = Step("freeze", None)
              \/ i \in 3..(n + 2) /\ t[i].do = "softstop" /\ t[i].for \in Own(h)
              \/ i = n + 3 /\ t[i] = Step("list", None)
              \/ i = n + 4 /\ t[i] = Step("clear", None)
              \/ i = n + 5 /\ t[i] = Step("restoreyml", b)
              \/ i = n + 6 /\ t[i] = Step("wipe", b)
              \/ i = n + 7 /\ t[i] = Step("rm", b)
              \/ i = n + 8 /\ t[i] = Step("run", b)
              \/ i = n + 9 /\ t[i] = Step("await", None)
              \/ i > n + 9 /\ t[i].do \in RejoinOps /\ t[i].for \in Own(h) \ {b}
  <2>1. i \in Nat /\ i >= 1 BY <1>13
  <2>2. \/ i = 1 \/ i = 2 \/ i \in 3..(n + 2) \/ i = n + 3 \/ i = n + 4 \/ i = n + 5 \/ i = n + 6
        \/ i = n + 7 \/ i = n + 8 \/ i = n + 9 \/ i > n + 9
    BY <2>1
  <2> QED BY <1>13, <1>15, <1>16, <1>17, <1>18, <2>2, ZenonT(40)
<1>20. Layout(t, n, Own(h), b) BY <1>13, <1>18, <1>19 DEF Layout
<1>21. t = Demolish(h, <<"ask", "freeze">>) \o Rebuild(b) \o For(None, <<"await">>) \o Rejoin(h, b)
  BY <1>1 DEF Rebuild, Rejoin
<1> QED BY <1>2, <1>20, <1>21

\* The steps of a restore have the ranks of their places.
LEMMA LayoutRanked ==
  ASSUME NEW t, NEW n \in Nat, NEW own, NEW b \in own, Layout(t, n, own, b)
  PROVE  Ranked(t, own, b)
<1> DEFINE P(i) == IF i <= 2 THEN i ELSE IF i <= n + 2 THEN 3 ELSE IF i <= n + 9 THEN (i - n) + 1 ELSE 11
<1>1. ASSUME NEW i \in DOMAIN t
      PROVE  /\ i \in Nat /\ i >= 1
             /\ Rank(t[i], b) = P(i)
             /\ t[i].do = "restoreyml" => t[i].for = b
             /\ Rank(t[i], b) = 11 => t[i].do \in RejoinOps /\ t[i].for \in own \ {b}
  <2>0. i \in Nat /\ i >= 1 BY DEF Layout
  <2>1. CASE i = 1 /\ t[i] = Step("ask", None)
    <3>1. Rank(t[i], b) = 1 /\ t[i].do = "ask" BY <2>1 DEF Rank, Step
    <3> QED BY <2>0, <2>1, <3>1
  <2>2. CASE i = 2 /\ t[i] = Step("freeze", None)
    <3>1. Rank(t[i], b) = 2 /\ t[i].do = "freeze" BY <2>2 DEF Rank, Step
    <3> QED BY <2>0, <2>2, <3>1
  <2>3. CASE i \in 3..(n + 2) /\ t[i].do = "softstop" /\ t[i].for \in own
    <3>1. Rank(t[i], b) = 3 /\ P(i) = 3 BY <2>3 DEF Rank
    <3> QED BY <2>0, <2>3, <3>1
  <2>4. CASE i = n + 3 /\ t[i] = Step("list", None)
    <3>1. Rank(t[i], b) = 4 /\ t[i].do = "list" /\ P(i) = 4 BY <2>0, <2>4 DEF Rank, Step
    <3> QED BY <2>0, <3>1
  <2>5. CASE i = n + 4 /\ t[i] = Step("clear", None)
    <3>1. Rank(t[i], b) = 5 /\ t[i].do = "clear" /\ P(i) = 5 BY <2>0, <2>5 DEF Rank, Step
    <3> QED BY <2>0, <3>1
  <2>6. CASE i = n + 5 /\ t[i] = Step("restoreyml", b)
    <3>1. Rank(t[i], b) = 6 /\ t[i].for = b /\ P(i) = 6 BY <2>0, <2>6 DEF Rank, Step
    <3> QED BY <2>0, <3>1
  <2>7. CASE i = n + 6 /\ t[i] = Step("wipe", b)
    <3>1. Rank(t[i], b) = 7 /\ t[i].do = "wipe" /\ P(i) = 7 BY <2>0, <2>7 DEF Rank, Step
    <3> QED BY <2>0, <3>1
  <2>8. CASE i = n + 7 /\ t[i] = Step("rm", b)
    <3>1. Rank(t[i], b) = 8 /\ t[i].do = "rm" /\ P(i) = 8 BY <2>0, <2>8 DEF Rank, Step
    <3> QED BY <2>0, <3>1
  <2>9. CASE i = n + 8 /\ t[i] = Step("run", b)
    <3>1. Rank(t[i], b) = 9 /\ t[i].do = "run" /\ P(i) = 9 BY <2>0, <2>9 DEF Rank, Step
    <3> QED BY <2>0, <3>1
  <2>10. CASE i = n + 9 /\ t[i] = Step("await", None)
    <3>1. Rank(t[i], b) = 10 /\ t[i].do = "await" /\ P(i) = 10 BY <2>0, <2>10 DEF Rank, Step
    <3> QED BY <2>0, <3>1
  <2>11. CASE i > n + 9 /\ t[i].do \in RejoinOps /\ t[i].for \in own \ {b}
    <3>1. Rank(t[i], b) = 11 /\ P(i) = 11 BY <2>0, <2>11 DEF Rank, RejoinOps
    <3> QED BY <2>0, <2>11, <3>1 DEF RejoinOps
  <2> QED BY <2>1, <2>2, <2>3, <2>4, <2>5, <2>6, <2>7, <2>8, <2>9, <2>10, <2>11 DEF Layout
<1>2. \A i, j \in DOMAIN t : i < j => P(i) < P(j) \/ (P(i) = P(j) /\ P(i) \in {3, 11})
  <2> SUFFICES ASSUME NEW i \in DOMAIN t, NEW j \in DOMAIN t, i < j
               PROVE  P(i) < P(j) \/ (P(i) = P(j) /\ P(i) \in {3, 11})
    OBVIOUS
  <2>1. i \in Nat /\ j \in Nat /\ i >= 1 /\ j >= 1 BY <1>1
  <2> QED BY <2>1
<1>3. P(2) = 2 /\ P(n + 3) = 4 /\ P(n + 4) = 5 /\ P(n + 5) = 6 /\ P(n + 6) = 7 /\ P(n + 7) = 8
      /\ P(n + 8) = 9 /\ P(n + 9) = 10
  OBVIOUS
<1> HIDE DEF P
<1>4. \A r \in {2, 4, 5, 6, 7, 8, 9, 10} : \E i \in DOMAIN t : Rank(t[i], b) = r
  <2>1. /\ 2 \in DOMAIN t /\ n + 3 \in DOMAIN t /\ n + 4 \in DOMAIN t /\ n + 5 \in DOMAIN t
        /\ n + 6 \in DOMAIN t /\ n + 7 \in DOMAIN t /\ n + 8 \in DOMAIN t /\ n + 9 \in DOMAIN t
    BY DEF Layout
  <2>2. /\ Rank(t[2], b) = 2 /\ Rank(t[n + 3], b) = 4 /\ Rank(t[n + 4], b) = 5 /\ Rank(t[n + 5], b) = 6
        /\ Rank(t[n + 6], b) = 7 /\ Rank(t[n + 7], b) = 8 /\ Rank(t[n + 8], b) = 9
        /\ Rank(t[n + 9], b) = 10
    BY <1>1, <1>3, <2>1
  <2> QED BY <2>1, <2>2
<1>5. \A m \in own : \E i \in DOMAIN t : t[i].do = "softstop" /\ t[i].for = m BY DEF Layout
<1>6. \A i, j \in DOMAIN t : i < j =>
        \/ Rank(t[i], b) < Rank(t[j], b)
        \/ Rank(t[i], b) = Rank(t[j], b) /\ Rank(t[i], b) \in {3, 11}
  <2> SUFFICES ASSUME NEW i \in DOMAIN t, NEW j \in DOMAIN t, i < j
               PROVE  \/ Rank(t[i], b) < Rank(t[j], b)
                      \/ Rank(t[i], b) = Rank(t[j], b) /\ Rank(t[i], b) \in {3, 11}
    OBVIOUS
  <2>1. Rank(t[i], b) = P(i) /\ Rank(t[j], b) = P(j) BY <1>1
  <2>2. P(i) < P(j) \/ (P(i) = P(j) /\ P(i) \in {3, 11}) BY <1>2
  <2> QED BY <2>1, <2>2
<1> QED BY <1>1, <1>4, <1>5, <1>6 DEF Ranked

\* pg ha restore.
LEMMA RestoreLaunches ==
  ASSUME TypeOK, NEW h \in Hosts, NEW b \in Own(h), NEW n \in Nat, NEW t, Layout(t, n, Own(h), b)
  PROVE  Launch(h, "restore", t)
<1>1. Own(h) \subseteq Members /\ \A m \in Own(h) : m \in Known(h) /\ Home[m] = h BY OwnFacts
<1>2. Ranked(t, Own(h), b) BY LayoutRanked
<1>3. /\ t \in Seq(Steps) /\ 2 \in DOMAIN t /\ n + 4 \in DOMAIN t
      /\ \A i \in DOMAIN t : i \in Nat /\ i >= 1
  BY DEF Layout
<1>4. ASSUME NEW i \in DOMAIN t
      PROVE  \/ i = 1 /\ t[i].do = "ask" /\ t[i].for = None
             \/ i = 2 /\ t[i].do = "freeze" /\ t[i].for = None
             \/ t[i].do = "softstop" /\ t[i].for \in Own(h)
             \/ t[i].do \in {"list", "clear", "await"} /\ t[i].for = None
             \/ t[i].do \in {"restoreyml", "yml", "wipe", "rm", "run"} /\ t[i].for \in Own(h)
  <2>1. \A op, m : Step(op, m).do = op /\ Step(op, m).for = m BY DEF Step
  <2>2. CASE i > n + 9 /\ t[i].do \in RejoinOps /\ t[i].for \in Own(h) \ {b}
    BY <2>2 DEF RejoinOps
  <2>3. CASE t[i] \in {Step("list", None), Step("clear", None), Step("await", None)} BY <2>1, <2>3
  <2>4. CASE t[i] \in {Step("restoreyml", b), Step("wipe", b), Step("rm", b), Step("run", b)}
    BY <2>1, <2>4
  <2>5. CASE i = 1 /\ t[i] = Step("ask", None) BY <2>1, <2>5
  <2>6. CASE i = 2 /\ t[i] = Step("freeze", None) BY <2>1, <2>6
  <2>7. CASE t[i].do = "softstop" /\ t[i].for \in Own(h) BY <2>7
  <2> QED BY <2>2, <2>3, <2>4, <2>5, <2>6, <2>7 DEF Layout
<1>5. t[2].do = "freeze" /\ t[n + 4].do = "clear"
  <2>1. t[2] = Step("freeze", None)
    <3>1. ~(2 = 1) /\ 2 \notin 3..(n + 2) /\ 2 # n + 3 /\ 2 # n + 4 /\ 2 # n + 5 /\ 2 # n + 6 /\ 2 # n + 7
          /\ 2 # n + 8 /\ 2 # n + 9 /\ ~(2 > n + 9)
      OBVIOUS
    <3> QED BY <1>3, <3>1 DEF Layout
  <2>2. t[n + 4] = Step("clear", None)
    <3>1. /\ n + 4 # 1 /\ n + 4 # 2 /\ n + 4 \notin 3..(n + 2) /\ n + 4 # n + 3 /\ n + 4 # n + 5 /\ n + 4 # n + 6
          /\ n + 4 # n + 7 /\ n + 4 # n + 8 /\ n + 4 # n + 9 /\ ~(n + 4 > n + 9)
      OBVIOUS
    <3> QED BY <1>3, <3>1 DEF Layout
  <2> QED BY <2>1, <2>2 DEF Step
<1>6. t # <<>> BY <1>3
<1>7. Placed(h, t) BY <1>1, <1>4 DEF Placed, MemberOps, HomeOps
<1>8. SavesOnce(t) BY <1>4 DEF SavesOnce, SaveOps, Drops
<1>9. ~Has(t, SaveOps) BY <1>4 DEF Has, SaveOps
<1>10. Backed(h, t) BY <1>1, <1>4 DEF Backed, Builds
<1>11. Emptied(h, t) BY <1>4 DEF Emptied
<1>12. Window("restore", t)
  <2>1. ASSUME NEW i \in DOMAIN t, t[i].do \in Opens
        PROVE  /\ \E j \in DOMAIN t : i < j /\ t[j].do \in Closes
               /\ \A j \in DOMAIN t : i < j => t[j].do \notin Opens
    <3>1. i = 2 BY <1>4, <2>1 DEF Opens
    <3>2. i < n + 4 /\ t[n + 4].do \in Closes BY <1>5, <3>1 DEF Closes
    <3>3. \A j \in DOMAIN t : i < j => t[j].do \notin Opens
      <4> SUFFICES ASSUME NEW j \in DOMAIN t, i < j PROVE t[j].do \notin Opens OBVIOUS
      <4>1. j # 1 /\ j # 2 BY <1>3, <3>1
      <4> QED BY <1>4, <4>1 DEF Opens
    <3> QED BY <1>3, <3>2, <3>3
  <2>2. ASSUME NEW i \in DOMAIN t
        PROVE  /\ t[i].do # "start"
               /\ t[i].do = "ask" => \E j \in DOMAIN t : i < j /\ t[j].do \in Opens
    <3>1. t[i].do # "start" BY <1>4
    <3>2. ASSUME t[i].do = "ask" PROVE i < 2 BY <1>4, <3>2
    <3>3. t[2].do \in Opens BY <1>5 DEF Opens
    <3> QED BY <1>3, <3>1, <3>2, <3>3
  <2>3. "restore" \in PauseOps BY DEF PauseOps
  <2> QED BY <2>1, <2>2, <2>3 DEF Window
<1>13. t[1].do = "ask" /\ b \in Members
  <2>1. 1 \in DOMAIN t /\ 1 # 2 /\ 1 \notin 3..(n + 2) /\ ~(1 > n + 9)
        /\ 1 # n + 3 /\ 1 # n + 4 /\ 1 # n + 5 /\ 1 # n + 6 /\ 1 # n + 7 /\ 1 # n + 8 /\ 1 # n + 9
    BY DEF Layout
  <2>2. t[1] = Step("ask", None) BY <2>1 DEF Layout
  <2> QED BY <1>1, <2>2 DEF Step
<1> QED BY <1>2, <1>3, <1>6, <1>7, <1>8, <1>9, <1>10, <1>11, <1>12, <1>13 DEF Launch, CommandOps

\* The host begins a command with steps that fit.
Begins(h) ==
  \E op \in CommandOps, todo \in Seq(Steps), clean \in BOOLEAN, stale \in SUBSET Members :
    Begin(h, op, todo, clean, stale) /\ Launch(h, op, todo)

\* Beginning with such steps is beginning so.
LEMMA BeginsWith ==
  ASSUME NEW h, NEW op, NEW todo, NEW clean \in BOOLEAN, NEW stale \in SUBSET Members,
         Begin(h, op, todo, clean, stale), Launch(h, op, todo)
  PROVE  Begins(h)
<1>1. op \in CommandOps /\ todo \in Seq(Steps) BY DEF Launch
<1> QED BY <1>1, Zenon DEF Begins

\* Every command begins with steps that fit.
LEMMA CommandLaunches ==
  ASSUME TypeOK, NEW h \in Hosts, Command(h)
  PROVE  Begins(h)
<1>0. FALSE \in BOOLEAN /\ {} \in SUBSET Members OBVIOUS
<1>a. ASSUME NEW op \in CommandOps \ PauseOps, NEW m \in Members \cup {None}, NEW s, NEW clean \in BOOLEAN,
             Begin(h, op, For(m, <<s>>), clean, {}),
             s \in {"enter", "leave", "leaveremote", "pause", "resume", "switchover", "failover",
                    "unrecord"},
             IF s \in MemberOps THEN m \in Members ELSE m = None,
             s \in {"leave", "leaveremote"} => Home[m] # h,
             s = "pause" => op = "pause"
      PROVE  Begins(h)
  <2>1. s \in StepOps BY <1>a DEF StepOps
  <2>2. PICK t : t = For(m, <<s>>) OBVIOUS
  <2>3. t \in Seq(Steps) /\ Len(t) = 1 /\ t[1].do = s /\ t[1].for = m BY <2>1, <2>2, ForOne
  <2>4. Launch(h, op, t) BY <1>a, <2>3, LaunchOne
  <2>5. Begin(h, op, t, clean, {}) BY <1>a, <2>2
  <2> QED BY <1>0, <2>4, <2>5, BeginsWith
<1>1. ASSUME NEW m \in Members, Create(h, m) PROVE Begins(h)
  <2>1. Launch(h, "create", For(m, <<"enter">> \o RecreateMember \o <<"register">>))
    BY <1>1, CreateLaunches DEF Create
  <2> QED BY <1>0, <1>1, <2>1, BeginsWith DEF Create
<1>2. ASSUME NEW m \in Members, RemoveMember(h, m) PROVE Begins(h)
  <2>1. CASE Home[m] = h
    <3>1. PICK clean \in BOOLEAN :
            Begin(h, "remove", For(m, <<"rmbox", "unregister", "erase", "leave">>), clean, {})
      BY <1>2, <2>1 DEF RemoveMember
    <3>2. Launch(h, "remove", For(m, <<"rmbox", "unregister", "erase", "leave">>))
      BY <2>1, RemoveLaunches
    <3> QED BY <1>0, <3>1, <3>2, BeginsWith
  <2>2. CASE Home[m] # h
    <3>1. PICK clean \in BOOLEAN : Begin(h, "remove", For(m, <<"leave">>), clean, {})
      BY <1>2, <2>2 DEF RemoveMember
    <3>2. "remove" \in CommandOps \ PauseOps /\ "leave" \in MemberOps
      BY DEF CommandOps, PauseOps, MemberOps
    <3> QED BY <1>a, <2>2, <3>1, <3>2
  <2> QED BY <2>1, <2>2
<1>3. ASSUME NEW m \in Members, RemoteAdd(h, m) PROVE Begins(h)
  <2>1. Begin(h, "remote", For(m, <<"enter">>), FALSE, {}) BY <1>3 DEF RemoteAdd
  <2>2. "remote" \in CommandOps \ PauseOps /\ "enter" \in MemberOps
    BY DEF CommandOps, PauseOps, MemberOps
  <2>3. PICK s : s = "enter" OBVIOUS
  <2>4. /\ s \in {"enter", "leave", "leaveremote", "pause", "resume", "switchover", "failover", "unrecord"}
        /\ m \in Members \cup {None} /\ s # "pause"
        /\ IF s \in MemberOps THEN m \in Members ELSE m = None
        /\ s \in {"leave", "leaveremote"} => Home[m] # h
    BY <2>1, <2>2, <2>3
  <2> QED BY <1>0, <1>a, <2>1, <2>2, <2>3, <2>4
<1>4. ASSUME NEW m \in Members, RemoteRemove(h, m) PROVE Begins(h)
  <2>1. Begin(h, "remote", For(m, <<"leaveremote">>), FALSE, {}) /\ Home[m] # h
    BY <1>4 DEF RemoteRemove
  <2>2. "remote" \in CommandOps \ PauseOps /\ "leaveremote" \in MemberOps
    BY DEF CommandOps, PauseOps, MemberOps
  <2>3. PICK s : s = "leaveremote" OBVIOUS
  <2>4. /\ s \in {"enter", "leave", "leaveremote", "pause", "resume", "switchover", "failover", "unrecord"}
        /\ m \in Members \cup {None} /\ s # "pause"
        /\ IF s \in MemberOps THEN m \in Members ELSE m = None
        /\ s \in {"leave", "leaveremote"} => Home[m] # h
    BY <2>1, <2>2, <2>3
  <2> QED BY <1>0, <1>a, <2>1, <2>2, <2>3, <2>4
<1>5. ASSUME RemoveAll(h) PROVE Begins(h)
  <2>1. PICK t : t = For(None, <<"list", "softclear", "unregisterall">>)
                       \o ForEach(Sorted(Own(h)), <<"rmbox", "erase">>) \o For(None, <<"forget">>)
    OBVIOUS
  <2>2. PICK clean \in BOOLEAN : Begin(h, "removeall", t, clean, {}) BY <1>5, <2>1 DEF RemoveAll
  <2>3. Launch(h, "removeall", t) BY <2>1, RemoveAllLaunches
  <2> QED BY <1>0, <2>2, <2>3, BeginsWith
<1>6. ASSUME NEW op \in {"start", "stop"}, StartStop(h, op) PROVE Begins(h)
  <2>1. PICK ms \in {Own(h)} \cup {{m} : m \in Own(h)} :
          ms # {} /\ Begin(h, op, ForEach(Sorted(ms), <<op>>), FALSE, {})
    BY <1>6 DEF StartStop
  <2>2. ms \in SUBSET Own(h) BY <2>1
  <2>3. Launch(h, op, ForEach(Sorted(ms), <<op>>)) BY <2>1, <2>2, StartStopLaunches
  <2> QED BY <1>0, <2>1, <2>3, BeginsWith
<1>7. ASSUME NEW op \in {"pause", "resume", "switchover", "failover"}, Control(h, op) PROVE Begins(h)
  <2>1. Begin(h, op, For(None, <<op>>), FALSE, {}) BY <1>7 DEF Control
  <2>2. op \in CommandOps \ PauseOps /\ op \notin MemberOps
    BY DEF CommandOps, PauseOps, MemberOps, HomeOps
  <2>3. op \in {"enter", "leave", "leaveremote", "pause", "resume", "switchover", "failover", "unrecord"}
        /\ op \notin {"leave", "leaveremote"}
    OBVIOUS
  <2> QED BY <1>0, <1>a, <2>1, <2>2, <2>3
<1>8. ASSUME Restore(h) PROVE Begins(h)
  <2>1. PICK b \in Own(h) :
          Begin(h, "restore", Demolish(h, <<"ask", "freeze">>) \o Rebuild(b) \o For(None, <<"await">>)
                                \o Rejoin(h, b), FALSE, {})
    BY <1>8 DEF Restore
  <2>2. PICK t : t = Demolish(h, <<"ask", "freeze">>) \o Rebuild(b) \o For(None, <<"await">>)
                       \o Rejoin(h, b)
    OBVIOUS
  <2>3. PICK n \in Nat : Layout(t, n, Own(h), b) BY <2>2, RestoreFacts
  <2>4. Launch(h, "restore", t) BY <2>3, RestoreLaunches
  <2> QED BY <1>0, <2>1, <2>2, <2>4, BeginsWith
<1>9. ASSUME ExtInstall(h) PROVE Begins(h)
  <2>1. PICK x, y : x = <<"pause", "record", "count">> /\ y = <<"pause", "order", "record", "count">> OBVIOUS
  <2>2. x \in Seq(StepOps) /\ Len(x) = 3 /\ x[1] = "pause" /\ x[2] = "record" /\ x[3] = "count"
    BY <2>1 DEF StepOps
  <2>3. /\ y \in Seq(StepOps) /\ Len(y) = 4 /\ y[1] = "pause" /\ y[2] = "order" /\ y[3] = "record"
        /\ y[4] = "count"
    BY <2>1 DEF StepOps
  <2>4. Launch(h, "extension", For(None, x)) /\ Launch(h, "extension", For(None, y))
    BY <2>2, <2>3, InstallLaunches
  <2>5. Begin(h, "extension", For(None, x), FALSE, {}) \/ Begin(h, "extension", For(None, y), FALSE, {})
    BY <1>9, <2>1 DEF ExtInstall
  <2> QED BY <1>0, <2>4, <2>5, BeginsWith
<1>10. ASSUME ExtApply(h) PROVE Begins(h)
  <2>1. Begin(h, "apply", For(None, <<"resume">>), FALSE, {}) BY <1>10 DEF ExtApply
  <2>2. "apply" \in CommandOps \ PauseOps /\ "resume" \notin MemberOps
    BY DEF CommandOps, PauseOps, MemberOps, HomeOps
  <2>3. PICK s : s = "resume" OBVIOUS
  <2>4. /\ s \in {"enter", "leave", "leaveremote", "pause", "resume", "switchover", "failover", "unrecord"}
        /\ None \in Members \cup {None} /\ s # "pause"
        /\ IF s \in MemberOps THEN None \in Members ELSE None = None
        /\ s \in {"leave", "leaveremote"} => Home[None] # h
    BY <2>1, <2>2, <2>3
  <2> QED BY <1>0, <1>a, <2>1, <2>2, <2>3, <2>4
<1>11. ASSUME ExtRemove(h) PROVE Begins(h)
  <2>1. Begin(h, "drop", For(None, <<"unrecord">>), FALSE, {}) BY <1>11 DEF ExtRemove
  <2>2. "drop" \in CommandOps \ PauseOps /\ "unrecord" \notin MemberOps
    BY DEF CommandOps, PauseOps, MemberOps, HomeOps
  <2>3. PICK s : s = "unrecord" OBVIOUS
  <2>4. /\ s \in {"enter", "leave", "leaveremote", "pause", "resume", "switchover", "failover", "unrecord"}
        /\ None \in Members \cup {None} /\ s # "pause"
        /\ IF s \in MemberOps THEN None \in Members ELSE None = None
        /\ s \in {"leave", "leaveremote"} => Home[None] # h
    BY <2>1, <2>2, <2>3
  <2> QED BY <1>0, <1>a, <2>1, <2>2, <2>3, <2>4
<1>12. ASSUME Setup(h) PROVE Begins(h)
  <2>1. PICK stale \in SUBSET Own(h) :
          Begin(h, "setup", Trust(h) \o (IF stale = {} THEN <<>> ELSE
                                           For(None, <<"pause", "order", "unpause">>)), FALSE, stale)
    BY <1>12 DEF Setup
  <2>2. PICK w : w = IF stale = {} THEN <<>> ELSE For(None, <<"pause", "order", "unpause">>) OBVIOUS
  <2>3. Own(h) # {} BY <1>12 DEF Setup
  <2>4. w = <<>> \/ w = For(None, <<"pause", "order", "unpause">>) BY <2>2
  <2>5. Launch(h, "setup", Trust(h) \o w) BY <2>3, <2>4, SetupLaunches
  <2>6. stale \in SUBSET Members BY OwnFacts
  <2>7. Begin(h, "setup", Trust(h) \o w, FALSE, stale) BY <2>1, <2>2
  <2> QED BY <1>0, <2>5, <2>6, <2>7, BeginsWith
<1> QED BY <1>1, <1>2, <1>3, <1>4, <1>5, <1>6, <1>7, <1>8, <1>9, <1>10, <1>11, <1>12 DEF Command

-----------------------------------------------------------------------------
(* The commands keep fitting *)

\* What a step of host h does is its effect, and spares the other hosts.
LEMMA DoEffect ==
  ASSUME TypeOK, CommandsFit, NEW h \in Hosts, Do(h)
  PROVE  Effect(h) /\ \A g \in Hosts \ {h} : Spared(g)
<1>1. cmd[h] # None BY DoMoves
<1>2. /\ Op(h) \in MemberOps => M(h) \in Members
      /\ Op(h) \in HomeOps => Home[M(h)] = h
  BY <1>1, AtFacts
<1>3. \A ops : At(h, ops) => Op(h) \in ops BY DEF At, Op
<1>4. gen \in Nat /\ gen <= gen BY DEF TypeOK
<1>5. ASSUME UNCHANGED <<conf, box, reg, gen, stray>>,
             Op(h) \notin SaveOps \cup {"rmbox", "unregister", "unregisterall"}
      PROVE  Effect(h) /\ \A g \in Hosts \ {h} : Spared(g)
  BY <1>4, <1>5 DEF Effect, Spared
<1>6. CASE Save(h)
  <2>1. Op(h) \in SaveOps BY <1>3, <1>6 DEF Save, SaveOps
  <2>2. /\ conf' = [conf EXCEPT ![h] = Saved(h)] /\ UNCHANGED <<box, reg, gen, stray>>
    BY <1>6 DEF Save, node, tally, hist
  <2>3. conf'[h] = Saved(h) /\ \A g \in Hosts \ {h} : conf'[g] = conf[g] BY <2>2 DEF TypeOK
  <2>4. Op(h) \notin {"rmbox", "unregister", "unregisterall"} BY <2>1 DEF SaveOps
  <2> QED BY <1>4, <2>1, <2>2, <2>3, <2>4 DEF Effect, Spared
<1>7. CASE WriteYml(h)
  <2>1. Op(h) \in {"yml", "restoreyml"} BY <1>3, <1>7 DEF WriteYml
  <2> QED BY <1>5, <1>7, <2>1 DEF WriteYml, tally, hist, SaveOps
<1>8. CASE Wipe(h)
  <2>1. Op(h) \in {"wipe", "erase"} BY <1>3, <1>8 DEF Wipe
  <2> QED BY <1>5, <1>8, <2>1 DEF Wipe, tally, hist, SaveOps
<1>9. CASE Halt(h)
  <2>1. Op(h) \in {"stop", "softstop"} BY <1>3, <1>9 DEF Halt
  <2>2. M(h) \in Members /\ Home[M(h)] = h BY <1>2, <2>1 DEF MemberOps, HomeOps
  <2>3. UNCHANGED <<conf, reg, gen, stray>> BY <1>9 DEF Halt, tally, hist
  <2>4. \A m \in Members : box[m] = "none" => box'[m] = "none" BY <1>9, <2>2 DEF Halt, Down, TypeOK
  <2> QED BY <1>4, <2>1, <2>3, <2>4 DEF Effect, Spared, SaveOps
<1>10. CASE Rm(h)
  <2>1. Op(h) \in {"rm", "rmbox"} BY <1>3, <1>10 DEF Rm
  <2>2. M(h) \in Members /\ Home[M(h)] = h BY <1>2, <2>1 DEF MemberOps, HomeOps
  <2>3. UNCHANGED <<conf, reg, gen, stray>> BY <1>10 DEF Rm, tally, hist
  <2>4. box'[M(h)] = "none" /\ \A m \in Members : box[m] = "none" => box'[m] = "none"
    BY <1>10, <2>2 DEF Rm, TypeOK
  <2> QED BY <1>4, <2>1, <2>3, <2>4 DEF Effect, Spared, SaveOps
<1>11. CASE Run(h)
  <2>1. Op(h) = "run" BY <1>3, <1>11 DEF Run
  <2>2. M(h) \in Members /\ Home[M(h)] = h BY <1>2, <2>1 DEF MemberOps, HomeOps
  <2>3. UNCHANGED <<conf, reg, gen, stray>> BY <1>11 DEF Run, tally, hist
  <2>4. \A m \in Members \ {M(h)} : box'[m] = box[m] BY <1>11, <2>2 DEF Run, TypeOK
  <2> QED BY <1>4, <2>1, <2>2, <2>3, <2>4 DEF Effect, Spared, SaveOps
<1>12. CASE StartMember(h)
  <2>1. Op(h) = "start" BY <1>3, <1>12 DEF StartMember
  <2>2. M(h) \in Members /\ Home[M(h)] = h BY <1>2, <2>1 DEF MemberOps, HomeOps
  <2>3. UNCHANGED <<conf, reg, gen, stray>> BY <1>12 DEF StartMember, tally, hist
  <2>4. \A m \in Members : box[m] = "none" => box'[m] = "none"
    BY <1>12, <2>2 DEF StartMember, TypeOK
  <2> QED BY <1>4, <2>1, <2>3, <2>4 DEF Effect, Spared, SaveOps
<1>13. CASE Register(h)
  <2>1. Op(h) \in {"register", "unregister", "unregisterall"} BY <1>3, <1>13 DEF Register
  <2>2. Op(h) # "unregisterall" => M(h) \in Members /\ Home[M(h)] = h
    BY <1>2, <2>1 DEF MemberOps, HomeOps
  <2>3. UNCHANGED <<conf, box, gen, stray>> BY <1>13 DEF Register, node, tally, hist
  <2>4. CASE Op(h) = "register"
    <3>1. reg' = reg \cup {M(h)} BY <1>13, <2>4 DEF Register
    <3> QED BY <1>4, <2>2, <2>3, <2>4, <3>1 DEF Effect, Spared, SaveOps
  <2>5. CASE Op(h) = "unregister"
    <3>1. reg' = reg \ {M(h)} BY <1>13, <2>5 DEF Register
    <3> QED BY <1>4, <2>2, <2>3, <2>5, <3>1 DEF Effect, Spared, SaveOps
  <2>6. CASE Op(h) = "unregisterall"
    <3>1. reg' = {} BY <1>13, <2>6 DEF Register
    <3> QED BY <1>4, <2>3, <2>6, <3>1 DEF Effect, Spared, SaveOps
  <2> QED BY <2>1, <2>4, <2>5, <2>6
<1>14. CASE Ask(h)
  <2>1. Op(h) = "ask" BY <1>3, <1>14 DEF Ask
  <2> QED BY <1>5, <1>14, <2>1 DEF Ask, node, tally, hist, SaveOps
<1>15. CASE Pause(h)
  <2>1. Op(h) \in {"pause", "freeze"} BY <1>3, <1>15 DEF Pause
  <2> QED BY <1>5, <1>15, <2>1 DEF Pause, node, tally, SaveOps
<1>16. CASE Resume(h)
  <2>1. Op(h) \in {"resume", "unpause"} BY <1>3, <1>16 DEF Resume
  <2> QED BY <1>5, <1>16, <2>1 DEF Resume, node, tally, SaveOps
<1>17. CASE Switch(h)
  <2>1. Op(h) \in {"switchover", "failover"} BY <1>3, <1>17 DEF Switch
  <2>2. UNCHANGED <<conf, box, reg, gen, stray>> BY <1>17 DEF Switch, tally, hist
  <2> QED BY <1>5, <2>1, <2>2 DEF SaveOps
<1>18. CASE List(h)
  <2>1. Op(h) = "list" BY <1>3, <1>18 DEF List
  <2> QED BY <1>5, <1>18, <2>1 DEF List, node, tally, hist, SaveOps
<1>19. CASE Clear(h)
  <2>1. Op(h) \in {"clear", "softclear"} BY <1>3, <1>19 DEF Clear
  <2> QED BY <1>5, <1>19, <2>1 DEF Clear, node, tally, SaveOps
<1>20. CASE Await(h)
  <2>1. Op(h) = "await" BY <1>3, <1>20 DEF Await
  <2> QED BY <1>5, <1>20, <2>1 DEF Await, node, tally, hist, SaveOps
<1>21. CASE Reorder(h)
  <2>1. Op(h) = "order" BY <1>3, <1>21 DEF Reorder
  <2>2. UNCHANGED <<conf, box, reg, gen, stray>> BY <1>21 DEF Reorder, node, tally, hist
  <2> QED BY <1>5, <2>1, <2>2 DEF SaveOps
<1>22. CASE Rejoined(h)
  <2>1. Op(h) = "rejoined" BY <1>3, <1>22 DEF Rejoined
  <2> QED BY <1>5, <1>22, <2>1 DEF Rejoined, node, tally, hist, SaveOps
<1>23. CASE Count(h)
  <2>1. Op(h) = "count" BY <1>3, <1>23 DEF Count
  <2>2. UNCHANGED <<conf, box, reg, gen, stray>> BY <1>23 DEF Count, node, tally
  <2> QED BY <1>5, <2>1, <2>2 DEF SaveOps
<1> QED BY <1>6, <1>7, <1>8, <1>9, <1>10, <1>11, <1>12, <1>13, <1>14, <1>15, <1>16, <1>17, <1>18,
           <1>19, <1>20, <1>21, <1>22, <1>23 DEF Do

\* The steps of commands keep them fitting.
LEMMA DoFits ==
  ASSUME TypeOK, CommandsFit, NEW h \in Hosts, Do(h)
  PROVE  TypeOK' /\ CommandsFit'
<1>1. TypeOK' BY DoTypes
<1>2. Effect(h) /\ \A g \in Hosts \ {h} : Spared(g) BY DoEffect
<1>3. /\ cmd[h] # None /\ Stay(Hosts \ {h})
      /\ \/ cmd'[h] = None
         \/ Moved(h, Tail(cmd[h].todo))
         \/ Reorder(h)
         \/ Count(h) /\ Moved(h, For(None, <<"resume">>))
  BY DoMoves
<1>4. Fit(h) BY <1>3 DEF CommandsFit
<1>5. \A g \in Hosts \ {h} : cmd'[g] # None => Fit(g)' BY <1>1, <1>2, <1>3, OthersFit
<1>6. ASSUME cmd'[h] # None PROVE Fit(h)'
  <2>1. CASE Moved(h, Tail(cmd[h].todo)) BY <1>1, <1>2, <1>3, <1>4, <1>6, <2>1, FitMoves
  <2>2. CASE Reorder(h) BY <1>1, <1>6, <2>2, FitReorders
  <2>3. CASE Count(h) /\ Moved(h, For(None, <<"resume">>))
    <3>1. Op(h) = "count" /\ conf' = conf /\ gen' = gen BY <2>3 DEF Count, At, Op, tally
    <3>2. 1 \in DOMAIN cmd[h].todo /\ cmd[h].todo[1].do = "count" BY <1>3, <3>1, AtFacts DEF Now
    <3>3. cmd[h].op # "restore" BY <1>4, <3>2, RestoreOps DEF Fit
    <3> QED BY <1>1, <1>3, <1>4, <2>3, <3>1, <3>3, FitResumes
  <2> QED BY <1>3, <1>6, <2>1, <2>2, <2>3
<1>7. CommandsFit' BY <1>5, <1>6 DEF CommandsFit
<1> QED BY <1>1, <1>7

\* Once no wait for the leader is ahead, a restore has only steps for the members
\* that rejoin left.
LEMMA OnlyRejoins ==
  ASSUME NEW todo \in Seq(Steps), todo # <<>>, NEW ms, NEW b, Ranked(todo, ms, b),
         \A i \in DOMAIN todo : todo[i].do # "await"
  PROVE  \A i \in DOMAIN todo : Rank(todo[i], b) = 11
<1>1. 1 \in DOMAIN todo /\ \A i \in DOMAIN todo : i \in Nat /\ i >= 1 BY HeadRest
<1>2. \A i \in DOMAIN todo : Rank(todo[i], b) \in 1..11 BY RankRange
<1>3. \A i \in DOMAIN todo : Rank(todo[i], b) # 10 BY DEF Rank
<1>4. ~(Rank(todo[1], b) <= 10) BY <1>3 DEF Ranked
<1>5. Rank(todo[1], b) = 11 BY <1>1, <1>2, <1>4
<1>6. ASSUME NEW i \in DOMAIN todo, i # 1 PROVE Rank(todo[i], b) = 11
  <2>1. 1 < i BY <1>1, <1>6
  <2>2. Rank(todo[1], b) < Rank(todo[i], b) \/ Rank(todo[1], b) = Rank(todo[i], b)
    BY <1>1, <2>1 DEF Ranked
  <2>3. Rank(todo[i], b) \in 1..11 BY <1>2
  <2> QED BY <1>5, <2>2, <2>3
<1> QED BY <1>5, <1>6

\* A restore that fails at a member, with no wait for the leader ahead, has only
\* steps for members that rejoin left.
LEMMA Rejoining ==
  ASSUME TypeOK, CommandsFit, NEW h \in Hosts, cmd[h] # None, cmd[h].op = "restore", M(h) # None,
         \A i \in DOMAIN Tail(cmd[h].todo) : Tail(cmd[h].todo)[i].do # "await",
         NEW b \in Members, Ranked(cmd[h].todo, Mine(h), b)
  PROVE  \A i \in DOMAIN cmd[h].todo : Rank(cmd[h].todo[i], b) = 11
<1>1. /\ Fit(h) /\ cmd[h].todo \in Seq(Steps) /\ cmd[h].todo # <<>>
      /\ Op(h) = Now(h).do /\ M(h) = Now(h).for /\ 1 \in DOMAIN cmd[h].todo
  BY AtFacts
<1>2. Op(h) # "await" BY <1>1 DEF Fit, Placed, MemberOps, HomeOps, Now
<1>3. \A i \in DOMAIN cmd[h].todo :
        i = 1 \/ (i - 1 \in DOMAIN Tail(cmd[h].todo) /\ Tail(cmd[h].todo)[i - 1] = cmd[h].todo[i])
  BY <1>1, HeadRest
<1>4. \A i \in DOMAIN cmd[h].todo : cmd[h].todo[i].do # "await" BY <1>1, <1>2, <1>3 DEF Now
<1> QED BY <1>1, <1>4, OnlyRejoins

\* A command of which a step failed keeps fitting.
LEMMA FailFits ==
  ASSUME TypeOK, CommandsFit, NEW h \in Hosts, Fail(h)
  PROVE  TypeOK' /\ CommandsFit'
<1>1. /\ TypeOK' /\ cmd[h] # None /\ Stay(Hosts \ {h})
      /\ UNCHANGED <<conf, box, reg, gen>> /\ stray \subseteq stray'
      /\ After(h) = None => cmd'[h] = None
      /\ After(h) # None => Moved(h, After(h)) /\ After(h) \in Seq(Steps)
  BY FailTypes
<1>2. gen \in Nat /\ gen <= gen' BY <1>1 DEF TypeOK
<1>3. \A g \in Hosts : Spared(g) BY <1>1, <1>2 DEF Spared
<1>4. \A g \in Hosts \ {h} : cmd'[g] # None => Fit(g)' BY <1>1, <1>3, OthersFit
<1>5. /\ Fit(h) /\ cmd[h].todo \in Seq(Steps) /\ cmd[h].todo # <<>>
      /\ Op(h) = Now(h).do /\ M(h) = Now(h).for /\ 1 \in DOMAIN cmd[h].todo
  BY <1>1, AtFacts
<1>6. ASSUME cmd'[h] # None PROVE Fit(h)'
  <2>1. After(h) # None /\ Moved(h, After(h)) /\ After(h) \in Seq(Steps) BY <1>1, <1>6
  <2>2. CASE Op(h) \in Soft /\ After(h) = Tail(cmd[h].todo)
    <3>1. Op(h) \notin SaveOps /\ Op(h) \notin {"run"} BY <2>2 DEF Soft, SaveOps
    <3>2. Op(h) \in {"rmbox", "unregister"} => M(h) \in stray' BY DEF Fail
    <3>3. Op(h) = "unregisterall" => \A m \in Members : Home[m] = h /\ m \in Entry(h).members => m \in stray'
      BY DEF Fail, Local
    <3>4. Effect(h) BY <1>1, <1>2, <3>1, <3>2, <3>3 DEF Effect
    <3> QED BY <1>1, <1>5, <1>6, <2>1, <2>2, <3>4, FitMoves
  <2>3. CASE /\ cmd[h].op = "restore" /\ M(h) # None
             /\ \A i \in DOMAIN Tail(cmd[h].todo) : Tail(cmd[h].todo)[i].do # "await"
             /\ After(h) \in Seq(Range(Tail(cmd[h].todo)))
    <3>1. PICK b \in Members : Ranked(cmd[h].todo, Mine(h), b) BY <1>5, <2>3 DEF Fit
    <3>2. \A i \in DOMAIN cmd[h].todo : Rank(cmd[h].todo[i], b) = 11 BY <1>1, <2>3, <3>1, Rejoining
    <3>3. \A i \in DOMAIN Tail(cmd[h].todo) :
            i + 1 \in DOMAIN cmd[h].todo /\ Tail(cmd[h].todo)[i] = cmd[h].todo[i + 1]
      BY <1>5, HeadRest
    <3>4. PICK t : t = After(h) OBVIOUS
    <3>5. t \in Seq(Steps) /\ Moved(h, t) BY <2>1, <3>4
    <3>6. t # <<>> BY <1>6, <3>5 DEF Moved
    <3>7. \A i \in DOMAIN t : \E j \in DOMAIN cmd[h].todo :
            t[i] = cmd[h].todo[j] /\ Rank(cmd[h].todo[j], b) = 11
      <4> SUFFICES ASSUME NEW i \in DOMAIN t
                   PROVE  \E j \in DOMAIN cmd[h].todo : t[i] = cmd[h].todo[j] /\ Rank(cmd[h].todo[j], b) = 11
        OBVIOUS
      <4>1. t[i] \in Range(Tail(cmd[h].todo)) BY <2>3, <3>4
      <4>2. PICK k \in DOMAIN Tail(cmd[h].todo) : t[i] = Tail(cmd[h].todo)[k] BY <4>1 DEF Range
      <4> QED BY <3>2, <3>3, <4>2
    <3> QED BY <1>1, <1>5, <2>3, <3>1, <3>5, <3>6, <3>7, FitGivesUp
  <2>4. CASE cmd[h].op = "setup" /\ After(h) = For(None, <<"unpause">>)
    BY <1>1, <1>5, <2>1, <2>4, FitResumes
  <2> QED BY <1>1, <2>1, <2>2, <2>3, <2>4, AfterFacts
<1>7. CommandsFit' BY <1>4, <1>6 DEF CommandsFit
<1> QED BY <1>1, <1>7

\* Beginning a command keeps the others fitting.
LEMMA CommandFits ==
  ASSUME TypeOK, CommandsFit, NEW h \in Hosts, Command(h)
  PROVE  TypeOK' /\ CommandsFit'
<1>1. PICK op \in CommandOps, todo \in Seq(Steps), clean \in BOOLEAN, stale \in SUBSET Members :
        Begin(h, op, todo, clean, stale) /\ Launch(h, op, todo)
  BY CommandLaunches DEF Begins
<1> QED BY <1>1, BeginFits

\* No step breaks the types, or makes a command that does not fit.
LEMMA StepFits ==
  ASSUME TypeOK, CommandsFit, [Next]_vars
  PROVE  TypeOK' /\ CommandsFit'
<1>1. ASSUME NEW h \in Hosts, Command(h) PROVE TypeOK' /\ CommandsFit' BY <1>1, CommandFits
<1>2. ASSUME NEW h \in Hosts, Do(h) PROVE TypeOK' /\ CommandsFit' BY <1>2, DoFits
<1>3. ASSUME NEW h \in Hosts, Fail(h) PROVE TypeOK' /\ CommandsFit' BY <1>3, FailFits
<1>4. ASSUME NEW h \in Hosts, Kill(h) PROVE TypeOK' /\ CommandsFit'
  <2>1. /\ TypeOK' /\ cmd'[h] = None /\ Stay(Hosts \ {h}) /\ UNCHANGED <<conf, box, reg, gen, stray>>
    BY <1>4, KillTypes
  <2>2. gen \in Nat /\ gen <= gen' BY <2>1 DEF TypeOK
  <2>3. \A g \in Hosts \ {h} : Spared(g) BY <2>1, <2>2 DEF Spared
  <2>4. \A g \in Hosts \ {h} : cmd'[g] # None => Fit(g)' BY <2>1, <2>3, OthersFit
  <2> QED BY <2>1, <2>4 DEF CommandsFit
<1>5. ASSUME NEW m \in Members, Die(m) PROVE TypeOK' /\ CommandsFit'
  <2>1. /\ TypeOK' /\ Stay(Hosts) /\ UNCHANGED <<conf, dcs, reg, gen, hist>>
        /\ \A x \in Members : box[x] = "none" <=> box'[x] = "none"
    BY <1>5, DieTypes
  <2>2. gen \in Nat /\ gen <= gen' BY <2>1 DEF TypeOK
  <2>3. \A g \in Hosts : Spared(g) BY <2>1, <2>2 DEF Spared, hist
  <2>4. \A g \in Hosts : cmd'[g] # None => Fit(g)' BY <2>1, <2>3, OthersFit
  <2> QED BY <2>1, <2>4 DEF CommandsFit
<1>6. CASE Patroni
  <2>1. /\ TypeOK' /\ UNCHANGED <<conf, box, reg, cmd, begun, faults, hist>> /\ gen <= gen'
    BY <1>6, PatroniTypes
  <2>2. Stay(Hosts) BY <2>1, SameStays DEF TypeOK, CmdType
  <2>3. \A g \in Hosts : Spared(g) BY <2>1 DEF Spared, hist
  <2>4. \A g \in Hosts : cmd'[g] # None => Fit(g)' BY <2>1, <2>2, <2>3, OthersFit
  <2> QED BY <2>1, <2>4 DEF CommandsFit
<1>7. CASE UNCHANGED vars
  <2>1. TypeOK' BY <1>7 DEF vars, node, tally, hist, TypeOK, Up
  <2>2. Stay(Hosts) BY <1>7, SameStays DEF TypeOK, CmdType, vars
  <2>3. gen \in Nat /\ gen <= gen' BY <1>7 DEF TypeOK, vars, tally
  <2>4. \A g \in Hosts : Spared(g) BY <1>7, <2>3 DEF Spared, vars, node, hist
  <2>5. \A g \in Hosts : cmd'[g] # None => Fit(g)' BY <2>1, <2>2, <2>4, OthersFit
  <2> QED BY <2>1, <2>5 DEF CommandsFit
<1> QED BY <1>1, <1>2, <1>3, <1>4, <1>5, <1>6, <1>7 DEF Next

\* A cluster that runs, without a command, is well typed.
LEMMA InitFits ==
  ASSUME Init
  PROVE  TypeOK /\ CommandsFit
<1>1. PICK first \in Members :
        /\ conf = [h \in Hosts |-> [members |-> Local(h, Members), exts |-> FALSE]]
        /\ role = [m \in Members |-> IF m = first THEN "primary" ELSE "replica"]
        /\ dcs = [set |-> TRUE, leader |-> first, pause |-> FALSE]
  BY DEF Init
<1>2. cmd = [h \in Hosts |-> None] BY DEF Init
<1>3. /\ box = [m \in Members |-> "up"] /\ yml = [m \in Members |-> "plain"] /\ live = yml
      /\ data = [m \in Members |-> 1] /\ reg = Members /\ gen = 1 /\ begun = 0 /\ restored = {}
      /\ faults = 0 /\ cut = FALSE /\ held = FALSE /\ stray = {}
  BY DEF Init
<1>4. 1 \in 1..MaxGen /\ 0 \in 0..MaxCommands /\ 0 \in 0..MaxFaults BY ClusterAssumption
<1>5. conf \in [Hosts -> Scopes \cup {None}] BY <1>1 DEF Scopes, Local
<1>6. /\ dcs \in [set : BOOLEAN, leader : Members \cup {None}, pause : BOOLEAN]
      /\ dcs.leader # None \/ dcs.pause => dcs.set
  BY <1>1
<1> QED BY <1>1, <1>2, <1>3, <1>4, <1>5, <1>6 DEF TypeOK, CommandsFit, Up

\* What every later theorem stands on.
LEMMA Fitting == Spec => [](TypeOK /\ CommandsFit)
<1>1. Init => TypeOK /\ CommandsFit BY InitFits
<1>2. TypeOK /\ CommandsFit /\ [Next]_vars => (TypeOK /\ CommandsFit)' BY StepFits
<1> QED BY <1>1, <1>2, PTL DEF Spec

\* Every behaviour keeps the types: only a running container has a role, and the
\* leader's key and the pause need the identity of the cluster in the DCS.
THEOREM TypeCorrect == Spec => []TypeOK
<1> QED BY Fitting, PTL

-----------------------------------------------------------------------------
(* Who a container and a registration belong to *)

\* Steps of no command spare every host.
LEMMA OthersSpare ==
  ASSUME TypeOK, CommandsFit, [Next]_vars, \A h \in Hosts : ~Do(h)
  PROVE  \A g \in Hosts : Spared(g)
<1>1. gen \in Nat /\ gen <= gen BY DEF TypeOK
<1>2. ASSUME NEW h \in Hosts, Command(h) PROVE \A g \in Hosts : Spared(g)
  <2>1. PICK op \in CommandOps, todo \in Seq(Steps), clean \in BOOLEAN, stale \in SUBSET Members :
          Begin(h, op, todo, clean, stale)
    BY <1>2, CommandLaunches DEF Begins
  <2>2. UNCHANGED <<conf, node, reg, gen, hist>> BY <2>1 DEF Begin
  <2> QED BY <1>1, <2>2 DEF Spared, node, hist
<1>3. ASSUME NEW h \in Hosts, Fail(h) PROVE \A g \in Hosts : Spared(g)
  <2>1. UNCHANGED <<conf, box, reg, gen>> /\ stray \subseteq stray' BY <1>3, FailTypes
  <2> QED BY <1>1, <2>1 DEF Spared
<1>4. ASSUME NEW h \in Hosts, Kill(h) PROVE \A g \in Hosts : Spared(g)
  <2>1. UNCHANGED <<conf, box, reg, gen, stray>> BY <1>4, KillTypes
  <2> QED BY <1>1, <2>1 DEF Spared
<1>5. ASSUME NEW m \in Members, Die(m) PROVE \A g \in Hosts : Spared(g)
  <2>1. UNCHANGED <<conf, reg, gen, hist>> /\ \A x \in Members : box[x] = "none" <=> box'[x] = "none"
    BY <1>5, DieTypes
  <2> QED BY <1>1, <2>1 DEF Spared, hist
<1>6. CASE Patroni
  <2>1. UNCHANGED <<conf, box, reg, hist>> /\ gen <= gen' BY <1>6, PatroniTypes
  <2> QED BY <2>1 DEF Spared, hist
<1>7. CASE UNCHANGED vars BY <1>1, <1>7 DEF vars, node, tally, hist, Spared
<1> QED BY <1>2, <1>3, <1>4, <1>5, <1>6, <1>7 DEF Next

\* The members of a host that is spared stay owned.
LEMMA SparedOwned ==
  ASSUME MemberOwned, NEW m \in Members, Spared(Home[m]), box'[m] # "none" \/ m \in reg'
  PROVE  m \in Known(Home[m])' \/ m \in stray'
<1>1. box[m] # "none" \/ m \in reg BY DEF Spared
<1>2. m \in Known(Home[m]) \/ m \in stray BY <1>1 DEF MemberOwned
<1>3. Known(Home[m])' = Known(Home[m]) BY DEF Known, Spared
<1> QED BY <1>2, <1>3 DEF Spared

\* A step of a command leaves the members of its host owned: what it makes is for
\* a listed member, and what it takes out of pg.yaml is gone already.
LEMMA DoOwned ==
  ASSUME TypeOK, CommandsFit, MemberOwned, NEW h \in Hosts, Do(h), NEW m \in Members, Home[m] = h,
         box'[m] # "none" \/ m \in reg'
  PROVE  m \in Known(h)' \/ m \in stray'
<1>1. Effect(h) BY DoEffect
<1>2. cmd[h] # None BY DoMoves
<1>3. /\ Fit(h) /\ 1 \in DOMAIN cmd[h].todo /\ Op(h) = Now(h).do /\ M(h) = Now(h).for
      /\ cmd[h].todo \in Seq(Steps) /\ Entry(h) \in Scopes
  BY <1>2, AtFacts
<1>4. \A i \in DOMAIN cmd[h].todo : ~(i < 1) BY <1>3, HeadRest
<1>5. CASE m \in stray BY <1>1, <1>5 DEF Effect
<1>6. CASE conf'[h] = conf[h] /\ m \notin stray
  <2>1. Known(h)' = Known(h) BY <1>6 DEF Known
  <2>2. CASE box[m] # "none" \/ m \in reg BY <1>6, <2>1, <2>2 DEF MemberOwned
  <2>3. CASE ~(box[m] # "none" \/ m \in reg)
    <3>1. Op(h) \in Builds /\ M(h) = m BY <1>1, <2>3 DEF Effect, Builds
    <3>2. m \in Known(h)
      <4>1. PICK todo \in Seq(Steps) : todo = cmd[h].todo BY <1>3
      <4>2. Backed(h, todo) /\ 1 \in DOMAIN todo /\ todo[1].do \in Builds /\ todo[1].for = m
        BY <1>3, <3>1, <4>1 DEF Fit, Now
      <4>3. \/ todo[1].for \in Known(h)
            \/ \E j \in DOMAIN todo : j < 1 /\ todo[j].do = "enter" /\ todo[j].for = todo[1].for
        BY <4>2 DEF Backed
      <4> QED BY <1>4, <4>1, <4>2, <4>3
    <3> QED BY <2>1, <3>2
  <2> QED BY <2>2, <2>3
<1>7. CASE conf'[h] = Saved(h) /\ Op(h) \in SaveOps /\ m \notin stray
  <2>1. box[m] # "none" \/ m \in reg BY <1>1, <1>7 DEF Effect, SaveOps
  <2>2. m \in Known(h) BY <1>7, <2>1 DEF MemberOwned
  <2>3. cmd[h].seen = conf[h] BY <1>3, <1>7 DEF Fit, Fresh, Has, Now
  <2>4. Entry(h).members = Known(h) BY <2>3 DEF Entry, Known
  <2>5. m \in Own(h) BY <2>2 DEF Own, Local
  <2>6. ~BoxGone(cmd[h].todo, 1, m) \/ ~RegGone(h, cmd[h].todo, 1, m)
    BY <1>4, <1>7, <2>1 DEF BoxGone, RegGone
  <2>7. Op(h) # "forget" BY <1>3, <2>5, <2>6 DEF Fit, Emptied, Now
  <2>8. Op(h) \in {"leave", "leaveremote"} => M(h) # m
    <3>1. Op(h) = "leave" => M(h) # m BY <1>3, <2>6 DEF Fit, Emptied, Now
    <3>2. Op(h) = "leaveremote" => M(h) # m BY <1>3 DEF Fit, Placed, Now
    <3> QED BY <3>1, <3>2
  <2>9. /\ Saved(h) # None => Saved(h).members =
             IF Op(h) = "enter" THEN Entry(h).members \cup {M(h)}
             ELSE IF Op(h) \in {"leave", "leaveremote"} THEN Entry(h).members \ {M(h)}
             ELSE Entry(h).members
        /\ Op(h) \in {"enter", "leave", "record", "unrecord"} => Saved(h) # None
        /\ Op(h) = "leaveremote" /\ Saved(h) = None => Entry(h).members \ {M(h)} = {}
    BY <1>2, <1>7, SavedFacts
  <2>10. Saved(h) # None /\ m \in Saved(h).members
    BY <1>7, <2>2, <2>4, <2>7, <2>8, <2>9 DEF SaveOps
  <2> QED BY <1>7, <2>10 DEF Known
<1> QED BY <1>1, <1>5, <1>6, <1>7 DEF Effect

\* A member container and a registration belong to a member that pg.yaml of its
\* host lists, unless podman or etcd failed when the member was removed.
THEOREM Owned == Spec => []MemberOwned
<1>1. Init => MemberOwned
  <2> SUFFICES ASSUME Init, NEW m \in Members PROVE m \in Known(Home[m]) BY DEF MemberOwned
  <2>1. Home[m] \in Hosts BY ClusterAssumption
  <2>2. conf = [h \in Hosts |-> [members |-> Local(h, Members), exts |-> FALSE]] BY DEF Init
  <2>3. conf[Home[m]] = [members |-> Local(Home[m], Members), exts |-> FALSE] BY <2>1, <2>2
  <2>4. conf[Home[m]] \in Scopes BY <2>3 DEF Scopes, Local
  <2>5. conf[Home[m]] # None BY <2>4, ClusterAssumption
  <2> QED BY <2>3, <2>5 DEF Known, Local
<1>2. TypeOK /\ CommandsFit /\ MemberOwned /\ [Next]_vars => MemberOwned'
  <2> SUFFICES ASSUME TypeOK, CommandsFit, MemberOwned, [Next]_vars, NEW m \in Members,
                      box'[m] # "none" \/ m \in reg'
               PROVE  m \in Known(Home[m])' \/ m \in stray'
    BY DEF MemberOwned
  <2>1. Home[m] \in Hosts BY ClusterAssumption
  <2>2. CASE \A h \in Hosts : ~Do(h) BY <2>1, <2>2, OthersSpare, SparedOwned
  <2>3. ASSUME NEW h \in Hosts, Do(h) PROVE m \in Known(Home[m])' \/ m \in stray'
    <3>1. CASE Home[m] = h BY <2>3, <3>1, DoOwned
    <3>2. CASE Home[m] # h
      <4>1. Spared(Home[m]) BY <2>1, <2>3, <3>2, DoEffect
      <4> QED BY <4>1, SparedOwned
    <3> QED BY <3>1, <3>2
  <2> QED BY <2>2, <2>3
<1> QED BY <1>1, <1>2, Fitting, PTL DEF Spec

-----------------------------------------------------------------------------
(* Why a cluster is paused *)

\* What is behind the head is in the rest, and the other way round.
LEMMA HasTail ==
  ASSUME NEW todo \in Seq(Steps), todo # <<>>, NEW ops
  PROVE  /\ Has(Tail(todo), ops) => Has(todo, ops) /\ Tail(todo) # <<>>
         /\ Has(todo, ops) /\ todo[1].do \notin ops => Has(Tail(todo), ops)
         /\ (\E j \in DOMAIN todo : 1 < j /\ todo[j].do \in ops) => Has(Tail(todo), ops)
         /\ (\A j \in DOMAIN todo : 1 < j => todo[j].do \notin ops) => ~Has(Tail(todo), ops)
<1>1. PICK t \in Seq(Steps) : t = Tail(todo) BY HeadRest
<1>2. /\ \A i \in DOMAIN t : i \in Nat /\ i + 1 \in DOMAIN todo /\ t[i] = todo[i + 1] /\ 1 < i + 1
      /\ \A i \in DOMAIN todo : i \in Nat /\ (i = 1 \/ (i - 1 \in DOMAIN t /\ t[i - 1] = todo[i]))
  BY <1>1, HeadRest
<1>3. Has(t, ops) => t # <<>> BY DEF Has
<1>4. Has(t, ops) => Has(todo, ops) BY <1>2 DEF Has
<1>5. Has(todo, ops) /\ todo[1].do \notin ops => Has(t, ops) BY <1>2 DEF Has
<1>6. (\E j \in DOMAIN todo : 1 < j /\ todo[j].do \in ops) => Has(t, ops)
  <2> SUFFICES ASSUME NEW j \in DOMAIN todo, 1 < j, todo[j].do \in ops PROVE Has(t, ops) OBVIOUS
  <2>1. j - 1 \in DOMAIN t /\ t[j - 1] = todo[j] BY <1>2
  <2> QED BY <2>1 DEF Has
<1>7. (\A j \in DOMAIN todo : 1 < j => todo[j].do \notin ops) => ~Has(t, ops) BY <1>2 DEF Has
<1> QED BY <1>1, <1>3, <1>4, <1>5, <1>6, <1>7

\* A command that owes the end of a pause goes on owing it past any step that
\* does not end one.
LEMMA OwesOn ==
  ASSUME TypeOK, CommandsFit, NEW h \in Hosts, Owes(h), Moved(h, Tail(cmd[h].todo)), Op(h) \notin Closes
  PROVE  Owes(h)'
<1>1. /\ cmd[h].todo \in Seq(Steps) /\ cmd[h].todo # <<>> /\ Op(h) = Now(h).do
  BY AtFacts DEF Owes
<1>2. PICK t : t = Tail(cmd[h].todo) OBVIOUS
<1>3. Has(t, Closes) /\ t # <<>> BY <1>1, <1>2, HasTail DEF Owes, Now
<1>4. ~Has(t, Opens) BY <1>1, <1>2, HasTail DEF Owes
<1>5. Kept(cmd[h], cmd'[h]) /\ cmd'[h].todo = t BY <1>2, <1>3 DEF Moved
<1>6. cmd'[h] # None BY <1>5, CommandIsSome DEF Kept
<1> QED BY <1>3, <1>4, <1>5, <1>6 DEF Owes, Kept

\* So does one whose steps for the members are worked out.
LEMMA OwesReordered ==
  ASSUME TypeOK, CommandsFit, NEW h \in Hosts, Owes(h), Reorder(h)
  PROVE  Owes(h)'
<1>1. /\ cmd[h].todo \in Seq(Steps) /\ cmd[h].todo # <<>> /\ Op(h) = Now(h).do /\ CmdType
      /\ cmd[h] # None
  BY AtFacts DEF Owes
<1>2. PICK s \in Seq(Steps) :
        /\ \A i \in DOMAIN s : s[i].do \in {"yml", "rm", "run", "rejoined"} /\ s[i].for \in Own(h)
        /\ Then(h, s \o Tail(cmd[h].todo))
  BY ReorderFacts
<1>3. PICK t \in Seq(Steps) : t = Tail(cmd[h].todo) BY <1>1, HeadRest
<1>4. PICK u \in Seq(Steps) : u = s \o t BY CatFacts
<1>5. Op(h) = "order" BY DEF Reorder, At, Op
<1>6. Has(t, Closes) BY <1>1, <1>3, <1>5, HasTail, ZenonT(40) DEF Owes, Now, Closes
<1>7. ~Has(t, Opens) BY <1>1, <1>3, HasTail DEF Owes
<1>8. /\ \A i \in DOMAIN t : Len(s) + i \in DOMAIN u /\ u[Len(s) + i] = t[i]
      /\ \A i \in DOMAIN u :
           \/ i \in DOMAIN s /\ u[i] = s[i]
           \/ i > Len(s) /\ i - Len(s) \in DOMAIN t /\ u[i] = t[i - Len(s)]
  BY <1>4, CatFacts, SMTT(30)
<1>9. Has(u, Closes) BY <1>6, <1>8 DEF Has
<1>10. ~Has(u, Opens)
  <2>1. \A i \in DOMAIN u : u[i].do \notin Opens BY <1>2, <1>7, <1>8 DEF Has, Opens
  <2> QED BY <2>1 DEF Has
<1>11. u # <<>> BY <1>9 DEF Has
<1>12. Then(h, u) BY <1>2, <1>3, <1>4
<1>13. Moved(h, u) BY <1>1, <1>12, ThenMoves
<1>14. Kept(cmd[h], cmd'[h]) /\ cmd'[h].todo = u BY <1>11, <1>13 DEF Moved
<1>15. cmd'[h] # None BY <1>14, CommandIsSome DEF Kept
<1> QED BY <1>9, <1>10, <1>14, <1>15 DEF Owes, Kept

\* A command left with the end of its window only owes it.
LEMMA OwesResume ==
  ASSUME TypeOK, NEW h \in Hosts, cmd[h] # None, cmd[h].op \in PauseOps,
         NEW op \in {"resume", "unpause"}, Moved(h, For(None, <<op>>))
  PROVE  Owes(h)'
<1>1. PICK t : t = For(None, <<op>>) OBVIOUS
<1>2. t \in Seq(Steps) /\ Len(t) = 1 /\ t[1].do = op
  <2>1. op \in StepOps BY DEF StepOps
  <2> QED BY <1>1, <2>1, ForOne
<1>3. t # <<>> /\ 1 \in DOMAIN t /\ \A i \in DOMAIN t : i = 1
  <2>1. DOMAIN t = 1..1 BY ONLY <1>2
  <2> QED BY <2>1
<1>4. Has(t, Closes) /\ ~Has(t, Opens) BY <1>2, <1>3 DEF Has, Closes, Opens
<1>5. Kept(cmd[h], cmd'[h]) /\ cmd'[h].todo = t BY <1>1, <1>3 DEF Moved
<1>6. cmd'[h] # None BY <1>5, CommandIsSome DEF Kept
<1> QED BY <1>4, <1>5, <1>6 DEF Owes, Kept

\* A step of the command of host h does not end the explanation of a pause that
\* stays, and explains one that it makes.
LEMMA DoPauses ==
  ASSUME TypeOK, CommandsFit, NEW h \in Hosts, Do(h), dcs'.pause
  PROVE  /\ dcs.pause /\ held => held'
         /\ cut => cut'
         /\ ~dcs.pause => held' \/ Owes(h)'
<1>1. /\ cmd[h] # None /\ cmd[h] \in Commands /\ Fit(h) /\ cmd[h].todo \in Seq(Steps) /\ cmd[h].todo # <<>>
      /\ Op(h) = Now(h).do /\ 1 \in DOMAIN cmd[h].todo
  BY DoMoves, AtFacts
<1>2. CASE dcs' = dcs /\ UNCHANGED hist BY <1>2 DEF hist
<1>3. CASE Pause(h)
  <2>1. UNCHANGED cut /\ (held => held') BY <1>3 DEF Pause, TypeOK
  <2>2. ASSUME ~dcs.pause PROVE held' \/ Owes(h)'
    <3>1. Accessible /\ held' = (held \/ cmd[h].op = "pause") BY <1>3, <2>2 DEF Pause
    <3>2. Op(h) \in Opens BY <1>3 DEF Pause, At, Op, Opens
    <3>3. /\ \/ cmd[h].op = "pause"
             \/ cmd[h].op \in PauseOps /\ \E j \in DOMAIN cmd[h].todo : 1 < j /\ cmd[h].todo[j].do \in Closes
          /\ \A j \in DOMAIN cmd[h].todo : 1 < j => cmd[h].todo[j].do \notin Opens
      BY <1>1, <3>2 DEF Fit, Window, Now
    <3>4. CASE cmd[h].op = "pause" BY <3>1, <3>4
    <3>5. CASE cmd[h].op # "pause"
      <4>1. PICK t : t = Tail(cmd[h].todo) OBVIOUS
      <4>2. Has(t, Closes) /\ t # <<>> /\ ~Has(t, Opens) /\ cmd[h].op \in PauseOps
        BY <1>1, <3>3, <3>5, <4>1, HasTail
      <4>3. cmd' = [cmd EXCEPT ![h] = Rest(Doubts(cmd[h], Op(h) = "freeze" /\ Unfrozen(h)), t)]
        BY <1>3, <3>1, <4>1 DEF Pause, TypeOK
      <4>4. PICK d : d = Doubts(cmd[h], Op(h) = "freeze" /\ Unfrozen(h)) OBVIOUS
      <4>5. d \in Commands /\ d.op = cmd[h].op BY <1>1, <4>4, DoubtsFacts DEF Kept
      <4>6. t \in Seq(Steps) BY <1>1, <4>1, HeadRest
      <4>7. Rest(d, t) \in Commands /\ Rest(d, t).todo = t /\ Rest(d, t).op = d.op
        BY <4>2, <4>5, <4>6, RestFacts DEF Kept
      <4>8. cmd'[h] = Rest(d, t) BY <4>3, <4>4 DEF TypeOK
      <4>9. cmd'[h] # None BY <4>7, <4>8, CommandIsSome
      <4> QED BY <4>2, <4>5, <4>7, <4>8, <4>9 DEF Owes
    <3> QED BY <3>4, <3>5
  <2> QED BY <2>1, <2>2
<1>4. CASE Resume(h)
  <2>1. dcs' = dcs /\ held' = held /\ (cut => cut')
    <3>1. Accessible => dcs'.pause = FALSE BY <1>4 DEF Resume, TypeOK
    <3> QED BY <1>4, <3>1 DEF Resume
  <2> QED BY <2>1
<1>5. CASE Switch(h)
  <2>1. UNCHANGED hist /\ dcs'.pause = dcs.pause BY <1>5 DEF Switch, TypeOK
  <2> QED BY <2>1 DEF hist
<1>6. CASE Clear(h)
  <2>1. dcs' # NoCluster BY DEF NoCluster
  <2>2. dcs' = dcs /\ held' = held /\ (cut => cut') BY <1>6, <2>1 DEF Clear
  <2> QED BY <2>2
<1>7. CASE Count(h)
  <2>1. dcs' = dcs /\ (held => held') /\ cut' = cut BY <1>7 DEF Count
  <2> QED BY <2>1
<1> QED BY <1>2, <1>3, <1>4, <1>5, <1>6, <1>7
        DEF Do, Save, WriteYml, Wipe, Halt, Rm, Run, StartMember, Register, Ask, List, Await, Reorder,
            Rejoined

\* A command that owes the end of a pause ends it, or says that it could not, or
\* leaves the pause for other hosts, or still owes it.
LEMMA DoOwes ==
  ASSUME TypeOK, CommandsFit, NEW h \in Hosts, Do(h), dcs'.pause, Owes(h)
  PROVE  held' \/ cut' \/ Owes(h)'
<1>1. /\ cmd[h] # None /\ Fit(h) /\ cmd[h].todo \in Seq(Steps) /\ cmd[h].todo # <<>>
      /\ Op(h) = Now(h).do /\ 1 \in DOMAIN cmd[h].todo /\ CmdType
  BY DoMoves, AtFacts
<1>2. Op(h) \notin Opens /\ cmd[h].op \in PauseOps BY <1>1 DEF Owes, Has, Now
<1>3. Op(h) # "start" /\ Op(h) # "ask"
  <2>1. Window(cmd[h].op, cmd[h].todo) BY <1>1 DEF Fit
  <2> QED BY <1>1, <1>2, <2>1 DEF Owes, Window, Has, Now
<1>4. cmd[h].op = "restore" => Op(h) \notin {"resume", "unpause", "count"}
  BY <1>1, RestoreOps DEF Fit, Now
<1>5. \A ops : At(h, ops) => Op(h) \in ops BY DEF At, Op
<1>6. CASE Resume(h)
  <2>1. ~Accessible
    <3>1. Accessible => dcs'.pause = FALSE BY <1>6 DEF Resume, TypeOK
    <3> QED BY <3>1
  <2>2. cmd[h].op \in {"setup", "extension"}
    <3>1. Op(h) \in {"resume", "unpause"} BY <1>5, <1>6 DEF Resume
    <3> QED BY <1>2, <1>4, <3>1 DEF PauseOps
  <2> QED BY <1>6, <2>1, <2>2 DEF Resume
<1>7. CASE Clear(h)
  <2>1. dcs' # NoCluster BY DEF NoCluster
  <2>2. cut' = (cut \/ Op(h) = "clear") BY <1>7, <2>1 DEF Clear
  <2>3. CASE Op(h) = "clear" BY <2>2, <2>3
  <2>4. CASE Op(h) # "clear"
    <3>1. Op(h) = "softclear" BY <1>5, <1>7, <2>4 DEF Clear
    <3>2. Skip(h) BY <1>7, <2>1, <2>4 DEF Clear
    <3>3. Moved(h, Tail(cmd[h].todo)) BY <1>1, <3>2, SkipMoves
    <3> QED BY <3>1, <3>3, OwesOn DEF Closes
  <2> QED BY <2>3, <2>4
<1>8. CASE Count(h)
  <2>1. CASE held' BY <2>1
  <2>2. CASE ~held'
    <3>1. Then(h, For(None, <<"resume">>)) BY <1>8, <2>2 DEF Count
    <3>2. For(None, <<"resume">>) \in Seq(Steps)
      <4>1. "resume" \in StepOps BY DEF StepOps
      <4> QED BY <4>1, ForOne
    <3>3. Moved(h, For(None, <<"resume">>)) BY <1>1, <3>1, <3>2, ThenMoves
    <3> QED BY <1>1, <1>2, <3>3, OwesResume
  <2> QED BY <2>1, <2>2
<1>9. CASE Reorder(h) BY <1>9, OwesReordered
<1>10. ASSUME Moved(h, Tail(cmd[h].todo)), Op(h) \notin Closes PROVE Owes(h)'
  BY <1>10, OwesOn
<1>11. CASE Skip(h) /\ Op(h) \notin Closes BY <1>1, <1>10, <1>11, SkipMoves
<1>12. CASE SkipLoud(h) /\ Op(h) \notin Closes BY <1>1, <1>10, <1>12, SkipLoudMoves
<1>13. CASE List(h)
  <2>1. Op(h) \notin Closes BY <1>5, <1>13 DEF List, Closes
  <2>2. PICK t, d : t = Tail(cmd[h].todo) /\ d = [cmd[h] EXCEPT !.led = Listed] OBVIOUS
  <2>3. Moved(h, Tail(cmd[h].todo))
    <3>1. Listed \in Members \cup {None} BY DEF Listed, TypeOK
    <3>2. cmd[h] \in Commands /\ t \in Seq(Steps) BY <1>1, <2>2, HeadRest DEF CmdType
    <3>3. d \in Commands /\ Kept(cmd[h], d) BY <2>2, <3>1, <3>2 DEF Commands, Kept
    <3>4. cmd'[h] = Rest(d, t) BY <1>1, <1>13, <2>2 DEF List, CmdType
    <3>5. /\ t = <<>> => Rest(d, t) = None
          /\ t # <<>> => Kept(d, Rest(d, t)) /\ Rest(d, t).todo = t
      BY <3>2, <3>3, RestFacts
    <3>6. Moved(h, t) BY <3>3, <3>4, <3>5 DEF Moved, Kept
    <3> QED BY <2>2, <3>6
  <2> QED BY <1>10, <2>1, <2>3
<1>14. CASE Save(h) BY <1>5, <1>11, <1>14 DEF Save, Closes
<1>15. CASE WriteYml(h) BY <1>5, <1>11, <1>15 DEF WriteYml, Closes
<1>16. CASE Wipe(h) BY <1>5, <1>12, <1>16 DEF Wipe, Closes
<1>17. CASE Halt(h) BY <1>5, <1>11, <1>17 DEF Halt, Closes
<1>18. CASE Rm(h) BY <1>5, <1>11, <1>18 DEF Rm, Closes
<1>19. CASE Run(h) BY <1>5, <1>12, <1>19 DEF Run, Closes
<1>20. CASE Register(h) BY <1>5, <1>11, <1>20 DEF Register, Closes
<1>21. CASE Switch(h) BY <1>5, <1>12, <1>21 DEF Switch, Closes
<1>22. CASE Await(h) BY <1>5, <1>11, <1>22 DEF Await, Closes
<1>23. CASE Rejoined(h) BY <1>5, <1>11, <1>23 DEF Rejoined, Closes
<1>24. ~StartMember(h) /\ ~Ask(h) /\ ~Pause(h)
  BY <1>2, <1>3, <1>5 DEF StartMember, Ask, Pause, Opens
<1> QED BY <1>6, <1>7, <1>8, <1>9, <1>13, <1>14, <1>15, <1>16, <1>17, <1>18, <1>19, <1>20, <1>21,
           <1>22, <1>23, <1>24 DEF Do

\* A command that owes the end of a pause, and of which a step fails, still owes
\* it or is recorded as cut off.
LEMMA FailOwes ==
  ASSUME TypeOK, CommandsFit, NEW h \in Hosts, Fail(h), Owes(h)
  PROVE  cut' \/ Owes(h)'
<1>1. /\ cmd[h] # None /\ Fit(h) /\ cmd[h].todo \in Seq(Steps) /\ cmd[h].todo # <<>>
      /\ Op(h) = Now(h).do /\ M(h) = Now(h).for /\ 1 \in DOMAIN cmd[h].todo
  BY AtFacts DEF Owes
<1>2. cmd[h].op \in PauseOps BY DEF Owes
<1>3. CASE After(h) = None BY <1>2, <1>3 DEF Fail, Pauses, PauseOps
<1>4. CASE After(h) # None
  <2>1. Moved(h, After(h)) BY <1>4, FailTypes
  <2>2. CASE Op(h) \in Soft /\ After(h) = Tail(cmd[h].todo)
    <3>1. Op(h) \notin Closes BY <2>2 DEF Soft, Closes
    <3> QED BY <2>1, <2>2, <3>1, OwesOn
  <2>3. CASE /\ cmd[h].op = "restore" /\ M(h) # None
             /\ \A i \in DOMAIN Tail(cmd[h].todo) : Tail(cmd[h].todo)[i].do # "await"
    <3>1. PICK b \in Members : Ranked(cmd[h].todo, Mine(h), b) BY <1>1, <2>3 DEF Fit
    <3>2. \A i \in DOMAIN cmd[h].todo : Rank(cmd[h].todo[i], b) = 11
      BY <1>1, <2>3, <3>1, Rejoining
    <3>3. \A i \in DOMAIN cmd[h].todo : cmd[h].todo[i].do \in RejoinOps BY <3>1, <3>2 DEF Ranked
    <3>4. ~Has(cmd[h].todo, Closes) BY <3>3 DEF Has, RejoinOps, Closes
    <3> QED BY <3>4 DEF Owes
  <2>4. CASE cmd[h].op = "setup" /\ After(h) = For(None, <<"unpause">>)
    BY <1>1, <1>2, <2>1, <2>4, OwesResume
  <2> QED BY <1>1, <1>4, <2>2, <2>3, <2>4, AfterFacts
<1> QED BY <1>3, <1>4

\* The commands of the hosts that a step leaves alone owe what they owed.
LEMMA StayOwes ==
  ASSUME NEW hs, Stay(hs), NEW g \in hs, Owes(g)
  PROVE  Owes(g)'
<1>1. Kept(cmd[g], cmd'[g]) /\ cmd'[g].todo = cmd[g].todo BY DEF Stay, Owes
<1>2. cmd'[g] # None BY <1>1, CommandIsSome DEF Kept
<1> QED BY <1>1, <1>2 DEF Owes, Kept

\* No step leaves a pause unexplained.
LEMMA StepOwes ==
  ASSUME TypeOK, CommandsFit, PauseOwed, [Next]_vars, dcs'.pause
  PROVE  held' \/ cut' \/ \E g \in Hosts : Owes(g)'
<1>1. ASSUME NEW hs \in SUBSET Hosts, Stay(hs), NEW g \in hs, Owes(g) PROVE \E x \in Hosts : Owes(x)'
  BY <1>1, StayOwes
<1>2. ASSUME NEW h \in Hosts, Do(h) PROVE held' \/ cut' \/ \E g \in Hosts : Owes(g)'
  <2>1. Stay(Hosts \ {h}) BY <1>2, DoMoves
  <2>2. /\ dcs.pause /\ held => held'
        /\ cut => cut'
        /\ ~dcs.pause => held' \/ Owes(h)'
    BY <1>2, DoPauses
  <2>3. ASSUME NEW g \in Hosts, Owes(g) PROVE held' \/ cut' \/ \E x \in Hosts : Owes(x)'
    <3>1. CASE g = h BY <1>2, <2>3, <3>1, DoOwes
    <3>2. CASE g # h BY <1>1, <2>1, <2>3, <3>2
    <3> QED BY <3>1, <3>2
  <2> QED BY <2>2, <2>3 DEF PauseOwed
<1>3. ASSUME NEW h \in Hosts, Fail(h) PROVE held' \/ cut' \/ \E g \in Hosts : Owes(g)'
  <2>1. Stay(Hosts \ {h}) BY <1>3, FailTypes
  <2>2. dcs' = dcs /\ held' = held /\ (cut => cut') BY <1>3 DEF Fail
  <2>3. ASSUME NEW g \in Hosts, Owes(g) PROVE held' \/ cut' \/ \E x \in Hosts : Owes(x)'
    <3>1. CASE g = h BY <1>3, <2>3, <3>1, FailOwes
    <3>2. CASE g # h BY <1>1, <2>1, <2>3, <3>2
    <3> QED BY <3>1, <3>2
  <2> QED BY <2>2, <2>3 DEF PauseOwed
<1>4. ASSUME NEW h \in Hosts, Kill(h) PROVE held' \/ cut' \/ \E g \in Hosts : Owes(g)'
  <2>1. Stay(Hosts \ {h}) /\ dcs' = dcs /\ held' = held /\ cut' = (cut \/ Pauses(cmd[h]))
    BY <1>4, KillTypes
  <2>2. ASSUME NEW g \in Hosts, Owes(g) PROVE held' \/ cut' \/ \E x \in Hosts : Owes(x)'
    <3>1. CASE g = h BY <2>1, <2>2, <3>1 DEF Owes, Pauses, PauseOps
    <3>2. CASE g # h BY <1>1, <2>1, <2>2, <3>2
    <3> QED BY <3>1, <3>2
  <2> QED BY <2>1, <2>2 DEF PauseOwed
<1>5. ASSUME NEW h \in Hosts, Command(h) PROVE held' \/ cut' \/ \E g \in Hosts : Owes(g)'
  <2>1. PICK op \in CommandOps, todo \in Seq(Steps), clean \in BOOLEAN, stale \in SUBSET Members :
          Begin(h, op, todo, clean, stale) /\ Launch(h, op, todo)
    BY <1>5, CommandLaunches DEF Begins
  <2>2. Stay(Hosts \ {h}) /\ cmd[h] = None BY <2>1, BeginFits, ZenonT(40)
  <2>3. UNCHANGED <<dcs, hist>> BY <2>1 DEF Begin
  <2>4. \A g \in Hosts : Owes(g) => g \in Hosts \ {h} BY <2>2 DEF Owes
  <2>5. ASSUME NEW g \in Hosts, Owes(g) PROVE \E x \in Hosts : Owes(x)' BY <1>1, <2>2, <2>4, <2>5
  <2> QED BY <2>3, <2>5 DEF PauseOwed, hist
<1>6. ASSUME Stay(Hosts), dcs'.pause => dcs.pause, UNCHANGED hist
      PROVE  held' \/ cut' \/ \E g \in Hosts : Owes(g)'
  BY <1>1, <1>6 DEF PauseOwed, hist
<1>7. ASSUME NEW m \in Members, Die(m) PROVE held' \/ cut' \/ \E g \in Hosts : Owes(g)'
  BY <1>6, <1>7, DieTypes
<1>8. CASE Patroni
  <2>1. UNCHANGED <<cmd, hist>> BY <1>8, PatroniTypes
  <2>2. Stay(Hosts) BY <2>1, SameStays DEF TypeOK, CmdType
  <2>3. dcs'.pause => dcs.pause
    BY <1>8 DEF Patroni, Bootstrap, Follow, Standby, Claim, Expire, TypeOK
  <2> QED BY <1>6, <2>1, <2>2, <2>3
<1>9. CASE UNCHANGED vars
  <2>1. Stay(Hosts) BY <1>9, SameStays DEF TypeOK, CmdType, vars
  <2> QED BY <1>6, <1>9, <2>1 DEF vars
<1> QED BY <1>2, <1>3, <1>4, <1>5, <1>7, <1>8, <1>9 DEF Next

\* Whoever finds the cluster paused can tell why: a command that pauses is still
\* running, or the pause was left on purpose, or such a command was cut off.
THEOREM Explained == Spec => []PauseExplained
<1>1. Init => PauseOwed BY DEF Init, PauseOwed
<1>2. TypeOK /\ CommandsFit /\ PauseOwed /\ [Next]_vars => PauseOwed'
  <2> SUFFICES ASSUME TypeOK, CommandsFit, PauseOwed, [Next]_vars, dcs'.pause
               PROVE  held' \/ cut' \/ \E g \in Hosts : Owes(g)'
    BY DEF PauseOwed
  <2> QED BY StepOwes
<1>3. PauseOwed => PauseExplained BY DEF PauseOwed, PauseExplained, Owes, Pauses, PauseOps
<1> QED BY <1>1, <1>2, <1>3, Fitting, PTL DEF Spec

-----------------------------------------------------------------------------
(* A restore that nothing crosses *)

\* What runs in a host has a database.
LEMMA RunsStep ==
  ASSUME TypeOK, CommandsFit, RunsOnData, [Next]_vars
  PROVE  RunsOnData'
<1>1. \A m \in Members : role[m] # "none" => data[m] # None BY DEF RunsOnData
<1>2. CASE UNCHANGED <<role, data>> BY <1>1, <1>2 DEF RunsOnData
<1>3. ASSUME NEW m \in Members, Down(m), data' = data PROVE RunsOnData'
  BY <1>1, <1>3 DEF RunsOnData, Down, TypeOK
<1>4. ASSUME NEW h \in Hosts, Do(h) PROVE RunsOnData'
  <2>1. cmd[h] # None BY <1>4, DoMoves
  <2>2. Op(h) \in MemberOps => M(h) \in Members BY <2>1, AtFacts
  <2>3. \A ops : At(h, ops) => Op(h) \in ops BY DEF At, Op
  <2>4. CASE Wipe(h)
    <3>1. M(h) \in Members BY <2>2, <2>3, <2>4 DEF Wipe, MemberOps, HomeOps
    <3> QED BY <1>1, <2>4, <3>1 DEF Wipe, RunsOnData, TypeOK
  <2>5. CASE Halt(h)
    <3>1. M(h) \in Members BY <2>2, <2>3, <2>5 DEF Halt, MemberOps, HomeOps
    <3> QED BY <1>3, <2>5, <3>1 DEF Halt
  <2>6. CASE Rm(h)
    <3>1. M(h) \in Members BY <2>2, <2>3, <2>6 DEF Rm, MemberOps, HomeOps
    <3> QED BY <1>1, <2>6, <3>1 DEF Rm, RunsOnData, TypeOK
  <2>7. CASE Switch(h)
    <3>1. data' = data BY <2>7 DEF Switch
    <3>2. CASE UNCHANGED <<dcs, role>> BY <1>1, <3>1, <3>2 DEF RunsOnData
    <3>3. CASE ~UNCHANGED <<dcs, role>>
      <4>1. PICK c \in Members :
              /\ role[c] = "replica"
              /\ role' = [m \in Members |-> IF m = c THEN "primary"
                                            ELSE IF m = Leader /\ Leads(m) THEN "replica"
                                            ELSE role[m]]
        BY <2>7, <3>3 DEF Switch
      <4>2. \A m \in Members : Leads(m) => role[m] # "none" BY DEF Leads
      <4> QED BY <1>1, <3>1, <4>1, <4>2 DEF RunsOnData
    <3> QED BY <3>2, <3>3
  <2> QED BY <1>2, <1>4, <2>4, <2>5, <2>6, <2>7
          DEF Do, Save, WriteYml, Run, StartMember, Register, Ask, Pause, Resume, List, Clear, Await,
              Reorder, Rejoined, Count, node
<1>5. CASE Patroni
  <2>1. ASSUME NEW m \in Members, Bootstrap(m) PROVE RunsOnData'
    <3>1. gen + 1 # None
      <4>1. gen + 1 \in Nat BY DEF TypeOK
      <4> QED BY <4>1, ClusterAssumption
    <3> QED BY <1>1, <2>1, <3>1 DEF Bootstrap, RunsOnData, TypeOK
  <2>2. ASSUME NEW m \in Members, Follow(m) PROVE RunsOnData'
    <3>1. Leader \in Members /\ data[Leader] # None
      BY <1>1, <2>2 DEF Follow, Leads, Leader, TypeOK
    <3> QED BY <1>1, <2>2, <3>1 DEF Follow, RunsOnData, TypeOK
  <2>3. ASSUME NEW m \in Members, Standby(m) PROVE RunsOnData'
    BY <1>1, <2>3 DEF Standby, RunsOnData, TypeOK
  <2>4. ASSUME NEW m \in Members, Claim(m) PROVE RunsOnData'
    BY <1>1, <2>4 DEF Claim, RunsOnData, TypeOK
  <2> QED BY <1>2, <1>5, <2>1, <2>2, <2>3, <2>4 DEF Patroni, Expire, node
<1>6. ASSUME NEW h \in Hosts, Command(h) PROVE RunsOnData'
  <2>1. PICK op \in CommandOps, todo \in Seq(Steps), clean \in BOOLEAN, stale \in SUBSET Members :
          Begin(h, op, todo, clean, stale)
    BY <1>6, CommandLaunches DEF Begins
  <2> QED BY <1>2, <2>1 DEF Begin, node
<1>7. ASSUME NEW h \in Hosts, Fail(h) \/ Kill(h) PROVE RunsOnData' BY <1>2, <1>7 DEF Fail, Kill, node
<1>8. ASSUME NEW m \in Members, Die(m) PROVE RunsOnData' BY <1>3, <1>8 DEF Die
<1>9. CASE UNCHANGED vars BY <1>2, <1>9 DEF vars, node
<1> QED BY <1>4, <1>5, <1>6, <1>7, <1>8, <1>9 DEF Next

\* The next step of a restore has the next rank; several steps have the ranks 3
\* and 11.
LEMMA NextRank ==
  ASSUME NEW todo \in Seq(Steps), NEW ms, NEW b, Ranked(todo, ms, b), todo # <<>>, Tail(todo) # <<>>
  PROVE  LET r == Rank(todo[1], b)
             q == Rank(Tail(todo)[1], b)
         IN  /\ q = r + 1 \/ (q = r /\ r \in {3, 11})
             /\ r \in 1..11
<1> DEFINE t == Tail(todo)
           r == Rank(todo[1], b)
           q == Rank(t[1], b)
<1>1. /\ 1 \in DOMAIN todo /\ 2 \in DOMAIN todo /\ t[1] = todo[2]
      /\ \A i \in DOMAIN todo : i \in Nat /\ (i = 1 \/ i = 2 \/ 2 < i)
  BY HeadRest
<1>2. r \in 1..11 /\ q \in 1..11 /\ \A i \in DOMAIN todo : Rank(todo[i], b) \in 1..11 BY RankRange
<1> HIDE DEF t
<1>3. r < q \/ (r = q /\ r \in {3, 11})
  <2>1. Rank(todo[1], b) < Rank(todo[2], b) \/ (Rank(todo[1], b) = Rank(todo[2], b) /\ Rank(todo[1], b) \in {3, 11})
    BY <1>1 DEF Ranked
  <2> QED BY <1>1, <2>1
<1>4. ASSUME NEW i \in DOMAIN todo, i # 1 PROVE q <= Rank(todo[i], b)
  <2>1. CASE i = 2 BY <1>1, <1>2, <2>1
  <2>2. CASE 2 < i
    <3>1. Rank(todo[2], b) < Rank(todo[i], b) \/ Rank(todo[2], b) = Rank(todo[i], b)
      BY <1>1, <2>2 DEF Ranked
    <3>2. Rank(todo[2], b) = q /\ Rank(todo[i], b) \in 1..11 BY <1>1, <1>2
    <3> QED BY <1>2, <3>1, <3>2
  <2> QED BY <1>1, <1>4, <2>1, <2>2
<1>5. ASSUME NEW k \in {2, 4, 5, 6, 7, 8, 9, 10}, r < k PROVE q <= k
  <2>1. PICK i \in DOMAIN todo : Rank(todo[i], b) = k
    <3>1. r <= k BY <1>2, <1>5
    <3> QED BY <3>1 DEF Ranked
  <2>2. i # 1 BY <1>2, <1>5, <2>1
  <2> QED BY <1>4, <2>1, <2>2
<1>6. ASSUME r = 2 PROVE q <= 3
  <2>1. PICK i \in DOMAIN todo : todo[i].do = "softstop" BY <1>6 DEF Ranked
  <2>2. Rank(todo[i], b) = 3 BY <2>1 DEF Rank
  <2>3. i # 1 BY <1>6, <2>2
  <2> QED BY <1>4, <2>2, <2>3
<1> HIDE DEF r, q
<1>7. q = r + 1 \/ (q = r /\ r \in {3, 11})
  <2>1. CASE r = 1 BY <1>2, <1>3, <1>5, <2>1
  <2>2. CASE r = 2 BY <1>2, <1>3, <1>6, <2>2
  <2>3. CASE r = 3 BY <1>2, <1>3, <1>5, <2>3
  <2>4. CASE r = 10 BY <1>2, <1>3, <2>4
  <2>5. CASE r = 11 BY <1>2, <1>3, <2>5
  <2>6. CASE r \in 4..9
    <3>1. r + 1 \in {2, 4, 5, 6, 7, 8, 9, 10} /\ r < r + 1 BY <2>6
    <3>2. q <= r + 1 BY <1>5, <3>1
    <3> QED BY <1>2, <1>3, <2>6, <3>2
  <2> QED BY <1>2, <2>1, <2>2, <2>3, <2>4, <2>5, <2>6
<1> QED BY <1>2, <1>7 DEF r, q, t

\* What does not cross a restore of host h: the keys of the cluster keep their
\* leader, no pause ends, the members of other hosts at most stop, and those of h
\* stay as they are.
Calm(h) ==
  /\ dcs'.set = dcs.set /\ dcs'.leader = dcs.leader /\ (dcs.pause => dcs'.pause)
  /\ \A m \in Members : Home[m] # h /\ box'[m] = "up" => box[m] = "up" /\ role'[m] = role[m]
  /\ \A m \in Members : Home[m] = h =>
       /\ box'[m] = box[m] /\ yml'[m] = yml[m] /\ live'[m] = live[m] /\ data'[m] = data[m]
       /\ role'[m] = role[m]
  /\ restored' = restored /\ stray \subseteq stray'

\* The members that a restore read are members of its host, those pg.yaml lists.
LEMMA MineFacts ==
  ASSUME TypeOK, CommandsFit, NEW h \in Hosts, cmd[h] # None, cmd[h].op = "restore"
  PROVE  Mine(h) \subseteq Members /\ Mine(h) = Own(h) /\ \A m \in Mine(h) : Home[m] = h
<1>1. Entry(h) \in Scopes /\ Fit(h) BY AtFacts
<1>2. cmd[h].seen = conf[h] BY <1>1 DEF Fit, Fresh
<1> QED BY <1>1, <1>2 DEF Mine, Own, Local, Entry, Known, Scopes

\* What runs on its host is among them, as long as nothing is astray.
LEMMA RunsMine ==
  ASSUME TypeOK, CommandsFit, MemberOwned, NEW h \in Hosts, cmd[h] # None, cmd[h].op = "restore",
         stray = {}, NEW m \in Members, Home[m] = h, Up(m)
  PROVE  m \in Mine(h)
<1>1. m \in Known(h) BY DEF MemberOwned, Up
<1> QED BY <1>1, MineFacts DEF Own, Local

\* What is calm keeps what holds of the restore.
LEMMA CalmHolds ==
  ASSUME TypeOK, TypeOK', NEW h \in Hosts, NEW b \in Members, Home[b] = h, NEW r, NEW todo,
         Holds(h, b, r, todo), Calm(h),
         Mine(h)' = Mine(h), Mine(h) \subseteq Members, \A m \in Mine(h) : Home[m] = h,
         cmd'[h].base = cmd[h].base
  PROVE  Holds(h, b, r, todo)'
<1>1. Frozen(h) => Frozen(h)' BY DEF Frozen, Calm, Up
<1>2. Unelected(h) => Unelected(h)'
  <2>1. CASE dcs.pause BY <2>1 DEF Unelected, Calm
  <2>2. CASE ~dcs.set /\ \A m \in Members : Up(m) => role[m] = "replica"
    <3>1. \A m \in Members : box'[m] = "up" => role'[m] = "replica" BY <2>2 DEF Calm, Up
    <3> QED BY <2>2, <3>1 DEF Unelected, Calm, Up
  <2>3. CASE \A m \in Members : Home[m] # h => ~Up(m) BY <2>3 DEF Unelected, Calm, Up
  <2> QED BY <2>1, <2>2, <2>3 DEF Unelected
<1>3. \A m \in Mine(h) : Up(m)' = Up(m) BY DEF Calm, Up
<1>4. Up(b)' = Up(b) /\ yml'[b] = yml[b] /\ live'[b] = live[b] /\ data'[b] = data[b] BY DEF Calm, Up
<1>5. Leading(h, b) => Leading(h, b)'
  <2> SUFFICES ASSUME Leading(h, b) PROVE Leading(h, b)' OBVIOUS
  <2>1. Leader \in Members /\ Home[Leader] = h BY DEF Leading, Leader, TypeOK
  <2>2. role'[Leader] = role[Leader] /\ Leader' = Leader BY <2>1 DEF Calm, Leader
  <2> QED BY <2>1, <2>2 DEF Leading, Leads, Calm, Leader
<1>6. HasRestored(h, b) => HasRestored(h, b)' BY <1>4 DEF HasRestored, Calm
<1>7. stray' = {} => stray = {} BY DEF Calm
<1>8. dcs'.set = dcs.set BY DEF Calm
<1>9. \A m \in Mine(h)' : Up(m)' = Up(m) BY <1>3
<1> QED BY <1>1, <1>2, <1>3, <1>4, <1>5, <1>6, <1>7, <1>8 DEF Holds

\* So does a restore that stays where it is.
LEMMA CalmUncrossed ==
  ASSUME TypeOK, TypeOK', CommandsFit, NEW h \in Hosts, Uncrossed(h), Calm(h), Stay({h})
  PROVE  Uncrossed(h)'
<1> SUFFICES ASSUME cmd'[h] # None, cmd'[h].op = "restore", ~cmd'[h].blind
             PROVE  \E b \in Members : /\ Ranked(cmd[h].todo, Mine(h), b)'
                                       /\ Holds(h, b, Rank(cmd[h].todo[1], b), cmd[h].todo)'
  BY DEF Uncrossed
<1>1. cmd[h] # None /\ Kept(cmd[h], cmd'[h]) /\ cmd'[h].todo = cmd[h].todo BY DEF Stay
<1>2. cmd[h].op = "restore" /\ ~cmd[h].blind /\ cmd'[h].base = cmd[h].base /\ Mine(h)' = Mine(h)
  BY <1>1 DEF Kept, Mine, Entry, Local
<1>3. PICK b \in Members : /\ Ranked(cmd[h].todo, Mine(h), b)
                           /\ Holds(h, b, Rank(cmd[h].todo[1], b), cmd[h].todo)
  BY <1>1, <1>2 DEF Uncrossed
<1>4. PICK r, todo : r = Rank(cmd[h].todo[1], b) /\ todo = cmd[h].todo OBVIOUS
<1>5. Mine(h) \subseteq Members /\ \A m \in Mine(h) : Home[m] = h BY <1>1, <1>2, MineFacts
<1>6. Home[b] = h BY <1>3, <1>5 DEF Ranked
<1>7. Holds(h, b, r, todo) BY <1>3, <1>4
<1>8. Holds(h, b, r, todo)' BY <1>2, <1>5, <1>6, <1>7, CalmHolds
<1>9. Rank(cmd[h].todo[1], b)' = r /\ (cmd[h].todo)' = todo BY <1>1, <1>4
<1>10. Ranked(cmd[h].todo, Mine(h), b)' BY <1>1, <1>2, <1>3
<1> QED BY <1>8, <1>9, <1>10

\* A step of another host is calm, or the restore knows that it was crossed.
LEMMA OthersCalm ==
  ASSUME TypeOK, CommandsFit, NEW h \in Hosts, NEW g \in Hosts \ {h}, Do(g),
         cmd[h] # None, cmd[h].op = "restore", ~cmd'[h].blind
  PROVE  Calm(h)
<1>1. /\ cmd[g] # None /\ cmd[g].todo # <<>> /\ CmdType
      /\ Op(g) \in MemberOps => M(g) \in Members
      /\ Op(g) \in HomeOps => Home[M(g)] = g
  BY DoMoves, AtFacts
<1>2. ~SkipLoud(g)
  <2>1. SkipLoud(g) => Crossed(Hosts \ {g}) BY <1>1, SkipLoudMoves
  <2> QED BY <2>1 DEF Crossed
<1>3. \A ops : At(g, ops) => Op(g) \in ops BY DEF At, Op
<1>4. CASE UNCHANGED <<dcs, node, restored, stray>> BY <1>4 DEF Calm, node
<1>5. CASE WriteYml(g)
  <2>1. M(g) \in Members /\ Home[M(g)] = g BY <1>1, <1>3, <1>5 DEF WriteYml, MemberOps, HomeOps
  <2> QED BY <1>5, <2>1 DEF WriteYml, Calm, TypeOK, tally, hist
<1>6. CASE Halt(g)
  <2>1. M(g) \in Members /\ Home[M(g)] = g BY <1>1, <1>3, <1>6 DEF Halt, MemberOps, HomeOps
  <2> QED BY <1>6, <2>1 DEF Halt, Down, Calm, TypeOK, tally, hist
<1>7. CASE Rm(g)
  <2>1. M(g) \in Members /\ Home[M(g)] = g BY <1>1, <1>3, <1>7 DEF Rm, MemberOps, HomeOps
  <2>2. UNCHANGED <<live, data, dcs, restored, stray>> BY <1>7 DEF Rm, tally, hist
  <2>3. \A m \in Members \ {M(g)} : box'[m] = box[m] /\ role'[m] = role[m] /\ yml'[m] = yml[m]
    BY <1>7, <2>1 DEF Rm, TypeOK
  <2>4. box'[M(g)] # "up" BY <1>7, <2>1 DEF Rm, TypeOK
  <2> QED BY <2>1, <2>2, <2>3, <2>4 DEF Calm
<1>8. CASE Pause(g)
  <2>1. UNCHANGED <<node, restored, stray>> BY <1>8 DEF Pause, tally
  <2>2. dcs'.set = dcs.set /\ dcs'.leader = dcs.leader /\ (dcs.pause => dcs'.pause)
    BY <1>8 DEF Pause, TypeOK
  <2> QED BY <2>1, <2>2 DEF Calm, node
<1>9. CASE Resume(g) BY <1>2, <1>4, <1>9 DEF Resume, tally
<1>10. CASE Clear(g) BY <1>2, <1>4, <1>10 DEF Clear, tally
<1>11. CASE StartMember(g) BY <1>2, <1>4, <1>11 DEF StartMember, tally, node, hist
<1>12. ~Wipe(g) /\ ~Run(g) /\ ~Switch(g) BY <1>2 DEF Wipe, Run, Switch
<1> QED BY <1>4, <1>5, <1>6, <1>7, <1>8, <1>9, <1>10, <1>11, <1>12
        DEF Do, Save, Register, Ask, List, Await, Reorder, Rejoined, Count, tally, hist

\* The members that run on other hosts are replicas that Patroni does not elect.
LEMMA Unelectable ==
  ASSUME TypeOK, RunsOnData, Freezes, Waits, NEW h, NEW b, NEW r \in 3..10, NEW todo,
         Holds(h, b, r, todo), NEW m \in Members, Bootstrap(m) \/ Claim(m)
  PROVE  Home[m] = h
<1> SUFFICES ASSUME Home[m] # h PROVE FALSE OBVIOUS
<1>1. Up(m) BY DEF Bootstrap, Claim
<1>2. role[m] = "replica" /\ data[m] # None BY <1>1 DEF Holds, Frozen, RunsOnData
<1>3. Claim(m) BY <1>2 DEF Bootstrap
<1>4. dcs.set /\ ~dcs.pause /\ Leader = None BY <1>2, <1>3 DEF Claim
<1>5. CASE r \in 3..5 BY <1>1, <1>4, <1>5 DEF Holds, Unelected
<1>6. CASE r \in 6..10 BY <1>4, <1>6 DEF Holds, Leading, Leader
<1> QED BY <1>5, <1>6

\* Patroni keeps what holds of a restore.
LEMMA PatroniHolds ==
  ASSUME TypeOK, TypeOK', CommandsFit, MemberOwned, RunsOnData, Freezes, Waits, Patroni,
         NEW h \in Hosts, cmd[h] # None, cmd[h].op = "restore", NEW b \in Mine(h), NEW r \in 1..11, NEW todo,
         Holds(h, b, r, todo)
  PROVE  Holds(h, b, r, todo)'
<1>1. UNCHANGED <<conf, box, reg, cmd, hist>> /\ gen <= gen' BY PatroniTypes
<1>2. Mine(h)' = Mine(h) /\ \A m \in Members : Up(m)' = Up(m) BY <1>1 DEF Mine, Entry, Local, Up
<1>3. Mine(h) \subseteq Members /\ \A m \in Mine(h) : Home[m] = h BY MineFacts
<1>4. stray' = stray /\ yml' = yml /\ live' = live
  BY <1>1 DEF hist, Patroni, Bootstrap, Follow, Standby, Claim, Expire, node
<1>5. b \in Members /\ Home[b] = h BY <1>3
<1>6. CASE r \in 1..2 BY <1>6 DEF Holds
<1>7. stray = {} => \A m \in Members : Home[m] = h /\ Up(m) => m \in Mine(h) BY RunsMine
<1>8. ASSUME NEW m \in Members, Bootstrap(m), r \in 3..11 PROVE Holds(h, b, r, todo)'
  <2>1. /\ Up(m) /\ data[m] = None /\ ~dcs.set /\ dcs' = [set |-> TRUE, leader |-> m, pause |-> FALSE]
        /\ role' = [role EXCEPT ![m] = "primary"] /\ data' = [data EXCEPT ![m] = gen + 1]
        /\ restored' = IF live[m] = "restore" THEN restored \cup {gen + 1} ELSE restored
    BY <1>8 DEF Bootstrap
  <2>2. r # 11 BY <2>1 DEF Holds, Leading
  <2>3. Home[m] = h BY <1>8, <2>2, Unelectable
  <2>4. role[m] # "replica" BY <2>1 DEF RunsOnData
  <2>5. Frozen(h)'
    <3>1. r \in 3..10 BY <1>8, <2>2
    <3>2. Frozen(h) BY <3>1 DEF Holds
    <3>3. \A x \in Members : x # m => role'[x] = role[x] BY <2>1 DEF TypeOK
    <3> QED BY <1>2, <2>3, <3>2, <3>3 DEF Frozen
  <2>6. CASE r \in 3..5
    <3>1. \A x \in Members : Home[x] # h => ~Up(x)
      BY <2>1, <2>4, <2>6 DEF Holds, Unelected, TypeOK
    <3>2. Unelected(h)' BY <1>2, <3>1 DEF Unelected
    <3> QED BY <1>2, <1>3, <2>5, <2>6, <3>2 DEF Holds
  <2>7. CASE r \in 6..10
    <3>1. m \notin Mine(h) \ {b} BY <2>1, <2>7 DEF Holds
    <3>2. Leading(h, b)'
      <4>1. Leader' = m /\ role'[m] = "primary" /\ dcs'.set /\ m # None
        BY <2>1, ClusterAssumption DEF Leader, TypeOK
      <4> QED BY <1>2, <2>3, <3>1, <4>1 DEF Leading, Leads, Leader
    <3>3. ASSUME r \in 8..10, stray = {} PROVE (data[b] = None \/ HasRestored(h, b))'
      <4>1. data[b] = None
        <5>1. dcs.leader = None BY <2>1 DEF TypeOK
        <5>2. b # None BY <1>5, ClusterAssumption
        <5>3. data[b] = None \/ HasRestored(h, b) BY <3>3 DEF Holds
        <5> QED BY <5>1, <5>2, <5>3 DEF HasRestored
      <4>2. CASE m # b BY <2>1, <4>1, <4>2, <1>5 DEF TypeOK
      <4>3. CASE m = b
        <5>1. r = 10 BY <2>1, <3>3, <4>3 DEF Holds
        <5>2. live[b] = "restore" BY <5>1 DEF Holds
        <5>3. gen + 1 \in restored' /\ data'[b] = gen + 1 /\ dcs'.leader = b
          BY <1>5, <2>1, <4>3, <5>2 DEF TypeOK
        <5>4. cmd[h].base \in Nat /\ gen \in Nat /\ cmd[h].base <= gen
          BY DEF TypeOK, Commands, CommandsFit, Fit
        <5>5. gen + 1 > cmd[h].base BY <5>4
        <5> QED BY <1>1, <5>3, <5>5 DEF HasRestored
      <4> QED BY <4>2, <4>3
    <3> QED BY <1>2, <1>3, <1>4, <1>5, <2>5, <2>7, <3>2, <3>3 DEF Holds
  <2> QED BY <1>8, <2>2, <2>6, <2>7
<1>9. ASSUME NEW m \in Members, Follow(m), r \in 3..11 PROVE Holds(h, b, r, todo)'
  <2>1. /\ Up(m) /\ Leader \notin {None, m} /\ Leads(Leader) /\ dcs' = dcs /\ restored' = restored
        /\ data' = [data EXCEPT ![m] = data[Leader]] /\ role' = [role EXCEPT ![m] = "replica"]
    BY <1>9 DEF Follow, tally
  <2>2. Leader \in Members /\ dcs.set /\ Up(Leader) BY <2>1 DEF Leader, Leads, TypeOK
  <2>3. Frozen(h) => Frozen(h)' BY <1>2, <2>1 DEF Frozen, TypeOK
  <2>4. Unelected(h) => Unelected(h)' BY <1>2, <2>1, <2>2 DEF Unelected
  <2>5. Leading(h, b) => Leading(h, b)'
    <3>1. role'[Leader] = role[Leader] /\ Leader' = Leader BY <2>1, <2>2 DEF TypeOK, Leader
    <3> QED BY <1>2, <2>1, <3>1 DEF Leading, Leads, Leader
  <2>6. ASSUME r \in 8..11, stray = {} PROVE m # b
    <3>1. CASE r \in 8..9 BY <2>1, <3>1 DEF Holds
    <3>2. CASE r = 10
      <4>1. Leading(h, b) BY <2>2, <3>2 DEF Holds
      <4>2. Leader \in Mine(h) BY <1>7, <2>2, <2>6, <4>1 DEF Leading
      <4> QED BY <2>1, <4>1, <4>2 DEF Leading
    <3>3. CASE r = 11 BY <2>1, <2>6, <3>3 DEF Holds, HasRestored, Leader
    <3> QED BY <2>6, <3>1, <3>2, <3>3
  <2>7. ASSUME r \in 8..11, stray = {} PROVE data'[b] = data[b] BY <1>5, <2>1, <2>6, <2>7 DEF TypeOK
  <2>8. ASSUME r \in 8..11, stray = {} PROVE HasRestored(h, b) => HasRestored(h, b)'
    BY <1>1, <2>1, <2>7, <2>8 DEF HasRestored
  <2> QED BY <1>2, <1>3, <1>4, <1>5, <2>1, <2>3, <2>4, <2>5, <2>7, <2>8 DEF Holds
<1>10. ASSUME NEW m \in Members, Standby(m), r \in 3..11 PROVE Holds(h, b, r, todo)'
  <2>1. /\ dcs.set /\ Leader = None /\ dcs' = dcs /\ role' = [role EXCEPT ![m] = "replica"]
        /\ data' = data /\ restored' = restored
    BY <1>10 DEF Standby, tally
  <2>2. r \in 3..5 BY <1>10, <2>1 DEF Holds, Leading, Leader
  <2>3. Frozen(h)' BY <1>2, <2>1, <2>2 DEF Holds, Frozen, TypeOK
  <2>4. Unelected(h)' BY <1>2, <2>1, <2>2 DEF Holds, Unelected
  <2> QED BY <1>2, <1>3, <2>2, <2>3, <2>4 DEF Holds
<1>11. ASSUME NEW m \in Members, Claim(m), r \in 3..11 PROVE Holds(h, b, r, todo)'
  <2>1. /\ Up(m) /\ data[m] # None /\ Leader = None
        /\ dcs' = [set |-> TRUE, leader |-> m, pause |-> dcs.pause]
        /\ role' = [role EXCEPT ![m] = "primary"] /\ data' = data /\ restored' = restored
    BY <1>11 DEF Claim, tally
  <2>2. r # 11 BY <2>1 DEF Holds, Leading, Leader
  <2>3. Home[m] = h BY <1>11, <2>2, Unelectable
  <2>4. Frozen(h)'
    <3>1. r \in 3..10 BY <1>11, <2>2
    <3>2. Frozen(h) BY <3>1 DEF Holds
    <3>3. \A x \in Members : x # m => role'[x] = role[x] BY <2>1 DEF TypeOK
    <3> QED BY <1>2, <2>3, <3>2, <3>3 DEF Frozen
  <2>5. CASE r \in 3..5
    <3>1. dcs.pause \/ \A x \in Members : Home[x] # h => ~Up(x)
      BY <1>11, <2>1, <2>5 DEF Claim, Holds, Unelected
    <3>2. Unelected(h)' BY <1>2, <2>1, <3>1 DEF Unelected
    <3> QED BY <1>2, <1>3, <2>4, <2>5, <3>2 DEF Holds
  <2>6. CASE r \in 6..10
    <3>1. m \notin Mine(h) \ {b} BY <2>1, <2>6 DEF Holds
    <3>2. Leading(h, b)'
      <4>1. Leader' = m /\ role'[m] = "primary" /\ dcs'.set /\ m # None
        BY <2>1, ClusterAssumption DEF Leader, TypeOK
      <4> QED BY <1>2, <2>3, <3>1, <4>1 DEF Leading, Leads, Leader
    <3>3. ~(r \in 8..10 /\ stray = {})
      <4> SUFFICES ASSUME r \in 8..10, stray = {} PROVE FALSE OBVIOUS
      <4>1. m = b BY <1>7, <2>1, <2>3, <3>1
      <4>2. HasRestored(h, b) BY <2>1, <4>1 DEF Holds
      <4> QED BY <1>5, <2>1, <4>2, ClusterAssumption DEF HasRestored, Leader
    <3> QED BY <1>2, <1>3, <1>4, <1>5, <2>4, <2>6, <3>2, <3>3 DEF Holds
  <2> QED BY <1>11, <2>2, <2>5, <2>6
<1>12. ASSUME Expire, r \in 3..11 PROVE Holds(h, b, r, todo)'
  <2>1. /\ Leader # None /\ ~Leads(Leader) /\ dcs' = [dcs EXCEPT !.leader = None] /\ UNCHANGED node
    BY <1>12 DEF Expire
  <2>2. dcs.set BY <2>1 DEF TypeOK, Leader
  <2>3. r \in 3..5 BY <1>12, <2>1, <2>2 DEF Holds, Leading
  <2>4. dcs'.set = dcs.set /\ dcs'.pause = dcs.pause /\ role' = role BY <2>1 DEF TypeOK, node
  <2>5. Frozen(h)' /\ Unelected(h)' BY <1>2, <2>3, <2>4 DEF Holds, Frozen, Unelected
  <2> QED BY <1>2, <1>3, <2>3, <2>5 DEF Holds
<1> QED BY <1>6, <1>8, <1>9, <1>10, <1>11, <1>12 DEF Patroni

\* Host h restores with the bootstrap member b, and todo is left.
Restoring(h, b, todo) ==
  /\ cmd[h] # None /\ cmd[h].op = "restore" /\ cmd[h].todo = todo
  /\ Ranked(todo, Mine(h), b)

\* What a rank says of the step.
LEMMA RankOps ==
  ASSUME NEW s, NEW b
  PROVE  /\ Rank(s, b) = 1 => s.do = "ask"
         /\ Rank(s, b) = 2 => s.do = "freeze"
         /\ Rank(s, b) = 3 => s.do = "softstop"
         /\ Rank(s, b) = 4 => s.do = "list"
         /\ Rank(s, b) = 5 => s.do = "clear"
         /\ Rank(s, b) = 6 => s.do = "restoreyml"
         /\ Rank(s, b) = 7 => s.do = "wipe" /\ s.for = b
         /\ Rank(s, b) = 8 => s.do = "rm" /\ s.for = b
         /\ Rank(s, b) = 9 => s.do = "run" /\ s.for = b
         /\ Rank(s, b) = 10 => s.do = "await"
<1>1. Rank(s, b) = 1 => s.do = "ask" BY DEF Rank
<1>2. Rank(s, b) = 2 => s.do = "freeze" BY DEF Rank
<1>3. Rank(s, b) = 3 => s.do = "softstop" BY DEF Rank
<1>4. Rank(s, b) = 4 => s.do = "list" BY DEF Rank
<1>5. Rank(s, b) = 5 => s.do = "clear" BY DEF Rank
<1>6. Rank(s, b) = 6 => s.do = "restoreyml" BY DEF Rank
<1>7. Rank(s, b) = 7 => s.do = "wipe" /\ s.for = b BY DEF Rank
<1>8. Rank(s, b) = 8 => s.do = "rm" /\ s.for = b BY DEF Rank
<1>9. Rank(s, b) = 9 => s.do = "run" /\ s.for = b BY DEF Rank
<1>10. Rank(s, b) = 10 => s.do = "await" BY DEF Rank
<1> QED BY <1>1, <1>2, <1>3, <1>4, <1>5, <1>6, <1>7, <1>8, <1>9, <1>10

\* The step that a restore does, by its rank.
LEMMA RankedStep ==
  ASSUME TypeOK, CommandsFit, NEW h \in Hosts, NEW b, NEW todo, Restoring(h, b, todo), Do(h)
  PROVE  /\ Rank(todo[1], b) = 1 => Ask(h)
         /\ Rank(todo[1], b) = 2 => Pause(h) /\ Op(h) = "freeze"
         /\ Rank(todo[1], b) = 3 => Halt(h) /\ Op(h) = "softstop"
         /\ Rank(todo[1], b) = 4 => List(h)
         /\ Rank(todo[1], b) = 5 => Clear(h) /\ Op(h) = "clear"
         /\ Rank(todo[1], b) = 6 => WriteYml(h) /\ Op(h) = "restoreyml" /\ M(h) = b
         /\ Rank(todo[1], b) = 7 => Wipe(h) /\ Op(h) = "wipe" /\ M(h) = b
         /\ Rank(todo[1], b) = 8 => Rm(h) /\ Op(h) = "rm" /\ M(h) = b
         /\ Rank(todo[1], b) = 9 => Run(h) /\ M(h) = b
         /\ Rank(todo[1], b) = 10 => Await(h)
         /\ Rank(todo[1], b) = 11 =>
              /\ M(h) \in Mine(h) \ {b}
              /\ WriteYml(h) \/ (Wipe(h) /\ Op(h) = "wipe") \/ Rm(h) \/ Run(h)
<1>1. /\ todo \in Seq(Steps) /\ todo # <<>> /\ 1 \in DOMAIN todo
      /\ Op(h) = todo[1].do /\ M(h) = todo[1].for
  BY AtFacts DEF Restoring, Now
<1>2. PICK r : r = Rank(todo[1], b) OBVIOUS
<1>3. /\ Op(h) = "restoreyml" => M(h) = b
      /\ r = 11 => Op(h) \in RejoinOps /\ M(h) \in Mine(h) \ {b}
  BY <1>1, <1>2 DEF Restoring, Ranked
<1>4. /\ r = 1 => Op(h) = "ask"
      /\ r = 2 => Op(h) = "freeze"
      /\ r = 3 => Op(h) = "softstop"
      /\ r = 4 => Op(h) = "list"
      /\ r = 5 => Op(h) = "clear"
      /\ r = 6 => Op(h) = "restoreyml"
      /\ r = 7 => Op(h) = "wipe" /\ M(h) = b
      /\ r = 8 => Op(h) = "rm" /\ M(h) = b
      /\ r = 9 => Op(h) = "run" /\ M(h) = b
      /\ r = 10 => Op(h) = "await"
  BY <1>1, <1>2, RankOps
<1>5. \A ops : At(h, ops) => Op(h) \in ops BY DEF At, Op
<1>6. /\ Op(h) = "ask" => Ask(h)
      /\ Op(h) = "freeze" => Pause(h)
      /\ Op(h) = "softstop" => Halt(h)
      /\ Op(h) = "list" => List(h)
      /\ Op(h) = "clear" => Clear(h)
      /\ Op(h) \in {"yml", "restoreyml"} => WriteYml(h)
      /\ Op(h) = "wipe" => Wipe(h)
      /\ Op(h) = "rm" => Rm(h)
      /\ Op(h) = "run" => Run(h)
      /\ Op(h) = "await" => Await(h)
  BY <1>5 DEF Do, Save, WriteYml, Wipe, Halt, Rm, Run, StartMember, Register, Ask, Pause, Resume, Switch,
         List, Clear, Await, Reorder, Rejoined, Count
<1> QED BY <1>2, <1>3, <1>4, <1>6 DEF RejoinOps

\* A restore that has not begun to stop members, up to the cleared keys.
LEMMA StopsHold ==
  ASSUME TypeOK, TypeOK', CommandsFit, NEW h \in Hosts, NEW b, NEW todo, Restoring(h, b, todo), Do(h),
         cmd'[h] # None, ~cmd'[h].blind, NEW r \in 1..4, r = Rank(todo[1], b), Holds(h, b, r, todo),
         NEW q \in 2..5, r = 1 => q = 2, Mine(h)' = Mine(h)
  PROVE  Holds(h, b, q, Tail(todo))'
<1>1. /\ todo \in Seq(Steps) /\ todo # <<>> /\ 1 \in DOMAIN todo /\ cmd[h] \in Commands /\ CmdType
      /\ Op(h) = todo[1].do /\ M(h) = todo[1].for
      /\ Op(h) \in HomeOps => Home[M(h)] = h
      /\ Op(h) \in MemberOps => M(h) \in Members
  BY AtFacts DEF Restoring, Now
<1>2. \A i \in DOMAIN todo : i = 1 \/ (i - 1 \in DOMAIN Tail(todo) /\ Tail(todo)[i - 1] = todo[i])
  BY <1>1, HeadRest
<1>3. Mine(h) \subseteq Members /\ \A m \in Mine(h) : Home[m] = h BY MineFacts DEF Restoring
<1>4. ASSUME r \in 2..4,
             Frozen(h)', Unelected(h)',
             \A m \in Mine(h) :
               \/ box'[m] # "up"
               \/ \E i \in DOMAIN todo : i # 1 /\ todo[i].do = "softstop" /\ todo[i].for = m
      PROVE  Holds(h, b, q, Tail(todo))'
  <2>1. \A m \in Mine(h)' :
          \/ ~Up(m)'
          \/ \E i \in DOMAIN Tail(todo) : Tail(todo)[i].do = "softstop" /\ Tail(todo)[i].for = m
    BY <1>2, <1>4 DEF Up
  <2> QED BY <1>4, <2>1 DEF Holds
<1>5. CASE r = 1 BY <1>5 DEF Holds
<1>6. CASE r = 2
  <2>1. Pause(h) /\ Op(h) = "freeze" BY <1>6, RankedStep
  <2>2. UNCHANGED node BY <2>1 DEF Pause
  <2>3. ~Unfrozen(h)
    <3> DEFINE d == Doubts(cmd[h], Op(h) = "freeze" /\ Unfrozen(h))
    <3>1. cmd'[h] = Rest(d, Tail(cmd[h].todo)) BY <1>1, <2>1 DEF Pause, CmdType
    <3>2. d \in Commands /\ d.blind = (cmd[h].blind \/ (Op(h) = "freeze" /\ Unfrozen(h)))
      <4>1. (Op(h) = "freeze" /\ Unfrozen(h)) \in BOOLEAN OBVIOUS
      <4> QED BY <1>1, <4>1, DoubtsFacts
    <3>3. cmd'[h] = [d EXCEPT !.todo = Tail(cmd[h].todo)] BY <3>1 DEF Rest
    <3>4. cmd'[h].blind = d.blind BY <3>2, <3>3 DEF Commands
    <3>5. d.blind => cmd'[h].blind BY <3>4
    <3> HIDE DEF d
    <3> QED BY <2>1, <3>2, <3>5
  <2>4. \A m \in Members : Up(m) => role[m] = "replica" \/ (Home[m] = h /\ dcs.set)
    BY <2>3 DEF Unfrozen
  <2>5. Frozen(h)' BY <2>2, <2>4 DEF Frozen, Up, node
  <2>6. Unelected(h)'
    <3>1. CASE Accessible
      <4>1. dcs' = [dcs EXCEPT !.pause = TRUE] BY <2>1, <3>1 DEF Pause
      <4>2. dcs'.pause BY <4>1 DEF TypeOK
      <4> QED BY <4>2 DEF Unelected
    <3>2. CASE ~Accessible
      <4>1. dcs' = dcs BY <2>1, <3>2 DEF Pause
      <4>2. CASE dcs.set
        <5>1. \A m \in Members : Home[m] # h => ~Up(m)
          BY <2>4, <3>2, <4>2 DEF Accessible, Joined
        <5> QED BY <2>2, <5>1 DEF Unelected, Up, node
      <4>3. CASE ~dcs.set BY <2>2, <2>4, <4>1, <4>3 DEF Unelected, Up, node
      <4> QED BY <4>2, <4>3
    <3> QED BY <3>1, <3>2
  <2>7. \A m \in Mine(h) : \E i \in DOMAIN todo : i # 1 /\ todo[i].do = "softstop" /\ todo[i].for = m
    <3>1. \A m \in Mine(h) : \E i \in DOMAIN todo : todo[i].do = "softstop" /\ todo[i].for = m
      <4>1. Rank(todo[1], b) <= 2 BY <1>6
      <4> QED BY <4>1 DEF Restoring, Ranked
    <3>2. todo[1].do # "softstop" BY <1>1, <2>1
    <3> QED BY <3>1, <3>2
  <2> QED BY <1>4, <1>6, <2>5, <2>6, <2>7
<1>7. CASE r = 3
  <2>1. Halt(h) /\ Op(h) = "softstop" BY <1>7, RankedStep
  <2>2. M(h) \in Members /\ Home[M(h)] = h BY <1>1, <2>1 DEF MemberOps, HomeOps
  <2>3. /\ dcs' = dcs /\ box'[M(h)] # "up"
        /\ \A m \in Members \ {M(h)} : box'[m] = box[m] /\ role'[m] = role[m]
    BY <2>1, <2>2 DEF Halt, Down, TypeOK
  <2>4. Frozen(h) /\ Unelected(h) BY <1>7 DEF Holds
  <2>5. Frozen(h)' BY <2>2, <2>3, <2>4 DEF Frozen, Up
  <2>6. Unelected(h)' BY <2>2, <2>3, <2>4 DEF Unelected, Up
  <2>7. ASSUME NEW m \in Mine(h)
        PROVE  \/ box'[m] # "up"
               \/ \E i \in DOMAIN todo : i # 1 /\ todo[i].do = "softstop" /\ todo[i].for = m
    <3>1. ~Up(m) \/ \E i \in DOMAIN todo : todo[i].do = "softstop" /\ todo[i].for = m
      BY <1>7 DEF Holds
    <3>2. m \in Members BY <1>3
    <3> QED BY <1>1, <2>3, <3>1, <3>2 DEF Up
  <2> QED BY <1>4, <1>7, <2>5, <2>6, <2>7
<1>8. CASE r = 4
  <2>1. List(h) BY <1>8, RankedStep
  <2>2. UNCHANGED <<node, dcs>> /\ Op(h) = "list" BY <2>1 DEF List, At, Op
  <2>3. Frozen(h) /\ Unelected(h) BY <1>8 DEF Holds
  <2>4. Frozen(h)' /\ Unelected(h)' BY <2>2, <2>3 DEF Frozen, Unelected, Up, node
  <2>5. ASSUME NEW m \in Mine(h)
        PROVE  \/ box'[m] # "up"
               \/ \E i \in DOMAIN todo : i # 1 /\ todo[i].do = "softstop" /\ todo[i].for = m
    <3>1. ~Up(m) \/ \E i \in DOMAIN todo : todo[i].do = "softstop" /\ todo[i].for = m
      BY <1>8 DEF Holds
    <3>2. todo[1].do # "softstop" BY <1>1, <2>2
    <3> QED BY <2>2, <3>1, <3>2 DEF Up, node
  <2> QED BY <1>4, <1>8, <2>4, <2>5
<1> QED BY <1>5, <1>6, <1>7, <1>8

\* From the cleared keys to the leader that a restore waits for.
LEMMA BuildsHold ==
  ASSUME TypeOK, TypeOK', CommandsFit, MemberOwned, RunsOnData, NEW h \in Hosts, NEW b, NEW todo,
         Restoring(h, b, todo), Do(h), cmd'[h] # None,
         NEW r \in 5..10, r = Rank(todo[1], b), Holds(h, b, r, todo),
         NEW t, Mine(h)' = Mine(h), cmd'[h].base = cmd[h].base
  PROVE  Holds(h, b, r + 1, t)'
<1>1. /\ todo \in Seq(Steps) /\ todo # <<>> /\ 1 \in DOMAIN todo /\ cmd[h] \in Commands /\ CmdType
      /\ Op(h) = todo[1].do /\ M(h) = todo[1].for
  BY AtFacts DEF Restoring, Now
<1>2. Mine(h) \subseteq Members /\ (\A m \in Mine(h) : Home[m] = h) /\ b \in Mine(h)
  BY MineFacts DEF Restoring, Ranked
<1>3. b \in Members /\ Home[b] = h BY <1>2
<1>4. Frozen(h) BY DEF Holds
<1>5. ASSUME dcs' = dcs, \A m \in Members \ {b} : role'[m] = role[m] /\ box'[m] = box[m], r \in 6..9
      PROVE  Frozen(h)' /\ (~dcs.set \/ Leading(h, b))' /\ \A m \in Mine(h)' \ {b} : ~Up(m)'
  <2>1. Frozen(h)' BY <1>3, <1>4, <1>5 DEF Frozen, Up
  <2>2. ~Up(b) /\ (~dcs.set \/ Leading(h, b)) BY <1>5 DEF Holds
  <2>3. (~dcs.set \/ Leading(h, b))'
    <3> SUFFICES ASSUME Leading(h, b) PROVE Leading(h, b)' BY <1>5, <2>2
    <3>1. Leader \in Members /\ Leader # b BY <1>3, <2>2 DEF Leading, Leads, Leader, TypeOK
    <3>2. Leader' = Leader /\ role'[Leader] = role[Leader] BY <1>5, <3>1 DEF Leader
    <3> QED BY <1>5, <3>2 DEF Leading, Leads, Leader
  <2>4. \A m \in Mine(h)' \ {b} : ~Up(m)' BY <1>2, <1>5 DEF Holds, Up
  <2> QED BY <2>1, <2>3, <2>4
<1>6. CASE r = 5
  <2>1. Clear(h) /\ Op(h) = "clear" BY <1>6, RankedStep
  <2>2. dcs' = NoCluster /\ UNCHANGED node
    <3>1. ~End(h) BY <1>1 DEF End, CmdType
    <3> QED BY <2>1, <3>1 DEF Clear
  <2>3. ASSUME NEW i \in DOMAIN todo PROVE todo[i].do # "softstop"
    <3> SUFFICES ASSUME todo[i].do = "softstop" PROVE FALSE OBVIOUS
    <3>1. Rank(todo[i], b) = 3 BY DEF Rank
    <3>2. i # 1
      <4>1. Op(h) = "clear" BY <2>1
      <4> QED BY <1>1, <4>1
    <3>3. 1 < i BY <1>1, <3>2, HeadRest
    <3>4. Rank(todo[1], b) < Rank(todo[i], b) \/ Rank(todo[1], b) = Rank(todo[i], b)
      BY <1>1, <3>3 DEF Restoring, Ranked
    <3> QED BY <1>6, <3>1, <3>4
  <2>4. \A m \in Mine(h) : ~Up(m) BY <1>6, <2>3 DEF Holds
  <2>5. Frozen(h)' BY <1>4, <2>2 DEF Frozen, Up, node
  <2>6. ~dcs'.set BY <2>2 DEF NoCluster
  <2>7. \A m \in Mine(h) : ~Up(m)' BY <2>2, <2>4 DEF Up, node
  <2> QED BY <1>2, <1>6, <2>5, <2>6, <2>7 DEF Holds
<1>7. CASE r = 6
  <2>1. WriteYml(h) /\ Op(h) = "restoreyml" /\ M(h) = b BY <1>7, RankedStep
  <2>2. /\ dcs' = dcs /\ UNCHANGED <<box, live, data, role>>
        /\ yml'[b] = "restore"
    BY <1>3, <2>1 DEF WriteYml, RestoreYml, TypeOK
  <2>3. ~Up(b)' BY <1>7, <2>2 DEF Holds, Up
  <2> QED BY <1>5, <1>7, <2>2, <2>3 DEF Holds
<1>8. CASE r = 7
  <2>1. Wipe(h) /\ Op(h) = "wipe" /\ M(h) = b BY <1>8, RankedStep
  <2>2. /\ dcs' = dcs /\ UNCHANGED <<box, live, yml>> /\ data'[b] = None
        /\ \A m \in Members \ {b} : role'[m] = role[m]
    BY <1>3, <2>1 DEF Wipe, TypeOK
  <2>3. ~Up(b)' /\ yml'[b] = "restore" BY <1>8, <2>2 DEF Holds, Up
  <2> QED BY <1>5, <1>8, <2>2, <2>3 DEF Holds
<1>9. ASSUME r \in 8..9, UNCHANGED <<dcs, data, restored, stray>>
      PROVE  stray' = {} => (data[b] = None \/ HasRestored(h, b))'
  BY <1>9 DEF Holds, HasRestored
<1>10. CASE r = 8
  <2>1. Rm(h) /\ Op(h) = "rm" /\ M(h) = b BY <1>10, RankedStep
  <2>2. /\ UNCHANGED <<dcs, live, yml, data, restored, stray>> /\ box'[b] = "none"
        /\ \A m \in Members \ {b} : role'[m] = role[m] /\ box'[m] = box[m]
    BY <1>3, <2>1 DEF Rm, TypeOK, tally, hist
  <2>3. ~Up(b)' /\ yml'[b] = "restore" BY <1>10, <2>2 DEF Holds, Up
  <2> QED BY <1>5, <1>9, <1>10, <2>2, <2>3 DEF Holds
<1>11. CASE r = 9
  <2>1. Run(h) /\ M(h) = b BY <1>11, RankedStep
  <2>2. /\ UNCHANGED <<dcs, yml, data, role, restored, stray>> /\ live'[b] = yml[b]
        /\ \A m \in Members \ {b} : box'[m] = box[m]
    BY <1>3, <2>1 DEF Run, TypeOK, tally, hist
  <2>3. live'[b] = "restore" /\ yml'[b] = "restore" BY <1>11, <2>2 DEF Holds
  <2> QED BY <1>5, <1>9, <1>11, <2>2, <2>3 DEF Holds
<1>12. CASE r = 10
  <2>1. Await(h) BY <1>12, RankedStep
  <2>2. /\ UNCHANGED <<dcs, box, role, data, restored, stray>> /\ dcs.set
    BY <2>1 DEF Await, Listed, node, tally, hist
  <2>3. Leading(h, b) BY <1>12, <2>2 DEF Holds
  <2>4. Leading(h, b)' BY <2>2, <2>3 DEF Leading, Leads, Leader
  <2>5. ASSUME stray = {} PROVE HasRestored(h, b)
    <3>1. Leader \in Members /\ Up(Leader) /\ role[Leader] = "primary" /\ Home[Leader] = h
      BY <2>3 DEF Leading, Leads, Leader, TypeOK
    <3>2. Leader \in Mine(h) BY <2>5, <3>1, RunsMine DEF Restoring
    <3>3. Leader = b BY <2>3, <3>2 DEF Leading
    <3>4. data[b] # None BY <3>1, <3>3 DEF RunsOnData
    <3> QED BY <1>12, <2>5, <3>4 DEF Holds
  <2>6. stray' = {} => HasRestored(h, b)' BY <2>2, <2>5 DEF HasRestored
  <2> QED BY <1>12, <2>4, <2>6 DEF Holds
<1> QED BY <1>6, <1>7, <1>8, <1>10, <1>11, <1>12

\* The members that rejoin are not the one that leads.
LEMMA RejoinsHold ==
  ASSUME TypeOK, CommandsFit, NEW h \in Hosts, NEW b, NEW todo, Restoring(h, b, todo), Do(h),
         cmd'[h] # None, Rank(todo[1], b) = 11, Holds(h, b, 11, todo),
         NEW t, Mine(h)' = Mine(h), cmd'[h].base = cmd[h].base
  PROVE  Holds(h, b, 11, t)'
<1>1. /\ M(h) \in Mine(h) \ {b}
      /\ WriteYml(h) \/ (Wipe(h) /\ Op(h) = "wipe") \/ Rm(h) \/ Run(h)
  BY RankedStep
<1>2. Mine(h) \subseteq Members /\ b \in Members BY MineFacts DEF Restoring, Ranked
<1>3. /\ UNCHANGED <<dcs, restored, stray>>
      /\ \A m \in Members \ {M(h)} : role'[m] = role[m] /\ data'[m] = data[m]
  BY <1>1, <1>2 DEF WriteYml, Wipe, Rm, Run, TypeOK, tally, hist
<1>4. Leading(h, b) /\ (stray = {} => HasRestored(h, b)) BY DEF Holds
<1>5. Leader \in Members \ {M(h)} BY <1>1, <1>4 DEF Leading, Leader, TypeOK
<1>6. Leading(h, b)' BY <1>3, <1>4, <1>5 DEF Leading, Leads, Leader
<1>7. stray' = {} => HasRestored(h, b)' BY <1>1, <1>2, <1>3, <1>4 DEF HasRestored
<1> QED BY <1>6, <1>7 DEF Holds

\* Host h restores with the bootstrap member b, and what holds by the rank of the
\* next step does.
LEMMA UncrossedNext ==
  ASSUME NEW h, NEW b \in Members, NEW t, NEW q, Mine(h)' = Mine(h),
         cmd'[h].todo = t, Ranked(t, Mine(h), b), q = Rank(t[1], b), Holds(h, b, q, t)'
  PROVE  Uncrossed(h)'
<1>1. Ranked(cmd[h].todo, Mine(h), b)' OBVIOUS
<1>2. Rank(cmd[h].todo[1], b)' = q OBVIOUS
<1> QED BY <1>1, <1>2 DEF Uncrossed

\* The restore's own steps keep it in order.
LEMMA OwnUncrossed ==
  ASSUME TypeOK, TypeOK', CommandsFit, MemberOwned, RunsOnData, NEW h \in Hosts, Uncrossed(h), Do(h)
  PROVE  Uncrossed(h)'
<1> SUFFICES ASSUME cmd'[h] # None, cmd'[h].op = "restore", ~cmd'[h].blind
             PROVE  Uncrossed(h)'
  BY DEF Uncrossed
<1>1. cmd[h] # None BY DoMoves
<1>2. PICK todo : todo = cmd[h].todo OBVIOUS
<1>3. /\ todo \in Seq(Steps) /\ todo # <<>> /\ 1 \in DOMAIN todo /\ cmd[h] \in Commands /\ CmdType
      /\ Op(h) = todo[1].do
  BY <1>1, <1>2, AtFacts DEF Now
<1>4. PICK t : t = Tail(todo) OBVIOUS
<1>5. cmd[h].op = "restore" /\ cmd[h].base = cmd'[h].base /\ cmd[h].seen = cmd'[h].seen /\ ~cmd[h].blind
  <2>1. \E s \in Seq(Steps) : Moved(h, s)
    <3>1. CASE Moved(h, Tail(cmd[h].todo)) BY <1>2, <1>3, <3>1, HeadRest
    <3>2. CASE Reorder(h)
      <4>1. PICK s \in Seq(Steps) : Then(h, s \o Tail(cmd[h].todo)) BY <3>2, ReorderFacts
      <4>2. s \o Tail(cmd[h].todo) \in Seq(Steps) BY <1>2, <1>3, HeadRest
      <4> QED BY <1>1, <1>3, <4>1, <4>2, ThenMoves
    <3>3. CASE Moved(h, For(None, <<"resume">>))
      <4>1. PICK ops : ops = <<"resume">> OBVIOUS
      <4>2. ops \in Seq(StepOps) BY <4>1 DEF StepOps
      <4>3. For(None, ops) \in Seq(Steps) BY <4>2, ForFacts
      <4> QED BY <3>3, <4>1, <4>3
    <3> QED BY <3>1, <3>2, <3>3, DoMoves
  <2> QED BY <2>1 DEF Moved, Kept
<1>6. PICK b \in Members : Ranked(todo, Mine(h), b) /\ Holds(h, b, Rank(todo[1], b), todo)
  BY <1>1, <1>2, <1>5 DEF Uncrossed
<1>7. PICK r : r = Rank(todo[1], b) OBVIOUS
<1>8. Restoring(h, b, todo) /\ Holds(h, b, r, todo) BY <1>1, <1>2, <1>5, <1>6, <1>7 DEF Restoring
<1>9. Mine(h)' = Mine(h) BY <1>5 DEF Mine, Entry, Local
<1>10. cmd'[h].todo = t /\ t # <<>>
  <2>1. Op(h) \notin {"order", "count"} BY <1>3, <1>6, RestoreOps
  <2>2. ~Reorder(h) /\ ~Count(h) BY <2>1 DEF Reorder, Count, At, Op
  <2>3. Moved(h, Tail(cmd[h].todo)) BY <2>2, DoMoves
  <2> QED BY <1>2, <1>4, <2>3 DEF Moved
<1>11. PICK q : q = Rank(t[1], b) OBVIOUS
<1>12. Ranked(t, Mine(h), b) BY <1>3, <1>4, <1>6, <1>10, RankedTail
<1>13. (q = r + 1 \/ (q = r /\ r \in {3, 11})) /\ r \in 1..11
  BY <1>3, <1>4, <1>6, <1>7, <1>10, <1>11, NextRank
<1>14. CASE r \in 1..4
  <2>1. q \in 2..5 /\ (r = 1 => q = 2) BY <1>13, <1>14
  <2>2. Holds(h, b, q, Tail(todo))' BY <1>7, <1>8, <1>9, <1>14, <2>1, StopsHold
  <2> QED BY <1>4, <1>9, <1>10, <1>11, <1>12, <2>2, UncrossedNext
<1>15. CASE r \in 5..10
  <2>1. q = r + 1 BY <1>13, <1>15
  <2>2. Holds(h, b, r + 1, t)' BY <1>5, <1>7, <1>8, <1>9, <1>15, BuildsHold
  <2> QED BY <1>9, <1>10, <1>11, <1>12, <2>1, <2>2, UncrossedNext
<1>16. CASE r = 11
  <2>1. q = 11
    <3>1. q \in 1..11 BY <1>11, RankRange
    <3> QED BY <1>13, <1>16, <3>1
  <2>2. Holds(h, b, 11, t)' BY <1>5, <1>7, <1>8, <1>9, <1>16, RejoinsHold
  <2> QED BY <1>9, <1>10, <1>11, <1>12, <2>1, <2>2, UncrossedNext
<1> QED BY <1>13, <1>14, <1>15, <1>16

\* A step of a restore that fails ends it, or keeps it in order.
LEMMA FailUncrossed ==
  ASSUME TypeOK, TypeOK', CommandsFit, NEW h \in Hosts, Uncrossed(h), Fail(h)
  PROVE  Uncrossed(h)'
<1> SUFFICES ASSUME cmd'[h] # None, cmd'[h].op = "restore", ~cmd'[h].blind
             PROVE  Uncrossed(h)'
  BY DEF Uncrossed
<1>1. /\ cmd[h] # None /\ UNCHANGED <<conf, box, gen>> /\ stray \subseteq stray'
      /\ After(h) # None /\ Moved(h, After(h)) /\ After(h) \in Seq(Steps)
  BY FailTypes
<1>2. PICK t : t = After(h) OBVIOUS
<1>3. PICK todo : todo = cmd[h].todo OBVIOUS
<1>4. t # <<>> /\ Kept(cmd[h], cmd'[h]) /\ cmd'[h].todo = t BY <1>1, <1>2 DEF Moved
<1>5. /\ cmd[h].op = "restore" /\ ~cmd[h].blind /\ cmd'[h].base = cmd[h].base
      /\ Mine(h)' = Mine(h)
  BY <1>4 DEF Kept, Mine, Entry, Local
<1>6. /\ todo \in Seq(Steps) /\ todo # <<>> /\ 1 \in DOMAIN todo /\ cmd[h] \in Commands /\ Fit(h) /\ CmdType
      /\ Op(h) = todo[1].do
  BY <1>1, <1>3, AtFacts DEF Now
<1>7. PICK b \in Members : Ranked(todo, Mine(h), b) /\ Holds(h, b, Rank(todo[1], b), todo)
  BY <1>1, <1>3, <1>5 DEF Uncrossed
<1>8. PICK r : r = Rank(todo[1], b) OBVIOUS
<1>9. Mine(h) \subseteq Members /\ (\A m \in Mine(h) : Home[m] = h) /\ Home[b] = h
  BY <1>1, <1>5, <1>7, MineFacts DEF Ranked
<1>10. Calm(h) BY <1>1 DEF Fail, Calm, node
<1>11. Holds(h, b, r, todo)' BY <1>5, <1>7, <1>8, <1>9, <1>10, CalmHolds
<1>12. CASE Op(h) \in Soft /\ t = Tail(todo)
  <2>1. Op(h) # "softstop"
    <3> SUFFICES ASSUME Op(h) = "softstop" PROVE FALSE OBVIOUS
    <3> DEFINE d == Doubts(cmd[h], Op(h) = "softstop")
    <3>1. cmd'[h] = Rest(d, After(h)) BY <1>1, <1>6 DEF Fail, CmdType
    <3>2. d \in Commands /\ d.blind = (cmd[h].blind \/ Op(h) = "softstop")
      <4>1. (Op(h) = "softstop") \in BOOLEAN OBVIOUS
      <4> QED BY <1>6, <4>1, DoubtsFacts
    <3>3. cmd'[h] = [d EXCEPT !.todo = After(h)] BY <1>2, <1>4, <3>1 DEF Rest
    <3>4. cmd'[h].blind = d.blind BY <3>2, <3>3 DEF Commands
    <3>5. d.blind => cmd'[h].blind BY <3>4
    <3> HIDE DEF d
    <3> QED BY <3>2, <3>5
  <2>2. r \in {1, 4}
    <3>1. r \in 1..11 BY <1>8, RankRange
    <3>2. r = 11 => Op(h) \in RejoinOps BY <1>6, <1>7, <1>8 DEF Ranked
    <3>3. r \notin {2, 3, 5, 6, 7, 8, 9, 10} BY <1>6, <1>8, <1>12, <2>1, RankOps, SMTT(30) DEF Soft
    <3>4. r # 11 BY <1>12, <3>2 DEF Soft, RejoinOps
    <3> QED BY <3>1, <3>3, <3>4
  <2>3. PICK q : q = Rank(t[1], b) OBVIOUS
  <2>4. Ranked(t, Mine(h), b) BY <1>4, <1>6, <1>7, <1>12, RankedTail
  <2>5. q = r + 1
    <3>1. q = r + 1 \/ (q = r /\ r \in {3, 11}) BY <1>4, <1>6, <1>7, <1>8, <1>12, <2>3, NextRank
    <3> QED BY <2>2, <3>1
  <2>6. Holds(h, b, q, t)'
    <3>1. CASE r = 1
      <4>1. q = 2 BY <2>5, <3>1
      <4> QED BY <4>1 DEF Holds
    <3>2. CASE r = 4
      <4>1. q = 5 BY <2>5, <3>2
      <4>2. todo[1].do # "softstop" BY <1>6, <2>1
      <4>3. \A i \in DOMAIN todo : i = 1 \/ (i - 1 \in DOMAIN t /\ t[i - 1] = todo[i])
        BY <1>6, <1>12, HeadRest
      <4>4. \A m : (\E i \in DOMAIN todo : todo[i].do = "softstop" /\ todo[i].for = m)
                     => \E i \in DOMAIN t : t[i].do = "softstop" /\ t[i].for = m
        BY <4>2, <4>3
      <4>5. /\ Frozen(h)' /\ Unelected(h)'
            /\ \A m \in Mine(h)' :
                 ~Up(m)' \/ \E i \in DOMAIN todo : todo[i].do = "softstop" /\ todo[i].for = m
        BY <1>11, <3>2 DEF Holds
      <4> QED BY <4>1, <4>4, <4>5 DEF Holds
    <3> QED BY <2>2, <3>1, <3>2
  <2> QED BY <1>4, <1>5, <2>3, <2>4, <2>6, UncrossedNext
<1>13. CASE /\ M(h) # None
            /\ \A i \in DOMAIN Tail(todo) : Tail(todo)[i].do # "await"
            /\ t \in Seq(Range(Tail(todo)))
  <2>1. \A i \in DOMAIN todo : Rank(todo[i], b) = 11 BY <1>1, <1>3, <1>5, <1>7, <1>13, Rejoining
  <2>2. \A i \in DOMAIN t : \E j \in DOMAIN todo : t[i] = todo[j] /\ Rank(todo[j], b) = 11
    <3> SUFFICES ASSUME NEW i \in DOMAIN t
                 PROVE  \E j \in DOMAIN todo : t[i] = todo[j] /\ Rank(todo[j], b) = 11
      OBVIOUS
    <3>1. t[i] \in Range(Tail(todo)) BY <1>13
    <3>2. PICK k \in DOMAIN Tail(todo) : t[i] = Tail(todo)[k] BY <3>1 DEF Range
    <3>3. k + 1 \in DOMAIN todo /\ Tail(todo)[k] = todo[k + 1] BY <1>6, HeadRest
    <3> QED BY <2>1, <3>2, <3>3
  <2>3. t \in Seq(Steps) /\ Moved(h, t) BY <1>1, <1>2
  <2>4. Ranked(t, Mine(h), b) BY <1>1, <1>3, <1>4, <1>5, <1>6, <1>7, <2>2, <2>3, FitGivesUp
  <2>5. r = 11 /\ Rank(t[1], b) = 11
    <3>1. 1 \in DOMAIN t BY <1>4, <2>3, HeadRest
    <3> QED BY <1>6, <1>8, <2>1, <2>2, <3>1
  <2>6. Holds(h, b, 11, t)' BY <1>11, <2>5 DEF Holds
  <2> QED BY <1>4, <1>5, <2>4, <2>5, <2>6, UncrossedNext
<1> QED BY <1>1, <1>2, <1>3, <1>5, <1>12, <1>13, AfterFacts

\* What a paused cluster does not do and what waits without keys keeps every
\* restore that nothing crosses in order.
LEMMA StepHolds ==
  ASSUME TypeOK, TypeOK', CommandsFit, MemberOwned, RunsOnData, RestoresHold, Freezes, Waits, [Next]_vars
  PROVE  RestoresHold'
<1> SUFFICES ASSUME NEW h \in Hosts PROVE Uncrossed(h)' BY DEF RestoresHold
<1>1. Uncrossed(h) BY DEF RestoresHold
<1>2. ASSUME UNCHANGED <<node, restored>>, dcs' = dcs, stray \subseteq stray', Stay({h}) PROVE Uncrossed(h)'
  <2>1. Calm(h) BY <1>2 DEF Calm, node
  <2> QED BY <1>1, <1>2, <2>1, CalmUncrossed
<1>3. ASSUME NEW g \in Hosts, Command(g) PROVE Uncrossed(h)'
  <2>1. PICK op \in CommandOps, todo \in Seq(Steps), clean \in BOOLEAN, stale \in SUBSET Members :
          Begin(g, op, todo, clean, stale) /\ Launch(g, op, todo)
    BY <1>3, CommandLaunches DEF Begins
  <2>2. /\ Stay(Hosts \ {g}) /\ UNCHANGED <<node, dcs, restored, hist>>
        /\ cmd'[g].todo = todo /\ cmd'[g].op = op /\ Mine(g)' = Own(g)
    <3>1. UNCHANGED <<conf, node, dcs, restored, hist>> BY <2>1 DEF Begin
    <3>2. cmd \in [Hosts -> Commands \cup {None}] BY DEF TypeOK
    <3>3. \A x \in Hosts \ {g} : cmd'[x] = cmd[x] BY <2>1, <3>2 DEF Begin
    <3>4. Stay(Hosts \ {g}) BY <3>2, <3>3 DEF Stay, Kept
    <3>5. cmd'[g].todo = todo /\ cmd'[g].op = op /\ cmd'[g].seen = conf[g] BY <2>1, <3>2 DEF Begin
    <3>6. Mine(g)' = Own(g) BY <3>5 DEF Mine, Entry, Local, Own, Known
    <3> QED BY <3>1, <3>4, <3>5, <3>6
  <2>3. CASE g # h
    <3>1. Stay({h}) BY <2>2, <2>3 DEF Stay
    <3>2. UNCHANGED <<node, restored>> /\ dcs' = dcs /\ stray \subseteq stray' BY <2>2 DEF hist
    <3> QED BY <1>2, <3>1, <3>2
  <2>4. CASE g = h /\ op = "restore"
    <3>1. PICK b \in Members : Ranked(todo, Own(h), b) BY <2>1, <2>4 DEF Launch
    <3>2. todo[1].do = "ask" BY <2>1, <2>4 DEF Launch
    <3>3. Rank(todo[1], b) = 1 BY <3>2 DEF Rank
    <3>4. Holds(h, b, 1, todo)' BY DEF Holds
    <3>5. Ranked(cmd[h].todo, Mine(h), b)' BY <2>2, <2>4, <3>1
    <3>6. Rank(cmd[h].todo[1], b)' = 1 /\ cmd'[h].todo = todo BY <2>2, <2>4, <3>3
    <3> QED BY <3>4, <3>5, <3>6 DEF Uncrossed
  <2>5. CASE g = h /\ op # "restore" BY <2>2, <2>5 DEF Uncrossed
  <2> QED BY <2>3, <2>4, <2>5
<1>4. ASSUME NEW g \in Hosts, Do(g) PROVE Uncrossed(h)'
  <2>1. CASE g = h BY <1>1, <1>4, <2>1, OwnUncrossed
  <2>2. CASE g # h
    <3> SUFFICES ASSUME cmd'[h] # None, cmd'[h].op = "restore", ~cmd'[h].blind PROVE Uncrossed(h)'
      BY DEF Uncrossed
    <3>1. Stay({h}) BY <1>4, <2>2, DoMoves DEF Stay
    <3>2. cmd[h] # None /\ cmd[h].op = "restore" BY <3>1 DEF Stay, Kept
    <3>3. Calm(h) BY <1>4, <2>2, <3>2, OthersCalm
    <3> QED BY <1>1, <3>1, <3>3, CalmUncrossed
  <2> QED BY <2>1, <2>2
<1>5. ASSUME NEW g \in Hosts, Fail(g) PROVE Uncrossed(h)'
  <2>1. CASE g = h BY <1>1, <1>5, <2>1, FailUncrossed
  <2>2. CASE g # h
    <3>1. Stay({h}) /\ stray \subseteq stray' BY <1>5, <2>2, FailTypes DEF Stay
    <3>2. UNCHANGED <<node, restored>> /\ dcs' = dcs BY <1>5 DEF Fail
    <3> QED BY <1>2, <3>1, <3>2
  <2> QED BY <2>1, <2>2
<1>6. ASSUME NEW g \in Hosts, Kill(g) PROVE Uncrossed(h)'
  <2>1. CASE g = h BY <1>6, <2>1, KillTypes DEF Uncrossed
  <2>2. CASE g # h
    <3>1. Stay({h}) /\ stray \subseteq stray' BY <1>6, <2>2, KillTypes DEF Stay
    <3>2. UNCHANGED <<node, restored>> /\ dcs' = dcs BY <1>6 DEF Kill
    <3> QED BY <1>2, <3>1, <3>2
  <2> QED BY <2>1, <2>2
<1>7. ASSUME NEW m \in Members, Die(m) PROVE Uncrossed(h)'
  <2>1. Stay(Hosts) /\ Crossed(Hosts) BY <1>7, DieTypes
  <2>2. cmd'[h] # None /\ cmd'[h].op = "restore" => cmd'[h].blind
    BY <2>1 DEF Stay, Crossed, Kept
  <2> QED BY <2>2 DEF Uncrossed
<1>8. CASE Patroni
  <2> SUFFICES ASSUME cmd'[h] # None, cmd'[h].op = "restore", ~cmd'[h].blind PROVE Uncrossed(h)'
    BY DEF Uncrossed
  <2>1. cmd' = cmd BY <1>8, PatroniTypes
  <2>2. PICK todo : todo = cmd[h].todo OBVIOUS
  <2>3. PICK b \in Members : Ranked(todo, Mine(h), b) /\ Holds(h, b, Rank(todo[1], b), todo)
    BY <1>1, <2>1, <2>2 DEF Uncrossed
  <2>4. PICK r : r = Rank(todo[1], b) OBVIOUS
  <2>5. r \in 1..11 /\ b \in Mine(h) BY <2>3, <2>4, RankRange DEF Ranked
  <2>6. Holds(h, b, r, todo)' BY <1>8, <2>1, <2>3, <2>4, <2>5, PatroniHolds
  <2>7. Mine(h)' = Mine(h) BY <2>1 DEF Mine, Entry, Local
  <2> QED BY <2>1, <2>2, <2>3, <2>4, <2>6, <2>7, UncrossedNext
<1>9. CASE UNCHANGED vars
  <2>1. Stay({h}) BY <1>9, SameStays DEF TypeOK, CmdType, vars, Stay
  <2>2. UNCHANGED <<node, restored>> /\ dcs' = dcs /\ stray \subseteq stray' BY <1>9 DEF vars, tally, hist
  <2> QED BY <1>2, <2>1, <2>2
<1> QED BY <1>3, <1>4, <1>5, <1>6, <1>7, <1>8, <1>9 DEF Next

\* What the theorems about restores stand on.
LEMMA Ordered ==
  (Freezes /\ Waits) => (Spec => [](TypeOK /\ CommandsFit /\ MemberOwned /\ RunsOnData /\ RestoresHold))
<1> SUFFICES ASSUME Freezes, Waits
             PROVE  Spec => [](TypeOK /\ CommandsFit /\ MemberOwned /\ RunsOnData /\ RestoresHold)
  OBVIOUS
<1>1. Init => RunsOnData /\ RestoresHold
  <2> SUFFICES ASSUME Init PROVE RunsOnData /\ RestoresHold OBVIOUS
  <2>1. data = [m \in Members |-> 1] /\ cmd = [h \in Hosts |-> None] BY DEF Init
  <2>2. 1 # None BY ClusterAssumption
  <2> QED BY <2>1, <2>2 DEF RunsOnData, RestoresHold, Uncrossed
<1>2. TypeOK /\ CommandsFit /\ RunsOnData /\ [Next]_vars => RunsOnData' BY RunsStep
<1>3. TypeOK /\ TypeOK' /\ CommandsFit /\ MemberOwned /\ RunsOnData /\ RestoresHold /\ [Next]_vars
        => RestoresHold'
  BY StepHolds
<1> QED BY <1>1, <1>2, <1>3, Fitting, Owned, PTL DEF Spec

\* Before a restore wipes a member that is to rejoin, another member of its host
\* leads, with the database the restore has made unless a member is astray.
\* (runClusterRestore waits for the leader before step 7.)
THEOREM CopiesRemain == (Freezes /\ Waits) => (Spec => []CopyRemains)
<1> SUFFICES ASSUME Freezes, Waits PROVE Spec => []CopyRemains OBVIOUS
<1>1. TypeOK /\ CommandsFit /\ RunsOnData /\ RestoresHold => CopyRemains
  <2> SUFFICES ASSUME TypeOK, CommandsFit, RunsOnData, RestoresHold, NEW h \in Hosts,
                      At(h, {"wipe"}), cmd[h].op = "restore", ~cmd[h].blind, yml[M(h)] = "plain"
               PROVE  \E m \in Local(h, Members) \ {M(h)} :
                        /\ Leads(m) /\ data[m] # None
                        /\ stray = {} => data[m] \in restored /\ data[m] > cmd[h].base
    BY DEF CopyRemains
  <2>1. cmd[h] # None /\ Op(h) = "wipe" BY DEF At, Op
  <2>2. PICK todo : todo = cmd[h].todo OBVIOUS
  <2>3. PICK b \in Members : Ranked(todo, Mine(h), b) /\ Holds(h, b, Rank(todo[1], b), todo)
    BY <2>1, <2>2 DEF RestoresHold, Uncrossed
  <2>4. Op(h) = todo[1].do /\ M(h) = todo[1].for /\ 1 \in DOMAIN todo BY <2>1, <2>2, AtFacts DEF Now
  <2>5. M(h) # b
    <3> SUFFICES ASSUME M(h) = b PROVE FALSE OBVIOUS
    <3>1. Rank(todo[1], b) = 7 BY <2>1, <2>4 DEF Rank
    <3>2. yml[b] = "restore" BY <2>3, <3>1 DEF Holds
    <3> QED BY <3>2
  <2>6. Rank(todo[1], b) = 11 BY <2>1, <2>4, <2>5 DEF Rank
  <2>7. Leading(h, b) /\ (stray = {} => HasRestored(h, b)) BY <2>3, <2>6 DEF Holds
  <2>8. M(h) \in Mine(h) \ {b} BY <2>3, <2>4, <2>6 DEF Ranked
  <2>9. Leader \in Members /\ Home[Leader] = h /\ Leads(Leader) /\ Leader # M(h)
    BY <2>7, <2>8 DEF Leading, Leader, TypeOK
  <2>10. data[Leader] # None BY <2>9 DEF Leads, RunsOnData
  <2>11. stray = {} => data[Leader] \in restored /\ data[Leader] > cmd[h].base
    BY <2>7 DEF HasRestored, Leader
  <2> QED BY <2>9, <2>10, <2>11 DEF Local
<1> QED BY <1>1, Ordered, PTL

\* A restore that ends well, and that nothing crossed, leaves the cluster led by
\* a member with the database it restored.
THEOREM RestoresWin == (Freezes /\ Waits) => (Spec => RestoreWins)
<1> SUFFICES ASSUME Freezes, Waits PROVE Spec => RestoreWins OBVIOUS
<1> DEFINE A == \A h \in Hosts :
                  Finishes(h, "restore") /\ ~cmd[h].blind /\ stray = {} /\ Leader # None =>
                    data[Leader] \in restored /\ data[Leader] > cmd[h].base
<1>1. TypeOK /\ CommandsFit /\ MemberOwned /\ RunsOnData /\ RestoresHold => A
  <2> SUFFICES ASSUME TypeOK, CommandsFit, MemberOwned, RunsOnData, RestoresHold, NEW h \in Hosts,
                      Finishes(h, "restore"), ~cmd[h].blind, stray = {}, Leader # None
               PROVE  data[Leader] \in restored /\ data[Leader] > cmd[h].base
    OBVIOUS
  <2>1. cmd[h] # None /\ cmd[h].op = "restore" /\ Len(cmd[h].todo) = 1 BY DEF Finishes
  <2>2. PICK todo : todo = cmd[h].todo OBVIOUS
  <2>3. PICK b \in Members : Ranked(todo, Mine(h), b) /\ Holds(h, b, Rank(todo[1], b), todo)
    BY <2>1, <2>2 DEF RestoresHold, Uncrossed
  <2>4. PICK r : r = Rank(todo[1], b) OBVIOUS
  <2>5. todo \in Seq(Steps) /\ DOMAIN todo = {1} BY <2>1, <2>2, AtFacts
  <2>6. r \in {10, 11}
    <3>1. r \in 1..11 BY <2>4, RankRange
    <3>2. r <= 10 => r = 10 BY <2>3, <2>4, <2>5 DEF Ranked
    <3> QED BY <3>1, <3>2
  <2>7. dcs.set BY DEF TypeOK, Leader
  <2>8. HasRestored(h, b)
    <3>1. CASE r = 11 BY <2>3, <2>4, <3>1 DEF Holds
    <3>2. CASE r = 10
      <4>1. Leading(h, b) /\ (data[b] = None \/ HasRestored(h, b)) BY <2>3, <2>4, <2>7, <3>2 DEF Holds
      <4>2. Leader \in Members /\ Up(Leader) /\ role[Leader] = "primary" /\ Home[Leader] = h
        BY <4>1 DEF Leading, Leads, Leader, TypeOK
      <4>3. Leader \in Mine(h) BY <2>1, <4>2, RunsMine
      <4>4. Leader = b BY <4>1, <4>3 DEF Leading
      <4>5. data[b] # None BY <4>2, <4>4 DEF RunsOnData
      <4> QED BY <4>1, <4>5
    <3> QED BY <2>6, <3>1, <3>2
  <2> QED BY <2>8 DEF HasRestored, Leader
<1>2. TypeOK /\ CommandsFit /\ MemberOwned /\ RunsOnData /\ RestoresHold => [A]_vars BY <1>1
<1> QED BY <1>2, Ordered, PTL DEF RestoreWins

=============================================================================
