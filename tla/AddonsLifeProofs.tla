-------------------------- MODULE AddonsLifeProofs --------------------------
(***************************************************************************)
(* What the commands on add-ons promise, for any add-ons, settings and     *)
(* kinds whose programs are in order (AddonsOrder): the types, for any     *)
(* commands at once; when one command runs at a time and no save is cut    *)
(* short, that the entry and the data of an add-on go only after its       *)
(* containers (Addons.Implements), and that every container is owned by an *)
(* entry (Addons.OwnedBox); and when one command runs at a time, that the  *)
(* file under a running container is good (Addons.RestartSafe).            *)
(***************************************************************************)
EXTENDS AddonsOrder, FiniteSetTheorems, WellFoundedInduction, TLAPS

-----------------------------------------------------------------------------
\* Programs.

\* What After says of the rest of a program, when its first step is done.
LEMMA AfterTail ==
  ASSUME NEW s \in Seq(Ops), s # <<>>, NEW t \in BOOLEAN, NEW u \in BOOLEAN,
         NEW need, NEW give, NEW lose, After(s, t, need, give, lose),
         Head(s) \in give \/ (t /\ Head(s) \notin lose) => u
  PROVE  After(Tail(s), u, need, give, lose)
<1>1. Tail(s) \in Seq(Ops) /\ Len(Tail(s)) = Len(s) - 1 /\ Len(s) \in Nat /\ Head(s) = s[1]
  OBVIOUS
<1>2. \A i \in 1..(Len(s) - 1) : Tail(s)[i] = s[i + 1]
  OBVIOUS
<1>. SUFFICES ASSUME NEW i \in DOMAIN Tail(s), Tail(s)[i] \in need
              PROVE  \/ u /\ \A j \in 1..(i - 1) : Tail(s)[j] \notin lose
                     \/ \E g \in 1..(i - 1) : /\ Tail(s)[g] \in give
                          /\ \A j \in (g + 1)..(i - 1) : Tail(s)[j] \notin lose
  BY DEF After
<1>3. i \in 1..(Len(s) - 1) /\ i + 1 \in DOMAIN s /\ s[i + 1] \in need
  BY <1>1, <1>2
<1>4. CASE t /\ \A j \in 1..((i + 1) - 1) : s[j] \notin lose
  <2>1. s[1] \notin lose
    BY <1>3, <1>4
  <2>2. \A j \in 1..(i - 1) : Tail(s)[j] = s[j + 1] /\ j + 1 \in 1..((i + 1) - 1)
    BY <1>2, <1>3
  <2>3. \A j \in 1..(i - 1) : Tail(s)[j] \notin lose
    BY <1>4, <2>2
  <2>. QED
    BY <1>1, <1>4, <2>1, <2>3
<1>5. ASSUME NEW g \in 1..((i + 1) - 1), s[g] \in give,
             \A j \in (g + 1)..((i + 1) - 1) : s[j] \notin lose
      PROVE  \/ u /\ \A j \in 1..(i - 1) : Tail(s)[j] \notin lose
             \/ \E h \in 1..(i - 1) : /\ Tail(s)[h] \in give
                  /\ \A j \in (h + 1)..(i - 1) : Tail(s)[j] \notin lose
  <2>1. CASE g = 1
    <3>1. u
      BY <1>1, <1>5, <2>1
    <3>2. \A j \in 1..(i - 1) : Tail(s)[j] = s[j + 1] /\ j + 1 \in (g + 1)..((i + 1) - 1)
      BY <1>2, <1>3, <2>1, SMTT(30)
    <3>. QED
      BY <1>5, <3>1, <3>2
  <2>2. CASE g # 1
    <3>1. g - 1 \in 1..(i - 1) /\ Tail(s)[g - 1] = s[g]
      BY <1>2, <1>3, <2>2
    <3>2. \A j \in ((g - 1) + 1)..(i - 1) :
            Tail(s)[j] = s[j + 1] /\ j + 1 \in (g + 1)..((i + 1) - 1)
      <4>. TAKE j \in ((g - 1) + 1)..(i - 1)
      <4>1. j \in 1..(Len(s) - 1) /\ j + 1 \in (g + 1)..((i + 1) - 1)
        BY <1>1, <1>3, <1>5
      <4>. QED
        BY <1>2, <4>1
    <3>3. \A j \in ((g - 1) + 1)..(i - 1) : Tail(s)[j] \notin lose
      BY <1>5, <3>2
    <3>. QED
      BY <1>5, <3>1, <3>3
  <2>. QED
    BY <2>1, <2>2
<1>6. \/ t /\ \A j \in 1..((i + 1) - 1) : s[j] \notin lose
      \/ \E g \in 1..((i + 1) - 1) :
           s[g] \in give /\ \A j \in (g + 1)..((i + 1) - 1) : s[j] \notin lose
  BY <1>3 DEF After
<1>. QED
  BY <1>4, <1>5, <1>6

\* A step of need at the head of the program finds what it needs.
LEMMA AfterHead ==
  ASSUME NEW s \in Seq(Ops), s # <<>>, NEW t \in BOOLEAN,
         NEW need, NEW give, NEW lose, After(s, t, need, give, lose), Head(s) \in need
  PROVE  t
<1>1. 1 \in DOMAIN s /\ Head(s) = s[1] /\ 1..(1 - 1) = {}
  OBVIOUS
<1>. QED
  BY <1>1 DEF After

\* A set of numbers has a least one.
LEMMA Least ==
  ASSUME NEW T \in SUBSET Nat, T # {}
  PROVE  \E x \in T : \A y \in T : x <= y
<1> DEFINE R == StrictSubsetOrdering(Nat)
           B(n) == {k \in Nat : k < n}
           F == {B(n) : n \in T}
<1>1. IsWellFoundedOn(R, FiniteSubsetsOf(Nat))
  BY FS_StrictSubsetOrderingWellFounded
<1>2. ASSUME NEW n \in T PROVE B(n) \in FiniteSubsetsOf(Nat)
  <2>1. IsFiniteSet(0..(n - 1))
    BY FS_Interval
  <2>2. B(n) = 0..(n - 1)
    OBVIOUS
  <2>. QED
    BY <2>1, <2>2 DEF FiniteSubsetsOf
<1>3. F \subseteq FiniteSubsetsOf(Nat) /\ F # {}
  BY <1>2
<1>. HIDE DEF F, R, B
<1>4. PICK X \in F : \A Y \in F : ~(<<Y, X>> \in R)
  BY <1>1, <1>3, WFMin
<1>. USE DEF F, R, B
<1>5. PICK x \in T : X = B(x)
  OBVIOUS
<1>6. ASSUME NEW y \in T, y < x PROVE FALSE
  <2>1. B(y) \in F /\ B(y) \subseteq B(x) /\ y \in B(x) /\ y \notin B(y)
    BY <1>6
  <2>2. <<B(y), X>> \in R
    BY <2>1, <1>5 DEF StrictSubsetOrdering
  <2>. QED
    BY <1>4, <2>1, <2>2
<1>. QED
  BY <1>6

\* A fresh secret is a secret, if there is one.
LEMMA FreshSecret ==
  Fresh \in Secrets \cup {None} /\ (Fresh # None => Fresh \in Secrets)
<1>1. CASE Free = {}
  BY <1>1 DEF Fresh
<1>2. CASE Free # {}
  <2>1. Free \in SUBSET Nat /\ Free \subseteq Secrets
    BY SettingsAssumption DEF Free
  <2>2. \E x \in Free : \A y \in Free : x <= y
    BY <1>2, <2>1, Least
  <2>. QED
    BY <1>2, <2>1, <2>2 DEF Fresh
<1>. QED
  BY <1>1, <1>2

-----------------------------------------------------------------------------
\* Types.

\* What the steps left to the command c need of its entry, and what brings it.
NeedsOf(c) == IF c.op = "install" THEN InstallNeeds(kind[c.name]) ELSE UseNeeds
GivesOf(c) == IF c.op = "install" THEN {"merge"} ELSE {"entry"}
Fed(c) ==
  /\ After(c.todo, c.work # None, NeedsOf(c), GivesOf(c), {"load", "drop"})
  /\ c.op # "install" => After(c.todo, FALSE, {"choose"}, {}, {})

Stores ==
  /\ kind \in [Names -> Kinds]
  /\ conf \in [Names -> Entry \cup {None}]
  /\ torn \in BOOLEAN
  /\ file \in [Names -> File \cup {None}]
  /\ data \in [Names -> [sec : Secrets \cup {None}] \cup {None}]
  /\ box \in [Names -> [Parts -> Box \cup {None}]]
  /\ faults \in 0..MaxFaults
  /\ known \in [Names -> BOOLEAN]
  /\ cut \in [Names -> BOOLEAN]
  /\ last \in [Names -> Entry \cup {None}]
  /\ lossy \in BOOLEAN

TypeInv ==
  /\ Stores
  /\ cmd \in [Procs -> Command \cup {None}]
  /\ \A p \in Procs : cmd[p] # None => Fed(cmd[p])

-----------------------------------------------------------------------------
\* How the step op takes the command c on, as the record d.

Follows(c, d, op) ==
  /\ d \in Command
  /\ d.op = c.op
  /\ d.name = c.name
  /\ d.todo = Tail(c.todo)
  /\ d.seen = (IF op = "load" THEN conf ELSE c.seen)
  /\ op = "load" => d.work = conf[c.name]
  /\ op = "drop" => d.work = None
  /\ op = "entry" => d.work = c.work /\ d.work # None
  /\ op = "merge" => d.work = Merged(c, c.seen[c.name]) /\ d.work \in Entry
  /\ op \in Rekeys \cup {"generate"} /\ op # "merge" =>
       d.work \in Entry /\ c.work \in Entry /\ d.work.set = c.work.set
  /\ op \notin Rekeys \cup {"load", "drop", "generate"} => d.work = c.work
  /\ d.want \in {c.want, None}

\* The command p goes on so.
Goes(p) ==
  /\ cmd[p] # None
  /\ cmd[p].todo # <<>>
  /\ \E d : cmd' = [cmd EXCEPT ![p] = d] /\ Follows(cmd[p], d, Head(cmd[p].todo))

\* It ends before its program does, although nothing fails.
Leaves(p) ==
  /\ cmd[p] # None
  /\ cmd[p].todo # <<>>
  /\ \/ Head(cmd[p].todo) \in Quits
     \/ /\ Head(cmd[p].todo) = "passwd"
        /\ Bound(cmd[p].name) # None
        /\ Bound(cmd[p].name) # cmd[p].work.sec
        /\ cmd[p].seen[cmd[p].name] = None \/ cmd[p].seen[cmd[p].name].sec # Bound(cmd[p].name)
  /\ End(p)

\* What the invariant says of the command p at a step.
LEMMA AtStep ==
  ASSUME TypeInv, NEW p \in Procs, cmd[p] # None, cmd[p].todo # <<>>
  PROVE  /\ cmd[p] \in Command
         /\ cmd[p].todo \in Seq(Ops) /\ Tail(cmd[p].todo) \in Seq(Ops)
         /\ cmd[p].name \in Names /\ N(p) = cmd[p].name
         /\ cmd[p].work \in Entry \cup {None} /\ Work(p) = cmd[p].work
         /\ Head(cmd[p].todo) \in Uses => cmd[p].work \in Entry
<1>1. cmd[p] \in Command
  BY DEF TypeInv
<1>2. /\ cmd[p].todo \in Seq(Ops) /\ Tail(cmd[p].todo) \in Seq(Ops)
      /\ cmd[p].name \in Names /\ cmd[p].work \in Entry \cup {None}
  BY <1>1 DEF Command
<1>3. ASSUME Head(cmd[p].todo) \in Uses PROVE cmd[p].work # None
  <2>1. Fed(cmd[p])
    BY DEF TypeInv
  <2>2. Head(cmd[p].todo) \in NeedsOf(cmd[p])
    BY <1>3 DEF NeedsOf, InstallNeeds, UseNeeds
  <2>. QED
    BY <1>1, <1>2, <2>1, <2>2, AfterHead DEF Fed
<1>. QED
  BY <1>1, <1>2, <1>3 DEF N, Work

\* The three ways a step ends: it goes on as the record c, goes on, or stops.
LEMMA GoGoes ==
  ASSUME TypeInv, NEW p \in Procs, cmd[p] # None, cmd[p].todo # <<>>,
         NEW c, Go(p, c), Follows(cmd[p], [c EXCEPT !.todo = Tail(@)], Head(cmd[p].todo))
  PROVE  Goes(p)
BY DEF Go, Goes

\* A step that leaves the command as it is goes on.
LEMMA SkipGoes ==
  ASSUME TypeInv, NEW p \in Procs, cmd[p] # None, cmd[p].todo # <<>>, Skip(p),
         Head(cmd[p].todo) \notin {"load", "drop", "merge"},
         Head(cmd[p].todo) = "entry" => cmd[p].work # None
  PROVE  Goes(p)
<1> DEFINE d == [cmd[p] EXCEPT !.todo = Tail(@)]
           op == Head(cmd[p].todo)
<1>1. cmd[p] \in Command /\ Tail(cmd[p].todo) \in Seq(Ops)
      /\ (op \in Uses => cmd[p].work \in Entry)
  BY AtStep
<1>2. d \in Command /\ d.op = cmd[p].op /\ d.name = cmd[p].name /\ d.todo = Tail(cmd[p].todo)
      /\ d.seen = cmd[p].seen /\ d.work = cmd[p].work /\ d.want = cmd[p].want
  BY <1>1 DEF Command
<1>3. op \in Rekeys \cup {"generate"} /\ op # "merge" => op \in Uses
  BY DEF Rekeys, Uses
<1>. HIDE DEF d
<1>4. Follows(cmd[p], d, op)
  BY <1>1, <1>2, <1>3 DEF Follows
<1>. QED
  BY <1>4, GoGoes DEF Skip, d

\* It goes on with another file of before, or another flag.
LEMMA FieldGoes ==
  ASSUME TypeInv, NEW p \in Procs, cmd[p] # None, cmd[p].todo # <<>>,
         Head(cmd[p].todo) \notin Rekeys \cup {"load", "drop", "generate", "entry"},
         NEW f \in File \cup {None}, NEW b \in BOOLEAN,
         \/ Go(p, [cmd[p] EXCEPT !.old = f])
         \/ Go(p, [cmd[p] EXCEPT !.ok = b])
         \/ Go(p, [cmd[p] EXCEPT !.asked = b])
  PROVE  Goes(p)
<1> DEFINE op == Head(cmd[p].todo)
<1>1. cmd[p] \in Command /\ Tail(cmd[p].todo) \in Seq(Ops)
  BY AtStep
<1>2. ASSUME NEW c, c \in {[cmd[p] EXCEPT !.old = f], [cmd[p] EXCEPT !.ok = b],
                           [cmd[p] EXCEPT !.asked = b]}
      PROVE  Follows(cmd[p], [c EXCEPT !.todo = Tail(@)], op)
  <2> DEFINE d == [c EXCEPT !.todo = Tail(@)]
  <2>0. c \in Command /\ c.op = cmd[p].op /\ c.name = cmd[p].name
        /\ c.todo = cmd[p].todo /\ c.seen = cmd[p].seen /\ c.work = cmd[p].work
        /\ c.want = cmd[p].want
    <3>1. CASE c = [cmd[p] EXCEPT !.old = f]
      BY <1>1, <3>1 DEF Command
    <3>2. CASE c = [cmd[p] EXCEPT !.ok = b]
      BY <1>1, <3>2 DEF Command
    <3>3. CASE c = [cmd[p] EXCEPT !.asked = b]
      BY <1>1, <3>3 DEF Command
    <3>. QED
      BY <1>2, <3>1, <3>2, <3>3
  <2>1. d \in Command /\ d.op = cmd[p].op /\ d.name = cmd[p].name
        /\ d.todo = Tail(cmd[p].todo) /\ d.seen = cmd[p].seen /\ d.work = cmd[p].work
        /\ d.want = cmd[p].want
    BY <1>1, <2>0 DEF Command
  <2>. HIDE DEF d
  <2>2. Follows(cmd[p], d, op)
    BY <2>1 DEF Follows, Rekeys
  <2>. QED
    BY <2>2 DEF d
<1>. QED
  BY <1>2, GoGoes

\* It goes on with another secret in its entry.
LEMMA RekeyGoes ==
  ASSUME TypeInv, NEW p \in Procs, cmd[p] # None, cmd[p].todo # <<>>,
         Head(cmd[p].todo) \in Rekeys \cup {"generate"}, Head(cmd[p].todo) # "merge",
         NEW x \in Secrets \cup {None}, Go(p, [cmd[p] EXCEPT !.work.sec = x])
  PROVE  Goes(p)
<1> DEFINE op == Head(cmd[p].todo)
           d == [[cmd[p] EXCEPT !.work.sec = x] EXCEPT !.todo = Tail(@)]
<1>1. cmd[p] \in Command /\ Tail(cmd[p].todo) \in Seq(Ops) /\ cmd[p].work \in Entry
  BY AtStep DEF Rekeys, Uses
<1>2. d = [[cmd[p] EXCEPT !.work = [cmd[p].work EXCEPT !.sec = x]] EXCEPT !.todo = Tail(@)]
  BY <1>1 DEF Command
<1>3. [cmd[p].work EXCEPT !.sec = x] \in Entry
      /\ [cmd[p].work EXCEPT !.sec = x].set = cmd[p].work.set
  BY <1>1 DEF Entry
<1>4. d \in Command /\ d.op = cmd[p].op /\ d.name = cmd[p].name
      /\ d.todo = Tail(cmd[p].todo) /\ d.seen = cmd[p].seen
      /\ d.work = [cmd[p].work EXCEPT !.sec = x] /\ d.want = cmd[p].want
  BY <1>1, <1>2, <1>3 DEF Command
<1>. HIDE DEF d
<1>5. Follows(cmd[p], d, op)
  BY <1>1, <1>3, <1>4 DEF Follows, Rekeys
<1>. QED
  BY <1>5, GoGoes DEF d

\* The steps that go on or stop, and never change the command itself.
PlainStep(p) ==
  \/ FindEntry(p) \/ Check(p) \/ NeedFile(p) \/ SetSecret(p) \/ Wipe(p)
  \/ DropFile(p) \/ Halt(p) \/ Rm(p) \/ Create(p) \/ Discard(p) \/ Save(p)

\* They go on, or stop as Leaves allows.
LEMMA PlainStepGoes ==
  ASSUME TypeInv, NEW p \in Procs, PlainStep(p)
  PROVE  Goes(p) \/ Leaves(p)
<1>1. cmd[p] # None /\ cmd[p].todo # <<>>
  BY DEF PlainStep, FindEntry, Check, NeedFile, SetSecret, Wipe, DropFile, Halt, Rm,
         Create, Discard, Save, At
<1>2. CASE FindEntry(p)
  <2>1. Head(cmd[p].todo) = "entry"
    BY <1>2 DEF FindEntry, At
  <2>. QED
    BY <1>1, <1>2, <2>1, SkipGoes DEF FindEntry, Leaves, Quits, Work
<1>3. CASE NeedFile(p)
  <2>1. Head(cmd[p].todo) = "needfile"
    BY <1>3 DEF NeedFile, At
  <2>. QED
    BY <1>1, <1>3, <2>1, SkipGoes DEF NeedFile, Leaves, Quits
<1>4. CASE SetSecret(p)
  <2>1. Head(cmd[p].todo) \in {"setsecret", "admin", "bootstrap", "passwd"}
    BY <1>4 DEF SetSecret, At
  <2> DEFINE n == cmd[p].name
             clash == Bound(n) # None /\ Bound(n) # cmd[p].work.sec
             locked == \/ Head(cmd[p].todo) = "bootstrap" /\ clash
                       \/ /\ Head(cmd[p].todo) = "passwd" /\ clash
                          /\ cmd[p].seen[n] = None \/ cmd[p].seen[n].sec # Bound(n)
  <2>2. (locked /\ End(p)) \/ Skip(p)
    BY <1>4 DEF SetSecret, N, Work
  <2>3. CASE locked /\ End(p)
    BY <1>1, <2>3 DEF Leaves, Quits
  <2>. QED
    BY <1>1, <2>1, <2>2, <2>3, SkipGoes
<1>5. ASSUME Check(p) \/ Wipe(p) \/ DropFile(p) \/ Halt(p) \/ Rm(p) \/ Create(p)
             \/ Discard(p) \/ Save(p)
      PROVE  Goes(p)
  <2>1. Head(cmd[p].todo) \notin {"load", "drop", "merge", "entry"}
    BY <1>5 DEF Check, Wipe, DropFile, Halt, Rm, Create, Discard, Save, At
  <2>2. Skip(p)
    BY <1>5 DEF Check, Wipe, DropFile, Halt, Rm, Create, Discard, Save
  <2>. QED
    BY <1>1, <2>1, <2>2, SkipGoes
<1>. QED
  BY <1>2, <1>3, <1>4, <1>5 DEF PlainStep

\* It has read the file, merged the entry or dropped it.
LEMMA LoadGoes ==
  ASSUME TypeInv, NEW p \in Procs, Load(p)
  PROVE  Goes(p) \/ Leaves(p)
<1>1. cmd[p] # None /\ cmd[p].todo # <<>> /\ Head(cmd[p].todo) = "load"
  BY DEF Load, At
<1> DEFINE n == cmd[p].name
           d == [[cmd[p] EXCEPT !.seen = conf, !.work = conf[n]] EXCEPT !.todo = Tail(@)]
<1>2. cmd[p] \in Command /\ Tail(cmd[p].todo) \in Seq(Ops) /\ n \in Names /\ N(p) = n
  BY <1>1, AtStep
<1>3. conf \in [Names -> Entry \cup {None}]
  BY DEF TypeInv, Stores
<1>4. d \in Command /\ d.op = cmd[p].op /\ d.name = n /\ d.todo = Tail(cmd[p].todo)
      /\ d.seen = conf /\ d.work = conf[n] /\ d.want = cmd[p].want
  BY <1>2, <1>3 DEF Command
<1>. HIDE DEF d
<1>5. Follows(cmd[p], d, Head(cmd[p].todo))
  BY <1>1, <1>4 DEF Follows, Rekeys
<1>6. End(p) \/ Go(p, [cmd[p] EXCEPT !.seen = conf, !.work = conf[n]])
  BY <1>2 DEF Load
<1>. QED
  BY <1>1, <1>5, <1>6, GoGoes DEF Leaves, Quits, d

\* Flags over an entry, or over the defaults, make an entry.
LEMMA MergedEntry ==
  ASSUME NEW c \in Command, NEW e \in Entry \cup {None}
  PROVE  Merged(c, e) \in Entry
<1>1. c.want \in Settings \cup {None} /\ c.pw \in Secrets \cup {None} /\ Default \in Settings
  BY SettingsAssumption DEF Command
<1>2. e # None => e.set \in Settings /\ e.sec \in Secrets \cup {None}
  BY DEF Entry
<1>. QED
  BY <1>1, <1>2 DEF Merged, Entry

\* An install has merged its entry.
LEMMA MergeGoes ==
  ASSUME TypeInv, NEW p \in Procs, Merge(p)
  PROVE  Goes(p)
<1>1. cmd[p] # None /\ cmd[p].todo # <<>> /\ Head(cmd[p].todo) = "merge"
  BY DEF Merge, At
<1> DEFINE n == cmd[p].name
           m == Merged(cmd[p], cmd[p].seen[n])
           c == [cmd[p] EXCEPT !.work = m, !.want = None, !.pw = None]
           d == [c EXCEPT !.todo = Tail(@)]
<1>2. cmd[p] \in Command /\ Tail(cmd[p].todo) \in Seq(Ops) /\ n \in Names /\ N(p) = n
  BY <1>1, AtStep
<1>3. m \in Entry
  BY <1>2, MergedEntry DEF Command
<1>. HIDE DEF m
<1>4. d \in Command /\ d.op = cmd[p].op /\ d.name = n /\ d.todo = Tail(cmd[p].todo)
      /\ d.seen = cmd[p].seen /\ d.work = m /\ d.want = None
  BY <1>2, <1>3 DEF Command
<1>5. Go(p, c)
  BY <1>2 DEF Merge, m
<1>. HIDE DEF c
<1>6. Follows(cmd[p], d, Head(cmd[p].todo))
  BY <1>1, <1>3, <1>4 DEF Follows, Rekeys, m
<1>. QED
  BY <1>1, <1>5, <1>6, GoGoes

\* A remove has dropped its entry from memory.
LEMMA DropGoes ==
  ASSUME TypeInv, NEW p \in Procs, Drop(p)
  PROVE  Goes(p)
<1>1. cmd[p] # None /\ cmd[p].todo # <<>> /\ Head(cmd[p].todo) = "drop"
  BY DEF Drop, At
<1> DEFINE d == [[cmd[p] EXCEPT !.work = None] EXCEPT !.todo = Tail(@)]
<1>2. cmd[p] \in Command /\ Tail(cmd[p].todo) \in Seq(Ops)
  BY <1>1, AtStep
<1>3. d \in Command /\ d.op = cmd[p].op /\ d.name = cmd[p].name /\ d.todo = Tail(cmd[p].todo)
      /\ d.seen = cmd[p].seen /\ d.work = None /\ d.want = cmd[p].want
  BY <1>2 DEF Command
<1>4. Go(p, [cmd[p] EXCEPT !.work = None])
  BY DEF Drop
<1>. HIDE DEF d
<1>5. Follows(cmd[p], d, Head(cmd[p].todo))
  BY <1>1, <1>3 DEF Follows, Rekeys
<1>. QED
  BY <1>1, <1>4, <1>5, GoGoes DEF d

\* The steps that may give the entry in memory another secret.
KeyStep(p) == Generate(p) \/ DecideAuth(p) \/ Recall(p) \/ Agree(p) \/ Mint(p)

\* They go on with an entry, or stop.
LEMMA KeyStepGoes ==
  ASSUME TypeInv, NEW p \in Procs, KeyStep(p)
  PROVE  Goes(p) \/ Leaves(p)
<1>1. cmd[p] # None /\ cmd[p].todo # <<>>
      /\ Head(cmd[p].todo) \in {"generate", "rotate", "auth", "recall", "adopt", "fit", "mint"}
  BY DEF KeyStep, Generate, DecideAuth, Recall, Agree, Mint, At
<1>2. cmd[p].name \in Names /\ N(p) = cmd[p].name
  BY <1>1, AtStep
<1> DEFINE Rekeyed == \E x \in Secrets \cup {None} : Go(p, [cmd[p] EXCEPT !.work.sec = x])
<1>3. ASSUME Head(cmd[p].todo) # "fit", Rekeyed PROVE Goes(p)
  BY <1>1, <1>3, RekeyGoes DEF Rekeys
<1>4. ASSUME Skip(p) PROVE Goes(p)
  BY <1>1, <1>4, SkipGoes
<1>5. CASE Generate(p)
  <2>1. Head(cmd[p].todo) \in {"generate", "rotate"}
    BY <1>5 DEF Generate, At
  <2>2. Skip(p) \/ End(p) \/ Rekeyed
    BY <1>5, FreshSecret DEF Generate
  <2>. QED
    BY <1>1, <1>3, <1>4, <2>1, <2>2 DEF Leaves, Quits
<1>6. CASE Recall(p)
  <2>1. Head(cmd[p].todo) = "recall"
    BY <1>6 DEF Recall, At
  <2>2. file[cmd[p].name] # None => file[cmd[p].name].sec \in Secrets \cup {None}
    BY <1>2 DEF TypeInv, Stores, File
  <2>3. Skip(p) \/ Rekeyed
    BY <1>2, <1>6, <2>2 DEF Recall
  <2>. QED
    BY <1>3, <1>4, <2>1, <2>3
<1>7. CASE Agree(p)
  <2>1. Head(cmd[p].todo) \in {"adopt", "fit"}
    BY <1>7 DEF Agree, At
  <2>2. data[cmd[p].name] # None => data[cmd[p].name].sec \in Secrets \cup {None}
    BY <1>2 DEF TypeInv, Stores
  <2>3. Skip(p) \/ End(p) \/ (Head(cmd[p].todo) = "adopt" /\ Rekeyed)
    BY <1>2, <1>7, <2>2 DEF Agree
  <2>. QED
    BY <1>1, <1>3, <1>4, <2>1, <2>3 DEF Leaves, Quits
<1>8. CASE Mint(p)
  <2>1. Head(cmd[p].todo) = "mint"
    BY <1>8 DEF Mint, At
  <2>2. Skip(p) \/ Rekeyed
    BY <1>8, FreshSecret DEF Mint
  <2>. QED
    BY <1>3, <1>4, <2>1, <2>2
<1>9. CASE DecideAuth(p)
  <2>1. Head(cmd[p].todo) = "auth"
    BY <1>9 DEF DecideAuth, At
  <2>2. Work(p).sec # None => Work(p).sec \in Secrets \cup {None}
    BY <1>1, <2>1, AtStep DEF Uses, Entry
  <2>3. Rekeyed
    BY <1>9, <2>2, FreshSecret DEF DecideAuth
  <2>. QED
    BY <1>3, <2>1, <2>3
<1>. QED
  BY <1>5, <1>6, <1>7, <1>8, <1>9 DEF KeyStep

\* The steps that remember the file of before, or a flag.
FieldStep(p) ==
  \/ WriteFile(p) \/ Vet(p) \/ Signal(p) \/ NeedUp(p) \/ Startup(p) \/ Recreate(p)

\* They go on with the same entry, or stop.
LEMMA FieldStepGoes ==
  ASSUME TypeInv, NEW p \in Procs, FieldStep(p)
  PROVE  Goes(p) \/ Leaves(p)
<1>1. cmd[p] # None /\ cmd[p].todo # <<>>
      /\ Head(cmd[p].todo) \in {"files", "refile", "keepfile", "secretfile", "copyfile",
                                "vet", "signal", "nudge", "needup", "ifup", "ifdown",
                                "startup", "startup2", "look", "recreate", "recreate2"}
  BY DEF FieldStep, WriteFile, Vet, Signal, NeedUp, Startup, Recreate, At
<1>2. Head(cmd[p].todo) \notin Rekeys \cup {"load", "drop", "generate", "entry"}
  BY <1>1 DEF Rekeys
<1>3. N(p) \in Names /\ file[N(p)] \in File \cup {None}
  BY <1>1, AtStep DEF TypeInv, Stores
<1> DEFINE Marks == \/ \E f \in File \cup {None} : Go(p, [cmd[p] EXCEPT !.old = f])
                    \/ \E b \in BOOLEAN : Go(p, [cmd[p] EXCEPT !.ok = b])
                    \/ \E b \in BOOLEAN : Go(p, [cmd[p] EXCEPT !.asked = b])
<1>4. ASSUME Marks PROVE Goes(p)
  <2>1. ASSUME NEW f \in File \cup {None}, Go(p, [cmd[p] EXCEPT !.old = f]) PROVE Goes(p)
    BY <1>1, <1>2, <2>1, FieldGoes
  <2>2. ASSUME NEW b \in BOOLEAN,
               Go(p, [cmd[p] EXCEPT !.ok = b]) \/ Go(p, [cmd[p] EXCEPT !.asked = b])
        PROVE  Goes(p)
    BY <1>1, <1>2, <2>2, FieldGoes
  <2>. QED
    BY <1>4, <2>1, <2>2
<1>5. CASE WriteFile(p)
  <2>1. Marks
    BY <1>3, <1>5 DEF WriteFile
  <2>. QED
    BY <1>4, <2>1
<1>6. CASE Vet(p)
  <2>1. Head(cmd[p].todo) = "vet"
    BY <1>6 DEF Vet, At
  <2>2. End(p) \/ Marks
    BY <1>6 DEF Vet
  <2>. QED
    BY <1>1, <1>4, <2>1, <2>2 DEF Leaves, Quits
<1>7. CASE Signal(p)
  <2>1. Head(cmd[p].todo) \in {"signal", "nudge"}
    BY <1>7 DEF Signal, At
  <2>2. End(p) \/ Marks
    BY <1>7 DEF Signal
  <2>. QED
    BY <1>1, <1>4, <2>1, <2>2 DEF Leaves, Quits
<1>8. CASE NeedUp(p)
  <2>1. Head(cmd[p].todo) \in {"needup", "ifup", "ifdown"}
    BY <1>8 DEF NeedUp, At
  <2>2. End(p) \/ Marks
    BY <1>8 DEF NeedUp
  <2>. QED
    BY <1>1, <1>4, <2>1, <2>2 DEF Leaves, Quits
<1>9. CASE Startup(p)
  <2>1. Marks
    BY <1>9 DEF Startup
  <2>. QED
    BY <1>4, <2>1
<1>10. CASE Recreate(p)
  <2>1. Marks
    BY <1>10 DEF Recreate
  <2>. QED
    BY <1>4, <2>1
<1>. QED
  BY <1>5, <1>6, <1>7, <1>8, <1>9, <1>10 DEF FieldStep

\* An install goes on with a branch whose facts hold.
Turns(p) ==
  /\ cmd[p] # None
  /\ cmd[p].op = "install"
  /\ \E d \in Command, i \in DOMAIN Branches(kind[cmd[p].name]) :
       /\ cmd' = [cmd EXCEPT ![p] = d]
       /\ d.op = "install"
       /\ d.name = cmd[p].name
       /\ d.todo = Branches(kind[cmd[p].name])[i].steps
       /\ \A fact \in Branches(kind[cmd[p].name])[i].facts : Holds(p, fact)
       /\ d.seen = cmd[p].seen
       /\ d.work = cmd[p].work
       /\ d.want = cmd[p].want
       /\ d.built = (i = Len(Branches(kind[cmd[p].name])))

\* A command with one field set anew is a command.
LEMMA FieldSet ==
  ASSUME NEW c \in Command
  PROVE  /\ \A x \in BOOLEAN : [c EXCEPT !.force = x] \in Command
         /\ \A x \in BOOLEAN : [c EXCEPT !.asked = x] \in Command
         /\ \A x \in BOOLEAN : [c EXCEPT !.built = x] \in Command
         /\ \A x \in Seq(Ops) : [c EXCEPT !.todo = x] \in Command
         /\ \A x \in Settings \cup {None} : [c EXCEPT !.want = x] \in Command
         /\ \A x \in Secrets \cup {None} : [c EXCEPT !.pw = x] \in Command
<1>1. ASSUME NEW x \in BOOLEAN PROVE [c EXCEPT !.force = x] \in Command
  BY <1>1 DEF Command
<1>2. ASSUME NEW x \in BOOLEAN PROVE [c EXCEPT !.asked = x] \in Command
  BY <1>2 DEF Command
<1>3. ASSUME NEW x \in BOOLEAN PROVE [c EXCEPT !.built = x] \in Command
  BY <1>3 DEF Command
<1>4. ASSUME NEW x \in Seq(Ops) PROVE [c EXCEPT !.todo = x] \in Command
  BY <1>4 DEF Command
<1>5. ASSUME NEW x \in Settings \cup {None} PROVE [c EXCEPT !.want = x] \in Command
  BY <1>5 DEF Command
<1>6. ASSUME NEW x \in Secrets \cup {None} PROVE [c EXCEPT !.pw = x] \in Command
  BY <1>6 DEF Command
<1>. QED
  BY <1>1, <1>2, <1>3, <1>4, <1>5, <1>6

\* The last branch asks for nothing, so there is a first one that fits.
LEMMA ChooseTurns ==
  ASSUME TypeInv, NEW p \in Procs, Choose(p)
  PROVE  /\ Turns(p)
         /\ Merges(kind[cmd[p].name]) => cmd[p].work # None
<1>1. cmd[p] # None /\ cmd[p].todo # <<>> /\ Head(cmd[p].todo) = "choose"
  BY DEF Choose, At
<1> DEFINE k == kind[cmd[p].name]
           b == Branches(k)
           Fits(i) == \A fact \in b[i].facts : Holds(p, fact)
           First(j) == Fits(j) /\ \A h \in 1..(j - 1) : ~Fits(h)
           i == CHOOSE j \in DOMAIN b : First(j)
<1>2. cmd[p] \in Command /\ cmd[p].todo \in Seq(Ops) /\ cmd[p].name \in Names /\ Fed(cmd[p])
  BY <1>1, AtStep DEF TypeInv
<1>3. cmd[p].op = "install"
  BY <1>1, <1>2, AfterHead DEF Fed
<1>4. k \in Kinds
  BY <1>2 DEF TypeInv, Stores
<1>5. /\ b \in Seq([facts : SUBSET Facts, steps : Seq(Ops)])
      /\ b # <<>> /\ b[Len(b)].facts = {}
  BY <1>4, OrderAssumption DEF Orderly, Programmed
<1>6. Len(b) \in Nat \ {0} /\ DOMAIN b = 1..Len(b)
  BY <1>5
<1>7. i \in DOMAIN b /\ Fits(i)
  <2> DEFINE T == {j \in DOMAIN b : Fits(j)}
  <2>1. T \in SUBSET Nat /\ Len(b) \in T
    BY <1>5, <1>6
  <2>. HIDE DEF T
  <2>2. PICK j \in T : \A h \in T : j <= h
    BY <2>1, Least
  <2>. USE DEF T
  <2>. HIDE DEF Fits, b
  <2>3. j \in DOMAIN b /\ Fits(j)
    OBVIOUS
  <2>4. \A h \in 1..(j - 1) : ~Fits(h)
    BY <1>6, <2>2, <2>3
  <2>5. \E x \in DOMAIN b : First(x)
    BY <2>3, <2>4
  <2>6. i \in DOMAIN b /\ First(i)
    BY <2>5, Zenon
  <2>. QED
    BY <2>6
<1>8. PICK t, v : /\ t = b[i].steps /\ v = (i = Len(b))
                  /\ cmd' = [cmd EXCEPT ![p].todo = t, ![p].force = FALSE,
                                        ![p].asked = FALSE, ![p].built = v]
  BY DEF Choose, K, Branches
<1>. HIDE DEF i
<1> DEFINE d == [cmd[p] EXCEPT !.todo = t, !.force = FALSE, !.asked = FALSE, !.built = v]
<1>9. cmd' = [cmd EXCEPT ![p] = d]
  <2>1. cmd' = [cmd EXCEPT ![p].todo = t, ![p].force = FALSE, ![p].asked = FALSE,
                           ![p].built = v]
    BY <1>8
  <2>2. cmd = [q \in Procs |-> cmd[q]]
    BY DEF TypeInv
  <2>. QED
    BY <2>1, <2>2
<1>10. t \in Seq(Ops) /\ v \in BOOLEAN
  <2>. HIDE DEF b, Fits
  <2> DEFINE R == [facts : SUBSET Facts, steps : Seq(Ops)]
  <2>1. b \in Seq(R) /\ i \in 1..Len(b)
    BY <1>5, <1>6, <1>7
  <2>. HIDE DEF R
  <2>2. b[i] \in R
    BY <2>1
  <2>3. t = b[i].steps /\ v = (i = Len(b))
    BY <1>8
  <2>. QED
    BY <2>2, <2>3 DEF R
<1>11. d \in Command /\ d.op = "install" /\ d.name = cmd[p].name /\ d.todo = t
       /\ d.seen = cmd[p].seen /\ d.work = cmd[p].work /\ d.want = cmd[p].want
       /\ d.built = v
  <2> DEFINE d1 == [cmd[p] EXCEPT !.todo = t]
             d2 == [d1 EXCEPT !.force = FALSE]
             d3 == [d2 EXCEPT !.asked = FALSE]
  <2>1. d1 \in Command
    BY <1>2, <1>10, FieldSet
  <2>2. d2 \in Command
    <3>. HIDE DEF d1
    <3>. QED
      BY <2>1, FieldSet
  <2>3. d3 \in Command
    <3>. HIDE DEF d2
    <3>. QED
      BY <2>2, FieldSet
  <2>4. d = [d3 EXCEPT !.built = v]
    OBVIOUS
  <2>5. d \in Command
    <3>. HIDE DEF d3
    <3>. QED
      BY <1>10, <2>3, <2>4, FieldSet
  <2>6. DOMAIN cmd[p] = DOMAIN d
        /\ {"op", "name", "todo", "seen", "work", "want", "built"} \subseteq DOMAIN cmd[p]
    BY <1>2 DEF Command
  <2>. QED
    BY <1>3, <2>5, <2>6
<1>12. Turns(p)
  <2>1. /\ cmd[p] # None /\ cmd[p].op = "install"
        /\ i \in DOMAIN Branches(kind[cmd[p].name])
        /\ \A fact \in Branches(kind[cmd[p].name])[i].facts : Holds(p, fact)
    BY <1>1, <1>3, <1>7
  <2>. HIDE DEF d
  <2>2. /\ d.todo = Branches(kind[cmd[p].name])[i].steps
        /\ d.built = (i = Len(Branches(kind[cmd[p].name])))
    BY <1>8, <1>11
  <2>. QED
    BY <1>9, <1>11, <2>1, <2>2, Zenon DEF Turns
<1>13. ASSUME Merges(k) PROVE cmd[p].work # None
  <2>1. "choose" \in NeedsOf(cmd[p])
    BY <1>3, <1>13 DEF NeedsOf, InstallNeeds
  <2>. QED
    BY <1>1, <1>2, <2>1, AfterHead DEF Fed
<1>. QED
  BY <1>12, <1>13

\* The program of an operation on an add-on of the kind k.
Programs(k, op, prog) ==
  \/ op = "install" /\ prog = k.install.prepare
  \/ op = "serve" /\ prog = <<"load", "save">>
  \/ /\ op \notin {"install", "serve"}
     /\ prog \in UsePrograms(k)
     /\ IF op = "reload" THEN prog = k.use.reload ELSE prog \in KeepPrograms(k)

\* A command begins: its program, and what it was asked to set.
Begins(p) ==
  \E d \in Command :
    /\ cmd[p] = None
    /\ cmd' = [cmd EXCEPT ![p] = d]
    /\ d.seen = conf
    /\ d.work = None
    /\ ~d.built
    /\ d.want \in Alone => kind[d.name] \in Rerole
    /\ Programs(kind[d.name], d.op, d.todo)

\* A new command is typed, and has read pg.yaml.
LEMMA NewCommandOK ==
  ASSUME TypeInv, NEW n \in Names,
         NEW op \in {"install", "start", "stop", "remove", "reload", "set", "serve"},
         NEW prog \in Seq(Ops)
  PROVE  /\ NewCommand(n, op, prog) \in Command
         /\ NewCommand(n, op, prog).op = op /\ NewCommand(n, op, prog).name = n
         /\ NewCommand(n, op, prog).todo = prog /\ NewCommand(n, op, prog).seen = conf
         /\ NewCommand(n, op, prog).work = None /\ NewCommand(n, op, prog).want = None
         /\ ~NewCommand(n, op, prog).built
BY DEF NewCommand, Command, TypeInv, Stores

\* Every call begins one command.
LEMMA CallStarts ==
  ASSUME NEW p \in Procs, Call(p)
  PROVE  \E c : Begin(p, c)
<1>1. PICK n \in Names : \/ Install(p, n) \/ Start(p, n) \/ Stop(p, n) \/ Remove(p, n)
                         \/ Reload(p, n) \/ Set(p, n) \/ Serve(p, n)
  BY DEF Call
<1>2. CASE Install(p, n)
  BY <1>2, Zenon DEF Install
<1>3. CASE Start(p, n) \/ Stop(p, n) \/ Serve(p, n)
  BY <1>3, Zenon DEF Start, Stop, Serve
<1>4. CASE Remove(p, n)
  BY <1>4, Zenon DEF Remove
<1>5. CASE Reload(p, n)
  BY <1>5, Zenon DEF Reload
<1>6. CASE Set(p, n)
  BY <1>6, Zenon DEF Set
<1>. QED
  BY <1>1, <1>2, <1>3, <1>4, <1>5, <1>6

\* Whatever the user calls begins a program of its kind.
LEMMA CallBegins ==
  ASSUME TypeInv, NEW p \in Procs, Call(p)
  PROVE  Begins(p)
<1>1. PICK n \in Names : \/ Install(p, n) \/ Start(p, n) \/ Stop(p, n) \/ Remove(p, n)
                         \/ Reload(p, n) \/ Set(p, n) \/ Serve(p, n)
  BY DEF Call
<1> DEFINE k == kind[n]
<1>2. /\ k.install.prepare \in Seq(Ops)
      /\ \A s \in UsePrograms(k) : s \in Seq(Ops)
  BY OrderAssumption DEF TypeInv, Stores, Orderly, Programmed
<1>3. None \notin Alone
  BY SettingsAssumption
<1>4. ASSUME NEW c, Begin(p, c), c \in Command, c.name = n, c.seen = conf, c.work = None,
             ~c.built,
             c.want \in Alone => k \in Rerole,
             Programs(k, c.op, c.todo)
      PROVE  Begins(p)
  BY <1>4 DEF Begin, Begins
<1>5. CASE Install(p, n)
  <2>1. PICK force \in BOOLEAN, asked \in BOOLEAN, want \in Settings \cup {None},
             pw \in {None, Fresh} :
          /\ want \in Alone => k \in Rerole
          /\ Begin(p, [NewCommand(n, "install", k.install.prepare)
                      EXCEPT !.force = force, !.asked = asked, !.want = want, !.pw = pw])
    BY <1>5, ZenonT(60) DEF Install
  <2> DEFINE b == NewCommand(n, "install", k.install.prepare)
             c == [b EXCEPT !.force = force, !.asked = asked, !.want = want, !.pw = pw]
  <2>2. b \in Command /\ b.op = "install" /\ b.name = n /\ b.todo = k.install.prepare
        /\ b.seen = conf /\ b.work = None /\ ~b.built
    BY <1>2, NewCommandOK
  <2>3. pw \in Secrets \cup {None}
    BY FreshSecret
  <2>. HIDE DEF b
  <2>4. c \in Command /\ c.op = "install" /\ c.name = n /\ c.todo = k.install.prepare
        /\ c.seen = conf /\ c.work = None /\ ~c.built /\ c.want = want
    <3>1. force \in BOOLEAN /\ asked \in BOOLEAN /\ want \in Settings \cup {None}
      BY <2>1
    <3> DEFINE f == [b EXCEPT !.force = force]
               a == [f EXCEPT !.asked = asked]
             g == [a EXCEPT !.want = want]
    <3>2. f \in Command
      BY <2>2, <3>1, FieldSet
    <3>4. a \in Command
      <4>. HIDE DEF f
      <4>. QED
        BY <3>1, <3>2, FieldSet
    <3>5. g \in Command
      <4>. HIDE DEF a
      <4>. QED
        BY <3>1, <3>4, FieldSet
    <3>6. c = [g EXCEPT !.pw = pw]
      OBVIOUS
    <3>7. c \in Command
      <4>. HIDE DEF g
      <4>. QED
        BY <2>3, <3>5, <3>6, FieldSet
    <3>3. DOMAIN b = DOMAIN c /\ {"op", "name", "todo", "seen", "work", "want", "built"}
                               \subseteq DOMAIN b
      BY <2>2 DEF Command
    <3>. QED
      BY <2>2, <3>3, <3>7
  <2>5. Begin(p, c)
    BY <2>1 DEF b
  <2>. HIDE DEF c
  <2>. QED
    BY <1>4, <2>1, <2>4, <2>5 DEF Programs
<1>6. ASSUME NEW op \in {"start", "stop", "reload"}, NEW s \in UsePrograms(k),
             IF op = "reload" THEN s = k.use.reload ELSE s \in KeepPrograms(k),
             Begin(p, NewCommand(n, op, s))
      PROVE  Begins(p)
  BY <1>2, <1>3, <1>4, <1>6, NewCommandOK DEF Programs
<1>7. CASE Start(p, n)
  BY <1>6, <1>7 DEF Start, UsePrograms, KeepPrograms
<1>8. CASE Stop(p, n)
  BY <1>6, <1>8 DEF Stop, UsePrograms, KeepPrograms
<1>9. CASE Reload(p, n)
  BY <1>6, <1>9 DEF Reload, UsePrograms, KeepPrograms
<1>10. CASE Remove(p, n)
  <2>1. PICK clean \in BOOLEAN : Begin(p, [NewCommand(n, "remove", k.use.remove)
                                             EXCEPT !.clean = clean])
    BY <1>10 DEF Remove
  <2> DEFINE b == NewCommand(n, "remove", k.use.remove)
             c == [b EXCEPT !.clean = clean]
  <2>2. k.use.remove \in UsePrograms(k) \cap KeepPrograms(k)
    BY DEF UsePrograms, KeepPrograms
  <2>3. b \in Command /\ b.op = "remove" /\ b.name = n /\ b.todo = k.use.remove
        /\ b.seen = conf /\ b.work = None /\ ~b.built /\ b.want = None
    BY <1>2, <2>2, NewCommandOK
  <2>. HIDE DEF b
  <2>4. c \in Command /\ c.op = "remove" /\ c.name = n /\ c.todo = k.use.remove
        /\ c.seen = conf /\ c.work = None /\ ~c.built /\ c.want = None
    BY <2>3 DEF Command
  <2>5. Begin(p, c)
    BY <2>1 DEF b
  <2>. HIDE DEF c
  <2>. QED
    BY <1>3, <1>4, <2>2, <2>4, <2>5 DEF Programs
<1>11. CASE Set(p, n)
  <2>1. PICK asked \in BOOLEAN, want \in Settings \ (Bad \cup Alone) :
          Begin(p, [NewCommand(n, "set", k.use.set) EXCEPT !.asked = asked, !.want = want])
    BY <1>11 DEF Set
  <2> DEFINE b == NewCommand(n, "set", k.use.set)
             c == [b EXCEPT !.asked = asked, !.want = want]
  <2>2. k.use.set \in UsePrograms(k) \cap KeepPrograms(k)
    BY DEF UsePrograms, KeepPrograms
  <2>3. b \in Command /\ b.op = "set" /\ b.name = n /\ b.todo = k.use.set
        /\ b.seen = conf /\ b.work = None /\ ~b.built
    BY <1>2, <2>2, NewCommandOK
  <2>. HIDE DEF b
  <2>4. c \in Command /\ c.op = "set" /\ c.name = n /\ c.todo = k.use.set
        /\ c.seen = conf /\ c.work = None /\ ~c.built /\ c.want = want
    <3> DEFINE f == [b EXCEPT !.asked = asked]
    <3>1. f \in Command
      BY <2>1, <2>3, FieldSet
    <3>2. c = [f EXCEPT !.want = want]
      OBVIOUS
    <3>3. c \in Command
      <4>. HIDE DEF f
      <4>. QED
        BY <2>1, <3>1, <3>2, FieldSet
    <3>4. DOMAIN b = DOMAIN c /\ {"op", "name", "todo", "seen", "work", "want", "built"}
                               \subseteq DOMAIN b
      BY <2>3 DEF Command
    <3>. QED
      BY <2>3, <3>3, <3>4
  <2>5. Begin(p, c)
    BY <2>1 DEF b
  <2>. HIDE DEF c
  <2>. QED
    BY <1>4, <2>1, <2>2, <2>4, <2>5 DEF Programs
<1>12. CASE Serve(p, n)
  <2> DEFINE s == <<"load", "save">>
             b == NewCommand(n, "serve", s)
  <2>1. s \in Seq(Ops)
    BY DEF Ops
  <2>. HIDE DEF s
  <2>2. b \in Command /\ b.op = "serve" /\ b.name = n /\ b.todo = s
        /\ b.seen = conf /\ b.work = None /\ ~b.built /\ b.want = None
    BY <2>1, NewCommandOK
  <2>3. Begin(p, b)
    BY <1>12 DEF Serve, s
  <2>. HIDE DEF b
  <2>4. b.want \in Alone => k \in Rerole
    BY <1>3, <2>2
  <2>5. Programs(k, b.op, b.todo)
    BY <2>2 DEF Programs, s
  <2>. QED
    BY <1>4, <2>2, <2>3, <2>4, <2>5
<1>. QED
  BY <1>1, <1>5, <1>7, <1>8, <1>9, <1>10, <1>11, <1>12

-----------------------------------------------------------------------------
\* The commands keep their types, and their order.

\* What is there from the start serves as what a step brings.
LEMMA AfterWeaker ==
  ASSUME NEW s, NEW t \in BOOLEAN, NEW u \in BOOLEAN, NEW need, NEW give, NEW lose,
         After(s, t, need, give, lose), t => u
  PROVE  After(s, u, need, give, lose)
BY DEF After

\* Every command is typed and in order.
Commands ==
  /\ cmd \in [Procs -> Command \cup {None}]
  /\ \A p \in Procs : cmd[p] # None => Fed(cmd[p])

\* It is enough to look at the command that moves.
LEMMA OneCommand ==
  ASSUME TypeInv, UNCHANGED kind, NEW p \in Procs, NEW d, cmd' = [cmd EXCEPT ![p] = d],
         d # None => d \in Command /\ Fed(d)
  PROVE  Commands'
<1>1. cmd' \in [Procs -> Command \cup {None}]
  BY DEF TypeInv
<1>2. \A q \in Procs : cmd'[q] = (IF q = p THEN d ELSE cmd[q])
  BY DEF TypeInv
<1>3. \A q \in Procs : cmd'[q] # None => Fed(cmd'[q])
  BY <1>2 DEF TypeInv
<1>. QED
  BY <1>1, <1>3 DEF Commands, Fed, NeedsOf, GivesOf

\* A command that goes on stays in order.
LEMMA GoesKeeps ==
  ASSUME TypeInv, UNCHANGED kind, NEW p \in Procs, Goes(p)
  PROVE  Commands'
<1>1. PICK d : cmd' = [cmd EXCEPT ![p] = d] /\ Follows(cmd[p], d, Head(cmd[p].todo))
  BY DEF Goes
<1> DEFINE c == cmd[p]
           op == Head(c.todo)
<1>2. c \in Command /\ c.todo \in Seq(Ops) /\ c.todo # <<>> /\ Fed(c) /\ c # None
  BY AtStep DEF Goes, TypeInv
<1>3. d \in Command /\ d.op = c.op /\ d.name = c.name /\ d.todo = Tail(c.todo)
  BY <1>1 DEF Follows
<1>4. op \in GivesOf(c) \/ (c.work # None /\ op \notin {"load", "drop"}) => d.work # None
  <2>1. None \notin Entry
    BY NoneAssumption
  <2>2. op \in {"merge", "entry"} => d.work # None
    BY <1>1, <2>1 DEF Follows
  <2>3. op \notin {"merge", "entry", "load", "drop"} => d.work = c.work \/ d.work # None
    BY <1>1, <2>1 DEF Follows
  <2>. QED
    BY <2>2, <2>3 DEF GivesOf
<1>5. After(Tail(c.todo), d.work # None, NeedsOf(c), GivesOf(c), {"load", "drop"})
  <2>1. After(c.todo, c.work # None, NeedsOf(c), GivesOf(c), {"load", "drop"})
    BY <1>2 DEF Fed
  <2>. QED
    BY <1>2, <1>4, <2>1, AfterTail
<1>6. c.op # "install" => After(Tail(c.todo), FALSE, {"choose"}, {}, {})
  BY <1>2, AfterTail DEF Fed
<1>7. Fed(d)
  BY <1>3, <1>5, <1>6 DEF Fed, NeedsOf, GivesOf
<1>. QED
  BY <1>1, <1>3, <1>7, OneCommand

\* An install that turns to a branch stays in order: its kind merges before
\* the choice, or again in the branch.
LEMMA TurnsKeeps ==
  ASSUME TypeInv, UNCHANGED kind, NEW p \in Procs, Turns(p),
         Merges(kind[cmd[p].name]) => cmd[p].work # None
  PROVE  Commands'
<1> DEFINE k == kind[cmd[p].name]
<1>1. PICK d \in Command, i \in DOMAIN Branches(k) :
        /\ cmd' = [cmd EXCEPT ![p] = d]
        /\ d.op = "install" /\ d.name = cmd[p].name
        /\ d.todo = Branches(k)[i].steps /\ d.work = cmd[p].work
  BY DEF Turns
<1>2. k \in Kinds
  BY DEF Turns, TypeInv, Stores, Command
<1>3. After(d.todo, Merges(k), InstallNeeds(k), {"merge"}, {"load", "drop"})
  BY <1>1, <1>2, OrderAssumption DEF Orderly, InstallOrder, BranchPrograms
<1>4. Merges(k) \in BOOLEAN /\ (Merges(k) => d.work # None)
  BY <1>1 DEF Merges, In
<1>5. After(d.todo, d.work # None, InstallNeeds(k), {"merge"}, {"load", "drop"})
  BY <1>3, <1>4, AfterWeaker
<1>6. Fed(d)
  BY <1>1, <1>5 DEF Fed, NeedsOf, GivesOf
<1>. QED
  BY <1>1, <1>6, OneCommand

\* A command begins in order.
LEMMA BeginsKeeps ==
  ASSUME TypeInv, UNCHANGED kind, NEW p \in Procs, Begins(p)
  PROVE  Commands'
<1>1. PICK d \in Command : cmd' = [cmd EXCEPT ![p] = d] /\ d.work = None
                           /\ Programs(kind[d.name], d.op, d.todo)
  BY DEF Begins
<1> DEFINE k == kind[d.name]
<1>2. k \in Kinds
  BY <1>1 DEF TypeInv, Stores, Command
<1>3. Orderly(k)
  BY <1>2, OrderAssumption
<1>4. /\ After(d.todo, FALSE, NeedsOf(d), GivesOf(d), {"load", "drop"})
      /\ d.op # "install" => After(d.todo, FALSE, {"choose"}, {}, {})
  <2>1. CASE d.op = "install"
    BY <1>1, <1>3, <2>1 DEF Programs, Orderly, InstallOrder, NeedsOf, GivesOf
  <2>2. CASE d.op = "serve"
    <3>1. d.todo = <<"load", "save">>
      BY <1>1, <2>2 DEF Programs
    <3>2. \A i \in DOMAIN d.todo : d.todo[i] \notin UseNeeds \cup {"choose"}
      BY <3>1 DEF UseNeeds, Uses
    <3>. QED
      BY <2>2, <3>2 DEF After, NeedsOf
  <2>3. CASE d.op \notin {"install", "serve"}
    <3>1. d.todo \in UsePrograms(k)
      BY <1>1, <2>3 DEF Programs
    <3>2. After(d.todo, FALSE, UseNeeds, {"entry"}, {"load", "drop"}) /\ ~In("choose", d.todo)
      BY <1>3, <3>1 DEF Orderly, UseOrder
    <3>3. After(d.todo, FALSE, {"choose"}, {}, {})
      BY <3>2 DEF In, After
    <3>. QED
      BY <2>3, <3>2, <3>3 DEF NeedsOf, GivesOf
  <2>. QED
    BY <2>1, <2>2, <2>3
<1>5. Fed(d)
  <2>1. After(d.todo, d.work # None, NeedsOf(d), GivesOf(d), {"load", "drop"})
    BY <1>1, <1>4, AfterWeaker
  <2>. QED
    BY <1>4, <2>1 DEF Fed
<1>. QED
  BY <1>1, <1>5, OneCommand

-----------------------------------------------------------------------------
\* The stores keep their types.

\* A step of the command p that writes.
WriteStep(p) ==
  \/ Save(p) \/ WriteFile(p) \/ Vet(p) \/ SetSecret(p) \/ Mint(p) \/ Wipe(p) \/ DropFile(p)

\* A step of the command p on containers.
BoxStep(p) ==
  \/ Signal(p) \/ Halt(p) \/ Rm(p) \/ Create(p) \/ Startup(p) \/ Discard(p) \/ Recreate(p)

\* A bound secret is data.
LEMMA BindTyped ==
  ASSUME Stores, NEW n \in Names, NEW x \in Secrets \cup {None}, Bind(n, x)
  PROVE  /\ data' \in [Names -> [sec : Secrets \cup {None}] \cup {None}]
         /\ known' \in [Names -> BOOLEAN]
BY DEF Stores, Bind

\* What is rendered from an entry is a file.
LEMMA RenderedTyped ==
  ASSUME TypeInv, NEW p \in Procs, cmd[p] # None, cmd[p].todo # <<>>,
         Head(cmd[p].todo) \in Uses, NEW f \in Rendered(p)
  PROVE  f \in File \cup {None}
<1>1. cmd[p].name \in Names /\ N(p) = cmd[p].name /\ Work(p) \in Entry
  BY AtStep
<1> DEFINE now == file[N(p)]
           new == [set |-> Work(p).set, sec |-> IF Writes(K(p)) THEN Work(p).sec ELSE None]
<1>2. now \in File \cup {None}
  BY <1>1 DEF TypeInv, Stores
<1>3. new \in File
  BY <1>1 DEF Entry, File
<1>4. f \in {now, new, [new EXCEPT !.set = IF now = None THEN None ELSE now.set]}
            \cup {[new EXCEPT !.set = x] : x \in Settings \ Alone}
  BY DEF Rendered
<1>. HIDE DEF new, now
<1>. QED
  BY <1>2, <1>3, <1>4 DEF File

\* Writing keeps the stores typed.
LEMMA WriteStepTyped ==
  ASSUME TypeInv, NEW p \in Procs, WriteStep(p)
  PROVE  Stores'
<1>1. cmd[p] # None /\ cmd[p].todo # <<>>
  BY DEF WriteStep, Save, WriteFile, Vet, SetSecret, Mint, Wipe, DropFile, At
<1>2. cmd[p] \in Command /\ N(p) \in Names /\ Work(p) \in Entry \cup {None}
      /\ (Head(cmd[p].todo) \in Uses => Work(p) \in Entry)
  BY <1>1, AtStep
<1>3. Stores
  BY DEF TypeInv
<1>4. CASE Save(p)
  <2>1. Kept(K(p), Work(p)) \in Entry \cup {None}
    BY <1>2 DEF Kept, Entry
  <2>2. cmd[p].seen \in [Names -> Entry \cup {None}]
    BY <1>2 DEF Command
  <2>3. conf' \in [Names -> Entry \cup {None}]
    BY <1>2, <1>4, <2>1, <2>2 DEF Save, Written
  <2>4. last' \in [Names -> Entry \cup {None}]
    BY <1>2, <1>3, <1>4, <2>1 DEF Save, Stores
  <2>5. known' \in [Names -> BOOLEAN]
    BY <1>2, <1>3, <1>4 DEF Save, Stores
  <2>. QED
    BY <1>3, <1>4, <2>3, <2>4, <2>5 DEF Save, Stores
<1>5. CASE WriteFile(p)
  <2>1. Head(cmd[p].todo) \in Uses
    BY <1>5 DEF WriteFile, At, Uses
  <2>2. PICK f \in Rendered(p) : file' = [file EXCEPT ![N(p)] = f]
    BY <1>5 DEF WriteFile
  <2>3. f \in File \cup {None}
    BY <1>1, <2>1, RenderedTyped
  <2>. QED
    BY <1>3, <1>5, <2>2, <2>3 DEF WriteFile, Stores
<1>6. CASE Vet(p)
  <2>1. cmd[p].old \in File \cup {None}
    BY <1>2 DEF Command
  <2>. QED
    BY <1>2, <1>3, <1>6, <2>1 DEF Vet, Stores
<1>7. CASE SetSecret(p)
  <2>1. Work(p).sec \in Secrets \cup {None}
    BY <1>2, <1>7 DEF SetSecret, At, Uses, Entry
  <2>2. UNCHANGED <<data, known>> \/ Bind(N(p), Work(p).sec)
    BY <1>7 DEF SetSecret
  <2>3. /\ data' \in [Names -> [sec : Secrets \cup {None}] \cup {None}]
        /\ known' \in [Names -> BOOLEAN]
    BY <1>2, <1>3, <2>1, <2>2, BindTyped DEF Stores
  <2>. QED
    BY <1>3, <1>7, <2>3 DEF SetSecret, Stores
<1>8. CASE Mint(p)
  <2>1. UNCHANGED <<data, known>> \/ Bind(N(p), Fresh)
    BY <1>8 DEF Mint
  <2>2. /\ data' \in [Names -> [sec : Secrets \cup {None}] \cup {None}]
        /\ known' \in [Names -> BOOLEAN]
    BY <1>2, <1>3, <2>1, BindTyped, FreshSecret DEF Stores
  <2>. QED
    BY <1>3, <1>8, <2>2 DEF Mint, Stores
<1>9. CASE Wipe(p)
  BY <1>2, <1>3, <1>9 DEF Wipe, Stores
<1>10. CASE DropFile(p)
  BY <1>2, <1>3, <1>10 DEF DropFile, Stores
<1>. QED
  BY <1>4, <1>5, <1>6, <1>7, <1>8, <1>9, <1>10 DEF WriteStep

\* The container r of n becomes b.
Puts(n, r, b) == box' = [box EXCEPT ![n] = [box[n] EXCEPT ![r] = b]]

Makes(r) == IF r = 1 THEN Makes1 ELSE Makes2

\* What a step of the command p does to one container of its add-on.
Handles(p, r, b) ==
  /\ Puts(N(p), r, b)
  /\ b # None /\ ~Exists(N(p), r) => Head(cmd[p].todo) \in Makes(r)
  /\ b # None /\ b # box[N(p)][r] =>
       Head(cmd[p].todo) \notin {"rm", "rm2", "ownrm2", "strayrm2", "discard", "discard2"}
  /\ Head(cmd[p].todo) = "rm" => r = 1 /\ b = None
  /\ Head(cmd[p].todo) = "rm2" => r = 2 /\ b = None
  /\ Head(cmd[p].todo) = "ownrm2" => r = 2 /\ (b = None \/ ~Runs(Work(p), 2))

\* podman run makes a container.
LEMMA NewBoxTyped ==
  ASSUME Stores, NEW n \in Names, NEW k, NEW e \in Entry
  PROVE  NewBox(n, k, e) \in Box
<1>1. file[n] \in File \cup {None} /\ e.set \in Settings /\ e.sec \in Secrets \cup {None}
  BY DEF Stores, Entry
<1>2. Serves(n, e.set) \in BOOLEAN
  BY DEF Serves
<1>3. (IF k.traits.files THEN file[n] ELSE None) \in File \cup {None}
  BY <1>1
<1>4. (IF k.traits.binds = "box" THEN e.sec ELSE None) \in Secrets \cup {None}
  BY <1>1
<1>. QED
  BY <1>1, <1>2, <1>3, <1>4 DEF NewBox, Box

\* A container that goes up or down, or has read its file, is one still.
LEMMA BoxFields ==
  ASSUME NEW b \in Box, NEW u \in BOOLEAN, NEW f \in File \cup {None}
  PROVE  /\ [b EXCEPT !.up = u] \in Box
         /\ [b EXCEPT !.loaded = f] \in Box
         /\ [b EXCEPT !.up = u, !.loaded = f] \in Box
<1>1. [b EXCEPT !.up = u] \in Box /\ [b EXCEPT !.loaded = f] \in Box
  BY DEF Box
<1>2. [b EXCEPT !.up = u, !.loaded = f] \in Box
  BY DEF Box
<1>. QED
  BY <1>1, <1>2

\* Every step on containers handles one of them.
LEMMA BoxStepHandles ==
  ASSUME TypeInv, NEW p \in Procs, BoxStep(p)
  PROVE  \E r \in Parts, b \in Box \cup {None} : Handles(p, r, b)
<1> DEFINE n == N(p)
           op == Head(cmd[p].todo)
<1>1. cmd[p] # None /\ cmd[p].todo # <<>>
  BY DEF BoxStep, Signal, Halt, Rm, Create, Startup, Discard, Recreate, At
<1>2. cmd[p] \in Command /\ n \in Names /\ Work(p) \in Entry \cup {None}
      /\ (op \in Uses => Work(p) \in Entry)
  BY <1>1, AtStep
<1>3. Stores /\ box \in [Names -> [Parts -> Box \cup {None}]] /\ file[n] \in File \cup {None}
  BY <1>2 DEF TypeInv, Stores
<1>4. Here(p) \in Parts /\ 1 \in Parts /\ 2 \in Parts
  BY DEF Here, Part, Parts
<1>5. \A r \in Parts : box[n][r] \in Box \cup {None} /\ Puts(n, r, box[n][r]) = (box' = box)
  BY <1>2, <1>3 DEF Puts
<1>6. None \notin Box
  BY NoneAssumption
<1>7. CASE Signal(p)
  <2>1. op \in {"signal", "nudge"}
    BY <1>7 DEF Signal, At
  <2>2. CASE box' = box
    <3>1. Handles(p, 1, box[n][1])
      BY <1>4, <1>5, <2>1, <2>2 DEF Handles, Exists
    <3>. QED
      BY <1>4, <1>5, <3>1
  <2>3. CASE Running(n, 1) /\ box' = [box EXCEPT ![n][1].loaded = file[n]]
    <3> DEFINE b == [box[n][1] EXCEPT !.loaded = file[n]]
    <3>1. box[n][1] \in Box /\ Exists(n, 1)
      BY <1>4, <1>5, <2>3 DEF Running, Exists
    <3>2. b \in Box
      BY <1>3, <3>1, BoxFields
    <3>3. Puts(n, 1, b)
      BY <2>3 DEF Puts
    <3>. HIDE DEF b
    <3>4. Handles(p, 1, b)
      BY <2>1, <3>1, <3>3 DEF Handles
    <3>. QED
      BY <1>4, <3>2, <3>4
  <2>. QED
    BY <1>7, <2>2, <2>3 DEF Signal
<1>8. CASE Halt(p)
  <2>1. op \in {"halt", "halt2", "softhalt", "softhalt2"}
    BY <1>8 DEF Halt, At
  <2> DEFINE r == Here(p)
  <2>2. CASE box' = box
    <3>1. Handles(p, 1, box[n][1])
      BY <1>4, <1>5, <2>1, <2>2 DEF Handles, Exists
    <3>. QED
      BY <1>4, <1>5, <3>1
  <2>3. CASE Running(n, r) /\ box' = [box EXCEPT ![n][r].up = FALSE]
    <3> DEFINE b == [box[n][r] EXCEPT !.up = FALSE]
    <3>1. box[n][r] \in Box /\ Exists(n, r)
      BY <1>4, <1>5, <2>3 DEF Running, Exists
    <3>2. b \in Box
      BY <1>3, <3>1, BoxFields
    <3>3. Puts(n, r, b)
      BY <2>3 DEF Puts
    <3>. HIDE DEF b
    <3>4. Handles(p, r, b)
      BY <2>1, <3>1, <3>3 DEF Handles
    <3>. QED
      BY <1>4, <3>2, <3>4
  <2>. QED
    BY <1>8, <2>2, <2>3 DEF Halt
<1>9. CASE Rm(p)
  <2>1. op \in {"rm", "rm2", "ownrm2", "strayrm2"}
    BY <1>9 DEF Rm, At
  <2> DEFINE r == IF op = "rm" THEN 1 ELSE 2
  <2>0. r \in Parts
    BY <1>4
  <2>2. \/ box' = [box EXCEPT ![n][r] = None]
        \/ box' = box /\ op \in {"ownrm2", "strayrm2"} /\ (op = "ownrm2" => ~Runs(Work(p), 2))
    BY <1>9, <2>1 DEF Rm
  <2>3. CASE box' = [box EXCEPT ![n][r] = None]
    <3>1. Puts(n, r, None)
      BY <2>3 DEF Puts
    <3>2. Handles(p, r, None)
      BY <3>1 DEF Handles
    <3>. QED
      BY <2>0, <3>2
  <2>4. CASE box' = box /\ op \in {"ownrm2", "strayrm2"} /\ (op = "ownrm2" => ~Runs(Work(p), 2))
    <3>1. Handles(p, 2, box[n][2])
      BY <1>4, <1>5, <2>4 DEF Handles, Exists
    <3>. QED
      BY <1>4, <1>5, <3>1
  <2>. QED
    BY <2>2, <2>3, <2>4
<1>10. CASE Create(p) \/ Recreate(p)
  <2>1. op \in Makes(Here(p)) /\ op \in Uses
        /\ op \in {"create", "create2", "recreate", "recreate2"}
    BY <1>10 DEF Create, Recreate, At, Makes, Makes1, Makes2, Here, Part, Uses
  <2> DEFINE b == NewBox(n, K(p), Work(p))
  <2>2. box' = box \/ box' = [box EXCEPT ![n][Here(p)] = b]
    BY <1>10 DEF Create, Recreate
  <2>3. b \in Box
    BY <1>2, <1>3, <2>1, NewBoxTyped
  <2>4. Puts(n, Here(p), box[n][Here(p)]) \/ Puts(n, Here(p), b)
    BY <1>4, <1>5, <2>2 DEF Puts
  <2>. HIDE DEF b
  <2>5. Handles(p, Here(p), box[n][Here(p)]) \/ Handles(p, Here(p), b)
    BY <2>1, <2>4 DEF Handles, Exists
  <2>. QED
    BY <1>4, <1>5, <2>3, <2>5
<1>11. CASE Startup(p)
  <2>1. op \in {"startup", "startup2", "look"}
    BY <1>11 DEF Startup, At
  <2> DEFINE r == Here(p)
             u == Serves(n, box[n][r].set)
             f == IF K(p).traits.files THEN file[n] ELSE None
  <2>2. CASE box' = box
    <3>1. Handles(p, 1, box[n][1])
      BY <1>4, <1>5, <2>1, <2>2 DEF Handles, Exists
    <3>. QED
      BY <1>4, <1>5, <3>1
  <2>3. CASE Exists(n, r) /\ box' = [box EXCEPT ![n][r].up = u, ![n][r].loaded = f]
    <3> DEFINE b == [box[n][r] EXCEPT !.up = u, !.loaded = f]
    <3>1. box[n][r] \in Box
      BY <1>4, <1>5, <2>3 DEF Exists
    <3>2. u \in BOOLEAN /\ f \in File \cup {None}
      BY <1>3 DEF Serves
    <3>. HIDE DEF u, f
    <3>3. b \in Box
      BY <3>1, <3>2, BoxFields
    <3>4. Puts(n, r, b)
      BY <1>2, <1>3, <1>4, <2>3 DEF Puts
    <3>. HIDE DEF b
    <3>5. Handles(p, r, b)
      BY <2>1, <2>3, <3>4 DEF Handles
    <3>. QED
      BY <1>4, <3>3, <3>5
  <2>. QED
    BY <1>11, <2>2, <2>3 DEF Startup
<1>12. CASE Discard(p)
  <2>1. op \in {"discard", "discard2"}
    BY <1>12 DEF Discard, At
  <2>2. Puts(n, Here(p), box[n][Here(p)]) \/ Puts(n, Here(p), None)
    BY <1>4, <1>5, <1>12 DEF Discard, Puts
  <2>3. Handles(p, Here(p), box[n][Here(p)]) \/ Handles(p, Here(p), None)
    BY <2>1, <2>2 DEF Handles, Exists
  <2>. QED
    BY <1>4, <1>5, <2>3
<1>. QED
  BY <1>7, <1>8, <1>9, <1>10, <1>11, <1>12 DEF BoxStep

\* Steps on containers keep the stores typed.
LEMMA BoxStepTyped ==
  ASSUME TypeInv, NEW p \in Procs, BoxStep(p)
  PROVE  Stores'
<1>1. cmd[p] # None /\ cmd[p].todo # <<>>
  BY DEF BoxStep, Signal, Halt, Rm, Create, Startup, Discard, Recreate, At
<1>2. N(p) \in Names /\ (Head(cmd[p].todo) \in Uses => Work(p) \in Entry)
  BY <1>1, AtStep
<1>3. Stores
  BY DEF TypeInv
<1>4. box' \in [Names -> [Parts -> Box \cup {None}]]
  <2>1. PICK r \in Parts, b \in Box \cup {None} : Puts(N(p), r, b)
    BY BoxStepHandles DEF Handles
  <2>. QED
    BY <1>2, <1>3, <2>1 DEF Puts, Stores
<1>5. /\ data' \in [Names -> [sec : Secrets \cup {None}] \cup {None}]
      /\ known' \in [Names -> BOOLEAN]
  <2>1. CASE Create(p) \/ Recreate(p)
    <3>1. Work(p).sec \in Secrets \cup {None}
      BY <1>2, <2>1 DEF Create, Recreate, At, Uses, Entry
    <3>2. PICK x \in Secrets \cup {None} : UNCHANGED <<data, known>> \/ Bind(N(p), x)
      BY <2>1, <3>1 DEF Create, Recreate, LayOut
    <3>. QED
      BY <1>2, <1>3, <3>2, BindTyped DEF Stores
  <2>2. CASE ~(Create(p) \/ Recreate(p))
    BY <1>3, <2>2 DEF BoxStep, Signal, Halt, Rm, Startup, Discard, Stores
  <2>. QED
    BY <2>1, <2>2
<1>6. UNCHANGED <<kind, conf, torn, file, faults, cut, last, lossy>>
  BY DEF BoxStep, Signal, Halt, Rm, Create, Startup, Discard, Recreate
<1>. QED
  BY <1>3, <1>4, <1>5, <1>6 DEF Stores

\* A step that leaves all stores alone.
Idle == UNCHANGED <<kind, conf, torn, file, data, box, faults, known, cut, last, lossy>>

\* Every step keeps the types.
LEMMA StepTyped ==
  ASSUME TypeInv, NEW p \in Procs, Step(p)
  PROVE  TypeInv'
<1>1. UNCHANGED kind
  BY DEF Step, Load, FindEntry, Check, Merge, Generate, DecideAuth, Recall, Agree, Choose, Mint, Save,
         Drop, WriteFile, Vet, Signal, NeedFile, NeedUp, SetSecret, Wipe, DropFile, Halt,
         Rm, Create, Startup, Discard, Recreate, Return
<1>2. Stores'
  <2>1. CASE WriteStep(p)
    BY <2>1, WriteStepTyped
  <2>2. CASE BoxStep(p)
    BY <2>2, BoxStepTyped
  <2>3. ASSUME ~WriteStep(p), ~BoxStep(p) PROVE Idle
    BY <2>3 DEF Step, WriteStep, BoxStep, Load, FindEntry, Check, Merge, Generate, DecideAuth, Recall,
         Agree, Choose, Drop, NeedFile, NeedUp, Return, Idle
  <2>4. CASE Idle
    BY <2>4 DEF Idle, TypeInv, Stores
  <2>. QED
    BY <2>1, <2>2, <2>3, <2>4
<1>3. Commands'
  <2>1. ASSUME Goes(p) \/ Leaves(p) PROVE Commands'
    <3>1. CASE Goes(p)
      BY <1>1, <3>1, GoesKeeps
    <3>2. CASE Leaves(p)
      BY <1>1, <3>2, OneCommand DEF Leaves, End
    <3>. QED
      BY <2>1, <3>1, <3>2
  <2>2. CASE PlainStep(p)
    BY <2>1, <2>2, PlainStepGoes
  <2>3. CASE FieldStep(p)
    BY <2>1, <2>3, FieldStepGoes
  <2>4. CASE KeyStep(p)
    BY <2>1, <2>4, KeyStepGoes
  <2>5. CASE Load(p) \/ Merge(p) \/ Drop(p)
    BY <2>1, <2>5, LoadGoes, MergeGoes, DropGoes
  <2>6. CASE Choose(p)
    BY <1>1, <2>6, ChooseTurns, TurnsKeeps
  <2>7. CASE Return(p)
    BY <1>1, <2>7, OneCommand DEF Return, End
  <2>. QED
    BY <2>2, <2>3, <2>4, <2>5, <2>6, <2>7 DEF Step, PlainStep, FieldStep, KeyStep
<1>. QED
  BY <1>2, <1>3 DEF TypeInv, Commands

\* A command that begins keeps the types.
LEMMA CallTyped ==
  ASSUME TypeInv, NEW p \in Procs, Call(p)
  PROVE  TypeInv'
<1>0. PICK c : Begin(p, c)
  BY CallStarts
<1>1. UNCHANGED <<kind, conf, torn, file, data, box, faults, known, cut, last>>
      /\ lossy' \in BOOLEAN
  BY <1>0 DEF Begin, TypeInv, Stores
<1>2. Stores'
  BY <1>1 DEF TypeInv, Stores
<1>3. Commands'
  BY <1>1, CallBegins, BeginsKeeps
<1>. QED
  BY <1>2, <1>3 DEF TypeInv, Commands

-----------------------------------------------------------------------------
\* Faults keep the types.

\* A failed podman run may leave a container that does not run.
LEMMA FailBox ==
  ASSUME TypeInv, NEW p \in Procs, Fail(p)
  PROVE  \/ UNCHANGED box
         \/ /\ Head(cmd[p].todo) \in {"create", "create2"}
            /\ \E b \in Box : Puts(N(p), Part(Head(cmd[p].todo)), b)
<1> DEFINE n == N(p)
           op == Head(cmd[p].todo)
           b == [NewBox(n, K(p), Work(p)) EXCEPT !.up = FALSE]
<1>1. cmd[p] # None /\ cmd[p].todo # <<>>
  BY DEF Fail
<1>2. \/ UNCHANGED box
      \/ op \in {"create", "create2"} /\ box' = [box EXCEPT ![n][Part(op)] = b]
  BY DEF Fail
<1>3. CASE op \in {"create", "create2"} /\ box' = [box EXCEPT ![n][Part(op)] = b]
  <2>1. n \in Names /\ Work(p) \in Entry
    BY <1>1, <1>3, AtStep DEF Uses
  <2>2. NewBox(n, K(p), Work(p)) \in Box
    BY <2>1, NewBoxTyped DEF TypeInv
  <2>3. b \in Box
    BY <2>2 DEF Box
  <2>4. Puts(n, Part(op), b)
    BY <1>3 DEF Puts
  <2>. QED
    BY <1>3, <2>3, <2>4
<1>. QED
  BY <1>2, <1>3

\* Every fault keeps the types.
LEMMA FaultTyped ==
  ASSUME TypeInv, Fault
  PROVE  TypeInv'
<1>0. Stores /\ Commands
  BY DEF TypeInv, Commands
<1>1. ASSUME faults < MaxFaults, faults' = faults + 1 PROVE faults' \in 0..MaxFaults
  <2>1. MaxFaults \in Nat /\ faults \in 0..MaxFaults
    BY <1>0, SettingsAssumption DEF Stores
  <2>. QED
    BY <1>1, <2>1
<1>2. ASSUME NEW p \in Procs, Fail(p) PROVE TypeInv'
  <2>1. cmd[p] # None /\ cmd[p].todo # <<>> /\ UNCHANGED <<kind, conf, torn, file, data, known, last, lossy>>
        /\ faults < MaxFaults /\ faults' = faults + 1
    BY <1>2 DEF Fail
  <2>2. N(p) \in Names
    BY <2>1, AtStep
  <2>3. box' \in [Names -> [Parts -> Box \cup {None}]]
    <3>1. CASE UNCHANGED box
      BY <1>0, <3>1 DEF Stores
    <3>2. ASSUME NEW r, NEW b \in Box, Puts(N(p), r, b)
          PROVE  box' \in [Names -> [Parts -> Box \cup {None}]]
      BY <1>0, <2>2, <3>2 DEF Puts, Stores
    <3>. QED
      BY <1>2, <3>1, <3>2, FailBox
  <2>4. cut' \in [Names -> BOOLEAN]
    <3>1. Changes(cmd[p]) \in BOOLEAN
      BY DEF Changes
    <3>2. cut' = cut \/ cut' = [cut EXCEPT ![N(p)] = @ \/ Changes(cmd[p])]
      BY <1>2 DEF Fail
    <3>. QED
      BY <1>0, <2>2, <3>1, <3>2 DEF Stores
  <2>5. Stores'
    <3>1. faults' \in 0..MaxFaults
      BY <1>1, <2>1
    <3>. QED
      BY <1>0, <2>1, <2>3, <2>4, <3>1 DEF Stores
  <2>6. Head(cmd[p].todo) \in Soft => Head(cmd[p].todo) \notin {"load", "drop", "merge", "entry"}
    BY DEF Soft
  <2>7. Goes(p) \/ End(p)
    <3>1. (Head(cmd[p].todo) \in Soft /\ Skip(p)) \/ End(p)
      BY <1>2 DEF Fail
    <3>. QED
      BY <2>1, <2>6, <3>1, SkipGoes
  <2>8. Commands'
    BY <2>1, <2>7, GoesKeeps, OneCommand DEF End
  <2>. QED
    BY <2>5, <2>8 DEF TypeInv, Commands
<1>3. ASSUME NEW p \in Procs, Kill(p) PROVE TypeInv'
  <2>1. UNCHANGED <<kind, conf, torn, file, data, box, known, last, lossy>>
        /\ faults < MaxFaults /\ faults' = faults + 1 /\ End(p)
        /\ cmd[p] # None /\ cmd[p].todo # <<>>
        /\ cut' = [cut EXCEPT ![N(p)] = @ \/ Changes(cmd[p])]
    BY <1>3 DEF Kill
  <2>2. Changes(cmd[p]) \in BOOLEAN
    BY DEF Changes
  <2>3. Stores'
    <3>1. faults' \in 0..MaxFaults
      BY <1>1, <2>1
    <3>2. cut' \in [Names -> BOOLEAN]
      <4>1. N(p) \in Names
        BY <2>1, AtStep
      <4>. QED
        BY <1>0, <2>1, <2>2, <4>1 DEF Stores
    <3>. QED
      BY <1>0, <2>1, <3>1, <3>2 DEF Stores
  <2>4. Commands'
    BY <2>1, OneCommand DEF End
  <2>. QED
    BY <2>3, <2>4 DEF TypeInv, Commands
<1>4. ASSUME NEW p \in Procs, Tear(p) PROVE TypeInv'
  <2>1. /\ UNCHANGED <<kind, file, data, box, known, last>>
        /\ faults < MaxFaults /\ faults' = faults + 1 /\ End(p)
        /\ torn' \in BOOLEAN /\ lossy' = TRUE
        /\ cmd[p] # None /\ cmd[p].todo # <<>>
        /\ cut' = [cut EXCEPT ![N(p)] = TRUE]
    BY <1>4 DEF Tear, At
  <2>2. PICK kept \in SUBSET Names :
          conf' = [n \in Names |-> IF n \in kept THEN Written(p)[n] ELSE None]
    BY <1>4 DEF Tear
  <2>3. Written(p) \in [Names -> Entry \cup {None}]
    <3>1. cmd[p] \in Command /\ N(p) \in Names /\ Work(p) \in Entry \cup {None}
      BY <2>1, AtStep
    <3>2. Kept(K(p), Work(p)) \in Entry \cup {None}
      BY <3>1 DEF Kept, Entry
    <3>. QED
      BY <3>1, <3>2 DEF Written, Command
  <2>4. conf' \in [Names -> Entry \cup {None}]
    BY <2>2, <2>3
  <2>5. Stores'
    <3>1. faults' \in 0..MaxFaults
      BY <1>1, <2>1
    <3>2. cut' \in [Names -> BOOLEAN]
      BY <1>0, <2>1 DEF Stores
    <3>. QED
      BY <1>0, <2>1, <2>4, <3>1, <3>2 DEF Stores
  <2>6. Commands'
    BY <2>1, OneCommand DEF End
  <2>. QED
    BY <2>5, <2>6 DEF TypeInv, Commands
<1>5. ASSUME NEW n \in Names, Die(n) PROVE TypeInv'
  <2>1. UNCHANGED <<kind, conf, torn, file, data, cmd, known, cut, last, lossy>>
        /\ faults < MaxFaults /\ faults' = faults + 1
    BY <1>5 DEF Die
  <2>2. PICK r \in Parts : Running(n, r) /\ box' = [box EXCEPT ![n][r].up = FALSE]
    BY <1>5 DEF Die
  <2>3. [box[n][r] EXCEPT !.up = FALSE] \in Box
    <3>1. box[n][r] \in Box
      BY <1>0, <2>2 DEF Running, Exists, Stores
    <3>. QED
      BY <3>1 DEF Box
  <2>4. box' \in [Names -> [Parts -> Box \cup {None}]]
    BY <1>0, <2>2, <2>3 DEF Stores
  <2>. QED
    <3>1. faults' \in 0..MaxFaults
      BY <1>1, <2>1
    <3>2. Stores'
      BY <1>0, <2>1, <2>4, <3>1 DEF Stores
    <3>3. Commands'
      BY <1>0, <2>1 DEF Commands, Fed, NeedsOf, GivesOf
    <3>. QED
      BY <3>2, <3>3 DEF TypeInv, Commands
<1>6. ASSUME Reboot PROVE TypeInv'
  <2>1. UNCHANGED <<kind, conf, torn, file, data, known, last, lossy>>
        /\ faults < MaxFaults /\ faults' = faults + 1
        /\ cmd' = [p \in Procs |-> None]
    BY <1>6 DEF Reboot
  <2>2. cut' \in [Names -> BOOLEAN]
    <3>1. cut' = [n \in Names |-> cut[n] \/ \E p \in Procs : cmd[p] # None
                                           /\ cmd[p].name = n /\ Changes(cmd[p])]
      BY <1>6 DEF Reboot
    <3>. QED
      BY <1>0, <3>1 DEF Stores
  <2>3. box' \in [Names -> [Parts -> Box \cup {None}]]
    <3>1. box' = [n \in Names |-> [r \in Parts |->
               IF Exists(n, r) THEN [box[n][r] EXCEPT !.up = FALSE] ELSE None]]
      BY <1>6 DEF Reboot
    <3>2. ASSUME NEW n \in Names, NEW r \in Parts, Exists(n, r)
          PROVE  [box[n][r] EXCEPT !.up = FALSE] \in Box
      <4>1. box[n][r] \in Box
        BY <1>0, <3>2 DEF Exists, Stores
      <4>. QED
        BY <4>1 DEF Box
    <3>. QED
      BY <3>1, <3>2
  <2>4. Stores'
    <3>1. faults' \in 0..MaxFaults
      BY <1>1, <2>1
    <3>. QED
      BY <1>0, <2>1, <2>2, <2>3, <3>1 DEF Stores
  <2>. QED
    BY <2>1, <2>4 DEF TypeInv
<1>. QED
  BY <1>2, <1>3, <1>4, <1>5, <1>6 DEF Fault

-----------------------------------------------------------------------------
\* The types hold at first.
LEMMA TypeInit ==
  ASSUME Init
  PROVE  TypeInv
<1>1. faults \in 0..MaxFaults
  BY SettingsAssumption DEF Init
<1>2. cmd \in [Procs -> Command \cup {None}] /\ \A p \in Procs : cmd[p] = None
  BY DEF Init
<1>3. Stores
  BY <1>1 DEF Init, Stores
<1>. QED
  BY <1>2, <1>3 DEF TypeInv

\* The types are inductive.
LEMMA TypeNext ==
  ASSUME TypeInv, [Next]_vars
  PROVE  TypeInv'
<1>1. CASE UNCHANGED vars
  BY <1>1 DEF vars, TypeInv, Stores, Fed, NeedsOf, GivesOf
<1>. QED
  BY <1>1, StepTyped, CallTyped, FaultTyped DEF Next

\* Every state is typed, whatever the commands and however many run at once.
\* That a step finds an entry in memory where it uses one is part of it: a
\* handler that dereferenced an entry it has not read would leave the types.
THEOREM TypeCorrect == Spec => []TypeOK
<1>1. Init => TypeInv
  BY TypeInit
<1>2. TypeInv /\ [Next]_vars => TypeInv'
  BY TypeNext
<1>3. TypeInv => TypeOK
  BY DEF TypeInv, Stores, TypeOK, Command
<1>. QED
  BY <1>1, <1>2, <1>3, PTL DEF Spec

-----------------------------------------------------------------------------
\* What a step of the command p does to its own add-on, and to no other.

\* The boxes of another add-on stay; the first box of its own is gone after
\* "rm", the second after "rm2", and each stays gone until a step makes it.
Boxes(p) ==
  /\ \A m \in Names \ {N(p)} : box'[m] = box[m]
  /\ \E r \in Parts : \A q \in Parts \ {r} : box'[N(p)][q] = box[N(p)][q]
  /\ \/ Head(cmd[p].todo) = "rm"
     \/ ~Exists(N(p), 1) /\ Head(cmd[p].todo) \notin Makes1
     => box'[N(p)][1] = None
  /\ \/ Head(cmd[p].todo) = "rm2"
     \/ Head(cmd[p].todo) = "ownrm2" /\ Runs(Work(p), 2)
     \/ ~Exists(N(p), 2) /\ Head(cmd[p].todo) \notin Makes2
     => box'[N(p)][2] = None

\* Every step of a command treats the containers so.
LEMMA StepBoxes ==
  ASSUME TypeInv, NEW p \in Procs, Step(p), cmd[p].todo # <<>>
  PROVE  Boxes(p)
<1> DEFINE n == N(p)
           op == Head(cmd[p].todo)
<1>1. CASE BoxStep(p)
  <2>1. PICK r \in Parts, b \in Box \cup {None} : Handles(p, r, b)
    BY <1>1, BoxStepHandles
  <2>2. box \in [Names -> [Parts -> Box \cup {None}]]
    BY DEF TypeInv, Stores
  <2>3. n \in Names
    BY <1>1, AtStep DEF BoxStep, Signal, Halt, Rm, Create, Startup, Discard, Recreate, At
  <2>4. /\ \A m \in Names \ {n} : box'[m] = box[m]
        /\ \A q \in Parts : box'[n][q] = (IF q = r THEN b ELSE box[n][q])
    BY <2>1, <2>2, <2>3 DEF Handles, Puts
  <2>5. op = "rm" \/ (~Exists(n, 1) /\ op \notin Makes1) => box'[n][1] = None
    BY <2>1, <2>4 DEF Handles, Makes, Parts, Exists
  <2>6. op = "rm2" \/ (op = "ownrm2" /\ Runs(Work(p), 2)) \/ (~Exists(n, 2) /\ op \notin Makes2)
          => box'[n][2] = None
    BY <2>1, <2>4 DEF Handles, Makes, Parts, Exists
  <2>. QED
    BY <2>4, <2>5, <2>6 DEF Boxes
<1>2. CASE ~BoxStep(p)
  <2>1. UNCHANGED box
    BY <1>2 DEF Step, BoxStep, Load, FindEntry, Check, Merge, Generate, DecideAuth, Recall, Agree, Choose,
         Mint, Save, Drop, WriteFile, Vet, NeedFile, NeedUp, SetSecret, Wipe, DropFile, Return
  <2>2. op \notin {"rm", "rm2", "ownrm2"}
    BY <1>2 DEF Step, BoxStep, Load, FindEntry, Check, Merge, Generate, DecideAuth, Recall, Agree, Choose,
         Mint, Save, Drop, WriteFile, Vet, NeedFile, NeedUp, SetSecret, Wipe, DropFile, Return,
         At
  <2>. QED
    BY <2>1, <2>2 DEF Boxes, Exists, Parts
<1>. QED
  BY <1>1, <1>2

\* pg.yaml changes only when the command saves.
LEMMA StepConf ==
  ASSUME NEW p \in Procs, Step(p), cmd[p] # None, cmd[p].todo # <<>>
  PROVE  conf' = IF Head(cmd[p].todo) = "save" THEN Written(p) ELSE conf
<1>1. CASE Save(p)
  BY <1>1 DEF Save, At
<1>2. CASE ~Save(p)
  <2>1. UNCHANGED conf
    BY <1>2 DEF Step, Load, FindEntry, Check, Merge, Generate, DecideAuth, Recall, Agree, Choose, Mint,
         Drop, WriteFile, Vet, Signal, NeedFile, NeedUp, SetSecret, Wipe, DropFile, Halt, Rm,
         Create, Startup, Discard, Recreate, Return
  <2>2. Head(cmd[p].todo) # "save"
    BY <1>2 DEF Step, Load, FindEntry, Check, Merge, Generate, DecideAuth, Recall, Agree, Choose, Mint,
         Drop, WriteFile, Vet, Signal, NeedFile, NeedUp, SetSecret, Wipe, DropFile, Halt, Rm,
         Create, Startup, Discard, Recreate, Return, At
  <2>. QED
    BY <2>1, <2>2
<1>. QED
  BY <1>1, <1>2

\* The data of another add-on stays; its own goes only when it is wiped.
LEMMA StepData ==
  ASSUME TypeInv, NEW p \in Procs, Step(p), cmd[p] # None, cmd[p].todo # <<>>
  PROVE  /\ \A m \in Names \ {N(p)} : data'[m] = data[m]
         /\ data'[N(p)] = None /\ data[N(p)] # None => Head(cmd[p].todo) \in Erases
<1>1. data \in [Names -> [sec : Secrets \cup {None}] \cup {None}] /\ N(p) \in Names
  BY AtStep DEF TypeInv, Stores
<1>2. ASSUME NEW x, Bind(N(p), x) PROVE data' = [data EXCEPT ![N(p)] = [sec |-> x]]
  BY <1>2 DEF Bind
<1>3. CASE Wipe(p)
  BY <1>1, <1>3 DEF Wipe, At, Erases
<1>4. CASE ~Wipe(p)
  <2>1. UNCHANGED data \/ \E x \in Secrets \cup {None} : Bind(N(p), x)
    <3>1. CASE SetSecret(p)
      <4>1. Work(p) \in Entry
        BY <3>1, AtStep DEF SetSecret, At, Uses
      <4>. QED
        BY <3>1, <4>1 DEF SetSecret, Entry
    <3>2. CASE Create(p) \/ Recreate(p)
      <4>1. Work(p) \in Entry
        BY <3>2, AtStep DEF Create, Recreate, At, Uses
      <4>. QED
        BY <3>2, <4>1 DEF Create, Recreate, LayOut, Entry
    <3>3. CASE Mint(p)
      BY <3>3, FreshSecret DEF Mint
    <3>4. CASE ~(SetSecret(p) \/ Create(p) \/ Recreate(p) \/ Mint(p))
      BY <1>4, <3>4 DEF Step, Load, FindEntry, Check, Merge, Generate, DecideAuth, Recall, Agree, Choose,
         Save, Drop, WriteFile, Vet, Signal, NeedFile, NeedUp, DropFile, Halt, Rm,
         Startup, Discard, Return
    <3>. QED
      BY <3>1, <3>2, <3>3, <3>4
  <2>2. ASSUME NEW x \in Secrets \cup {None}, Bind(N(p), x) PROVE data'[N(p)] # None
                                             /\ \A m \in Names \ {N(p)} : data'[m] = data[m]
    <3>1. [sec |-> x] # None
      BY NoneAssumption
    <3>. QED
      BY <1>1, <1>2, <2>2, <3>1
  <2>. QED
    BY <2>1, <2>2
<1>. QED
  BY <1>3, <1>4

-----------------------------------------------------------------------------
\* One command at a time.

\* Only one command runs, and its saves are whole.
Serial == ~Tears /\ \A p, q \in Procs : p = q

Bare(n) == \A r \in Parts : ~Exists(n, r)

\* The entry e, if there is one, has all roles.
Whole(e) == e = None \/ e.set \notin Alone

\* The entry and the data of an add-on go only after its containers: what the
\* steps left to the command c still need, and what brings it.
Orders(c) ==
  LET n == c.name
      k == kind[n]
  IN /\ c.op = "install" => After(c.todo, FALSE, Erases, {}, {})
     /\ c.op # "install" =>
          After(c.todo, c.work # None \/ conf[n] = None \/ Bare(n), {"save"}, {"load"}, {})
     /\ After(c.todo, ~Exists(n, 1), Erases, {"rm"}, Makes1)
     /\ Second(k) => After(c.todo, ~Exists(n, 2), Erases, Clears2(k), Makes2)
     /\ ~Second(k) => After(c.todo, FALSE, Makes2, {}, {})

\* A kind whose roles are fixed has them all in every entry.
Roles(c) ==
  kind[c.name] \notin Rerole =>
    c.want \notin Alone /\ Whole(c.work) /\ Whole(c.seen[c.name])

\* What the command c read of the other add-ons is what pg.yaml says.
Reads(c) == \A m \in Names \ {c.name} : c.seen[m] = conf[m]

LifeOK ==
  /\ \A n \in Names : ~Second(kind[n]) => ~Exists(n, 2)
  /\ \A n \in Names : kind[n] \notin Rerole => Whole(conf[n])
  /\ \A p \in Procs : cmd[p] # None => Orders(cmd[p]) /\ Roles(cmd[p]) /\ Reads(cmd[p])

LifeInv == TypeInv /\ LifeOK

\* What a save writes of an entry is an entry, with the same roles.
LEMMA KeptEntry ==
  ASSUME NEW k, NEW e \in Entry \cup {None}
  PROVE  /\ Kept(k, e) \in Entry \cup {None}
         /\ Kept(k, e) = None <=> e = None
         /\ Whole(e) => Whole(Kept(k, e))
<1>1. CASE e \in Entry
  <2>1. [e EXCEPT !.sec = None] \in Entry /\ [e EXCEPT !.sec = None].set = e.set
    BY <1>1 DEF Entry
  <2>2. Kept(k, e) \in {e, [e EXCEPT !.sec = None]}
    BY DEF Kept
  <2>. QED
    BY <1>1, <2>1, <2>2, NoneAssumption DEF Whole
<1>2. CASE e = None
  BY <1>2 DEF Kept
<1>. QED
  BY <1>1, <1>2

\* Saving the entry, or forgetting it, leaves the other entries alone.
LEMMA SaveWrites ==
  ASSUME LifeInv, NEW p \in Procs, cmd[p] # None, cmd[p].todo # <<>>,
         conf' = IF Head(cmd[p].todo) = "save" THEN Written(p) ELSE conf
  PROVE  /\ \A m \in Names \ {N(p)} : conf'[m] = conf[m]
         /\ conf'[N(p)] = IF Head(cmd[p].todo) = "save" THEN Kept(K(p), Work(p))
                          ELSE conf[N(p)]
<1>1. cmd[p] \in Command /\ N(p) = cmd[p].name /\ N(p) \in Names
  BY AtStep DEF LifeInv
<1>2. cmd[p].seen \in [Names -> Entry \cup {None}] /\ Reads(cmd[p])
  BY <1>1 DEF Command, LifeInv, LifeOK
<1>. QED
  BY <1>1, <1>2 DEF Written, Reads

\* The step at hand finds the containers gone that it needs gone.
LEMMA ErasesBare ==
  ASSUME LifeInv, NEW p \in Procs, cmd[p] # None, cmd[p].todo # <<>>,
         Head(cmd[p].todo) \in Erases
  PROVE  Bare(N(p)) /\ cmd[p].op # "install"
<1>1. cmd[p] \in Command /\ cmd[p].todo \in Seq(Ops) /\ N(p) = cmd[p].name /\ N(p) \in Names
  BY AtStep DEF LifeInv
<1>2. Orders(cmd[p])
  BY DEF LifeInv, LifeOK
<1>3. ~Exists(N(p), 1)
  <2>1. After(cmd[p].todo, ~Exists(N(p), 1), Erases, {"rm"}, Makes1)
    BY <1>1, <1>2 DEF Orders
  <2>. QED
    BY <1>1, <2>1, AfterHead
<1>4. ~Exists(N(p), 2)
  <2>1. CASE Second(kind[N(p)])
    <3>1. After(cmd[p].todo, ~Exists(N(p), 2), Erases, Clears2(kind[N(p)]), Makes2)
      BY <1>1, <1>2, <2>1 DEF Orders
    <3>. QED
      BY <1>1, <3>1, AfterHead
  <2>2. CASE ~Second(kind[N(p)])
    BY <1>1, <2>2 DEF LifeInv, LifeOK
  <2>. QED
    BY <2>1, <2>2
<1>5. ASSUME cmd[p].op = "install" PROVE FALSE
  <2>1. After(cmd[p].todo, FALSE, Erases, {}, {})
    BY <1>2, <1>5 DEF Orders
  <2>. QED
    BY <1>1, <2>1, AfterHead
<1>. QED
  BY <1>3, <1>4, <1>5 DEF Bare, Parts

\* The same of a save that forgets the entry.
LEMMA ForgetsBare ==
  ASSUME LifeInv, NEW p \in Procs, cmd[p] # None, cmd[p].todo # <<>>,
         Head(cmd[p].todo) = "save", Work(p) = None
  PROVE  cmd[p].op # "install" /\ (conf[N(p)] = None \/ Bare(N(p)))
<1>1. cmd[p] \in Command /\ cmd[p].todo \in Seq(Ops) /\ N(p) = cmd[p].name
      /\ Work(p) = cmd[p].work
  BY AtStep DEF LifeInv
<1>2. Orders(cmd[p]) /\ Fed(cmd[p])
  BY DEF LifeInv, LifeOK, TypeInv
<1>3. cmd[p].op # "install"
  <2>1. SUFFICES ASSUME cmd[p].op = "install" PROVE FALSE
    OBVIOUS
  <2>2. "save" \in NeedsOf(cmd[p])
    BY <2>1 DEF NeedsOf, InstallNeeds
  <2>3. After(cmd[p].todo, cmd[p].work # None, NeedsOf(cmd[p]), GivesOf(cmd[p]),
              {"load", "drop"})
    BY <1>2 DEF Fed
  <2>. QED
    BY <1>1, <2>2, <2>3, AfterHead
<1>4. After(cmd[p].todo, cmd[p].work # None \/ conf[N(p)] = None \/ Bare(N(p)), {"save"},
            {"load"}, {})
  BY <1>1, <1>2, <1>3 DEF Orders
<1>5. cmd[p].work # None \/ conf[N(p)] = None \/ Bare(N(p))
  BY <1>1, <1>4, AfterHead
<1>. QED
  BY <1>1, <1>3, <1>5

\* The conditions that a step of the command c leaves to the command d.
Effects(p, d) ==
  /\ cmd' = [cmd EXCEPT ![p] = d]
  /\ Follows(cmd[p], d, Head(cmd[p].todo))
  /\ Boxes(p)
  /\ conf' = IF Head(cmd[p].todo) = "save" THEN Written(p) ELSE conf
  /\ UNCHANGED kind

\* A step keeps what its command needs of the containers and of pg.yaml.
LEMMA GoesOrders ==
  ASSUME LifeInv, NEW p \in Procs, cmd[p] # None, cmd[p].todo # <<>>,
         NEW d, Effects(p, d)
  PROVE  Orders(d)'
<1> DEFINE c == cmd[p]
           op == Head(c.todo)
           s == c.todo
<1>0. PICK n, k : n = N(p) /\ k = kind[n]
  OBVIOUS
<1>1. c \in Command /\ s \in Seq(Ops) /\ n = c.name /\ n \in Names /\ Work(p) = c.work
      /\ c.work \in Entry \cup {None} /\ (op \in Uses => c.work \in Entry)
  BY <1>0, AtStep DEF LifeInv
<1>2. Orders(c) /\ Fed(c) /\ Roles(c)
  BY DEF LifeInv, LifeOK, TypeInv
<1>3. d.op = c.op /\ d.name = n /\ d.todo = Tail(s)
  BY <1>1 DEF Effects, Follows
<1>4. kind' = kind /\ Boxes(p) /\ s # <<>> /\ Follows(c, d, op)
  BY DEF Effects
<1>5. ASSUME c.op = "install" PROVE After(Tail(s), FALSE, Erases, {}, {})
  <2>1. After(s, FALSE, Erases, {}, {})
    BY <1>2, <1>5 DEF Orders
  <2>. QED
    BY <1>1, <2>1, <1>4, AfterTail
<1>6. After(Tail(s), ~Exists(n, 1)', Erases, {"rm"}, Makes1)
  <2>1. After(s, ~Exists(n, 1), Erases, {"rm"}, Makes1)
    BY <1>1, <1>2 DEF Orders
  <2>2. op = "rm" \/ (~Exists(n, 1) /\ op \notin Makes1) => ~Exists(n, 1)'
    BY <1>0, <1>4 DEF Boxes, Exists
  <2>. QED
    BY <1>1, <1>4, <2>1, <2>2, AfterTail
<1>7. ASSUME Second(k) PROVE After(Tail(s), ~Exists(n, 2)', Erases, Clears2(k), Makes2)
  <2>1. After(s, ~Exists(n, 2), Erases, Clears2(k), Makes2)
    BY <1>0, <1>1, <1>2, <1>7 DEF Orders
  <2>2. op \in Clears2(k) => op = "rm2" \/ (op = "ownrm2" /\ Runs(Work(p), 2))
    <3>1. SUFFICES ASSUME op = "ownrm2", k \notin Rerole PROVE Runs(Work(p), 2)
      BY DEF Clears2
    <3>2. c.work \in Entry /\ Whole(c.work)
      BY <1>0, <1>1, <1>2, <3>1 DEF Uses, Roles
    <3>. QED
      BY <1>1, <3>2, NoneAssumption DEF Whole, Runs
  <2>3. op \in Clears2(k) \/ (~Exists(n, 2) /\ op \notin Makes2) => ~Exists(n, 2)'
    BY <1>0, <1>4, <2>2 DEF Boxes, Exists
  <2>. QED
    BY <1>1, <1>4, <2>1, <2>3, AfterTail
<1>8. ASSUME ~Second(k) PROVE After(Tail(s), FALSE, Makes2, {}, {})
  <2>1. After(s, FALSE, Makes2, {}, {})
    BY <1>0, <1>1, <1>2, <1>8 DEF Orders
  <2>. QED
    BY <1>1, <1>4, <2>1, AfterTail
<1>9. ASSUME c.op # "install"
      PROVE  After(Tail(s), d.work # None \/ (conf[n])' = None \/ Bare(n)', {"save"}, {"load"}, {})
  <2> DEFINE t == c.work # None \/ conf[n] = None \/ Bare(n)
             u == d.work # None \/ conf'[n] = None \/ Bare(n)'
  <2>1. After(s, t, {"save"}, {"load"}, {})
    BY <1>1, <1>2, <1>9 DEF Orders
  <2>2. conf'[n] = IF op = "save" THEN Kept(k, c.work) ELSE conf[n]
    BY <1>0, <1>1, SaveWrites DEF Effects, K
  <2>3. ASSUME Bare(n), op \notin Makes1 \cup Makes2 PROVE Bare(n)'
    BY <1>0, <1>4, <2>3 DEF Boxes, Bare, Exists, Parts
  <2>4. CASE op = "load"
    <3>1. d.work = conf[n]
      BY <1>1, <1>4, <2>4 DEF Follows
    <3>. QED
      BY <1>1, <1>4, <2>1, <2>2, <2>4, <3>1, AfterTail
  <2>5. CASE op = "drop"
    <3>1. Bare(n)
      BY <1>0, <1>1, <2>5, ErasesBare DEF Erases
    <3>2. Bare(n)'
      BY <2>3, <2>5, <3>1 DEF Makes1, Makes2
    <3>. QED
      BY <1>1, <1>4, <2>1, <3>2, AfterTail
  <2>6. CASE op \notin {"load", "drop"}
    <3>1. ASSUME t PROVE u
      <4>1. CASE c.work # None
        <5>1. d.work # None
          BY <1>4, <2>6, <4>1, NoneAssumption DEF Follows
        <5>. QED
          BY <5>1
      <4>2. CASE c.work = None
        <5>1. op \notin Makes1 \cup Makes2
          BY <1>1, <4>2, NoneAssumption DEF Makes1, Makes2, Uses
        <5>2. conf[n] = None => conf'[n] = None
          BY <2>2, <4>2 DEF Kept
        <5>. QED
          BY <2>3, <3>1, <4>2, <5>1, <5>2
      <4>. QED
        BY <4>1, <4>2
    <3>2. t \in BOOLEAN /\ u \in BOOLEAN /\ op \notin {"load"}
      BY <2>6 DEF Bare, Exists
    <3>. HIDE DEF t, u
    <3>3. After(Tail(s), u, {"save"}, {"load"}, {})
      BY <1>1, <1>4, <2>1, <3>1, <3>2, AfterTail
    <3>. QED
      BY <3>3 DEF u
  <2>. QED
    BY <2>4, <2>5, <2>6
<1>. QED
  BY <1>0, <1>1, <1>3, <1>4, <1>5, <1>6, <1>7, <1>8, <1>9 DEF Orders

\* A kind whose roles are fixed keeps them all.
LEMMA GoesRoles ==
  ASSUME LifeInv, NEW p \in Procs, cmd[p] # None, cmd[p].todo # <<>>,
         NEW d, Effects(p, d)
  PROVE  Roles(d)'
<1> DEFINE c == cmd[p]
           op == Head(c.todo)
           n == N(p)
<1>1. c \in Command /\ n = c.name /\ n \in Names /\ Work(p) = c.work
      /\ c.work \in Entry \cup {None}
  BY AtStep DEF LifeInv
<1>2. kind' = kind /\ Follows(c, d, op) /\ d.name = n
  BY <1>1 DEF Effects, Follows
<1>. SUFFICES ASSUME kind[n] \notin Rerole
              PROVE  /\ d.want \notin Alone /\ Whole(d.work) /\ Whole(d.seen[n])
  BY <1>2 DEF Roles, Whole
<1>3. /\ c.want \notin Alone /\ Whole(c.work) /\ Whole(c.seen[n])
      /\ Whole(conf[n])
  BY <1>1 DEF LifeInv, LifeOK, Roles
<1>4. Default \notin Alone /\ None \notin Alone
  BY SettingsAssumption
<1>5. d.want \notin Alone
  BY <1>2, <1>3, <1>4 DEF Follows
<1>6. Whole(d.seen[n])
  BY <1>2, <1>3 DEF Follows
<1>7. Whole(d.work)
  <2>1. CASE op = "merge"
    BY <1>1, <1>2, <1>3, <1>4, <2>1 DEF Follows, Merged, Whole
  <2>2. CASE op \in Rekeys \cup {"generate"} /\ op # "merge"
    BY <1>2, <1>3, <2>2, NoneAssumption DEF Follows, Whole
  <2>3. CASE op \in {"load", "drop"}
    BY <1>1, <1>2, <1>3, <2>3 DEF Follows, Whole
  <2>4. CASE op \notin Rekeys \cup {"load", "drop", "generate"}
    BY <1>2, <1>3, <2>4 DEF Follows
  <2>. QED
    BY <2>1, <2>2, <2>3, <2>4
<1>. QED
  BY <1>5, <1>6, <1>7

\* What a step of the command p leaves of the containers and of pg.yaml.
Leaving(p) ==
  /\ Boxes(p)
  /\ conf' = IF Head(cmd[p].todo) = "save" THEN Written(p) ELSE conf
  /\ UNCHANGED kind

\* The parts of LifeOK that are about no command.
LEMMA LeavesStores ==
  ASSUME LifeInv, NEW p \in Procs, cmd[p] # None, cmd[p].todo # <<>>, Leaving(p)
  PROVE  /\ \A m \in Names : ~Second(kind'[m]) => ~Exists(m, 2)'
         /\ \A m \in Names : kind'[m] \notin Rerole => Whole(conf'[m])
<1>0. PICK n, k, s, op : n = N(p) /\ k = kind[n] /\ s = cmd[p].todo /\ op = Head(s)
  OBVIOUS
<1>1. s \in Seq(Ops) /\ n \in Names /\ n = cmd[p].name /\ cmd[p] \in Command
      /\ Work(p) = cmd[p].work /\ cmd[p].work \in Entry \cup {None}
  BY <1>0, AtStep DEF LifeInv
<1>2. Orders(cmd[p]) /\ Roles(cmd[p])
  BY DEF LifeInv, LifeOK
<1>3. ASSUME NEW m \in Names, ~Second(kind'[m]) PROVE ~Exists(m, 2)'
  <2>1. ~Second(kind[m]) /\ ~Exists(m, 2)
    BY <1>3 DEF Leaving, LifeInv, LifeOK
  <2>2. CASE m = n
    <3>1. After(s, FALSE, Makes2, {}, {})
      BY <1>0, <1>1, <1>2, <2>1, <2>2 DEF Orders
    <3>2. op \notin Makes2
      BY <1>0, <1>1, <3>1, AfterHead
    <3>. QED
      BY <1>0, <2>1, <2>2, <3>2 DEF Leaving, Boxes, Exists
  <2>3. CASE m # n
    BY <1>0, <2>1, <2>3 DEF Leaving, Boxes, Exists
  <2>. QED
    BY <2>2, <2>3
<1>4. ASSUME NEW m \in Names, kind'[m] \notin Rerole PROVE Whole(conf'[m])
  <2>1. kind[m] \notin Rerole /\ Whole(conf[m])
    BY <1>4 DEF Leaving, LifeInv, LifeOK
  <2>2. conf'[m] = conf[m] \/ (m = n /\ conf'[m] = Kept(K(p), Work(p)))
    BY <1>0, SaveWrites DEF Leaving
  <2>3. m = n => Whole(Kept(K(p), Work(p)))
    BY <1>0, <1>1, <1>2, <2>1, KeptEntry DEF Roles
  <2>. QED
    BY <2>1, <2>2, <2>3
<1>. QED
  BY <1>3, <1>4

\* The command goes on, and is the only one.
LEMMA GoesLife ==
  ASSUME LifeInv, Serial, NEW p \in Procs, Goes(p), Leaving(p)
  PROVE  LifeOK'
<1>1. PICK d : cmd' = [cmd EXCEPT ![p] = d] /\ Follows(cmd[p], d, Head(cmd[p].todo))
  BY DEF Goes
<1>2. cmd[p] # None /\ cmd[p].todo # <<>> /\ Effects(p, d)
  BY <1>1 DEF Goes, Leaving, Effects
<1>3. Orders(d)' /\ Roles(d)'
  BY <1>2, GoesOrders, GoesRoles
<1>4. Reads(d)'
  <2>0. PICK n : n = N(p)
    OBVIOUS
  <2>1. d.name = n /\ cmd[p].name = n /\ Reads(cmd[p])
        /\ d.seen = (IF Head(cmd[p].todo) = "load" THEN conf ELSE cmd[p].seen)
    BY <1>1, <2>0 DEF Follows, N, LifeInv, LifeOK, Goes
  <2>2. \A m \in Names \ {n} : conf'[m] = conf[m]
    BY <1>2, <2>0, SaveWrites DEF Effects
  <2>3. \A m \in Names \ {n} : d.seen[m] = conf[m]
    BY <2>1 DEF Reads
  <2>. QED
    BY <2>1, <2>2, <2>3 DEF Reads
<1>5. \A q \in Procs : cmd'[q] = d
  BY <1>1 DEF Serial, LifeInv, TypeInv
<1>. QED
  BY <1>2, <1>3, <1>4, <1>5, LeavesStores DEF LifeOK

\* The only command is gone.
LEMMA GoneLife ==
  ASSUME Serial, NEW p \in Procs, cmd'[p] = None,
         \A m \in Names : ~Second(kind'[m]) => ~Exists(m, 2)',
         \A m \in Names : kind'[m] \notin Rerole => Whole(conf'[m])
  PROVE  LifeOK'
BY DEF Serial, LifeOK

\* An install turns to a branch: none of its steps erases.
LEMMA TurnsLife ==
  ASSUME LifeInv, Serial, NEW p \in Procs, Turns(p), UNCHANGED <<kind, conf, box>>
  PROVE  LifeOK'
<1>1. PICK d \in Command, i \in DOMAIN Branches(kind[cmd[p].name]) :
        /\ cmd' = [cmd EXCEPT ![p] = d]
        /\ d.op = "install"
        /\ d.name = cmd[p].name
        /\ d.todo = Branches(kind[cmd[p].name])[i].steps
        /\ d.seen = cmd[p].seen
        /\ d.work = cmd[p].work
        /\ d.want = cmd[p].want
  BY DEF Turns
<1>0. PICK n, k : n = cmd[p].name /\ k = kind[n]
  OBVIOUS
<1>2. n \in Names /\ k \in Kinds /\ cmd[p] # None
  BY <1>0, <1>1 DEF Turns, LifeInv, TypeInv, Command, Stores
<1>3. d.todo \in BranchPrograms(k)
  BY <1>0, <1>1 DEF BranchPrograms
<1>4. \A op \in Erases : ~In(op, d.todo)
  BY <1>2, <1>3, OrderAssumption DEF Orderly, InstallOrder, InstallPrograms
<1>5. ~Second(k) => \A op \in Makes2 : ~In(op, d.todo)
  <2>1. {d.todo[j] : j \in DOMAIN d.todo} \subseteq StepsOf(k)
    BY <1>3 DEF StepsOf, InstallPrograms
  <2>. QED
    BY <2>1 DEF Second, In
<1>6. Orders(d)
  <2>1. \A j \in DOMAIN d.todo : d.todo[j] \notin Erases
    BY <1>4 DEF In
  <2>2. ~Second(k) => \A j \in DOMAIN d.todo : d.todo[j] \notin Makes2
    BY <1>5 DEF In
  <2>. QED
    BY <1>0, <1>1, <2>1, <2>2 DEF Orders, After
<1>7. Roles(d) /\ Reads(d)
  BY <1>0, <1>1, <1>2 DEF LifeInv, LifeOK, Roles, Reads
<1>8. \A q \in Procs : cmd'[q] = d
  BY <1>1 DEF Serial, LifeInv, TypeInv
<1>9. Orders(d)' /\ Roles(d)' /\ Reads(d)'
  BY <1>6, <1>7 DEF Orders, Roles, Reads, Bare, Exists
<1>. QED
  BY <1>8, <1>9 DEF LifeInv, LifeOK, Exists

\* A command begins.
LEMMA BeginsLife ==
  ASSUME LifeInv, Serial, NEW p \in Procs, Begins(p), UNCHANGED <<kind, conf, box>>
  PROVE  LifeOK'
<1>1. PICK d \in Command :
        /\ cmd' = [cmd EXCEPT ![p] = d]
        /\ d.seen = conf
        /\ d.work = None
        /\ d.want \in Alone => kind[d.name] \in Rerole
        /\ Programs(kind[d.name], d.op, d.todo)
  BY DEF Begins
<1>0. PICK n, k : n = d.name /\ k = kind[n]
  OBVIOUS
<1>2. n \in Names /\ k \in Kinds
  BY <1>0 DEF LifeInv, TypeInv, Command, Stores
<1>3. Orderly(k)
  BY <1>2, OrderAssumption
<1>4. Orders(d)
  <2>1. CASE d.op = "install"
    <3>1. d.todo = k.install.prepare
      BY <1>0, <1>1, <2>1 DEF Programs
    <3>2. \A j \in DOMAIN d.todo : d.todo[j] \notin Erases
      BY <1>3, <3>1 DEF Orderly, InstallOrder, InstallPrograms, In
    <3>3. {d.todo[j] : j \in DOMAIN d.todo} \subseteq StepsOf(k)
      BY <3>1 DEF StepsOf, InstallPrograms
    <3>4. ~Second(k) => \A j \in DOMAIN d.todo : d.todo[j] \notin Makes2
      BY <3>3 DEF Second
    <3>. QED
      BY <1>0, <2>1, <3>2, <3>4 DEF Orders, After
  <2>2. CASE d.op = "serve"
    <3>1. d.todo = <<"load", "save">>
      BY <1>1, <2>2 DEF Programs
    <3>2. \A j \in DOMAIN d.todo : d.todo[j] \notin Erases \cup Makes2
      BY <3>1 DEF Erases, Makes2
    <3>3. After(d.todo, d.work # None \/ conf[n] = None \/ Bare(n), {"save"}, {"load"}, {})
      BY <3>1 DEF After
    <3>. QED
      BY <1>0, <2>2, <3>2, <3>3 DEF Orders, After
  <2>3. CASE d.op \notin {"install", "serve"}
    <3>1. d.todo \in UsePrograms(k)
      BY <1>0, <1>1, <2>3 DEF Programs
    <3>2. /\ After(d.todo, FALSE, {"save"}, {"load"}, {})
          /\ After(d.todo, FALSE, Erases, {"rm"}, Makes1)
          /\ Second(k) => After(d.todo, FALSE, Erases, Clears2(k), Makes2)
      BY <1>3, <3>1 DEF Orderly, UseOrder
    <3>3. {d.todo[j] : j \in DOMAIN d.todo} \subseteq StepsOf(k)
      BY <3>1 DEF StepsOf
    <3>4. ~Second(k) => \A j \in DOMAIN d.todo : d.todo[j] \notin Makes2
      BY <3>3 DEF Second
    <3>5. /\ After(d.todo, d.work # None \/ conf[n] = None \/ Bare(n), {"save"}, {"load"}, {})
          /\ After(d.todo, ~Exists(n, 1), Erases, {"rm"}, Makes1)
          /\ Second(k) => After(d.todo, ~Exists(n, 2), Erases, Clears2(k), Makes2)
      BY <3>2 DEF After
    <3>. QED
      BY <1>0, <2>3, <3>4, <3>5 DEF Orders, After
  <2>. QED
    BY <2>1, <2>2, <2>3
<1>5. Roles(d) /\ Reads(d)
  <2>1. k \notin Rerole => Whole(conf[n])
    BY <1>0, <1>2 DEF LifeInv, LifeOK
  <2>. QED
    BY <1>0, <1>1, <2>1 DEF Roles, Reads, Whole
<1>6. \A q \in Procs : cmd'[q] = d
  BY <1>1 DEF Serial, LifeInv, TypeInv
<1>7. Orders(d)' /\ Roles(d)' /\ Reads(d)'
  BY <1>4, <1>5 DEF Orders, Roles, Reads, Bare, Exists
<1>. QED
  BY <1>6, <1>7 DEF LifeInv, LifeOK, Exists

\* A step goes on, stops, turns to a branch or returns.
LEMMA StepEnds ==
  ASSUME TypeInv, NEW p \in Procs, Step(p)
  PROVE  \/ (Goes(p) \/ Leaves(p)) /\ cmd[p] # None /\ cmd[p].todo # <<>>
         \/ Choose(p)
         \/ Return(p)
<1>1. ASSUME Goes(p) \/ Leaves(p) PROVE cmd[p] # None /\ cmd[p].todo # <<>>
  BY <1>1 DEF Goes, Leaves
<1>2. CASE PlainStep(p)
  BY <1>1, <1>2, PlainStepGoes
<1>3. CASE FieldStep(p)
  BY <1>1, <1>3, FieldStepGoes
<1>4. CASE KeyStep(p)
  BY <1>1, <1>4, KeyStepGoes
<1>5. CASE Load(p) \/ Merge(p) \/ Drop(p)
  BY <1>1, <1>5, LoadGoes, MergeGoes, DropGoes
<1>. QED
  BY <1>2, <1>3, <1>4, <1>5 DEF Step, PlainStep, FieldStep, KeyStep

\* What a step leaves, whether its command goes on or stops.
LEMMA StepLeaving ==
  ASSUME TypeInv, NEW p \in Procs, Step(p), cmd[p] # None, cmd[p].todo # <<>>
  PROVE  Leaving(p)
<1>1. UNCHANGED kind
  BY DEF Step, Load, FindEntry, Check, Merge, Generate, DecideAuth, Recall, Agree, Choose, Mint, Save,
         Drop, WriteFile, Vet, Signal, NeedFile, NeedUp, SetSecret, Wipe, DropFile, Halt,
         Rm, Create, Startup, Discard, Recreate, Return
<1>. QED
  BY <1>1, StepBoxes, StepConf DEF Leaving

\* A stopped command is gone.
LEMMA EndGone ==
  ASSUME TypeInv, NEW p \in Procs, End(p)
  PROVE  cmd'[p] = None
BY DEF End, TypeInv

\* Every step of the only command keeps LifeOK.
LEMMA StepLife ==
  ASSUME LifeInv, Serial, NEW p \in Procs, Step(p)
  PROVE  LifeOK'
<1>1. TypeInv
  BY DEF LifeInv
<1>2. CASE Goes(p) /\ cmd[p] # None /\ cmd[p].todo # <<>>
  BY <1>1, <1>2, StepLeaving, GoesLife
<1>3. CASE Leaves(p) /\ cmd[p] # None /\ cmd[p].todo # <<>>
  BY <1>1, <1>3, StepLeaving, LeavesStores, EndGone, GoneLife DEF Leaves
<1>4. CASE Choose(p)
  BY <1>1, <1>4, ChooseTurns, TurnsLife DEF Choose
<1>5. CASE Return(p)
  <2>1. UNCHANGED <<kind, conf, box>> /\ cmd'[p] = None
    BY <1>1, <1>5, EndGone DEF Return
  <2>. QED
    BY <2>1, GoneLife DEF LifeInv, LifeOK, Exists
<1>. QED
  BY <1>1, <1>2, <1>3, <1>4, <1>5, StepEnds

\* A soft failure is a step that does nothing.
LEMMA SoftLeaving ==
  ASSUME TypeInv, NEW p \in Procs, Fail(p), Head(cmd[p].todo) \in Soft
  PROVE  Goes(p) /\ Leaving(p) /\ UNCHANGED box
<1>1. cmd[p] # None /\ cmd[p].todo # <<>> /\ Skip(p) /\ UNCHANGED <<kind, conf, box>>
  BY DEF Fail, Soft
<1>2. Goes(p)
  BY <1>1, SkipGoes DEF Soft
<1>3. Boxes(p)
  BY <1>1 DEF Boxes, Exists, Parts, Soft
<1>. QED
  BY <1>1, <1>2, <1>3 DEF Leaving, Soft

\* The containers a hard failure leaves: at most one more, which the step makes.
HardBox(p) ==
  \/ UNCHANGED box
  \/ /\ Head(cmd[p].todo) \in {"create", "create2"}
     /\ \A m \in Names \ {N(p)} : box'[m] = box[m]
     /\ LET r == Part(Head(cmd[p].todo))
        IN box'[N(p)][r] # None /\ \A q \in Parts \ {r} : box'[N(p)][q] = box[N(p)][q]

\* A hard failure ends the command and leaves the containers so.
LEMMA HardFails ==
  ASSUME TypeInv, NEW p \in Procs, Fail(p), Head(cmd[p].todo) \notin Soft
  PROVE  /\ HardBox(p)
         /\ cmd'[p] = None
         /\ UNCHANGED <<kind, conf, data>>
<1>1. cmd[p] # None /\ cmd[p].todo # <<>> /\ End(p) /\ UNCHANGED <<kind, conf, data>>
  BY DEF Fail
<1>0. PICK n, r : n = N(p) /\ r = Part(Head(cmd[p].todo))
  OBVIOUS
<1>2. n \in Names /\ r \in Parts
  BY <1>0, <1>1, AtStep DEF Part, Parts
<1>3. ASSUME NEW b \in Box, Puts(n, r, b), Head(cmd[p].todo) \in {"create", "create2"}
      PROVE  HardBox(p)
  <2>1. box' = [box EXCEPT ![n] = [box[n] EXCEPT ![r] = b]]
    BY <1>3 DEF Puts
  <2>2. /\ \A m \in Names \ {n} : box'[m] = box[m]
        /\ box'[n][r] = b /\ \A q \in Parts \ {r} : box'[n][q] = box[n][q]
    BY <1>2, <2>1 DEF TypeInv, Stores
  <2>. QED
    BY <1>0, <1>3, <2>2, NoneAssumption DEF HardBox
<1>4. HardBox(p)
  BY <1>0, <1>3, FailBox DEF HardBox
<1>. QED
  BY <1>1, <1>4, EndGone

\* A failure leaves no second container of a kind without.
LEMMA FailLife ==
  ASSUME LifeInv, Serial, NEW p \in Procs, Fail(p)
  PROVE  LifeOK'
<1>1. TypeInv /\ cmd[p] # None /\ cmd[p].todo # <<>>
  BY DEF LifeInv, Fail
<1>2. CASE Head(cmd[p].todo) \in Soft
  BY <1>1, <1>2, SoftLeaving, GoesLife
<1>3. CASE Head(cmd[p].todo) \notin Soft
  <2>0. PICK n, op : n = N(p) /\ op = Head(cmd[p].todo)
    OBVIOUS
  <2>1. HardBox(p) /\ cmd'[p] = None /\ UNCHANGED <<kind, conf>>
    BY <1>1, <1>3, HardFails
  <2>2. n \in Names /\ n = cmd[p].name /\ cmd[p].todo \in Seq(Ops)
    BY <1>1, <2>0, AtStep
  <2>3. ASSUME NEW m \in Names, ~Second(kind[m]) PROVE box'[m][2] = None
    <3>1. box[m][2] = None
      BY <2>3 DEF LifeInv, LifeOK, Exists
    <3>2. CASE UNCHANGED box \/ m # n
      BY <2>0, <2>1, <3>1, <3>2 DEF HardBox
    <3>3. CASE ~(UNCHANGED box) /\ m = n
      <4>1. After(cmd[p].todo, FALSE, Makes2, {}, {})
        BY <2>2, <2>3, <3>3, <1>1 DEF LifeInv, LifeOK, Orders
      <4>2. op \notin Makes2
        BY <1>1, <2>0, <2>2, <4>1, AfterHead
      <4>. QED
        BY <2>0, <2>1, <3>1, <3>3, <4>2 DEF HardBox, Part, Parts, Makes2
    <3>. QED
      BY <3>2, <3>3
  <2>. QED
    BY <2>1, <2>3, GoneLife DEF LifeInv, LifeOK, Exists
<1>. QED
  BY <1>2, <1>3

\* Containers that die exist still.
LEMMA DieExists ==
  ASSUME TypeInv, \/ \E n \in Names : Die(n)
                  \/ Reboot
  PROVE  \A m \in Names, q \in Parts : box'[m][q] = None <=> box[m][q] = None
<1>1. box \in [Names -> [Parts -> Box \cup {None}]]
  BY DEF TypeInv, Stores
<1>2. ASSUME NEW b \in Box PROVE [b EXCEPT !.up = FALSE] # None
  <2>1. [b EXCEPT !.up = FALSE] \in Box
    BY DEF Box
  <2>. QED
    BY <2>1, NoneAssumption
<1>3. ASSUME NEW n \in Names, Die(n)
      PROVE  \A m \in Names, q \in Parts : box'[m][q] = None <=> box[m][q] = None
  <2>1. PICK r \in Parts : Running(n, r) /\ box' = [box EXCEPT ![n][r].up = FALSE]
    BY <1>3 DEF Die
  <2>2. box[n][r] \in Box
    BY <1>1, <2>1 DEF Running, Exists
  <2>3. [box[n][r] EXCEPT !.up = FALSE] # None
    BY <1>2, <2>2
  <2>. QED
    BY <1>1, <2>1, <2>3 DEF Running, Exists
<1>4. ASSUME Reboot
      PROVE  \A m \in Names, q \in Parts : box'[m][q] = None <=> box[m][q] = None
  <2>1. box' = [n \in Names |-> [r \in Parts |->
             IF Exists(n, r) THEN [box[n][r] EXCEPT !.up = FALSE] ELSE None]]
    BY <1>4 DEF Reboot
  <2>2. \A m \in Names, q \in Parts : Exists(m, q) => box[m][q] \in Box
    BY <1>1 DEF Exists
  <2>. QED
    BY <1>2, <2>1, <2>2 DEF Exists
<1>. QED
  BY <1>3, <1>4

\* LifeInv is inductive while one command runs at a time.
LEMMA LifeNext ==
  ASSUME LifeInv, Serial, [Next]_vars
  PROVE  LifeInv'
<1>1. TypeInv /\ TypeInv'
  BY TypeNext DEF LifeInv
<1>2. LifeOK
  BY DEF LifeInv
<1>3. ASSUME UNCHANGED <<kind, conf, cmd>>,
             \A m \in Names, q \in Parts : box'[m][q] = None <=> box[m][q] = None
      PROVE  LifeOK'
  <2>1. \A m \in Names, q \in Parts : Exists(m, q)' <=> Exists(m, q)
    BY <1>3 DEF Exists
  <2>2. ASSUME NEW p \in Procs, cmd[p] # None
        PROVE  Orders(cmd[p])' /\ Roles(cmd[p])' /\ Reads(cmd[p])'
    <3>0. PICK c, n : c = cmd[p] /\ n = c.name
      OBVIOUS
    <3>1. n \in Names
      BY <1>1, <2>2, <3>0 DEF TypeInv, Command
    <3>2. Orders(c) /\ Roles(c) /\ Reads(c)
      BY <1>2, <2>2, <3>0 DEF LifeOK
    <3>3. /\ Exists(n, 1)' <=> Exists(n, 1)
          /\ Exists(n, 2)' <=> Exists(n, 2)
          /\ Bare(n)' <=> Bare(n)
      BY <2>1, <3>1 DEF Bare, Parts
    <3>4. Orders(c)'
      BY <1>3, <3>0, <3>2, <3>3 DEF Orders, After
    <3>5. Roles(c)' /\ Reads(c)'
      BY <1>3, <3>2 DEF Roles, Reads
    <3>. QED
      BY <1>3, <3>0, <3>4, <3>5
  <2>. QED
    BY <1>2, <1>3, <2>1, <2>2 DEF LifeOK, Parts
<1>4. CASE UNCHANGED vars
  <2>1. UNCHANGED <<kind, conf, cmd>> /\ box' = box
    BY <1>4 DEF vars
  <2>2. \A m \in Names, q \in Parts : box'[m][q] = None <=> box[m][q] = None
    BY <2>1
  <2>. QED
    BY <1>1, <1>3, <2>1, <2>2 DEF LifeInv
<1>5. ASSUME NEW p \in Procs, Call(p) PROVE LifeOK'
  <2>0. PICK c : Begin(p, c)
    BY <1>5, CallStarts
  <2>1. UNCHANGED <<kind, conf, box>>
    BY <2>0 DEF Begin
  <2>. QED
    BY <1>1, <1>5, <2>1, CallBegins, BeginsLife
<1>6. ASSUME NEW p \in Procs, Kill(p) \/ Tear(p) PROVE LifeOK'
  <2>1. Kill(p)
    BY <1>6 DEF Tear, Serial
  <2>2. UNCHANGED <<kind, conf, box>> /\ cmd'[p] = None
    BY <1>1, <2>1, EndGone DEF Kill
  <2>. QED
    BY <1>2, <2>2, GoneLife DEF LifeOK, Exists
<1>7. ASSUME NEW n \in Names, Die(n) PROVE LifeOK'
  BY <1>1, <1>3, <1>7, DieExists DEF Die
<1>8. ASSUME Reboot PROVE LifeOK'
  <2>1. \A p \in Procs : cmd'[p] = None
    BY <1>8 DEF Reboot
  <2>2. UNCHANGED <<kind, conf>>
    BY <1>8 DEF Reboot
  <2>3. \A m \in Names : Exists(m, 2)' <=> Exists(m, 2)
    BY <1>1, <1>8, DieExists DEF Exists, Parts
  <2>. QED
    BY <1>2, <2>1, <2>2, <2>3 DEF LifeOK
<1>. QED
  BY <1>1, <1>4, <1>5, <1>6, <1>7, <1>8, StepLife, FailLife DEF LifeInv, Next, Fault

-----------------------------------------------------------------------------
\* The commands implement AddonLife.

BoxesOf(n) == {r \in Parts : Exists(n, r)}

\* What the add-on n does in a step that AddonLife allows.
Lives(n) ==
  \/ /\ conf'[n] # None <=> conf[n] # None
     /\ BoxesOf(n)' = BoxesOf(n)
     /\ data'[n] # None <=> data[n] # None
  \/ /\ conf'[n] # None
     /\ BoxesOf(n)' = BoxesOf(n)
     /\ data'[n] # None <=> data[n] # None
  \/ /\ conf'[n] = None
     /\ BoxesOf(n)' = BoxesOf(n) /\ BoxesOf(n) = {}
     /\ data'[n] # None <=> data[n] # None
  \/ /\ conf'[n] # None <=> conf[n] # None
     /\ \E r \in Parts \ BoxesOf(n) : BoxesOf(n)' = BoxesOf(n) \cup {r}
     /\ data[n] # None => data'[n] # None
  \/ /\ conf'[n] # None <=> conf[n] # None
     /\ \E r \in BoxesOf(n) : BoxesOf(n)' = BoxesOf(n) \ {r}
     /\ data'[n] # None <=> data[n] # None
  \/ /\ conf'[n] # None <=> conf[n] # None
     /\ BoxesOf(n)' = BoxesOf(n)
     /\ data'[n] # None
  \/ /\ conf'[n] # None <=> conf[n] # None
     /\ BoxesOf(n)' = BoxesOf(n) /\ BoxesOf(n) = {}
     /\ data'[n] = None

\* What Lives allows is a step of AddonLife, or none.
LEMMA LivesImplements ==
  ASSUME Lives(OneOf)
  PROVE  [Life!Next]_(Life!lifeVars)
BY DEF Lives, BoxesOf, Exists, Life!Next, Life!lifeVars, Life!Record, Life!Build, Life!Lay,
       Life!Discard, Life!Erase, Life!Forget

\* No add-on is installed at first.
LEMMA InitImplements ==
  ASSUME Init, Names # {}
  PROVE  Life!Init
<1>1. OneOf \in Names
  BY DEF OneOf
<1>. QED
  BY <1>1 DEF Init, Life!Init, Exists

\* A step takes a container away only when it leaves the data alone.
LEMMA BoxStepData ==
  ASSUME TypeInv, NEW p \in Procs, BoxStep(p)
  PROVE  \/ UNCHANGED data
         \/ \A r \in Parts : box'[N(p)][r] = None => box[N(p)][r] = None
<1>1. CASE Create(p) \/ Recreate(p)
  <2>0. PICK n, r, b : n = N(p) /\ r = Here(p) /\ b = NewBox(N(p), K(p), Work(p))
    OBVIOUS
  <2>1. cmd[p] # None /\ cmd[p].todo # <<>> /\ Head(cmd[p].todo) \in Uses
    BY <1>1 DEF Create, Recreate, At, Uses
  <2>2. n \in Names /\ Work(p) \in Entry /\ Stores
    BY <2>0, <2>1, AtStep DEF TypeInv
  <2>3. b # None
    BY <2>0, <2>2, NewBoxTyped, NoneAssumption
  <2>4. UNCHANGED data \/ box' = [box EXCEPT ![n][r] = b]
    BY <1>1, <2>0 DEF Create, Recreate
  <2>. QED
    BY <2>0, <2>2, <2>3, <2>4 DEF Stores
<1>2. CASE ~(Create(p) \/ Recreate(p))
  BY <1>2 DEF BoxStep, Signal, Halt, Rm, Startup, Discard
<1>. QED
  BY <1>1, <1>2

\* A step on the containers of an add-on.
LEMMA BoxStepLives ==
  ASSUME LifeInv, NEW p \in Procs, NEW n, n = N(p), BoxStep(p)
  PROVE  Lives(n)
<1>1. cmd[p] # None /\ cmd[p].todo # <<>> /\ Head(cmd[p].todo) \notin Erases /\ UNCHANGED conf
  BY DEF BoxStep, Signal, Halt, Rm, Create, Startup, Discard, Recreate, At, Erases
<1>2. TypeInv /\ Step(p)
  BY DEF LifeInv, BoxStep, Step
<1>3. data[n] # None => data'[n] # None
  BY <1>1, <1>2, StepData
<1>4. PICK r \in Parts : \A q \in Parts \ {r} : box'[n][q] = box[n][q]
  BY <1>1, <1>2, StepBoxes DEF Boxes
<1>5. UNCHANGED data \/ \A q \in Parts : box'[n][q] = None => box[n][q] = None
  BY <1>2, BoxStepData
<1>6. /\ BoxesOf(n) = {q \in Parts : box[n][q] # None}
      /\ BoxesOf(n)' = {q \in Parts : box'[n][q] # None}
  BY DEF BoxesOf, Exists
<1>7. CASE box'[n][r] = None /\ box[n][r] # None
  <2>1. r \in BoxesOf(n) /\ BoxesOf(n)' = BoxesOf(n) \ {r} /\ UNCHANGED data
    BY <1>4, <1>5, <1>6, <1>7
  <2>. QED
    BY <1>1, <2>1 DEF Lives
<1>8. CASE box'[n][r] # None /\ box[n][r] = None
  <2>1. r \in Parts \ BoxesOf(n) /\ BoxesOf(n)' = BoxesOf(n) \cup {r}
    BY <1>4, <1>6, <1>8
  <2>. QED
    BY <1>1, <1>3, <2>1 DEF Lives
<1>9. CASE box'[n][r] # None <=> box[n][r] # None
  <2>1. BoxesOf(n)' = BoxesOf(n)
    BY <1>4, <1>6, <1>9
  <2>. QED
    BY <1>1, <1>3, <2>1 DEF Lives
<1>. QED
  BY <1>7, <1>8, <1>9

\* A step of the command p on the add-on n.
LEMMA OwnStepLives ==
  ASSUME LifeInv, NEW p \in Procs, NEW n, n = N(p), Step(p),
         cmd[p] # None, cmd[p].todo # <<>>
  PROVE  Lives(n)
<1>1. TypeInv
  BY DEF LifeInv
<1>2. n \in Names /\ Work(p) \in Entry \cup {None}
  BY <1>1, AtStep
<1>3. CASE BoxStep(p)
  BY <1>3, BoxStepLives
<1>4. ASSUME ~BoxStep(p) PROVE BoxesOf(n)' = BoxesOf(n)
  <2>1. UNCHANGED box
    BY <1>4 DEF Step, BoxStep, Load, FindEntry, Check, Merge, Generate, DecideAuth, Recall, Agree, Choose,
         Mint, Save, Drop, WriteFile, Vet, NeedFile, NeedUp, SetSecret, Wipe, DropFile, Return
  <2>. QED
    BY <2>1 DEF BoxesOf, Exists
<1>5. CASE Save(p)
  <2>1. UNCHANGED <<data, box>> /\ Head(cmd[p].todo) = "save"
    BY <1>5 DEF Save, At
  <2>2. conf'[n] = Kept(K(p), Work(p))
    BY <1>1, <2>1, SaveWrites, StepConf
  <2>3. BoxesOf(n)' = BoxesOf(n)
    BY <2>1 DEF BoxesOf, Exists
  <2>4. CASE Work(p) # None
    BY <1>2, <2>1, <2>2, <2>3, <2>4, KeptEntry DEF Lives
  <2>5. CASE Work(p) = None
    <3>1. conf'[n] = None
      BY <1>2, <2>2, <2>5, KeptEntry
    <3>2. conf[n] = None \/ Bare(n)
      BY <2>1, <2>5, ForgetsBare
    <3>. QED
      BY <2>1, <2>3, <3>1, <3>2 DEF Lives, Bare, BoxesOf
  <2>. QED
    BY <2>4, <2>5
<1>6. CASE ~BoxStep(p) /\ ~Save(p)
  <2>1. conf'[n] = conf[n]
    BY <1>6 DEF Step, BoxStep, Load, FindEntry, Check, Merge, Generate, DecideAuth, Recall, Agree, Choose,
         Mint, Drop, WriteFile, Vet, NeedFile, NeedUp, SetSecret, Wipe, DropFile, Return
  <2>2. CASE data'[n] = None /\ data[n] # None
    <3>1. Bare(n)
      BY <1>1, <2>2, StepData, ErasesBare
    <3>. QED
      BY <1>4, <1>6, <2>1, <2>2, <3>1 DEF Lives, Bare, BoxesOf
  <2>3. CASE ~(data'[n] = None /\ data[n] # None)
    BY <1>4, <1>6, <2>1, <2>3 DEF Lives
  <2>. QED
    BY <2>2, <2>3
<1>. QED
  BY <1>3, <1>5, <1>6

\* What changes nothing of the add-on is allowed.
LEMMA StutterLives ==
  ASSUME NEW n, conf'[n] = conf[n], data'[n] = data[n],
         \A r \in Parts : box'[n][r] = None <=> box[n][r] = None
  PROVE  Lives(n)
BY DEF Lives, BoxesOf, Exists

\* Every step is one that AddonLife allows, for every add-on.
LEMMA NextLives ==
  ASSUME LifeInv, Serial, [Next]_vars, NEW n \in Names
  PROVE  Lives(n)
<1>1. TypeInv
  BY DEF LifeInv
<1>2. CASE UNCHANGED vars
  BY <1>2, StutterLives DEF vars
<1>3. ASSUME NEW p \in Procs, Call(p) PROVE Lives(n)
  <2>0. PICK c : Begin(p, c)
    BY <1>3, CallStarts
  <2>. QED
    BY <2>0, StutterLives DEF Begin
<1>4. ASSUME NEW p \in Procs, Step(p) PROVE Lives(n)
  <2>1. CASE Return(p)
    BY <2>1, StutterLives DEF Return
  <2>2. CASE cmd[p] # None /\ cmd[p].todo # <<>>
    <3>1. CASE n = N(p)
      BY <1>4, <2>2, <3>1, OwnStepLives
    <3>2. CASE n # N(p)
      <4>1. box'[n] = box[n] /\ conf'[n] = conf[n]
        BY <1>1, <1>4, <2>2, <3>2, StepLeaving, SaveWrites DEF Leaving, Boxes
      <4>2. data'[n] = data[n]
        BY <1>1, <1>4, <2>2, <3>2, StepData
      <4>. QED
        BY <4>1, <4>2, StutterLives
    <3>. QED
      BY <3>1, <3>2
  <2>3. Return(p) \/ (cmd[p] # None /\ cmd[p].todo # <<>>)
    BY <1>1, <1>4, StepEnds DEF Choose, At
  <2>. QED
    BY <2>1, <2>2, <2>3
<1>5. ASSUME NEW p \in Procs, Fail(p) PROVE Lives(n)
  <2>1. UNCHANGED <<conf, data>>
    BY <1>5 DEF Fail
  <2>2. CASE UNCHANGED box
    BY <2>1, <2>2, StutterLives
  <2>3. CASE ~(UNCHANGED box)
    <3>1. HardBox(p)
      BY <1>1, <1>5, <2>3, SoftLeaving, HardFails
    <3>2. CASE n = N(p)
      <4>0. PICK r : r = Part(Head(cmd[p].todo))
        OBVIOUS
      <4>1. r \in Parts /\ box'[n][r] # None
            /\ \A q \in Parts \ {r} : box'[n][q] = box[n][q]
        BY <2>3, <3>1, <3>2, <4>0 DEF HardBox, Part, Parts
      <4>2. /\ BoxesOf(n) = {q \in Parts : box[n][q] # None}
            /\ BoxesOf(n)' = {q \in Parts : box'[n][q] # None}
        BY DEF BoxesOf, Exists
      <4>3. BoxesOf(n)' = BoxesOf(n) \/ (r \notin BoxesOf(n) /\ BoxesOf(n)' = BoxesOf(n) \cup {r})
        BY <4>1, <4>2
      <4>. QED
        BY <2>1, <4>1, <4>3 DEF Lives
    <3>3. CASE n # N(p)
      BY <2>1, <2>3, <3>1, <3>3, StutterLives DEF HardBox
    <3>. QED
      BY <3>2, <3>3
  <2>. QED
    BY <2>2, <2>3
<1>6. ASSUME NEW p \in Procs, Kill(p) \/ Tear(p) PROVE Lives(n)
  BY <1>6, StutterLives DEF Kill, Tear, Serial
<1>7. ASSUME (\E m \in Names : Die(m)) \/ Reboot PROVE Lives(n)
  <2>1. UNCHANGED <<conf, data>>
    BY <1>7 DEF Die, Reboot
  <2>. QED
    BY <1>1, <1>7, <2>1, DieExists, StutterLives
<1>. QED
  BY <1>2, <1>3, <1>4, <1>5, <1>6, <1>7 DEF Next, Fault

\* LifeInv holds at first.
LEMMA LifeInit ==
  ASSUME Init
  PROVE  LifeInv
<1>1. TypeInv
  BY TypeInit
<1>2. LifeOK
  BY DEF Init, LifeOK, Exists, Whole, Parts
<1>. QED
  BY <1>1, <1>2 DEF LifeInv

\* When one command runs at a time and no save is cut short, the handlers of
\* every kind implement AddonLife: remove deletes the entry of an add-on and
\* its data only after its containers, however its steps fail or are
\* interrupted, so that it can be tried again.
THEOREM Implemented == Serial /\ Names # {} /\ Spec => Implements
<1>. SUFFICES ASSUME Serial, Names # {} PROVE Spec => Implements
  OBVIOUS
<1>1. Init => Life!Init
  BY InitImplements
<1>2. Init => LifeInv
  BY LifeInit
<1>3. LifeInv /\ [Next]_vars => LifeInv'
  BY LifeNext
<1>4. LifeInv /\ [Next]_vars => [Life!Next]_(Life!lifeVars)
  <2>1. OneOf \in Names
    BY DEF OneOf
  <2>. QED
    BY <2>1, NextLives, LivesImplements
<1>. QED
  BY <1>1, <1>2, <1>3, <1>4, PTL DEF Spec, Implements, Life!Spec

-----------------------------------------------------------------------------
\* Every container is owned.

\* The entry of the add-on is there, or an install that saves last was cut off.
Covered(n) == conf[n] # None \/ (cut[n] /\ ~SavesFirst(kind[n]))

\* The command c is an install of n on its way to save the entry.
Saving(c, n) == c.op = "install" /\ c.name = n /\ Commits(c.todo, 0)

\* What the command c still does to own the containers it makes, and what it
\* leaves of the secret that the data holds.
Records(c) ==
  LET n == c.name
      k == kind[n]
  IN /\ c.op = "install" => Recording(k, c.todo, Covered(n))
     /\ c.op = "install" => (c.seen[n] # None => conf[n] # None)
     /\ c.op # "install" => (c.work # None => conf[n] # None)
     /\ Logins(k) => After(c.todo, FALSE, Binds, {}, {})
     /\ ~Logins(k) \/ c.op # "install" => After(c.todo, FALSE, {"passwd"}, {}, {})
     /\ Logins(k) /\ c.op # "install" =>
          /\ After(c.todo, Bound(n) = None, {"drop"}, {"wipeall"}, {})
          /\ After(c.todo, c.work # None \/ conf[n] = None \/ Bound(n) = None,
                   {"save"}, {"load"}, {})

\* A container has an entry, or an install on its way to save one; and where
\* the password of the entry opens the data, so has a bound password, and the
\* install has it.
Owned(n) ==
  /\ ~Bare(n) =>
       \/ Covered(n)
       \/ /\ ~SavesFirst(kind[n])
          /\ \E p \in Procs : cmd[p] # None /\ Saving(cmd[p], n)
  /\ Logins(kind[n]) /\ Bound(n) # None =>
       \/ conf[n] # None
       \/ cut[n]
       \/ \E p \in Procs : /\ cmd[p] # None
                           /\ Saving(cmd[p], n)
                           /\ cmd[p].work # None
                           /\ cmd[p].work.sec = Bound(n)

OwnOK ==
  /\ \A n \in Names : Owned(n)
  /\ \A p \in Procs : cmd[p] # None => Records(cmd[p])

OwnInv == LifeInv /\ OwnOK

\* What Commits says of the rest of a program.
LEMMA CommitsTail ==
  ASSUME NEW s \in Seq(Ops), s # <<>>, NEW i \in Nat, Commits(s, i),
         i # 0 \/ Head(s) # "save"
  PROVE  /\ Commits(Tail(s), IF i = 0 THEN 0 ELSE i - 1)
         /\ i = 0 => Head(s) \notin Quits \cup Rekeys
<1> DEFINE t == Tail(s)
           h == IF i = 0 THEN 0 ELSE i - 1
<1>1. t \in Seq(Ops) /\ Len(t) = Len(s) - 1 /\ Len(s) \in Nat /\ Head(s) = s[1]
  OBVIOUS
<1>2. \A j \in 1..(Len(s) - 1) : t[j] = s[j + 1]
  OBVIOUS
<1>3. PICK e \in DOMAIN s : e > i /\ s[e] = "save"
                            /\ \A j \in (i + 1)..(e - 1) : s[j] \notin Quits \cup Rekeys
  BY DEF Commits
<1>4. e > 1 /\ e \in 1..Len(s)
  BY <1>1, <1>3
<1>5. e - 1 \in 1..Len(t) /\ e - 1 > h /\ t[e - 1] = "save"
  BY <1>1, <1>2, <1>3, <1>4
<1>6. ASSUME NEW j \in (h + 1)..((e - 1) - 1) PROVE t[j] \notin Quits \cup Rekeys
  <2>1. j \in 1..(Len(s) - 1) /\ j + 1 \in (i + 1)..(e - 1)
    BY <1>1, <1>4
  <2>. QED
    BY <1>2, <1>3, <2>1
<1>7. Commits(t, h)
  <2>1. e - 1 \in DOMAIN t
    BY <1>1, <1>5
  <2>. HIDE DEF t, h
  <2>. QED
    BY <1>5, <1>6, <2>1 DEF Commits
<1>8. ASSUME i = 0 PROVE Head(s) \notin Quits \cup Rekeys
  <2>1. 1 \in (i + 1)..(e - 1)
    BY <1>4, <1>8
  <2>. QED
    BY <1>1, <1>3, <2>1
<1>. QED
  BY <1>7, <1>8

\* The same for Recording, once the step at hand is done.
LEMMA RecordingTail ==
  ASSUME NEW k, NEW s \in Seq(Ops), s # <<>>, NEW t \in BOOLEAN, NEW u \in BOOLEAN,
         Recording(k, s, t), t \/ Head(s) = "save" => u
  PROVE  Recording(k, Tail(s), u)
<1>1. Tail(s) \in Seq(Ops) /\ Len(Tail(s)) = Len(s) - 1 /\ Len(s) \in Nat /\ Head(s) = s[1]
  OBVIOUS
<1>2. \A j \in 1..(Len(s) - 1) : Tail(s)[j] = s[j + 1]
  OBVIOUS
<1>. SUFFICES ASSUME NEW i \in DOMAIN Tail(s),
                     Tail(s)[i] \in Makes1 \cup Makes2 \cup {"passwd"}, ~u
              PROVE  \/ \E j \in 1..(i - 1) : Tail(s)[j] = "save"
                     \/ ~SavesFirst(k) /\ Commits(Tail(s), i)
  BY DEF Recording
<1>3. i \in 1..(Len(s) - 1) /\ i + 1 \in DOMAIN s /\ s[i + 1] = Tail(s)[i]
  BY <1>1, <1>2
<1>4. \/ \E j \in 1..((i + 1) - 1) : s[j] = "save"
      \/ ~SavesFirst(k) /\ Commits(s, i + 1)
  BY <1>3 DEF Recording
<1>5. ASSUME NEW j \in 1..((i + 1) - 1), s[j] = "save"
      PROVE  \E h \in 1..(i - 1) : Tail(s)[h] = "save"
  <2>1. j # 1
    BY <1>1, <1>5
  <2>2. j - 1 \in 1..(i - 1) /\ Tail(s)[j - 1] = s[j]
    BY <1>2, <1>3, <2>1
  <2>. QED
    BY <1>5, <2>2
<1>6. ASSUME Commits(s, i + 1) PROVE Commits(Tail(s), i)
  <2>1. i + 1 \in Nat /\ i + 1 # 0 /\ (i + 1) - 1 = i
    BY <1>3
  <2>2. Commits(Tail(s), IF i + 1 = 0 THEN 0 ELSE (i + 1) - 1)
    BY <1>6, <2>1, CommitsTail
  <2>. QED
    BY <2>1, <2>2
<1>. QED
  BY <1>4, <1>5, <1>6

\* A step that makes a container, or sets a password, is recorded.
LEMMA RecordingHead ==
  ASSUME NEW k, NEW s \in Seq(Ops), s # <<>>, NEW t \in BOOLEAN, Recording(k, s, t),
         Head(s) \in Makes1 \cup Makes2 \cup {"passwd"}
  PROVE  t \/ (~SavesFirst(k) /\ Commits(Tail(s), 0))
<1>1. 1 \in DOMAIN s /\ Head(s) = s[1] /\ 1..(1 - 1) = {}
  OBVIOUS
<1>2. t \/ (~SavesFirst(k) /\ Commits(s, 1))
  BY <1>1 DEF Recording
<1>3. Commits(s, 1) => Commits(Tail(s), IF 1 = 0 THEN 0 ELSE 1 - 1)
  BY CommitsTail
<1>. QED
  BY <1>2, <1>3

\* What a step of the command p on the add-on n does to the bound secrets.
Secures(p, n) ==
  /\ \A m \in Names \ {n} : Bound(m)' = Bound(m)
  /\ Logins(kind[n]) =>
       /\ \/ Bound(n)' = Bound(n)
          \/ Bound(n)' = None /\ Head(cmd[p].todo) \in Erases
          \/ Bound(n)' = cmd[p].work.sec /\ Head(cmd[p].todo) = "passwd"
       /\ Head(cmd[p].todo) = "wipeall" => Bound(n)' = None

\* Where a password of the entry opens the data, only setting it binds them.
LEMMA StepSecures ==
  ASSUME TypeInv, NEW p \in Procs, NEW n, n = N(p), Step(p),
         cmd[p] # None, cmd[p].todo # <<>>,
         Logins(kind[n]) => Head(cmd[p].todo) \notin Binds
  PROVE  Secures(p, n)
<1>1. data \in [Names -> [sec : Secrets \cup {None}] \cup {None}] /\ n \in Names
      /\ Work(p) = cmd[p].work
  BY AtStep DEF TypeInv, Stores
<1>2. \A m \in Names \ {n} : Bound(m)' = Bound(m)
  BY StepData DEF Bound
<1>3. ASSUME UNCHANGED data, Head(cmd[p].todo) # "wipeall" PROVE Secures(p, n)
  BY <1>3 DEF Secures, Bound
<1>4. \A x : [sec |-> x].sec = x
  OBVIOUS
<1>5. ASSUME NEW x \in Secrets \cup {None}, Bind(n, x) PROVE Bound(n)' = x
  <2>1. [sec |-> x] # None
    BY NoneAssumption
  <2>. QED
    BY <1>1, <1>5, <2>1 DEF Bind, Bound
<1>. SUFFICES ASSUME Logins(kind[n])
              PROVE  /\ \/ Bound(n)' = Bound(n)
                        \/ Bound(n)' = None /\ Head(cmd[p].todo) \in Erases
                        \/ Bound(n)' = cmd[p].work.sec /\ Head(cmd[p].todo) = "passwd"
                     /\ Head(cmd[p].todo) = "wipeall" => Bound(n)' = None
  BY <1>2 DEF Secures
<1>6. CASE Wipe(p)
  <2>1. data' = [data EXCEPT ![n] = None] \/ (UNCHANGED data /\ Head(cmd[p].todo) # "wipeall")
    BY <1>6 DEF Wipe
  <2>2. Head(cmd[p].todo) \in Erases /\ Head(cmd[p].todo) # "passwd"
    BY <1>6 DEF Wipe, At, Erases
  <2>. QED
    BY <1>1, <2>1, <2>2 DEF Bound
<1>7. CASE SetSecret(p)
  <2>1. Head(cmd[p].todo) = "passwd"
    BY <1>7 DEF SetSecret, At, Binds
  <2>2. UNCHANGED data \/ Bind(n, Work(p).sec)
    BY <1>7 DEF SetSecret
  <2>3. Work(p).sec \in Secrets \cup {None}
    BY <2>1, AtStep DEF Uses, Entry
  <2>. QED
    BY <1>1, <1>5, <2>1, <2>2, <2>3 DEF Bound
<1>8. CASE Create(p) \/ Recreate(p)
  <2>1. kind[n] \in Kinds
    BY <1>1 DEF TypeInv, Stores
  <2>2. kind[n].traits.binds # "data"
    BY <2>1, OrderAssumption DEF Orderly, LoginOrder
  <2>3. UNCHANGED data \/ (data[n] = None /\ Bind(n, None))
    BY <1>8, <2>2 DEF Create, Recreate, LayOut, K, N
  <2>4. Bound(n)' = Bound(n)
    BY <1>5, <2>3 DEF Bound
  <2>. QED
    BY <1>8, <2>4 DEF Create, Recreate, At
<1>9. CASE ~(Wipe(p) \/ SetSecret(p) \/ Create(p) \/ Recreate(p))
  <2>1. ~Mint(p)
    BY DEF Mint, At, Binds
  <2>2. UNCHANGED data
    BY <1>9, <2>1 DEF Step, Load, FindEntry, Check, Merge, Generate, DecideAuth, Recall, Agree, Choose,
         Save, Drop, WriteFile, Vet, Signal, NeedFile, NeedUp, DropFile, Halt, Rm,
         Startup, Discard, Return
  <2>3. Head(cmd[p].todo) # "wipeall"
    BY <1>9, <2>1 DEF Step, Load, FindEntry, Check, Merge, Generate, DecideAuth, Recall, Agree, Choose,
         Save, Drop, WriteFile, Vet, Signal, NeedFile, NeedUp, DropFile, Halt, Rm,
         Startup, Discard, Return, At
  <2>. QED
    BY <2>2, <2>3 DEF Bound
<1>. QED
  BY <1>6, <1>7, <1>8, <1>9

\* A step of a program that saves keeps the entry, unless it is to forget it.
LEMMA EntryStays ==
  ASSUME LifeInv, NEW p \in Procs, NEW n, n = N(p), cmd[p] # None, cmd[p].todo # <<>>,
         conf' = IF Head(cmd[p].todo) = "save" THEN Written(p) ELSE conf
  PROVE  /\ conf'[n] # None <=> IF Head(cmd[p].todo) = "save" THEN cmd[p].work # None
                                ELSE conf[n] # None
         /\ cmd[p].op = "install" =>
              (Head(cmd[p].todo) = "save" => conf'[n] # None)
              /\ (conf[n] # None => conf'[n] # None)
<1>1. Work(p) = cmd[p].work /\ Work(p) \in Entry \cup {None}
  BY AtStep DEF LifeInv
<1>2. conf'[n] = IF Head(cmd[p].todo) = "save" THEN Kept(K(p), Work(p)) ELSE conf[n]
  BY SaveWrites
<1>3. Head(cmd[p].todo) = "save" /\ cmd[p].work = None => cmd[p].op # "install"
  BY <1>1, ForgetsBare
<1>. QED
  BY <1>1, <1>2, <1>3, KeptEntry

\* A step keeps what its command still has to record.
LEMMA GoesRecords ==
  ASSUME OwnInv, NEW p \in Procs, cmd[p] # None, cmd[p].todo # <<>>,
         NEW d, Effects(p, d), NEW n, n = N(p), Secures(p, n), UNCHANGED cut
  PROVE  Records(d)'
<1> DEFINE c == cmd[p]
           op == Head(c.todo)
           s == c.todo
<1>0. PICK k : k = kind[n]
  OBVIOUS
<1>1. c \in Command /\ s \in Seq(Ops) /\ n = c.name /\ n \in Names /\ s # <<>>
      /\ c.work \in Entry \cup {None} /\ (op \in Uses => c.work \in Entry)
  BY AtStep DEF OwnInv, LifeInv
<1>2. Records(c) /\ Fed(c)
  BY DEF OwnInv, OwnOK, LifeInv, TypeInv
<1>3. d.op = c.op /\ d.name = n /\ d.todo = Tail(s) /\ kind' = kind /\ Follows(c, d, op)
  BY <1>1 DEF Effects, Follows
<1>4. /\ conf'[n] # None <=> IF op = "save" THEN c.work # None ELSE conf[n] # None
      /\ c.op = "install" =>
           (op = "save" => conf'[n] # None) /\ (conf[n] # None => conf'[n] # None)
  BY EntryStays DEF Effects, OwnInv
<1>5. ASSUME c.op = "install" PROVE Recording(k, Tail(s), Covered(n)')
  <2>1. Recording(k, s, Covered(n))
    BY <1>0, <1>1, <1>2, <1>5 DEF Records
  <2>2. Covered(n) \/ op = "save" => Covered(n)'
    BY <1>3, <1>4, <1>5 DEF Covered
  <2>3. Covered(n) \in BOOLEAN /\ Covered(n)' \in BOOLEAN
    BY DEF Covered
  <2>. QED
    BY <1>1, <2>1, <2>2, <2>3, RecordingTail
<1>6. ASSUME c.op = "install", d.seen[n] # None PROVE conf'[n] # None
  <2>1. c.seen[n] # None => conf[n] # None
    BY <1>1, <1>2, <1>6 DEF Records
  <2>. QED
    BY <1>3, <1>4, <1>6, <2>1 DEF Follows
<1>7. c.op # "install" /\ d.work # None => c.work # None \/ (op = "load" /\ conf[n] # None)
  <2>1. SUFFICES ASSUME c.op # "install", d.work # None, op # "load" PROVE c.work # None
    BY <1>1, <1>3 DEF Follows
  <2>2. CASE op = "merge"
    <3>1. op \in NeedsOf(c)
      BY <2>1, <2>2 DEF NeedsOf, UseNeeds
    <3>2. After(s, c.work # None, NeedsOf(c), GivesOf(c), {"load", "drop"})
      BY <1>2 DEF Fed
    <3>. QED
      BY <1>1, <3>1, <3>2, AfterHead
  <2>3. CASE op \in Rekeys \cup {"generate"} /\ op # "merge"
    BY <1>3, <2>3, NoneAssumption DEF Follows
  <2>4. CASE op = "drop"
    BY <1>3, <2>1, <2>4 DEF Follows
  <2>5. CASE op \notin Rekeys \cup {"load", "drop", "generate"}
    BY <1>3, <2>1, <2>5 DEF Follows
  <2>. QED
    BY <2>1, <2>2, <2>3, <2>4, <2>5
<1>8. ASSUME c.op # "install", d.work # None PROVE conf'[n] # None
  <2>1. c.work # None => conf[n] # None
    BY <1>1, <1>2, <1>8 DEF Records
  <2>. QED
    BY <1>4, <1>7, <1>8, <2>1
<1>9. ASSUME Logins(k) PROVE After(Tail(s), FALSE, Binds, {}, {})
  <2>1. After(s, FALSE, Binds, {}, {})
    BY <1>0, <1>1, <1>2, <1>9 DEF Records
  <2>. QED
    BY <1>1, <2>1, AfterTail
<1>10. ASSUME ~Logins(k) \/ c.op # "install" PROVE After(Tail(s), FALSE, {"passwd"}, {}, {})
  <2>1. After(s, FALSE, {"passwd"}, {}, {})
    BY <1>0, <1>1, <1>2, <1>10 DEF Records
  <2>. QED
    BY <1>1, <2>1, AfterTail
<1>11. ASSUME Logins(k), c.op # "install"
       PROVE  /\ After(Tail(s), Bound(n)' = None, {"drop"}, {"wipeall"}, {})
              /\ After(Tail(s), d.work # None \/ conf'[n] = None \/ Bound(n)' = None,
                       {"save"}, {"load"}, {})
  <2> DEFINE t == c.work # None \/ conf[n] = None \/ Bound(n) = None
             u == d.work # None \/ conf'[n] = None \/ Bound(n)' = None
  <2>1. /\ After(s, Bound(n) = None, {"drop"}, {"wipeall"}, {})
        /\ After(s, t, {"save"}, {"load"}, {})
        /\ After(s, FALSE, {"passwd"}, {}, {})
    BY <1>0, <1>1, <1>2, <1>11 DEF Records
  <2>2. op # "passwd"
    BY <1>1, <2>1, AfterHead
  <2>3. /\ Bound(n) = None => Bound(n)' = None
        /\ op = "wipeall" => Bound(n)' = None
    BY <1>0, <1>11, <2>2 DEF Secures
  <2>4. After(Tail(s), Bound(n)' = None, {"drop"}, {"wipeall"}, {})
    BY <1>1, <2>1, <2>3, AfterTail
  <2>5. op = "drop" => Bound(n) = None
    BY <1>1, <2>1, AfterHead
  <2>6. op = "load" => u
    BY <1>1, <1>3, <1>4 DEF Follows
  <2>7. ASSUME t, op # "load" PROVE u
    <3>1. CASE op = "drop"
      BY <2>3, <2>5, <3>1
    <3>2. CASE op # "drop"
      <4>1. c.work # None => d.work # None
        BY <1>3, <2>7, <3>2, NoneAssumption DEF Follows
      <4>2. c.work = None /\ conf[n] = None => conf'[n] = None
        BY <1>4
      <4>. QED
        BY <2>3, <2>7, <4>1, <4>2
    <3>. QED
      BY <3>1, <3>2
  <2>8. t \in BOOLEAN /\ u \in BOOLEAN
    OBVIOUS
  <2>. HIDE DEF t, u
  <2>9. After(Tail(s), u, {"save"}, {"load"}, {})
    BY <1>1, <2>1, <2>6, <2>7, <2>8, AfterTail
  <2>. QED
    BY <2>4, <2>9 DEF u
<1>. QED
  BY <1>0, <1>3, <1>5, <1>6, <1>8, <1>9, <1>10, <1>11 DEF Records

\* The add-ons that the only command p is not about are owned as they were.
LEMMA OthersOwned ==
  ASSUME OwnInv, Serial, NEW p \in Procs, NEW n, n = cmd[p].name, UNCHANGED kind,
         NEW m \in Names, m # n, box'[m] = box[m], conf'[m] = conf[m], Bound(m)' = Bound(m),
         cut'[m] = cut[m]
  PROVE  Owned(m)'
<1>1. \A q \in Procs : q = p
  BY DEF Serial
<1>2. \A q \in Procs : ~Saving(cmd[q], m)
  BY <1>1 DEF Saving
<1>3. /\ ~Bare(m) => Covered(m)
      /\ Logins(kind[m]) /\ Bound(m) # None => conf[m] # None \/ cut[m]
  BY <1>2 DEF OwnInv, OwnOK, Owned
<1>4. (Bare(m)' <=> Bare(m)) /\ (Covered(m)' <=> Covered(m))
  BY DEF Bare, Exists, Covered
<1>. QED
  BY <1>3, <1>4 DEF Owned

\* Its own add-on: a step makes containers and binds secrets on record only.
LEMMA GoesOwned ==
  ASSUME OwnInv, Serial, NEW p \in Procs, cmd[p] # None, cmd[p].todo # <<>>,
         NEW d, Effects(p, d), NEW n, n = N(p), Secures(p, n), UNCHANGED cut
  PROVE  Owned(n)'
<1> DEFINE c == cmd[p]
           op == Head(c.todo)
           s == c.todo
<1>0. PICK k : k = kind[n]
  OBVIOUS
<1>1. c \in Command /\ s \in Seq(Ops) /\ n = c.name /\ n \in Names /\ s # <<>>
      /\ c.work \in Entry \cup {None} /\ (op \in Uses => c.work \in Entry)
      /\ Work(p) = c.work
  BY AtStep DEF OwnInv, LifeInv
<1>2. Records(c) /\ Owned(n)
  BY <1>1 DEF OwnInv, OwnOK
<1>3. d.op = c.op /\ d.name = n /\ d.todo = Tail(s) /\ kind' = kind /\ Follows(c, d, op)
      /\ Boxes(p)
  BY <1>1 DEF Effects, Follows
<1>4. cmd'[p] = d /\ d # None
  BY NoneAssumption DEF Effects, Follows, OwnInv, LifeInv, TypeInv
<1>5. /\ conf'[n] # None <=> IF op = "save" THEN c.work # None ELSE conf[n] # None
      /\ c.op = "install" =>
           (op = "save" => conf'[n] # None) /\ (conf[n] # None => conf'[n] # None)
  BY EntryStays DEF Effects, OwnInv
<1>6. \A q \in Procs : q = p
  BY DEF Serial
<1>7. ASSUME c.op = "install", Commits(s, 0), op # "save"
      PROVE  Saving(d, n) /\ op \notin Quits \cup Rekeys /\ d.work = c.work
  <2>1. Commits(Tail(s), IF 0 = 0 THEN 0 ELSE 0 - 1) /\ op \notin Quits \cup Rekeys
    BY <1>1, <1>7, CommitsTail
  <2>2. op \notin Erases
    BY <1>7, ErasesBare DEF OwnInv
  <2>. QED
    BY <1>3, <1>7, <2>1, <2>2 DEF Saving, Follows, Quits, Erases
<1>8. ASSUME ~Bare(n)'
      PROVE  Covered(n)' \/ (~SavesFirst(k) /\ Saving(d, n))
  <2>1. CASE Bare(n)
    <3>1. op \in Makes1 \cup Makes2
      BY <1>0, <1>3, <1>8, <2>1 DEF Bare, Exists, Boxes, Parts
    <3>2. op # "save" /\ c.work # None
      BY <1>1, <3>1, NoneAssumption DEF Makes1, Makes2, Uses
    <3>3. CASE c.op = "install"
      <4>1. Recording(k, s, Covered(n)) /\ Covered(n) \in BOOLEAN
        BY <1>0, <1>1, <1>2, <3>3 DEF Records, Covered
      <4>2. Covered(n) \/ (~SavesFirst(k) /\ Commits(Tail(s), 0))
        BY <1>1, <3>1, <4>1, RecordingHead
      <4>. QED
        BY <1>3, <1>5, <3>2, <3>3, <4>2 DEF Covered, Saving
    <3>4. CASE c.op # "install"
      <4>1. conf[n] # None
        BY <1>1, <1>2, <3>2, <3>4 DEF Records
      <4>. QED
        BY <1>5, <3>2, <4>1 DEF Covered
    <3>. QED
      BY <3>3, <3>4
  <2>2. CASE ~Bare(n)
    <3>1. Covered(n) \/ (~SavesFirst(k) /\ Saving(c, n))
      BY <1>0, <1>2, <1>6, <2>2 DEF Owned
    <3>2. CASE Covered(n)
      <4>1. ASSUME conf[n] # None PROVE conf'[n] # None
        <5>1. op = "save" /\ c.work = None => conf[n] = None \/ Bare(n)
          BY <1>1, ForgetsBare DEF OwnInv
        <5>. QED
          BY <1>5, <2>2, <4>1, <5>1
      <4>. QED
        BY <1>3, <3>2, <4>1 DEF Covered
    <3>3. CASE ~SavesFirst(k) /\ Saving(c, n)
      BY <1>5, <1>7, <3>3 DEF Saving, Covered
    <3>. QED
      BY <3>1, <3>2, <3>3
  <2>. QED
    BY <2>1, <2>2
<1>9. ASSUME Logins(k), Bound(n)' # None
      PROVE  \/ conf'[n] # None
             \/ cut[n]
             \/ Saving(d, n) /\ d.work # None /\ d.work.sec = Bound(n)'
  <2>1. CASE Bound(n)' = Bound(n)
    <3>1. \/ conf[n] # None
          \/ cut[n]
          \/ Saving(c, n) /\ c.work # None /\ c.work.sec = Bound(n)
      BY <1>0, <1>2, <1>6, <1>9, <2>1 DEF Owned
    <3>2. CASE conf[n] # None
      <4>1. CASE op = "save" /\ c.op # "install"
        <5>1. After(s, c.work # None \/ conf[n] = None \/ Bound(n) = None,
                    {"save"}, {"load"}, {})
          BY <1>0, <1>1, <1>2, <1>9, <4>1 DEF Records
        <5>2. c.work # None \/ conf[n] = None \/ Bound(n) = None
          BY <1>1, <4>1, <5>1, AfterHead
        <5>. QED
          BY <1>5, <1>9, <2>1, <3>2, <4>1, <5>2
      <4>2. CASE op # "save" \/ c.op = "install"
        BY <1>5, <3>2, <4>2
      <4>. QED
        BY <4>1, <4>2
    <3>3. CASE Saving(c, n) /\ c.work # None /\ c.work.sec = Bound(n)
      BY <1>5, <1>7, <2>1, <3>3 DEF Saving
    <3>. QED
      BY <3>1, <3>2, <3>3
  <2>2. CASE Bound(n)' = c.work.sec /\ op = "passwd"
    <3>1. c.op = "install"
      <4>1. c.op # "install" => After(s, FALSE, {"passwd"}, {}, {})
        BY <1>0, <1>1, <1>2 DEF Records
      <4>. QED
        BY <1>1, <2>2, <4>1, AfterHead
    <3>2. Recording(k, s, Covered(n)) /\ Covered(n) \in BOOLEAN
      BY <1>0, <1>1, <1>2, <3>1 DEF Records, Covered
    <3>3. Covered(n) \/ Commits(Tail(s), 0)
      BY <1>1, <2>2, <3>2, RecordingHead
    <3>4. d.work = c.work /\ c.work # None
      BY <1>1, <1>3, <2>2, NoneAssumption DEF Follows, Rekeys, Uses
    <3>. QED
      BY <1>3, <1>5, <2>2, <3>1, <3>3, <3>4 DEF Covered, Saving
  <2>. QED
    BY <1>0, <1>9, <2>1, <2>2 DEF Secures
<1>10. ~Bare(n)' => Covered(n)' \/ (~SavesFirst(kind'[n])
                    /\ \E q \in Procs : cmd'[q] # None /\ Saving(cmd'[q], n))
  BY <1>0, <1>3, <1>4, <1>8
<1>11. Logins(kind'[n]) /\ Bound(n)' # None =>
         \/ conf'[n] # None
         \/ cut'[n]
         \/ \E q \in Procs : /\ cmd'[q] # None
                             /\ Saving(cmd'[q], n)
                             /\ cmd'[q].work # None
                             /\ cmd'[q].work.sec = Bound(n)'
  BY <1>0, <1>3, <1>4, <1>9
<1>. QED
  BY <1>10, <1>11 DEF Owned, Saving

\* A step leaves the other add-ons owned as they were.
LEMMA OthersKept ==
  ASSUME OwnInv, Serial, NEW p \in Procs, cmd[p] # None, cmd[p].todo # <<>>, Leaving(p),
         NEW n, n = N(p), Secures(p, n), UNCHANGED cut, NEW m \in Names, m # n
  PROVE  Owned(m)'
<1>1. n = cmd[p].name
  BY DEF N
<1>2. box'[m] = box[m] /\ conf'[m] = conf[m] /\ Bound(m)' = Bound(m)
  BY SaveWrites DEF OwnInv, Leaving, Boxes, Secures
<1>. QED
  BY <1>1, <1>2, OthersOwned DEF Leaving

\* A command that goes on keeps OwnOK.
LEMMA GoesOwn ==
  ASSUME OwnInv, Serial, NEW p \in Procs, Goes(p), Leaving(p),
         NEW n, n = N(p), Secures(p, n), UNCHANGED cut
  PROVE  OwnOK'
<1>1. PICK d : cmd' = [cmd EXCEPT ![p] = d] /\ Follows(cmd[p], d, Head(cmd[p].todo))
  BY DEF Goes
<1>2. cmd[p] # None /\ cmd[p].todo # <<>> /\ Effects(p, d)
  BY <1>1 DEF Goes, Leaving, Effects
<1>3. Records(d)' /\ Owned(n)'
  BY <1>2, GoesRecords, GoesOwned
<1>4. \A m \in Names : Owned(m)'
  BY <1>2, <1>3, OthersKept
<1>5. \A q \in Procs : cmd'[q] = d
  BY <1>1 DEF Serial, OwnInv, LifeInv, TypeInv
<1>. QED
  BY <1>3, <1>4, <1>5 DEF OwnOK

\* A command that stops although nothing fails leaves nothing of its own: it
\* is past these steps when it has made a container, and logs in with the
\* password it has bound.
LEMMA LeavesOwn ==
  ASSUME OwnInv, Serial, NEW p \in Procs, Leaves(p), Step(p), Leaving(p),
         NEW n, n = N(p), Secures(p, n), UNCHANGED cut
  PROVE  OwnOK'
<1> DEFINE c == cmd[p]
           op == Head(c.todo)
           s == c.todo
<1>0. PICK k : k = kind[n]
  OBVIOUS
<1>1. c \in Command /\ s \in Seq(Ops) /\ n = c.name /\ n \in Names /\ s # <<>> /\ c # None
      /\ Work(p) = c.work
  BY AtStep DEF OwnInv, LifeInv, Leaves
<1>2. Records(c) /\ Owned(n)
  BY <1>1 DEF OwnInv, OwnOK
<1>3. cmd'[p] = None /\ \A q \in Procs : q = p
  BY EndGone DEF Leaves, OwnInv, LifeInv, Serial
<1>4. op \in Quits \/ op = "passwd"
  BY DEF Leaves
<1>5. kind' = kind /\ Boxes(p) /\ conf' = conf
  BY <1>4 DEF Leaving, Quits
<1>6. Bare(n) => Bare(n)'
  BY <1>4, <1>5 DEF Boxes, Bare, Exists, Parts, Quits, Makes1, Makes2
<1>7. ASSUME op \notin Quits
      PROVE  /\ op = "passwd" /\ UNCHANGED data /\ Logins(k)
             /\ Bound(n) # None /\ Bound(n) # c.work.sec
  <2>1. /\ op = "passwd" /\ Bound(n) # None /\ Bound(n) # c.work.sec
        /\ c.seen[n] = None \/ c.seen[n].sec # Bound(n)
    BY <1>1, <1>7 DEF Leaves
  <2>2. SetSecret(p)
    <3>1. ~(Load(p) \/ FindEntry(p) \/ Check(p) \/ Merge(p) \/ Generate(p) \/ DecideAuth(p) \/ Recall(p)
            \/ Agree(p) \/ Choose(p) \/ Mint(p))
      BY <2>1 DEF Load, FindEntry, Check, Merge, Generate, DecideAuth, Recall, Agree, Choose, Mint, At
    <3>2. ~(Save(p) \/ Drop(p) \/ WriteFile(p) \/ Vet(p) \/ Signal(p) \/ NeedFile(p)
            \/ NeedUp(p) \/ Wipe(p) \/ DropFile(p))
      BY <2>1 DEF Save, Drop, WriteFile, Vet, Signal, NeedFile, NeedUp, Wipe, DropFile, At
    <3>3. ~(Halt(p) \/ Rm(p) \/ Create(p) \/ Startup(p) \/ Discard(p) \/ Recreate(p)
            \/ Return(p))
      BY <1>1, <2>1 DEF Halt, Rm, Create, Startup, Discard, Recreate, Return, At
    <3>. QED
      BY <3>1, <3>2, <3>3 DEF Step
  <2>3. UNCHANGED data
    BY <1>1, <2>1, <2>2 DEF SetSecret
  <2>4. ~Logins(k) => After(s, FALSE, {"passwd"}, {}, {})
    BY <1>0, <1>1, <1>2 DEF Records
  <2>5. Logins(k)
    BY <1>1, <2>1, <2>4, AfterHead
  <2>. QED
    BY <2>1, <2>3, <2>5
<1>8. Saving(c, n) => op \notin Quits
  <2>1. Commits(s, 0) => op = "save" \/ op \notin Quits
    BY <1>1, CommitsTail
  <2>. QED
    BY <2>1 DEF Saving, Quits
<1>9. ASSUME ~Bare(n) PROVE Covered(n)
  <2>1. Covered(n) \/ (~SavesFirst(k) /\ Saving(c, n))
    BY <1>0, <1>2, <1>3, <1>9 DEF Owned
  <2>2. CASE ~SavesFirst(k) /\ Saving(c, n)
    <3>1. Logins(k) /\ Bound(n) # None /\ Bound(n) # c.work.sec
      BY <1>7, <1>8, <2>2
    <3>2. conf[n] # None \/ cut[n]
      BY <1>0, <1>2, <1>3, <3>1 DEF Owned
    <3>. QED
      BY <1>0, <2>2, <3>2 DEF Covered
  <2>. QED
    BY <2>1, <2>2
<1>10. ASSUME Logins(k), Bound(n)' # None PROVE conf[n] # None \/ cut[n]
  <2>1. Bound(n)' = Bound(n)
    <3>1. CASE op \in Quits
      BY <1>0, <1>10, <3>1 DEF Secures, Quits, Erases
    <3>2. CASE op \notin Quits
      BY <1>7, <3>2 DEF Bound
    <3>. QED
      BY <3>1, <3>2
  <2>2. \/ conf[n] # None \/ cut[n]
        \/ Saving(c, n) /\ c.work.sec = Bound(n)
    BY <1>0, <1>2, <1>3, <1>10, <2>1 DEF Owned
  <2>. QED
    BY <1>7, <1>8, <2>2
<1>11. Owned(n)'
  <2>1. ~Bare(n)' => Covered(n)'
    BY <1>5, <1>6, <1>9 DEF Covered
  <2>2. Logins(kind'[n]) /\ Bound(n)' # None => conf'[n] # None \/ cut'[n]
    BY <1>0, <1>5, <1>10
  <2>. QED
    BY <2>1, <2>2 DEF Owned
<1>12. \A m \in Names : Owned(m)'
  BY <1>1, <1>11, OthersKept
<1>. QED
  BY <1>3, <1>12 DEF OwnOK

\* The command p has failed or was interrupted.
LEMMA GoneOwn ==
  ASSUME OwnInv, Serial, NEW p \in Procs, cmd[p] # None, cmd[p].todo # <<>>,
         cmd'[p] = None, UNCHANGED <<kind, conf, data>>, HardBox(p),
         NEW n, n = N(p), cut' = [cut EXCEPT ![n] = @ \/ Changes(cmd[p])]
  PROVE  OwnOK'
<1> DEFINE c == cmd[p]
           op == Head(c.todo)
           s == c.todo
<1>0. PICK k : k = kind[n]
  OBVIOUS
<1>1. c \in Command /\ s \in Seq(Ops) /\ n = c.name /\ n \in Names
      /\ (op \in Uses => c.work \in Entry)
  BY AtStep DEF OwnInv, LifeInv
<1>2. Records(c) /\ Owned(n) /\ \A q \in Procs : q = p
  BY <1>1 DEF OwnInv, OwnOK, Serial
<1>3. /\ cut'[n] <=> cut[n] \/ Changes(c)
      /\ \A m \in Names \ {n} : cut'[m] = cut[m]
  BY <1>1 DEF OwnInv, LifeInv, TypeInv, Stores
<1>4. /\ \A m \in Names : Bound(m)' = Bound(m)
      /\ \A m \in Names \ {n} : box'[m] = box[m]
  BY DEF Bound, HardBox
<1>5. c.op = "install" => cut'[n]
  BY <1>3 DEF Changes
<1>6. ASSUME ~Bare(n)' PROVE conf[n] # None \/ (cut'[n] /\ ~SavesFirst(k))
  <2>1. CASE Bare(n)
    <3>1. op \in {"create", "create2"}
      BY <1>6, <2>1 DEF HardBox, Bare, Exists
    <3>2. CASE c.op = "install"
      <4>1. Recording(k, s, Covered(n)) /\ Covered(n) \in BOOLEAN
        BY <1>0, <1>1, <1>2, <3>2 DEF Records, Covered
      <4>2. Covered(n) \/ ~SavesFirst(k)
        BY <1>1, <3>1, <4>1, RecordingHead DEF Makes1, Makes2
      <4>. QED
        BY <1>0, <1>5, <3>2, <4>2 DEF Covered
    <3>3. CASE c.op # "install"
      BY <1>1, <1>2, <3>1, <3>3, NoneAssumption DEF Records, Uses
    <3>. QED
      BY <3>2, <3>3
  <2>2. CASE ~Bare(n)
    <3>1. Covered(n) \/ (~SavesFirst(k) /\ Saving(c, n))
      BY <1>0, <1>2, <2>2 DEF Owned
    <3>. QED
      BY <1>0, <1>3, <1>5, <3>1 DEF Covered, Saving
  <2>. QED
    BY <2>1, <2>2
<1>7. ASSUME Logins(k), Bound(n)' # None PROVE conf[n] # None \/ cut'[n]
  <2>1. conf[n] # None \/ cut[n] \/ Saving(c, n)
    BY <1>0, <1>1, <1>2, <1>4, <1>7 DEF Owned
  <2>. QED
    BY <1>3, <1>5, <2>1 DEF Saving
<1>8. Owned(n)'
  BY <1>0, <1>6, <1>7 DEF Owned, Covered
<1>9. ASSUME NEW m \in Names, m # n PROVE Owned(m)'
  BY <1>1, <1>3, <1>4, <1>9, OthersOwned
<1>. QED
  BY <1>2, <1>8, <1>9 DEF OwnOK

\* An install turns to a branch.  It has not saved or made anything yet, and
\* takes a branch that saves late only for an add-on that is on record.
LEMMA TurnsOwn ==
  ASSUME OwnInv, Serial, NEW p \in Procs, Choose(p)
  PROVE  OwnOK'
<1>0. PICK n, k : n = cmd[p].name /\ k = kind[n]
  OBVIOUS
<1>1. UNCHANGED <<kind, conf, box, data, cut>> /\ Turns(p)
      /\ cmd[p] # None /\ cmd[p].todo # <<>> /\ Head(cmd[p].todo) = "choose"
  BY ChooseTurns DEF Choose, At, OwnInv, LifeInv
<1>2. PICK d \in Command, i \in DOMAIN Branches(k) :
        /\ cmd' = [cmd EXCEPT ![p] = d]
        /\ d.op = "install"
        /\ d.name = n
        /\ d.todo = Branches(k)[i].steps
        /\ \A fact \in Branches(k)[i].facts : Holds(p, fact)
        /\ d.seen = cmd[p].seen
        /\ d.work = cmd[p].work
  BY <1>0, <1>1 DEF Turns
<1>3. cmd[p] \in Command /\ n \in Names /\ k \in Kinds /\ cmd[p].op = "install"
      /\ cmd[p].todo \in Seq(Ops) /\ N(p) = n
  BY <1>0, <1>1, AtStep DEF Turns, OwnInv, LifeInv, TypeInv, Stores
<1>4. Records(cmd[p]) /\ \A q \in Procs : q = p
  BY <1>1 DEF OwnInv, OwnOK, Serial
<1>5. ~Commits(cmd[p].todo, 0)
  <2>1. Commits(cmd[p].todo, 0) => Head(cmd[p].todo) \notin Quits
    BY <1>1, <1>3, CommitsTail
  <2>. QED
    BY <1>1, <2>1 DEF Quits
<1>6. \A m \in Names : /\ ~Bare(m) => Covered(m)
                       /\ Logins(kind[m]) /\ Bound(m) # None => conf[m] # None \/ cut[m]
  <2>1. \A m \in Names, q \in Procs : ~Saving(cmd[q], m)
    BY <1>4, <1>5 DEF Saving
  <2>. QED
    BY <2>1 DEF OwnInv, OwnOK, Owned
<1>7. \A m \in Names : Owned(m)'
  <2>1. ASSUME NEW m \in Names PROVE Owned(m)'
    <3>1. (Bare(m)' <=> Bare(m)) /\ (Covered(m)' <=> Covered(m)) /\ Bound(m)' = Bound(m)
      BY <1>1 DEF Bare, Exists, Covered, Bound
    <3>. QED
      BY <1>1, <1>6, <3>1 DEF Owned
  <2>. QED
    BY <2>1
<1>8. Recording(k, d.todo, Covered(n))
  <2> DEFINE t == Branches(k)[i].facts \cap Present # {}
  <2>1. Recording(k, d.todo, t)
    BY <1>2, <1>3, OrderAssumption DEF Orderly, RecordOrder
  <2>2. ASSUME NEW fact \in Present, Holds(p, fact) PROVE Covered(n)
    <3>1. CASE fact = "recorded"
      <4>1. cmd[p].seen[n] # None
        BY <1>3, <2>2, <3>1 DEF Holds
      <4>. QED
        BY <1>0, <1>3, <1>4, <4>1 DEF Records, Covered
    <3>2. CASE fact # "recorded"
      <4>1. Exists(n, 1)
        <5>1. 1 \in Parts /\ Runs(Work(p), 1)
          BY DEF Parts, Runs
        <5>2. fact \in {"exists", "running", "inSync", "allUp"}
          BY <3>2 DEF Present
        <5>. QED
          BY <1>3, <2>2, <5>1, <5>2 DEF Holds, Running
      <4>2. ~Bare(n)
        BY <4>1 DEF Bare, Parts
      <4>. QED
        BY <1>3, <1>6, <4>2
    <3>. QED
      BY <3>1, <3>2
  <2>3. t => Covered(n)
    BY <1>2, <2>2
  <2>. QED
    BY <2>1, <2>3 DEF Recording
<1>9. Logins(k) => After(d.todo, FALSE, Binds, {}, {})
  <2>1. {d.todo[j] : j \in DOMAIN d.todo} \subseteq StepsOf(k)
    BY <1>2 DEF StepsOf, InstallPrograms, BranchPrograms
  <2>2. Logins(k) => Binds \cap StepsOf(k) = {}
    BY <1>3, OrderAssumption DEF Orderly, LoginOrder
  <2>. QED
    BY <2>1, <2>2 DEF After
<1>10. ~Logins(k) => After(d.todo, FALSE, {"passwd"}, {}, {})
  <2>1. {d.todo[j] : j \in DOMAIN d.todo} \subseteq StepsOf(k)
    BY <1>2 DEF StepsOf, InstallPrograms, BranchPrograms
  <2>. QED
    BY <2>1 DEF After, Logins
<1>11. Records(d)
  BY <1>0, <1>2, <1>3, <1>4, <1>8, <1>9, <1>10 DEF Records
<1>12. Records(d)'
  BY <1>1, <1>11 DEF Records, Covered, Bound
<1>13. \A q \in Procs : cmd'[q] = d
  BY <1>2, <1>4 DEF OwnInv, LifeInv, TypeInv
<1>. QED
  BY <1>7, <1>12, <1>13 DEF OwnOK

\* A command begins.
LEMMA BeginsOwn ==
  ASSUME OwnInv, Serial, NEW p \in Procs, Begins(p), UNCHANGED <<kind, conf, box, data, cut>>
  PROVE  OwnOK'
<1>1. PICK d \in Command :
        /\ cmd[p] = None
        /\ cmd' = [cmd EXCEPT ![p] = d]
        /\ d.seen = conf
        /\ d.work = None
        /\ Programs(kind[d.name], d.op, d.todo)
  BY DEF Begins
<1>0. PICK n, k : n = d.name /\ k = kind[n]
  OBVIOUS
<1>2. n \in Names /\ k \in Kinds /\ \A q \in Procs : q = p
  BY <1>0 DEF OwnInv, LifeInv, TypeInv, Command, Stores, Serial
<1>3. Orderly(k)
  BY <1>2, OrderAssumption
<1>4. \A m \in Names : Owned(m)'
  <2>1. ASSUME NEW m \in Names PROVE Owned(m)'
    <3>1. /\ ~Bare(m) => Covered(m)
          /\ Logins(kind[m]) /\ Bound(m) # None => conf[m] # None \/ cut[m]
      BY <1>1, <1>2 DEF OwnInv, OwnOK, Owned
    <3>2. (Bare(m)' <=> Bare(m)) /\ (Covered(m)' <=> Covered(m)) /\ Bound(m)' = Bound(m)
      BY DEF Bare, Exists, Covered, Bound
    <3>. QED
      BY <3>1, <3>2 DEF Owned
  <2>. QED
    BY <2>1
<1>5. CASE d.op = "install"
  <2>1. d.todo = k.install.prepare
    BY <1>0, <1>1, <1>5 DEF Programs
  <2>2. Recording(k, d.todo, Covered(n))
    <3>1. Recording(k, d.todo, FALSE)
      BY <1>3, <2>1 DEF Orderly, RecordOrder
    <3>. QED
      BY <3>1 DEF Recording
  <2>3. {d.todo[j] : j \in DOMAIN d.todo} \subseteq StepsOf(k)
    BY <2>1 DEF StepsOf, InstallPrograms
  <2>4. Logins(k) => After(d.todo, FALSE, Binds, {}, {})
    BY <1>3, <2>3 DEF Orderly, LoginOrder, After
  <2>5. ~Logins(k) => After(d.todo, FALSE, {"passwd"}, {}, {})
    BY <2>3 DEF After, Logins
  <2>6. Records(d)
    BY <1>0, <1>1, <1>5, <2>2, <2>4, <2>5 DEF Records
  <2>. QED
    <3>1. Records(d)'
      BY <2>6 DEF Records, Covered, Bound
    <3>2. \A q \in Procs : cmd'[q] = d
      BY <1>1, <1>2 DEF OwnInv, LifeInv, TypeInv
    <3>. QED
      BY <1>4, <3>1, <3>2 DEF OwnOK
<1>6. CASE d.op # "install"
  <2> DEFINE w == d.work # None \/ conf[n] = None \/ Bound(n) = None
             b == Bound(n) = None
  <2>1. /\ After(d.todo, w, {"save"}, {"load"}, {})
        /\ After(d.todo, FALSE, {"passwd"}, {}, {})
        /\ Logins(k) => After(d.todo, b, {"drop"}, {"wipeall"}, {})
        /\ Logins(k) => After(d.todo, FALSE, Binds, {}, {})
    <3>1. CASE d.op = "serve"
      <4>1. d.todo = <<"load", "save">>
        BY <1>1, <3>1 DEF Programs
      <4>2. \A j \in DOMAIN d.todo : d.todo[j] \notin Binds \cup {"passwd", "drop"}
        BY <4>1 DEF Binds
      <4>3. After(d.todo, w, {"save"}, {"load"}, {})
        BY <4>1 DEF After
      <4>. QED
        BY <4>2, <4>3 DEF After
    <3>2. CASE d.op # "serve"
      <4>1. d.todo \in UsePrograms(k)
        BY <1>0, <1>1, <1>6, <3>2 DEF Programs
      <4>2. After(d.todo, FALSE, {"save"}, {"load"}, {})
        BY <1>3, <4>1 DEF Orderly, UseOrder
      <4>3. {d.todo[j] : j \in DOMAIN d.todo} \subseteq StepsOf(k)
        BY <4>1 DEF StepsOf
      <4>4. Logins(k) => /\ Binds \cap StepsOf(k) = {}
                         /\ ~In("passwd", d.todo)
                         /\ After(d.todo, FALSE, {"drop"}, {"wipeall"}, {})
        BY <1>3, <4>1 DEF Orderly, LoginOrder
      <4>5. ~Logins(k) => ~In("passwd", d.todo)
        BY <4>3 DEF In, Logins
      <4>6. After(d.todo, FALSE, {"passwd"}, {}, {})
        BY <4>4, <4>5 DEF In, After
      <4>7. Logins(k) => After(d.todo, FALSE, Binds, {}, {})
        BY <4>3, <4>4 DEF After
      <4>. QED
        BY <4>2, <4>4, <4>6, <4>7 DEF After
    <3>. QED
      BY <3>1, <3>2
  <2>2. Records(d)
    BY <1>0, <1>1, <1>6, <2>1 DEF Records
  <2>. QED
    <3>1. Records(d)'
      BY <2>2 DEF Records, Covered, Bound
    <3>2. \A q \in Procs : cmd'[q] = d
      BY <1>1, <1>2 DEF OwnInv, LifeInv, TypeInv
    <3>. QED
      BY <1>4, <3>1, <3>2 DEF OwnOK
<1>. QED
  BY <1>5, <1>6

\* Every step of the only command keeps OwnOK.
LEMMA StepOwn ==
  ASSUME OwnInv, Serial, NEW p \in Procs, Step(p)
  PROVE  OwnOK'
<1>1. TypeInv /\ LifeInv
  BY DEF OwnInv, LifeInv
<1>0. PICK n : n = N(p)
  OBVIOUS
<1>2. UNCHANGED cut
  BY DEF Step, Load, FindEntry, Check, Merge, Generate, DecideAuth, Recall, Agree, Choose, Mint, Save,
         Drop, WriteFile, Vet, Signal, NeedFile, NeedUp, SetSecret, Wipe, DropFile, Halt,
         Rm, Create, Startup, Discard, Recreate, Return
<1>3. ASSUME cmd[p] # None, cmd[p].todo # <<>> PROVE Leaving(p) /\ Secures(p, n)
  <2>1. n = cmd[p].name /\ cmd[p].todo \in Seq(Ops)
    BY <1>0, <1>1, <1>3, AtStep
  <2>2. Logins(kind[n]) => After(cmd[p].todo, FALSE, Binds, {}, {})
    BY <1>3, <2>1 DEF OwnInv, OwnOK, Records
  <2>3. Logins(kind[n]) => Head(cmd[p].todo) \notin Binds
    BY <1>3, <2>1, <2>2, AfterHead
  <2>. QED
    BY <1>0, <1>1, <1>3, <2>3, StepLeaving, StepSecures
<1>4. CASE (Goes(p) \/ Leaves(p)) /\ cmd[p] # None /\ cmd[p].todo # <<>>
  BY <1>0, <1>2, <1>3, <1>4, GoesOwn, LeavesOwn
<1>5. CASE Choose(p)
  BY <1>5, TurnsOwn
<1>6. CASE Return(p)
  <2>1. UNCHANGED <<kind, conf, box, data>> /\ cmd'[p] = None
        /\ cmd[p] # None /\ cmd[p].todo = <<>>
    BY <1>1, <1>6, EndGone DEF Return
  <2>2. \A q \in Procs : q = p
    BY DEF Serial
  <2>3. ~Commits(cmd[p].todo, 0)
    BY <2>1 DEF Commits
  <2>4. ASSUME NEW m \in Names PROVE Owned(m)'
    <3>1. /\ ~Bare(m) => Covered(m)
          /\ Logins(kind[m]) /\ Bound(m) # None => conf[m] # None \/ cut[m]
      BY <2>2, <2>3 DEF OwnInv, OwnOK, Owned, Saving
    <3>2. (Bare(m)' <=> Bare(m)) /\ (Covered(m)' <=> Covered(m)) /\ Bound(m)' = Bound(m)
      BY <1>2, <2>1 DEF Bare, Exists, Covered, Bound
    <3>. QED
      BY <1>2, <2>1, <3>1, <3>2 DEF Owned
  <2>. QED
    BY <2>1, <2>2, <2>4 DEF OwnOK
<1>. QED
  BY <1>1, <1>4, <1>5, <1>6, StepEnds

\* A failed step keeps OwnOK.
LEMMA FailOwn ==
  ASSUME OwnInv, Serial, NEW p \in Procs, Fail(p)
  PROVE  OwnOK'
<1>1. TypeInv /\ cmd[p] # None /\ cmd[p].todo # <<>>
  BY DEF OwnInv, LifeInv, Fail
<1>0. PICK n : n = N(p)
  OBVIOUS
<1>2. CASE Head(cmd[p].todo) \in Soft
  <2>1. UNCHANGED <<data, cut>>
    BY <1>2 DEF Fail
  <2>2. Secures(p, n)
    BY <1>2, <2>1 DEF Secures, Bound, Soft
  <2>. QED
    BY <1>0, <1>1, <1>2, <2>1, <2>2, SoftLeaving, GoesOwn
<1>3. CASE Head(cmd[p].todo) \notin Soft
  <2>1. cut' = [cut EXCEPT ![n] = @ \/ Changes(cmd[p])]
    BY <1>0, <1>3 DEF Fail
  <2>. QED
    BY <1>0, <1>1, <1>3, <2>1, HardFails, GoneOwn
<1>. QED
  BY <1>2, <1>3

\* OwnInv is inductive while one command runs at a time.
LEMMA OwnNext ==
  ASSUME OwnInv, Serial, [Next]_vars
  PROVE  OwnInv'
<1>1. LifeInv' /\ TypeInv /\ OwnOK
  BY LifeNext DEF OwnInv, LifeInv
<1>2. ASSUME UNCHANGED <<kind, conf, cmd, data, cut>>,
             \A m \in Names, q \in Parts : box'[m][q] = None <=> box[m][q] = None
      PROVE  OwnOK'
  <2>1. \A m : (Covered(m)' <=> Covered(m)) /\ Bound(m)' = Bound(m)
    BY <1>2 DEF Covered, Bound
  <2>2. \A m \in Names : Bare(m)' <=> Bare(m)
    BY <1>2 DEF Bare, Exists
  <2>3. ASSUME NEW m \in Names PROVE Owned(m)'
    <3>1. Owned(m)
      BY <1>1 DEF OwnOK
    <3>. QED
      BY <1>2, <2>1, <2>2, <3>1 DEF Owned
  <2>4. ASSUME NEW p \in Procs, cmd[p] # None PROVE Records(cmd[p])'
    <3>0. PICK c : c = cmd[p]
      OBVIOUS
    <3>1. Records(c)
      BY <1>1, <2>4, <3>0 DEF OwnOK
    <3>2. Records(c)'
      BY <1>2, <2>1, <3>1 DEF Records
    <3>. QED
      BY <1>2, <3>0, <3>2
  <2>. QED
    BY <1>2, <2>3, <2>4 DEF OwnOK
<1>3. ASSUME UNCHANGED vars PROVE OwnOK'
  <2>1. UNCHANGED <<kind, conf, cmd, data, cut>> /\ box' = box
    BY <1>3 DEF vars
  <2>2. \A m \in Names, q \in Parts : box'[m][q] = None <=> box[m][q] = None
    BY <2>1
  <2>. QED
    BY <1>2, <2>1, <2>2
<1>4. ASSUME NEW p \in Procs, Call(p) PROVE OwnOK'
  <2>0. PICK c : Begin(p, c)
    BY <1>4, CallStarts
  <2>1. UNCHANGED <<kind, conf, box, data, cut>>
    BY <2>0 DEF Begin
  <2>. QED
    BY <1>1, <1>4, <2>1, CallBegins, BeginsOwn
<1>5. ASSUME NEW p \in Procs, Kill(p) \/ Tear(p) PROVE OwnOK'
  <2>1. Kill(p)
    BY <1>5 DEF Tear, Serial
  <2>2. UNCHANGED <<kind, conf, data>> /\ HardBox(p) /\ cmd[p] # None /\ cmd[p].todo # <<>>
        /\ cmd'[p] = None
    BY <1>1, <2>1, EndGone DEF Kill, HardBox
  <2>0. PICK n : n = N(p)
    OBVIOUS
  <2>3. cut' = [cut EXCEPT ![n] = @ \/ Changes(cmd[p])]
    BY <2>0, <2>1 DEF Kill
  <2>. QED
    BY <2>0, <2>2, <2>3, GoneOwn
<1>6. ASSUME NEW n \in Names, Die(n) PROVE OwnOK'
  BY <1>1, <1>2, <1>6, DieExists DEF Die
<1>7. ASSUME Reboot PROVE OwnOK'
  <2>1. (\A p \in Procs : cmd'[p] = None) /\ UNCHANGED <<kind, conf, data>>
    BY <1>7 DEF Reboot
  <2>2. \A m \in Names : cut'[m] <=> cut[m] \/ \E p \in Procs :
                           cmd[p] # None /\ cmd[p].name = m /\ Changes(cmd[p])
    BY <1>7 DEF Reboot
  <2>3. \A m \in Names : Bare(m)' <=> Bare(m)
    BY <1>1, <1>7, DieExists DEF Bare, Exists
  <2>4. ASSUME NEW m \in Names PROVE Owned(m)'
    <3>1. ASSUME NEW q \in Procs, cmd[q] # None, Saving(cmd[q], m) PROVE cut'[m]
      BY <2>2, <3>1 DEF Saving, Changes
    <3>2. /\ ~Bare(m) => conf[m] # None \/ (cut'[m] /\ ~SavesFirst(kind[m]))
          /\ Logins(kind[m]) /\ Bound(m) # None => conf[m] # None \/ cut'[m]
      BY <1>1, <2>2, <3>1 DEF OwnOK, Owned, Covered
    <3>3. Bound(m)' = Bound(m)
      BY <2>1 DEF Bound
    <3>. QED
      BY <2>1, <2>3, <3>2, <3>3 DEF Owned, Covered
  <2>. QED
    BY <2>1, <2>4 DEF OwnOK
<1>8. OwnOK'
  BY <1>3, <1>4, <1>5, <1>6, <1>7, StepOwn, FailOwn DEF Next, Fault
<1>. QED
  BY <1>1, <1>8 DEF OwnInv

\* OwnInv holds at first.
LEMMA OwnInit ==
  ASSUME Init
  PROVE  OwnInv
<1>1. LifeInv
  BY LifeInit
<1>2. \A n \in Names : Bare(n) /\ Bound(n) = None
  BY DEF Init, Bare, Exists, Bound
<1>3. \A p \in Procs : cmd[p] = None
  BY DEF Init
<1>. QED
  BY <1>1, <1>2, <1>3 DEF OwnInv, OwnOK, Owned

\* When one command runs at a time and no save is cut short, a container that
\* exists has an entry in pg.yaml, so that start, stop and remove find it; the
\* exception is an install of a kind that saves last, while it runs or after it
\* was cut off.
THEOREM BoxesOwned == Serial /\ Spec => []OwnedBox
<1>. SUFFICES ASSUME Serial PROVE Spec => []OwnedBox
  OBVIOUS
<1>1. Init => OwnInv
  BY OwnInit
<1>2. OwnInv /\ [Next]_vars => OwnInv'
  BY OwnNext
<1>3. OwnInv => OwnedBox
  <2>1. SUFFICES ASSUME OwnInv, NEW n \in Names, NEW r \in Parts, Exists(n, r)
                 PROVE  \/ conf[n] # None
                        \/ /\ ~SavesFirst(kind[n])
                           /\ cut[n] \/ \E p \in Procs : On(p, n, "install")
    BY DEF OwnedBox
  <2>2. Owned(n) /\ ~Bare(n)
    BY <2>1 DEF OwnInv, OwnOK, Bare
  <2>. QED
    BY <2>2 DEF Owned, Covered, Saving, On
<1>. QED
  BY <1>1, <1>2, <1>3, PTL DEF Spec

-----------------------------------------------------------------------------
\* The file of a kind with a check.

Changing == {"install", "reload"}

\* A container runs on a file that its service would refuse.
Hurt(n) == Running(n, 1) /\ Refused(file[n]) /\ ~cut[n]

\* What Due says of the rest of a program.
LEMMA DueTail ==
  ASSUME NEW s \in Seq(Ops), s # <<>>, NEW i \in Nat, NEW ends, Due(s, i, ends),
         i # 0 \/ Head(s) \notin ends
  PROVE  /\ Due(Tail(s), IF i = 0 THEN 0 ELSE i - 1, ends)
         /\ i = 0 => Head(s) \notin Quits \cup Renders \cup {"passwd"}
<1> DEFINE t == Tail(s)
           h == IF i = 0 THEN 0 ELSE i - 1
           X == Quits \cup Renders \cup {"passwd"}
<1>1. t \in Seq(Ops) /\ Len(t) = Len(s) - 1 /\ Len(s) \in Nat /\ Head(s) = s[1]
  OBVIOUS
<1>2. \A j \in 1..(Len(s) - 1) : t[j] = s[j + 1]
  OBVIOUS
<1>3. PICK e \in DOMAIN s : e > i /\ s[e] \in ends /\ \A j \in (i + 1)..(e - 1) : s[j] \notin X
  BY DEF Due
<1>. HIDE DEF X
<1>4. e > 1 /\ e \in 1..Len(s)
  BY <1>1, <1>3
<1>5. e - 1 \in 1..Len(t) /\ e - 1 > h /\ t[e - 1] \in ends
  BY <1>1, <1>2, <1>3, <1>4
<1>6. ASSUME NEW j \in (h + 1)..((e - 1) - 1) PROVE t[j] \notin X
  <2>1. j \in 1..(Len(s) - 1) /\ j + 1 \in (i + 1)..(e - 1)
    BY <1>1, <1>4
  <2>. QED
    BY <1>2, <1>3, <2>1
<1>7. Due(t, h, ends)
  <2>1. e - 1 \in DOMAIN t
    BY <1>1, <1>5
  <2>. HIDE DEF t, h
  <2>. QED
    BY <1>5, <1>6, <2>1 DEF Due, X
<1>8. ASSUME i = 0 PROVE Head(s) \notin X
  <2>1. 1 \in (i + 1)..(e - 1)
    BY <1>4, <1>8
  <2>. QED
    BY <1>1, <1>3, <2>1
<1>. QED
  BY <1>7, <1>8 DEF X

\* Every step of writing the file is followed by one of ends.
Judged(s, ends) == \A i \in DOMAIN s : s[i] \in Renders => Due(s, i, ends)

\* What that says of the rest of a program.
LEMMA JudgedTail ==
  ASSUME NEW s \in Seq(Ops), s # <<>>, NEW ends, Judged(s, ends)
  PROVE  /\ Judged(Tail(s), ends)
         /\ Head(s) \in Renders => Due(Tail(s), 0, ends)
<1>1. Tail(s) \in Seq(Ops) /\ Len(Tail(s)) = Len(s) - 1 /\ Len(s) \in Nat /\ Head(s) = s[1]
      /\ 1 \in DOMAIN s
  OBVIOUS
<1>2. \A j \in 1..(Len(s) - 1) : Tail(s)[j] = s[j + 1]
  OBVIOUS
<1>3. ASSUME NEW i \in DOMAIN Tail(s), Tail(s)[i] \in Renders PROVE Due(Tail(s), i, ends)
  <2>1. i \in 1..(Len(s) - 1) /\ i + 1 \in DOMAIN s /\ s[i + 1] = Tail(s)[i] /\ i \in Nat
    BY <1>1, <1>2
  <2>2. Due(s, i + 1, ends)
    BY <1>3, <2>1 DEF Judged
  <2>3. i + 1 \in Nat /\ i + 1 # 0 /\ (i + 1) - 1 = i
    BY <2>1
  <2>4. Due(Tail(s), IF i + 1 = 0 THEN 0 ELSE (i + 1) - 1, ends)
    BY <2>2, <2>3, DueTail
  <2>. QED
    BY <2>3, <2>4
<1>4. ASSUME Head(s) \in Renders PROVE Due(Tail(s), 0, ends)
  <2>1. Due(s, 1, ends)
    BY <1>1, <1>4 DEF Judged
  <2>2. Due(Tail(s), IF 1 = 0 THEN 0 ELSE 1 - 1, ends)
    BY <2>1, DueTail
  <2>. QED
    BY <2>2
<1>. QED
  BY <1>3, <1>4 DEF Judged

\* What a step of the command p does to the files, and to the first container.
FileMoves(p) ==
  /\ \A m \in Names \ {N(p)} : file'[m] = file[m] /\ box'[m] = box[m]
  /\ Head(cmd[p].todo) \notin Renders \cup Drops \cup {"vet"} => file' = file
  /\ Head(cmd[p].todo) \in Renders \cup Drops \cup {"vet"} => box' = box
  /\ Head(cmd[p].todo) \in Renders => file'[N(p)] # None \/ file'[N(p)] = file[N(p)]
  /\ Head(cmd[p].todo) \in Fills => file'[N(p)] # None
  /\ Head(cmd[p].todo) = "vet" =>
       file'[N(p)] = IF Refused(file[N(p)]) /\ cmd[p].old # None
                     THEN cmd[p].old ELSE file[N(p)]
  /\ box'[N(p)][1] # None /\ box'[N(p)][1].up =>
       /\ Running(N(p), 1) \/ ~Refused(file[N(p)])
       /\ Head(cmd[p].todo) \notin {"halt", "rm"}
  /\ box'[N(p)][1] # None =>
       \/ Exists(N(p), 1)
       \/ Head(cmd[p].todo) = "create"
       \/ Head(cmd[p].todo) = "recreate" /\ ~cmd[p].ok
  /\ UNCHANGED <<kind, cut>>

\* A step on files moves them so.
LEMMA FileStepMoves ==
  ASSUME TypeInv, NEW p \in Procs, WriteFile(p) \/ Vet(p) \/ DropFile(p)
  PROVE  FileMoves(p)
<1>0. PICK n, op : n = N(p) /\ op = Head(cmd[p].todo)
  OBVIOUS
<1>1. cmd[p] # None /\ cmd[p].todo # <<>>
  BY DEF WriteFile, Vet, DropFile, At
<1>2. n \in Names /\ file \in [Names -> File \cup {None}] /\ Work(p) \in Entry \cup {None}
      /\ (op \in Uses => Work(p) \in Entry)
  BY <1>0, <1>1, AtStep DEF TypeInv, Stores
<1>3. UNCHANGED <<kind, box, cut>>
  BY DEF WriteFile, Vet, DropFile
<1>4. op \in Renders \cup Drops \cup {"vet"}
  BY <1>0 DEF WriteFile, Vet, DropFile, At, Renders, Drops
<1>5. op \notin {"halt", "rm", "create", "recreate"}
  BY <1>4 DEF Renders, Drops
<1>6. ASSUME NEW f, file' = [file EXCEPT ![n] = f]
      PROVE  file'[n] = f /\ \A m \in Names \ {n} : file'[m] = file[m]
  BY <1>2, <1>6
<1>7. CASE WriteFile(p)
  <2>1. op \in Renders
    BY <1>0, <1>7 DEF WriteFile, At, Renders
  <2>2. PICK f \in Rendered(p) : file' = [file EXCEPT ![n] = f]
    BY <1>0, <1>7 DEF WriteFile
  <2> DEFINE new == [set |-> Work(p).set, sec |-> IF Writes(K(p)) THEN Work(p).sec ELSE None]
  <2>3. Work(p) \in Entry
    BY <1>2, <2>1 DEF Renders, Uses
  <2>4. new \in File
    BY <2>3 DEF Entry, File
  <2>5. \/ f = file[n] /\ op \notin Fills
        \/ f \in {new, [new EXCEPT !.set = IF file[n] = None THEN None ELSE file[n].set]}
                \cup {[new EXCEPT !.set = x] : x \in Settings \ Alone}
    BY <1>0, <2>2, Zenon DEF Rendered, Fills
  <2>6. file[n] # None => file[n].set \in Settings \cup {None}
    BY <1>2 DEF File
  <2>. HIDE DEF new
  <2>7. (f = file[n] /\ op \notin Fills) \/ f \in File
    BY <2>4, <2>5, <2>6 DEF File
  <2>8. (f = file[n] /\ op \notin Fills) \/ f # None
    BY <2>7, NoneAssumption
  <2>. QED
    BY <1>0, <1>3, <1>4, <1>5, <1>6, <2>1, <2>2, <2>8 DEF FileMoves, Running, Exists, Renders
<1>8. CASE Vet(p)
  <2>1. op = "vet"
    BY <1>0, <1>8 DEF Vet, At
  <2>2. file' = IF Refused(file[n]) /\ cmd[p].old # None
                THEN [file EXCEPT ![n] = cmd[p].old] ELSE file
    BY <1>0, <1>8 DEF Vet
  <2>3. /\ file'[n] = IF Refused(file[n]) /\ cmd[p].old # None THEN cmd[p].old ELSE file[n]
        /\ \A m \in Names \ {n} : file'[m] = file[m]
    BY <1>6, <2>2
  <2>. QED
    BY <1>0, <1>3, <1>5, <2>1, <2>3 DEF FileMoves, Running, Exists, Renders, Fills
<1>9. CASE DropFile(p)
  <2>1. op \in Drops
    BY <1>0, <1>9 DEF DropFile, At, Drops
  <2>2. file' = file \/ file' = [file EXCEPT ![n] = None]
    BY <1>0, <1>9 DEF DropFile
  <2>3. \A m \in Names \ {n} : file'[m] = file[m]
    BY <1>6, <2>2
  <2>. QED
    BY <1>0, <1>3, <1>5, <2>1, <2>3 DEF FileMoves, Running, Exists, Renders, Fills, Drops
<1>. QED
  BY <1>7, <1>8, <1>9

\* A step on containers moves them so: a container comes up only on a file that
\* its service accepts.
LEMMA BoxStepMoves ==
  ASSUME TypeInv, NEW p \in Procs, BoxStep(p)
  PROVE  FileMoves(p)
<1>0. PICK n, op, r : n = N(p) /\ op = Head(cmd[p].todo) /\ r = Here(p)
  OBVIOUS
<1>1. cmd[p] # None /\ cmd[p].todo # <<>>
  BY DEF BoxStep, Signal, Halt, Rm, Create, Startup, Discard, Recreate, At
<1>2. n \in Names /\ box \in [Names -> [Parts -> Box \cup {None}]] /\ r \in Parts
      /\ 1 \in Parts
  BY <1>0, <1>1, AtStep DEF TypeInv, Stores, Here, Part, Parts
<1>3. UNCHANGED <<kind, file, cut>>
  BY DEF BoxStep, Signal, Halt, Rm, Create, Startup, Discard, Recreate
<1>4. op \in {"signal", "nudge", "halt", "halt2", "softhalt", "softhalt2", "rm", "rm2",
              "ownrm2", "strayrm2", "create", "create2", "startup", "startup2", "look",
              "discard", "discard2", "recreate", "recreate2"}
  BY <1>0 DEF BoxStep, Signal, Halt, Rm, Create, Startup, Discard, Recreate, At
<1>5. op \notin Renders \cup Drops \cup {"vet"} /\ op \notin Fills
  BY <1>4 DEF Renders, Drops, Fills
<1>6. \A m \in Names \ {n} : box'[m] = box[m]
  <2>1. PICK q \in Parts, b \in Box \cup {None} : Handles(p, q, b)
    BY BoxStepHandles
  <2>. QED
    BY <1>0, <1>2, <2>1 DEF Handles, Puts
<1> DEFINE b == box'[n][1]
           Fits == /\ b # None /\ b.up => /\ Running(n, 1) \/ ~Refused(file[n])
                                          /\ op \notin {"halt", "rm"}
                   /\ b # None => \/ Exists(n, 1)
                                  \/ op = "create"
                                  \/ op = "recreate" /\ ~cmd[p].ok
<1>7. SUFFICES Fits
  BY <1>0, <1>3, <1>5, <1>6 DEF FileMoves
<1>9. ASSUME b = box[n][1], op \notin {"halt", "rm"} PROVE Fits
  BY <1>9 DEF Running, Exists, Fits
<1>10. ASSUME NEW k, NEW e, b = NewBox(n, k, e),
              op = "create" \/ (op = "recreate" /\ ~cmd[p].ok)
       PROVE  Fits
  <2>1. b.up = Serves(n, e.set)
    BY <1>10 DEF NewBox
  <2>2. b.up => ~Refused(file[n])
    BY <2>1 DEF Serves
  <2>. HIDE DEF b
  <2>3. op \notin {"halt", "rm"}
    BY <1>10
  <2>. QED
    BY <1>10, <2>2, <2>3
<1>. HIDE DEF b
<1>11. CASE Signal(p)
  <2>1. op \in {"signal", "nudge"}
    BY <1>0, <1>11 DEF Signal, At
  <2>2. box' = box \/ (Running(n, 1) /\ box' = [box EXCEPT ![n][1].loaded = file[n]])
    <3>1. \/ box' = box
          \/ Running(N(p), 1) /\ box' = [box EXCEPT ![N(p)][1].loaded = file[N(p)]]
      BY <1>11, Zenon DEF Signal
    <3>. QED
      BY <1>0, <3>1
  <2>3. CASE box' = box
    <3>1. b = box[n][1]
      BY <2>3 DEF b
    <3>. QED
      BY <1>9, <2>1, <3>1
  <2>4. CASE Running(n, 1) /\ box' = [box EXCEPT ![n][1].loaded = file[n]]
    <3>1. b = [box[n][1] EXCEPT !.loaded = file[n]] /\ box[n][1] \in Box
      BY <1>2, <2>4 DEF b, Running, Exists
    <3>2. b.up = box[n][1].up
      BY <3>1 DEF Box
    <3>3. Running(n, 1) /\ Exists(n, 1) /\ op \notin {"halt", "rm"}
      BY <2>1, <2>4 DEF Running
    <3>. QED
      BY <3>3
  <2>. QED
    BY <2>2, <2>3, <2>4
<1>12. CASE Halt(p)
  <2>1. op \in {"halt", "halt2", "softhalt", "softhalt2"}
    BY <1>0, <1>12 DEF Halt, At
  <2>2. IF Running(n, r) /\ Runs(Work(p), r)
        THEN box' = [box EXCEPT ![n][r].up = FALSE] ELSE box' = box
    BY <1>0, <1>12 DEF Halt
  <2>3. CASE op \in {"halt", "softhalt"}
    <3>1. r = 1
      BY <1>0, <2>3 DEF Here, Part
    <3>2. CASE Running(n, 1)
      <4>1. box' = [box EXCEPT ![n][1].up = FALSE]
        BY <2>2, <3>1, <3>2 DEF Runs
      <4>2. b = [box[n][1] EXCEPT !.up = FALSE]
        BY <1>2, <4>1 DEF b
      <4>3. Exists(n, 1) /\ box[n][1] \in Box
        BY <1>2, <3>2 DEF Running, Exists
      <4>4. ~b.up
        BY <4>2, <4>3 DEF Box
      <4>. QED
        BY <4>3, <4>4
    <3>3. CASE ~Running(n, 1)
      <4>1. b = box[n][1]
        BY <2>2, <3>1, <3>3 DEF b
      <4>. QED
        BY <3>3, <4>1 DEF Running, Exists
    <3>. QED
      BY <3>2, <3>3
  <2>4. CASE op \in {"halt2", "softhalt2"}
    <3>1. r = 2
      BY <1>0, <2>4 DEF Here, Part
    <3>2. b = box[n][1]
      BY <1>2, <2>2, <3>1 DEF b
    <3>. QED
      BY <1>9, <2>4, <3>2
  <2>. QED
    BY <2>1, <2>3, <2>4
<1>13. CASE Rm(p)
  <2>1. op \in {"rm", "rm2", "ownrm2", "strayrm2"}
    BY <1>0, <1>13 DEF Rm, At
  <2>2. CASE op = "rm"
    <3>1. box' = [box EXCEPT ![n][1] = None]
      BY <1>0, <1>13, <2>2 DEF Rm
    <3>2. b = None
      BY <1>2, <3>1 DEF b
    <3>. QED
      BY <3>2
  <2>3. CASE op # "rm"
    <3>1. box' = box \/ box' = [box EXCEPT ![n][2] = None]
      BY <1>0, <1>13, <2>3 DEF Rm
    <3>2. b = box[n][1]
      BY <1>2, <3>1 DEF b
    <3>. QED
      BY <1>9, <2>1, <2>3, <3>2
  <2>. QED
    BY <2>2, <2>3
<1>14. CASE Create(p) \/ Recreate(p)
  <2>1. op \in {"create", "create2", "recreate", "recreate2"}
    BY <1>0, <1>14 DEF Create, Recreate, At
  <2> DEFINE new == NewBox(n, K(p), Work(p))
  <2>2. \/ box' = box
        \/ /\ box' = [box EXCEPT ![n][r] = new]
           /\ op \in {"recreate", "recreate2"} => ~cmd[p].ok
    BY <1>0, <1>14 DEF Create, Recreate, At
  <2>. HIDE DEF new
  <2>3. CASE b = box[n][1]
    BY <1>9, <2>1, <2>3
  <2>4. CASE b # box[n][1]
    <3>1. r = 1 /\ box' = [box EXCEPT ![n][r] = new]
          /\ (op \in {"recreate", "recreate2"} => ~cmd[p].ok)
      BY <1>2, <2>2, <2>4 DEF b
    <3>2. op \in {"create", "recreate"}
      BY <1>0, <2>1, <3>1 DEF Here, Part
    <3>3. b = new
      BY <1>2, <3>1 DEF b
    <3>. QED
      BY <1>10, <3>1, <3>2, <3>3 DEF new
  <2>. QED
    BY <2>3, <2>4
<1>15. CASE Startup(p)
  <2>1. op \in {"startup", "startup2", "look"}
    BY <1>0, <1>15 DEF Startup, At
  <2> DEFINE f == IF K(p).traits.files THEN file[n] ELSE None
  <2>2. \/ box' = box
        \/ /\ Exists(n, r)
           /\ box' = [box EXCEPT ![n][r].up = Serves(n, box[n][r].set), ![n][r].loaded = f]
    BY <1>0, <1>15 DEF Startup
  <2>. HIDE DEF f
  <2>3. CASE b = box[n][1]
    BY <1>9, <2>1, <2>3
  <2>4. CASE b # box[n][1]
    <3>1. /\ r = 1 /\ Exists(n, 1)
          /\ box' = [box EXCEPT ![n][1].up = Serves(n, box[n][1].set), ![n][1].loaded = f]
      BY <1>2, <2>2, <2>4 DEF b
    <3>2. b = [box[n][1] EXCEPT !.up = Serves(n, box[n][1].set), !.loaded = f]
      BY <1>2, <3>1 DEF b
    <3>3. box[n][1] \in Box
      BY <1>2, <3>1 DEF Exists
    <3>4. b.up = Serves(n, box[n][1].set)
      BY <3>2, <3>3 DEF Box
    <3>. QED
      BY <2>1, <3>1, <3>4 DEF Serves
  <2>. QED
    BY <2>3, <2>4
<1>16. CASE Discard(p)
  <2>1. op \in {"discard", "discard2"}
    BY <1>0, <1>16 DEF Discard, At
  <2>2. box' = box \/ box' = [box EXCEPT ![n][r] = None]
    BY <1>0, <1>16 DEF Discard
  <2>3. b = None \/ b = box[n][1]
    BY <1>2, <2>2 DEF b
  <2>. QED
    BY <1>9, <2>1, <2>3
<1>. QED
  BY <1>11, <1>12, <1>13, <1>14, <1>15, <1>16 DEF BoxStep

\* Every step moves files and containers so.
LEMMA StepFileMoves ==
  ASSUME TypeInv, NEW p \in Procs, Step(p), cmd[p] # None, cmd[p].todo # <<>>
  PROVE  FileMoves(p)
<1>1. CASE BoxStep(p)
  BY <1>1, BoxStepMoves
<1>2. CASE WriteFile(p) \/ Vet(p) \/ DropFile(p)
  BY <1>2, FileStepMoves
<1>3. CASE ~(BoxStep(p) \/ WriteFile(p) \/ Vet(p) \/ DropFile(p))
  <2>1. UNCHANGED <<kind, file, box, cut>>
    BY <1>3 DEF Step, BoxStep, Load, FindEntry, Check, Merge, Generate, DecideAuth, Recall, Agree, Choose,
         Mint, Save, Drop, NeedFile, NeedUp, SetSecret, Wipe, Return
  <2>2. /\ Head(cmd[p].todo) \notin Renders \cup Drops \cup Fills
        /\ Head(cmd[p].todo) \notin {"vet", "halt", "rm"}
    BY <1>3 DEF Step, BoxStep, Load, FindEntry, Check, Merge, Generate, DecideAuth, Recall, Agree, Choose,
         Mint, Save, Drop, NeedFile, NeedUp, SetSecret, Wipe, Return, At, Renders, Drops, Fills
  <2>. QED
    BY <2>1, <2>2 DEF FileMoves, Running, Exists
<1>. QED
  BY <1>1, <1>2, <1>3

\* What the command d, which the step op has left of c, still knows of its files,
\* and of its choice.
Knows(c, d, op) ==
  /\ op \notin Tries => d.ok = c.ok
  /\ op \notin Renders \cup Quits => d.old = c.old
  /\ op \in Renders /\ Compares(kind[c.name]) => d.old = file[c.name]
  /\ op = "needfile" => c.ok \/ file[c.name] # None
  /\ op = "vet" => ~Refused(file[c.name])
  /\ d.built = c.built

\* A command that goes on as the record c.
LEMMA GoFields ==
  ASSUME TypeInv, NEW p \in Procs, cmd[p] # None, NEW c, Go(p, c)
  PROVE  cmd'[p] = [c EXCEPT !.todo = Tail(@)]
BY DEF Go, TypeInv

\* Every step that goes on leaves its command with that knowledge.
LEMMA StepKnows ==
  ASSUME TypeInv, NEW p \in Procs, Step(p), cmd[p] # None, cmd[p].todo # <<>>,
         Head(cmd[p].todo) # "choose", NEW d, cmd'[p] = d, d # None
  PROVE  Knows(cmd[p], d, Head(cmd[p].todo))
<1>0. PICK op, c, n : op = Head(cmd[p].todo) /\ c = cmd[p] /\ n = c.name
  OBVIOUS
<1>1. {"ok", "old", "todo", "seen", "work", "want", "pw", "asked", "built"} \subseteq DOMAIN c
  BY <1>0, AtStep DEF Command
<1>2. N(p) = n /\ K(p) = kind[n]
  BY <1>0 DEF N, K
<1>3. ~End(p)
  BY EndGone
<1>4. ASSUME NEW e, Go(p, e) PROVE d = [e EXCEPT !.todo = Tail(@)]
  BY <1>4, GoFields
<1>5. ASSUME NEW e, Go(p, e), {"ok", "old", "todo", "built"} \subseteq DOMAIN e
      PROVE  d.ok = e.ok /\ d.old = e.old /\ d.built = e.built
  BY <1>4, <1>5
<1>6. ASSUME op \notin Renders \cup {"needfile", "vet"}, Skip(p) PROVE Knows(c, d, op)
  BY <1>0, <1>1, <1>5, <1>6 DEF Skip, Knows
<1>7. CASE Load(p) \/ Merge(p) \/ Drop(p)
  <2>1. op \in {"load", "merge", "drop"}
    BY <1>0, <1>7 DEF Load, Merge, Drop, At
  <2>2. \/ Go(p, [c EXCEPT !.seen = conf, !.work = conf[n]])
        \/ Go(p, [c EXCEPT !.work = Merged(c, c.seen[n]), !.want = None, !.pw = None])
        \/ Go(p, [c EXCEPT !.work = None])
    BY <1>0, <1>2, <1>3, <1>7 DEF Load, Merge, Drop
  <2>3. ASSUME NEW e, Go(p, e), DOMAIN e = DOMAIN c, e.ok = c.ok,
               e.old = c.old, e.built = c.built
        PROVE  d.ok = c.ok /\ d.old = c.old /\ d.built = c.built
    BY <1>1, <1>5, <2>3
  <2>4. CASE Go(p, [c EXCEPT !.seen = conf, !.work = conf[n]])
    <3> DEFINE e == [c EXCEPT !.seen = conf, !.work = conf[n]]
    <3>1. DOMAIN e = DOMAIN c /\ e.ok = c.ok /\ e.old = c.old /\ e.built = c.built
      BY <1>1
    <3>2. Go(p, e)
      BY <2>4
    <3>. HIDE DEF e
    <3>3. d.ok = c.ok /\ d.old = c.old /\ d.built = c.built
      BY <2>3, <3>1, <3>2
    <3>. QED
      BY <1>0, <2>1, <3>3 DEF Knows, Renders
  <2>5. CASE Go(p, [c EXCEPT !.work = Merged(c, c.seen[n]), !.want = None, !.pw = None])
    <3> DEFINE e == [c EXCEPT !.work = Merged(c, c.seen[n]), !.want = None, !.pw = None]
    <3>1. DOMAIN e = DOMAIN c /\ e.ok = c.ok /\ e.old = c.old /\ e.built = c.built
      BY <1>1
    <3>2. Go(p, e)
      BY <2>5
    <3>. HIDE DEF e
    <3>3. d.ok = c.ok /\ d.old = c.old /\ d.built = c.built
      BY <2>3, <3>1, <3>2
    <3>. QED
      BY <1>0, <2>1, <3>3 DEF Knows, Renders
  <2>6. CASE Go(p, [c EXCEPT !.work = None])
    <3>1. d.ok = c.ok /\ d.old = c.old /\ d.built = c.built
      BY <1>1, <1>4, <2>6
    <3>. QED
      BY <1>0, <2>1, <3>1 DEF Knows, Renders
  <2>. QED
    BY <2>2, <2>4, <2>5, <2>6
<1>8. CASE KeyStep(p)
  <2>1. op \in {"generate", "rotate", "auth", "recall", "adopt", "fit", "mint"}
    BY <1>0, <1>8 DEF KeyStep, Generate, DecideAuth, Recall, Agree, Mint, At
  <2>2. \/ Skip(p)
        \/ \E x : Go(p, [c EXCEPT !.work.sec = x])
    <3>1. CASE Generate(p)
      BY <1>0, <1>3, <3>1 DEF Generate
    <3>2. CASE Recall(p)
      BY <1>0, <3>2 DEF Recall
    <3>3. CASE Agree(p)
      BY <1>0, <1>3, <3>3 DEF Agree
    <3>4. CASE Mint(p)
      BY <1>0, <3>4 DEF Mint
    <3>5. CASE DecideAuth(p)
      BY <1>0, <3>5 DEF DecideAuth
    <3>. QED
      BY <1>8, <3>1, <3>2, <3>3, <3>4, <3>5 DEF KeyStep
  <2>3. CASE Skip(p)
    BY <1>0, <1>6, <2>1, <2>3 DEF Renders
  <2>4. ASSUME NEW x, Go(p, [c EXCEPT !.work.sec = x]) PROVE Knows(c, d, op)
    <3>1. d.ok = c.ok /\ d.old = c.old /\ d.built = c.built
      BY <1>1, <1>4, <2>4
    <3>. QED
      BY <2>1, <3>1 DEF Knows, Renders
  <2>. QED
    BY <1>0, <2>2, <2>3, <2>4
<1>9. CASE WriteFile(p)
  <2>1. op \in Renders
    BY <1>0, <1>9 DEF WriteFile, At, Renders
  <2>2. PICK f : /\ f = IF Compares(kind[n]) THEN file[n] ELSE None
                 /\ Go(p, [c EXCEPT !.old = f])
    BY <1>0, <1>2, <1>9 DEF WriteFile
  <2>3. d.ok = c.ok /\ d.old = f /\ d.built = c.built
    BY <1>1, <1>4, <2>2
  <2>. QED
    BY <1>0, <2>1, <2>2, <2>3 DEF Knows, Renders
<1>10. CASE Vet(p)
  <2>1. op = "vet"
    BY <1>0, <1>10 DEF Vet, At
  <2>2. ~Refused(file[n]) /\ Go(p, [c EXCEPT !.old = None])
    BY <1>0, <1>2, <1>3, <1>10 DEF Vet
  <2>3. d.ok = c.ok /\ d.built = c.built
    BY <1>1, <1>4, <2>2
  <2>. QED
    BY <1>0, <2>1, <2>2, <2>3 DEF Knows, Renders, Quits
<1>11. CASE Signal(p)
  <2>1. op \in {"signal", "nudge"}
    BY <1>0, <1>11 DEF Signal, At
  <2>2. Go(p, [c EXCEPT !.old = None])
    BY <1>0, <1>3, <1>11 DEF Signal
  <2>3. d.ok = c.ok /\ d.built = c.built
    BY <1>1, <1>4, <2>2
  <2>. QED
    BY <1>0, <2>1, <2>3 DEF Knows, Renders, Quits
<1>12. CASE NeedUp(p)
  <2>1. op \in {"needup", "ifup", "ifdown"}
    BY <1>0, <1>12 DEF NeedUp, At
  <2>2. Go(p, [c EXCEPT !.asked = FALSE])
    BY <1>0, <1>3, <1>12 DEF NeedUp
  <2>3. d.ok = c.ok /\ d.old = c.old /\ d.built = c.built
    BY <1>1, <1>4, <2>2
  <2>. QED
    BY <1>0, <2>1, <2>3 DEF Knows, Renders
<1>13. CASE NeedFile(p)
  <2>1. op = "needfile"
    BY <1>0, <1>13 DEF NeedFile, At
  <2>2. Skip(p) /\ (c.ok \/ file[n] # None)
    BY <1>0, <1>2, <1>3, <1>13 DEF NeedFile
  <2>3. d.ok = c.ok /\ d.old = c.old /\ d.built = c.built
    BY <1>0, <1>1, <1>5, <2>2 DEF Skip
  <2>. QED
    BY <1>0, <2>1, <2>2, <2>3 DEF Knows, Renders
<1>14. CASE Startup(p) \/ Recreate(p)
  <2>1. op \in Tries
    BY <1>0, <1>14 DEF Startup, Recreate, At, Tries
  <2>2. Go(p, [c EXCEPT !.ok = TRUE]) \/ Go(p, [c EXCEPT !.ok = FALSE])
    BY <1>0, <1>14 DEF Startup, Recreate
  <2>3. d.old = c.old /\ d.built = c.built
    BY <1>1, <1>4, <2>2
  <2>. QED
    BY <1>0, <2>1, <2>3 DEF Knows, Renders, Tries
<1>15. CASE FindEntry(p) \/ Check(p) \/ SetSecret(p) \/ Wipe(p) \/ DropFile(p) \/ Halt(p)
            \/ Rm(p) \/ Create(p) \/ Discard(p) \/ Save(p)
  <2>1. op \notin Renders \cup {"needfile", "vet"}
    BY <1>0, <1>15 DEF FindEntry, Check, SetSecret, Wipe, DropFile, Halt, Rm, Create, Discard,
         Save, At, Renders
  <2>2. Skip(p)
    BY <1>3, <1>15 DEF FindEntry, Check, SetSecret, Wipe, DropFile, Halt, Rm, Create, Discard,
         Save
  <2>. QED
    BY <1>0, <1>6, <2>1, <2>2
<1>16. ~(Choose(p) \/ Return(p))
  BY DEF Choose, Return, At
<1>. QED
  BY <1>0, <1>7, <1>8, <1>9, <1>10, <1>11, <1>12, <1>13, <1>14, <1>15, <1>16
  DEF Step, KeyStep

-----------------------------------------------------------------------------
\* The file under a running container is one that its service accepts.

\* What the steps left to the command c need of the file and of the container.
Checks(c) ==
  LET n == c.name
      k == kind[n]
  IN /\ After(c.todo, file[n] # None, {"create", "choose"}, Fills, Drops)
     /\ After(c.todo, c.ok \/ file[n] # None, {"recreate"}, {"needfile"}, Tries \cup Drops)
     /\ After(c.todo, ~Exists(n, 1), Drops, {"rm"}, Makes1)
     /\ c.op \in Changing => Judged(c.todo, Ends(k))
     /\ c.op \notin Changing => After(c.todo, FALSE, Renders \cup {"vet"}, {}, {})

\* The command c comes to the check of the file of n, or stops its container,
\* and has the file of before to put back.
Healing(c, n) ==
  /\ c.name = n
  /\ c.op \in Changing
  /\ Due(c.todo, 0, Ends(kind[n]))
  /\ c.old # None
  /\ ~Refused(c.old)

\* A container has a file, and if that is bad, a command that puts it right.
Vetted(n) ==
  Vets(kind[n]) =>
    /\ Exists(n, 1) => file[n] # None
    /\ Hurt(n) => \E p \in Procs : cmd[p] # None /\ Healing(cmd[p], n)

VetOK ==
  /\ \A n \in Names : Vetted(n)
  /\ \A p \in Procs : cmd[p] # None /\ Vets(kind[cmd[p].name]) => Checks(cmd[p])

VetInv == TypeInv /\ VetOK

Single == \A p, q \in Procs : p = q

\* What a command that goes on as the record d leaves.
Passes(p, d) ==
  /\ cmd' = [cmd EXCEPT ![p] = d]
  /\ Follows(cmd[p], d, Head(cmd[p].todo))
  /\ Knows(cmd[p], d, Head(cmd[p].todo))
  /\ FileMoves(p)
  /\ Boxes(p)
  /\ Head(cmd[p].todo) # "choose"

\* A file stays while the container is there.
LEMMA FileStays ==
  ASSUME VetInv, NEW p \in Procs, cmd[p] # None, cmd[p].todo # <<>>, FileMoves(p),
         NEW n, n = N(p), Vets(kind[n])
  PROVE  /\ file[n] # None /\ Head(cmd[p].todo) \notin Drops => file'[n] # None
         /\ Head(cmd[p].todo) \in Drops => ~Exists(n, 1)
         /\ box'[n][1] # None => file'[n] # None
<1>0. PICK c, op, s : c = cmd[p] /\ s = c.todo /\ op = Head(s)
  OBVIOUS
<1>1. s \in Seq(Ops) /\ s # <<>> /\ n = c.name /\ n \in Names
  BY <1>0, AtStep DEF VetInv
<1>2. Checks(c) /\ Vetted(n)
  BY <1>0, <1>1 DEF VetInv, VetOK
<1>3. file[n] # None /\ op \notin Drops => file'[n] # None
  <2>1. CASE op = "vet"
    BY <1>0, <2>1 DEF FileMoves
  <2>2. CASE op \in Renders
    BY <1>0, <2>2 DEF FileMoves
  <2>3. CASE op \notin Renders \cup Drops \cup {"vet"}
    BY <1>0, <2>3 DEF FileMoves
  <2>. QED
    BY <2>1, <2>2, <2>3
<1>4. op \in Drops => ~Exists(n, 1)
  <2>1. After(s, ~Exists(n, 1), Drops, {"rm"}, Makes1)
    BY <1>0, <1>1, <1>2 DEF Checks
  <2>. QED
    BY <1>0, <1>1, <2>1, AfterHead
<1>5. ASSUME box'[n][1] # None PROVE file'[n] # None
  <2>1. Exists(n, 1) \/ op = "create" \/ (op = "recreate" /\ ~c.ok)
    BY <1>0, <1>5 DEF FileMoves
  <2>2. CASE Exists(n, 1)
    BY <1>2, <1>3, <1>4, <2>2 DEF Vetted
  <2>3. CASE op = "create"
    <3>1. After(s, file[n] # None, {"create", "choose"}, Fills, Drops)
      BY <1>0, <1>1, <1>2 DEF Checks
    <3>2. file[n] # None
      BY <1>0, <1>1, <2>3, <3>1, AfterHead
    <3>. QED
      BY <1>3, <2>3, <3>2 DEF Drops
  <2>4. CASE op = "recreate" /\ ~c.ok
    <3>1. After(s, c.ok \/ file[n] # None, {"recreate"}, {"needfile"}, Tries \cup Drops)
      BY <1>0, <1>1, <1>2 DEF Checks
    <3>2. c.ok \/ file[n] # None
      BY <1>0, <1>1, <2>4, <3>1, AfterHead
    <3>. QED
      BY <1>3, <2>4, <3>2 DEF Drops
  <2>. QED
    BY <2>1, <2>2, <2>3, <2>4
<1>. QED
  BY <1>0, <1>3, <1>4, <1>5

\* A step keeps what its command needs.
LEMMA GoesChecks ==
  ASSUME VetInv, NEW p \in Procs, cmd[p] # None, cmd[p].todo # <<>>, NEW d, Passes(p, d),
         Vets(kind[cmd[p].name])
  PROVE  Checks(d)'
<1>0. PICK c, n, k, op, s : c = cmd[p] /\ n = c.name /\ k = kind[n] /\ s = c.todo /\ op = Head(s)
  OBVIOUS
<1>1. c \in Command /\ s \in Seq(Ops) /\ s # <<>> /\ n = N(p) /\ n \in Names
  BY <1>0, AtStep DEF VetInv
<1>2. Checks(c)
  BY <1>0, <1>1 DEF VetInv, VetOK
<1>3. d.op = c.op /\ d.name = n /\ d.todo = Tail(s) /\ kind' = kind /\ d \in Command
  BY <1>0 DEF Passes, Follows, FileMoves
<1>4. /\ file[n] # None /\ op \notin Drops => file'[n] # None
      /\ op \in Fills => file'[n] # None
  BY <1>0, <1>1, FileStays DEF Passes, FileMoves
<1>5. After(Tail(s), file'[n] # None, {"create", "choose"}, Fills, Drops)
  <2>1. After(s, file[n] # None, {"create", "choose"}, Fills, Drops)
    BY <1>0, <1>2 DEF Checks
  <2>. QED
    BY <1>0, <1>1, <1>4, <2>1, AfterTail
<1>6. After(Tail(s), d.ok \/ file'[n] # None, {"recreate"}, {"needfile"}, Tries \cup Drops)
  <2> DEFINE t == c.ok \/ file[n] # None
             u == d.ok \/ file'[n] # None
  <2>1. After(s, t, {"recreate"}, {"needfile"}, Tries \cup Drops)
    BY <1>0, <1>2 DEF Checks
  <2>2. t /\ op \notin Tries \cup Drops => u
    BY <1>0, <1>4 DEF Passes, Knows
  <2>3. op = "needfile" => t /\ op \notin Tries \cup Drops
    BY <1>0 DEF Passes, Knows, Tries, Drops
  <2>4. t \in BOOLEAN /\ u \in BOOLEAN
    BY <1>1, <1>3 DEF Command
  <2>. HIDE DEF t, u
  <2>5. After(Tail(s), u, {"recreate"}, {"needfile"}, Tries \cup Drops)
    BY <1>0, <1>1, <2>1, <2>2, <2>3, <2>4, AfterTail
  <2>. QED
    BY <2>5 DEF u
<1>7. After(Tail(s), box'[n][1] = None, Drops, {"rm"}, Makes1)
  <2>1. After(s, ~Exists(n, 1), Drops, {"rm"}, Makes1)
    BY <1>0, <1>2 DEF Checks
  <2>2. op = "rm" \/ (~Exists(n, 1) /\ op \notin Makes1) => box'[n][1] = None
    BY <1>0, <1>1 DEF Passes, Boxes
  <2>3. (~Exists(n, 1)) \in BOOLEAN /\ (box'[n][1] = None) \in BOOLEAN
    BY DEF Exists
  <2>. QED
    BY <1>0, <1>1, <2>1, <2>2, <2>3, AfterTail
<1>8. ASSUME c.op \in Changing PROVE Judged(Tail(s), Ends(k))
  BY <1>0, <1>1, <1>2, <1>8, JudgedTail DEF Checks
<1>9. ASSUME c.op \notin Changing PROVE After(Tail(s), FALSE, Renders \cup {"vet"}, {}, {})
  <2>1. After(s, FALSE, Renders \cup {"vet"}, {}, {})
    BY <1>0, <1>2, <1>9 DEF Checks
  <2>. QED
    BY <1>1, <2>1, AfterTail
<1>. QED
  BY <1>0, <1>3, <1>5, <1>6, <1>7, <1>8, <1>9 DEF Checks, Exists

\* On the way to one of ends, from the first step left.
LEMMA DueOn ==
  ASSUME NEW s \in Seq(Ops), s # <<>>, NEW ends, Due(s, 0, ends), Head(s) \notin ends
  PROVE  Due(Tail(s), 0, ends) /\ Head(s) \notin Quits \cup Renders \cup {"passwd"}
<1>1. Due(Tail(s), IF 0 = 0 THEN 0 ELSE 0 - 1, ends) /\ Head(s) \notin Quits \cup Renders \cup {"passwd"}
  BY DueTail
<1>. QED
  BY <1>1

\* A bad file under the container is in the hands of the only command.
LEMMA HurtHealed ==
  ASSUME VetInv, Single, NEW p \in Procs, NEW n \in Names, Vets(kind[n]), Hurt(n)
  PROVE  cmd[p] # None /\ Healing(cmd[p], n)
BY DEF VetInv, VetOK, Vetted, Single

\* An add-on that the only command is not about stays as it is.
LEMMA OthersVetted ==
  ASSUME VetInv, Single, NEW p \in Procs, NEW m \in Names,
         cmd[p] = None \/ cmd[p].name # m, UNCHANGED kind,
         file'[m] = file[m], box'[m] = box[m], cut'[m] = cut[m]
  PROVE  Vetted(m)'
<1>1. Vets(kind[m]) => ~Hurt(m)
  BY HurtHealed DEF Healing
<1>2. (Hurt(m)' <=> Hurt(m)) /\ (Exists(m, 1)' <=> Exists(m, 1))
  BY DEF Hurt, Running, Exists
<1>3. Vetted(m)
  BY DEF VetInv, VetOK
<1>. QED
  BY <1>1, <1>2, <1>3 DEF Vetted

\* None of the steps that judge a file writes one.
LEMMA EndsWriteNothing ==
  ASSUME NEW k
  PROVE  Ends(k) \cap (Renders \cup Drops \cup Soft) = {} /\ Ends(k) \subseteq {"vet", "halt", "rm", "choose"}
BY DEF Ends, Judges, Renders, Drops, Soft

\* The step of a command that goes on: a bad file under the container has just
\* been written over a good one, and is on the way to its check.
LEMMA GoesVetted ==
  ASSUME VetInv, Single, NEW p \in Procs, cmd[p] # None, cmd[p].todo # <<>>,
         NEW d, Passes(p, d), NEW n, n = N(p)
  PROVE  Vetted(n)'
<1>0. PICK c, k, op, s : c = cmd[p] /\ k = kind[n] /\ s = c.todo /\ op = Head(s)
  OBVIOUS
<1>1. c \in Command /\ s \in Seq(Ops) /\ s # <<>> /\ n = c.name /\ n \in Names
  BY <1>0, AtStep DEF VetInv
<1>2. /\ d.op = c.op /\ d.name = n /\ d.todo = Tail(s) /\ d \in Command
      /\ UNCHANGED <<kind, cut>>
  BY <1>0, <1>1 DEF Passes, Follows, FileMoves
<1>3. cmd'[p] = d /\ d # None
  BY <1>2, NoneAssumption DEF Passes, VetInv, TypeInv
<1>. SUFFICES ASSUME Vets(k)
              PROVE  /\ Exists(n, 1)' => file'[n] # None
                     /\ Hurt(n)' => Healing(d, n)'
  BY <1>0, <1>2, <1>3 DEF Vetted
<1>4. Exists(n, 1)' => file'[n] # None
  BY <1>0, <1>1, FileStays DEF Passes, Exists
<1>5. Checks(c)
  BY <1>0, <1>1 DEF VetInv, VetOK
<1>6. Hurt(n) => Healing(c, n)
  BY <1>0, <1>1, HurtHealed
<1>7. ASSUME Hurt(n)' PROVE Healing(d, n)
  <2>1. Running(n, 1)' /\ Refused(file'[n]) /\ ~cut[n]
    BY <1>2, <1>7 DEF Hurt, Refused
  <2>2. CASE op \in Renders
    <3>1. Running(n, 1) /\ Exists(n, 1) /\ box' = box
      BY <1>0, <2>1, <2>2 DEF Passes, FileMoves, Running, Exists
    <3>2. file[n] # None
      BY <1>0, <1>1, <3>1 DEF VetInv, VetOK, Vetted
    <3>3. d.old = file[n]
      BY <1>0, <1>1, <2>2 DEF Passes, Knows, Compares
    <3>4. c.op \in Changing
      <4>1. SUFFICES ASSUME c.op \notin Changing PROVE FALSE
        OBVIOUS
      <4>2. After(s, FALSE, Renders \cup {"vet"}, {}, {})
        BY <1>0, <1>5, <4>1 DEF Checks
      <4>. QED
        BY <1>0, <1>1, <2>2, <4>2, AfterHead
    <3>5. Due(Tail(s), 0, Ends(k))
      BY <1>0, <1>1, <1>5, <2>2, <3>4, JudgedTail DEF Checks
    <3>6. ~Refused(file[n])
      <4>1. SUFFICES ASSUME Refused(file[n]) PROVE FALSE
        OBVIOUS
      <4>2. Due(s, 0, Ends(k))
        BY <1>0, <1>6, <2>1, <3>1, <4>1 DEF Hurt, Healing
      <4>. QED
        BY <1>0, <1>1, <2>2, <4>2, DueOn, EndsWriteNothing
    <3>. QED
      BY <1>0, <1>2, <3>2, <3>3, <3>4, <3>5, <3>6 DEF Healing
  <2>3. op # "vet"
    BY <1>0, <1>1, <2>1 DEF Passes, Knows, FileMoves
  <2>4. op \notin Drops
    BY <1>0, <1>1, <2>1, FileStays, ZenonT(60) DEF Passes, FileMoves, Running, Exists
  <2>5. CASE op \notin Renders
    <3>1. file' = file
      BY <1>0, <2>3, <2>4, <2>5 DEF Passes, FileMoves
    <3>2. Running(n, 1) /\ op \notin {"halt", "rm"}
      BY <1>0, <2>1, <3>1 DEF Passes, FileMoves, Running, Exists
    <3>3. Healing(c, n)
      BY <1>6, <2>1, <3>1, <3>2 DEF Hurt
    <3>4. op \notin Ends(k)
      BY <1>0, <2>3, <3>2, EndsWriteNothing DEF Passes
    <3>5. Due(Tail(s), 0, Ends(k)) /\ op \notin Quits \cup Renders
      BY <1>0, <1>1, <3>3, <3>4, DueOn DEF Healing
    <3>6. d.old = c.old
      BY <1>0, <3>5 DEF Passes, Knows
    <3>. QED
      BY <1>0, <1>2, <3>3, <3>5, <3>6 DEF Healing
  <2>. QED
    BY <2>2, <2>5
<1>8. Healing(d, n)' <=> Healing(d, n)
  BY <1>2 DEF Healing
<1>. QED
  BY <1>4, <1>7, <1>8

\* A step that goes on keeps VetOK.
LEMMA GoesVet ==
  ASSUME VetInv, Single, NEW p \in Procs, cmd[p] # None, cmd[p].todo # <<>>,
         NEW d, Passes(p, d)
  PROVE  VetOK'
<1>0. PICK n : n = N(p)
  OBVIOUS
<1>1. n = cmd[p].name /\ n \in Names
  BY <1>0, AtStep DEF VetInv
<1>2. d.name = n /\ \A q \in Procs : cmd'[q] = d
  BY <1>0, <1>1 DEF Passes, Follows, Single, VetInv, TypeInv
<1>3. UNCHANGED <<kind, cut>>
  BY DEF Passes, FileMoves
<1>4. \A m \in Names : Vetted(m)'
  <2>1. ASSUME NEW m \in Names, m # n PROVE Vetted(m)'
    <3>1. file'[m] = file[m] /\ box'[m] = box[m]
      BY <1>0, <2>1 DEF Passes, FileMoves
    <3>. QED
      BY <1>1, <1>3, <2>1, <3>1, OthersVetted
  <2>. QED
    BY <1>0, <2>1, GoesVetted
<1>5. Vets(kind'[d.name]) => Checks(d)'
  BY <1>1, <1>2, <1>3, GoesChecks
<1>. QED
  BY <1>2, <1>4, <1>5 DEF VetOK

\* The only command is gone, and no bad file is left under a container.
LEMMA GoneVet ==
  ASSUME VetInv, Single, NEW p \in Procs, cmd'[p] = None, UNCHANGED kind,
         NEW n \in Names,
         \A m \in Names \ {n} :
           file'[m] = file[m] /\ box'[m] = box[m] /\ cut'[m] = cut[m],
         cmd[p] = None \/ cmd[p].name = n,
         Vets(kind[n]) => ~Hurt(n)' /\ (Exists(n, 1)' => file'[n] # None)
  PROVE  VetOK'
<1>1. \A m \in Names : Vetted(m)'
  <2>1. ASSUME NEW m \in Names, m # n PROVE Vetted(m)'
    BY <2>1, OthersVetted
  <2>2. Vetted(n)'
    BY DEF Vetted
  <2>. QED
    BY <2>1, <2>2
<1>2. \A q \in Procs : cmd'[q] = None
  BY DEF Single
<1>. QED
  BY <1>1, <1>2 DEF VetOK

\* A command that stops although nothing fails has put the file of before back,
\* or has not touched it.
LEMMA LeavesVet ==
  ASSUME VetInv, Single, NEW p \in Procs, Leaves(p), Step(p), Head(cmd[p].todo) # "choose"
  PROVE  VetOK'
<1>0. PICK c, n, k, op, s : c = cmd[p] /\ n = c.name /\ k = kind[n] /\ s = c.todo /\ op = Head(s)
  OBVIOUS
<1>1. c \in Command /\ s \in Seq(Ops) /\ s # <<>> /\ n = N(p) /\ n \in Names /\ c # None
  BY <1>0, AtStep DEF VetInv, Leaves
<1>2. FileMoves(p)
  BY <1>0, <1>1, StepFileMoves DEF VetInv
<1>3. cmd'[p] = None /\ op \in Quits \cup {"passwd"}
  BY <1>0, EndGone DEF VetInv, Leaves
<1>4. UNCHANGED <<kind, cut>> /\ \A m \in Names \ {n} : file'[m] = file[m] /\ box'[m] = box[m]
  BY <1>1, <1>2 DEF FileMoves
<1>5. ASSUME Vets(k) PROVE ~Hurt(n)'
  <2>1. SUFFICES ASSUME Hurt(n)' PROVE FALSE
    OBVIOUS
  <2>2. Running(n, 1)' /\ Refused(file'[n]) /\ ~cut[n]
    BY <1>4, <2>1 DEF Hurt, Refused
  <2>3. Hurt(n) => Healing(c, n)
    BY <1>0, <1>1, <1>5, HurtHealed
  <2>4. op \notin Renders \cup Drops
    BY <1>3 DEF Quits, Renders, Drops
  <2>5. CASE op = "vet"
    <3>1. box' = box /\ file'[n] = IF Refused(file[n]) /\ c.old # None THEN c.old ELSE file[n]
      BY <1>0, <1>1, <1>2, <2>5 DEF FileMoves
    <3>2. Refused(file[n])
      BY <2>2, <3>1
    <3>3. Hurt(n)
      BY <2>2, <3>1, <3>2 DEF Hurt, Running, Exists
    <3>. QED
      BY <2>2, <2>3, <3>1, <3>2, <3>3 DEF Healing
  <2>6. CASE op # "vet"
    <3>1. file' = file
      BY <1>0, <1>2, <2>4, <2>6 DEF FileMoves
    <3>2. Running(n, 1)
      BY <1>1, <1>2, <2>2, <3>1 DEF FileMoves, Running, Exists
    <3>3. Due(s, 0, Ends(k))
      BY <1>0, <2>2, <2>3, <3>1, <3>2 DEF Hurt, Healing
    <3>4. op \notin Ends(k)
      BY <1>0, <1>3, <2>6, EndsWriteNothing DEF Quits
    <3>. QED
      BY <1>0, <1>1, <1>3, <3>3, <3>4, DueOn
  <2>. QED
    BY <2>5, <2>6
<1>6. Vets(k) => (Exists(n, 1)' => file'[n] # None)
  BY <1>0, <1>1, <1>2, FileStays DEF Exists
<1>. QED
  BY <1>0, <1>1, <1>3, <1>4, <1>5, <1>6, GoneVet

\* An install that turns to a branch: where the file was written before the
\* choice, every branch judges it.
LEMMA TurnsVet ==
  ASSUME VetInv, Single, NEW p \in Procs, Choose(p)
  PROVE  VetOK'
<1>0. PICK c, n, k, s : c = cmd[p] /\ n = c.name /\ k = kind[n] /\ s = c.todo
  OBVIOUS
<1>1. UNCHANGED <<kind, file, box, cut>> /\ Turns(p) /\ c # None /\ s # <<>> /\ Head(s) = "choose"
  BY <1>0, ChooseTurns DEF Choose, At, VetInv
<1>2. PICK d \in Command, i \in DOMAIN Branches(k) :
        /\ cmd' = [cmd EXCEPT ![p] = d]
        /\ d.op = "install"
        /\ d.name = n
        /\ d.todo = Branches(k)[i].steps
  BY <1>0, <1>1 DEF Turns
<1>3. c \in Command /\ n \in Names /\ k \in Kinds /\ c.op = "install" /\ s \in Seq(Ops)
  BY <1>0, <1>1, AtStep DEF Turns, VetInv, TypeInv, Stores
<1>4. d.old = c.old
  <2>1. \E t, v : cmd' = [cmd EXCEPT ![p].todo = t, ![p].force = FALSE,
                                     ![p].asked = FALSE, ![p].built = v]
    BY DEF Choose
  <2>2. cmd'[p] = d
    BY <1>2 DEF VetInv, TypeInv
  <2>3. "old" \in DOMAIN c
    BY <1>3 DEF Command
  <2>. QED
    BY <1>0, <2>1, <2>2, <2>3, ZenonT(60) DEF VetInv, TypeInv
<1>5. d.todo \in BranchPrograms(k) /\ d.todo \in Seq(Ops)
  BY <1>2 DEF BranchPrograms, Command
<1>6. \A q \in Procs : cmd'[q] = d
  BY <1>2 DEF Single, VetInv, TypeInv
<1>7. d # None
  BY NoneAssumption
<1>8. ASSUME Vets(k) PROVE Checks(d)
  <2>1. VetOrder(k)
    BY <1>3, OrderAssumption DEF Orderly
  <2>2. /\ After(d.todo, TRUE, {"create", "choose"}, Fills, Drops)
        /\ After(d.todo, FALSE, {"recreate"}, {"needfile"}, Tries \cup Drops)
        /\ After(d.todo, FALSE, Drops, {"rm"}, Makes1)
        /\ Judged(d.todo, Ends(k))
    BY <1>5, <1>8, <2>1 DEF VetOrder, InstallPrograms, Judged
  <2>3. file[n] # None
    <3>1. After(s, file[n] # None, {"create", "choose"}, Fills, Drops)
      BY <1>0, <1>1, <1>8 DEF VetInv, VetOK, Checks
    <3>. QED
      BY <1>1, <1>3, <3>1, AfterHead
  <2>4. /\ After(d.todo, file[n] # None, {"create", "choose"}, Fills, Drops)
        /\ After(d.todo, d.ok \/ file[n] # None, {"recreate"}, {"needfile"}, Tries \cup Drops)
        /\ After(d.todo, ~Exists(n, 1), Drops, {"rm"}, Makes1)
    BY <2>2, <2>3 DEF After
  <2>. QED
    BY <1>0, <1>2, <2>2, <2>4 DEF Checks, Changing
<1>9. ASSUME Vets(k), Hurt(n) PROVE Healing(d, n)
  <2>1. Healing(c, n)
    BY <1>0, <1>3, <1>9, HurtHealed
  <2>2. "choose" \in Ends(k)
    BY <1>0, <1>1, <1>3, <2>1, DueOn DEF Healing, Quits
  <2>3. Due(d.todo, 0, Judges)
    BY <1>5, <2>2 DEF Ends, Judges
  <2>4. Due(d.todo, 0, Ends(k))
    BY <2>3 DEF Due, Ends
  <2>. QED
    BY <1>0, <1>2, <1>4, <2>1, <2>4 DEF Healing, Changing
<1>10. Vetted(n)'
  <2>1. Vetted(n)
    BY <1>3 DEF VetInv, VetOK
  <2>2. Healing(d, n) => Healing(d, n)'
    BY <1>1 DEF Healing
  <2>. QED
    BY <1>0, <1>1, <1>6, <1>7, <1>9, <2>1, <2>2 DEF Vetted, Hurt, Running, Exists
<1>11. \A m \in Names : Vetted(m)'
  BY <1>0, <1>1, <1>10, OthersVetted
<1>12. Vets(kind[n]) => Checks(d)'
  BY <1>0, <1>1, <1>8 DEF Checks, Exists
<1>. QED
  BY <1>1, <1>2, <1>6, <1>11, <1>12 DEF VetOK

\* A command begins.
LEMMA BeginsVet ==
  ASSUME VetInv, Single, NEW p \in Procs, Begins(p), UNCHANGED <<kind, file, box, cut>>
  PROVE  VetOK'
<1>1. PICK d \in Command :
        /\ cmd[p] = None
        /\ cmd' = [cmd EXCEPT ![p] = d]
        /\ Programs(kind[d.name], d.op, d.todo)
  BY DEF Begins
<1>0. PICK n, k : n = d.name /\ k = kind[n]
  OBVIOUS
<1>2. n \in Names /\ k \in Kinds
  BY <1>0 DEF VetInv, TypeInv, Command, Stores
<1>3. \A m \in Names : Vetted(m)'
  BY <1>1, OthersVetted
<1>4. \A q \in Procs : cmd'[q] = d
  BY <1>1 DEF Single, VetInv, TypeInv
<1>5. ASSUME Vets(k) PROVE Checks(d)
  <2>1. VetOrder(k)
    BY <1>2, OrderAssumption DEF Orderly
  <2>2. ASSUME /\ After(d.todo, FALSE, {"create", "choose"}, Fills, Drops)
               /\ After(d.todo, FALSE, {"recreate"}, {"needfile"}, Tries \cup Drops)
               /\ After(d.todo, FALSE, Drops, {"rm"}, Makes1)
        PROVE  /\ After(d.todo, file[n] # None, {"create", "choose"}, Fills, Drops)
               /\ After(d.todo, d.ok \/ file[n] # None, {"recreate"}, {"needfile"},
                        Tries \cup Drops)
               /\ After(d.todo, ~Exists(n, 1), Drops, {"rm"}, Makes1)
    BY <2>2 DEF After
  <2>3. CASE d.op = "install"
    <3>1. d.todo = k.install.prepare
      BY <1>0, <1>1, <2>3 DEF Programs
    <3>2. d.todo \in InstallPrograms(k)
      BY <3>1 DEF InstallPrograms
    <3>3. Judged(d.todo, Ends(k))
      BY <1>5, <2>1, <3>2 DEF VetOrder, Judged
    <3>. QED
      BY <1>0, <1>5, <2>1, <2>2, <2>3, <3>1, <3>2, <3>3 DEF VetOrder, Checks, Changing
  <2>4. CASE d.op = "serve"
    <3>1. d.todo = <<"load", "save">>
      BY <1>1, <2>4 DEF Programs
    <3>2. \A j \in DOMAIN d.todo :
            d.todo[j] \notin Renders \cup Drops \cup {"create", "choose", "recreate", "vet"}
      BY <3>1 DEF Renders, Drops
    <3>. QED
      BY <1>0, <2>4, <3>2 DEF Checks, Changing, After
  <2>5. CASE d.op \notin {"install", "serve"}
    <3>1. d.todo \in UsePrograms(k)
          /\ (IF d.op = "reload" THEN d.todo = k.use.reload ELSE d.todo \in KeepPrograms(k))
      BY <1>0, <1>1, <2>5 DEF Programs
    <3>2. d.op = "reload" => Judged(d.todo, Ends(k))
      BY <1>5, <2>1, <3>1 DEF VetOrder, Judged
    <3>3. d.op # "reload" => After(d.todo, FALSE, Renders \cup {"vet"}, {}, {})
      BY <1>5, <2>1, <3>1 DEF VetOrder, After, In
    <3>. QED
      BY <1>0, <1>5, <2>1, <2>2, <2>5, <3>1, <3>2, <3>3 DEF VetOrder, Checks, Changing
  <2>. QED
    BY <2>3, <2>4, <2>5
<1>6. Vets(kind[n]) => Checks(d)'
  BY <1>0, <1>5 DEF Checks, Exists
<1>. QED
  BY <1>0, <1>3, <1>4, <1>6 DEF VetOK

\* A soft failure is a step that goes on.
LEMMA SoftPasses ==
  ASSUME TypeInv, NEW p \in Procs, Fail(p), Head(cmd[p].todo) \in Soft
  PROVE  \E d : Passes(p, d)
<1>1. Goes(p) /\ Boxes(p) /\ UNCHANGED <<kind, file, box, cut>> /\ Skip(p)
      /\ cmd[p] # None /\ cmd[p].todo # <<>>
  BY SoftLeaving DEF Leaving, Fail
<1>2. PICK d : cmd' = [cmd EXCEPT ![p] = d] /\ Follows(cmd[p], d, Head(cmd[p].todo))
  BY <1>1 DEF Goes
<1>3. d.ok = cmd[p].ok /\ d.old = cmd[p].old /\ d.built = cmd[p].built
  <2>1. cmd'[p] = d /\ cmd'[p] = [cmd[p] EXCEPT !.todo = Tail(@)]
    BY <1>1, <1>2, GoFields DEF Skip, TypeInv
  <2>2. {"ok", "old", "todo", "built"} \subseteq DOMAIN cmd[p]
    BY <1>1, AtStep DEF Command
  <2>. QED
    BY <2>1, <2>2
<1>4. Knows(cmd[p], d, Head(cmd[p].todo))
  BY <1>3 DEF Knows, Soft, Renders
<1>5. FileMoves(p)
  BY <1>1 DEF FileMoves, Soft, Renders, Fills, Drops, Running, Exists
<1>. QED
  BY <1>1, <1>2, <1>4, <1>5 DEF Passes, Soft

\* A step that fails leaves a bad file only to a command that is cut off.
LEMMA FailVet ==
  ASSUME VetInv, Single, NEW p \in Procs, Fail(p)
  PROVE  VetOK'
<1>0. PICK c, n, k, op, s : c = cmd[p] /\ n = c.name /\ k = kind[n] /\ s = c.todo /\ op = Head(s)
  OBVIOUS
<1>1. c \in Command /\ s \in Seq(Ops) /\ s # <<>> /\ n = N(p) /\ n \in Names /\ c # None
  BY <1>0, AtStep DEF VetInv, Fail
<1>2. CASE op \in Soft
  BY <1>0, <1>1, <1>2, SoftPasses, GoesVet DEF VetInv
<1>3. CASE op \notin Soft
  <2>1. HardBox(p) /\ cmd'[p] = None /\ UNCHANGED <<kind, file>>
        /\ cut' = [cut EXCEPT ![n] = @ \/ Changes(c)]
    BY <1>0, <1>1, <1>3, HardFails DEF VetInv, Fail
  <2>2. /\ cut'[n] <=> cut[n] \/ Changes(c)
        /\ \A m \in Names \ {n} : cut'[m] = cut[m] /\ box'[m] = box[m]
    BY <1>1, <2>1 DEF VetInv, TypeInv, Stores, HardBox
  <2>3. ASSUME box'[n][1] # box[n][1] PROVE op = "create" /\ ~box'[n][1].up
    <3>1. /\ op \in {"create", "create2"}
          /\ box' = [box EXCEPT ![n][Part(op)] = [NewBox(n, kind[n], c.work) EXCEPT !.up = FALSE]]
      BY <1>0, <1>1, <2>3 DEF Fail, K, Work
    <3>2. Part(op) = 1
      <4>1. Part(op) \in {1, 2}
        BY DEF Part
      <4>2. SUFFICES ASSUME Part(op) = 2 PROVE FALSE
        BY <4>1
      <4>. QED
        BY <1>1, <2>3, <3>1, <4>2 DEF VetInv, TypeInv, Stores, Parts
    <3>3. box'[n][1] = [NewBox(n, kind[n], c.work) EXCEPT !.up = FALSE]
      BY <1>1, <3>1, <3>2 DEF VetInv, TypeInv, Stores, Parts
    <3>4. "up" \in DOMAIN NewBox(n, kind[n], c.work)
      BY DEF NewBox
    <3>. QED
      BY <3>1, <3>2, <3>3, <3>4 DEF Part
  <2>4. ASSUME Vets(k) PROVE ~Hurt(n)' /\ (Exists(n, 1)' => file'[n] # None)
    <3>1. Vetted(n) /\ Checks(c)
      BY <1>0, <1>1, <2>4 DEF VetInv, VetOK
    <3>2. ASSUME op = "create" PROVE file[n] # None
      <4>1. After(s, file[n] # None, {"create", "choose"}, Fills, Drops)
        BY <1>0, <3>1 DEF Checks
      <4>. QED
        BY <1>0, <1>1, <3>2, <4>1, AfterHead
    <3>3. Exists(n, 1)' => file'[n] # None
      BY <1>0, <2>1, <2>3, <2>4, <3>1, <3>2 DEF Vetted, Exists
    <3>4. ~Hurt(n)'
      <4>1. SUFFICES ASSUME Hurt(n)' PROVE FALSE
        OBVIOUS
      <4>2. Hurt(n) /\ ~Changes(c)
        BY <2>1, <2>2, <2>3, <4>1 DEF Hurt, Running, Exists
      <4>3. Healing(c, n)
        BY <1>0, <1>1, <2>4, <4>2, HurtHealed
      <4>. QED
        BY <4>2, <4>3 DEF Healing, Changes, Changing
    <3>. QED
      BY <3>3, <3>4
  <2>. QED
    BY <1>0, <1>1, <2>1, <2>2, <2>4, GoneVet
<1>. QED
  BY <1>2, <1>3

\* So does a command that is interrupted.
LEMMA CutVet ==
  ASSUME VetInv, Single, NEW p \in Procs, Kill(p) \/ Tear(p)
  PROVE  VetOK'
<1>0. PICK c, n : c = cmd[p] /\ n = c.name
  OBVIOUS
<1>1. n = N(p) /\ n \in Names /\ c # None /\ c.todo # <<>>
  BY <1>0, AtStep DEF VetInv, Kill, Tear, At
<1>2. cmd'[p] = None /\ UNCHANGED <<kind, file, box>>
  BY EndGone DEF VetInv, Kill, Tear
<1>3. /\ Changes(c) => cut'[n]
      /\ cut[n] => cut'[n]
      /\ \A m \in Names \ {n} : cut'[m] = cut[m]
  BY <1>0, <1>1 DEF VetInv, TypeInv, Stores, Kill, Tear
<1>4. ASSUME Vets(kind[n]) PROVE ~Hurt(n)' /\ (Exists(n, 1)' => file'[n] # None)
  <2>1. Exists(n, 1)' => file'[n] # None
    BY <1>1, <1>2, <1>4 DEF VetInv, VetOK, Vetted, Exists
  <2>2. ~Hurt(n)'
    <3>1. SUFFICES ASSUME Hurt(n)' PROVE FALSE
      OBVIOUS
    <3>2. Hurt(n) /\ ~Changes(c)
      BY <1>2, <1>3, <3>1 DEF Hurt, Running, Exists
    <3>3. Healing(c, n)
      BY <1>0, <1>1, <1>4, <3>2, HurtHealed
    <3>. QED
      BY <3>2, <3>3 DEF Healing, Changes, Changing
  <2>. QED
    BY <2>1, <2>2
<1>. QED
  BY <1>0, <1>1, <1>2, <1>3, <1>4, GoneVet

\* A container that dies, and every one at a reboot, is down.
LEMMA DieStops ==
  ASSUME TypeInv, NEW n \in Names, Die(n)
  PROVE  \A m \in Names : Running(m, 1)' => Running(m, 1)
<1>1. box \in [Names -> [Parts -> Box \cup {None}]] /\ 1 \in Parts
  BY DEF TypeInv, Stores, Parts
<1>2. PICK r \in Parts : Running(n, r) /\ box' = [box EXCEPT ![n][r].up = FALSE]
  BY DEF Die
<1>3. box[n][r] \in Box
  BY <1>1, <1>2 DEF Running, Exists
<1>4. "up" \in DOMAIN box[n][r]
  BY <1>3 DEF Box
<1>5. ASSUME NEW m \in Names, m # n \/ r # 1 PROVE box'[m][1] = box[m][1]
  BY <1>1, <1>2, <1>5
<1>6. CASE r = 1
  <2>1. Running(n, 1)
    BY <1>2, <1>6
  <2>. QED
    BY <1>5, <2>1 DEF Running, Exists
<1>7. CASE r # 1
  BY <1>5, <1>7 DEF Running, Exists
<1>. QED
  BY <1>6, <1>7

\* VetInv is inductive while one command runs at a time.
LEMMA VetNext ==
  ASSUME VetInv, Single, [Next]_vars
  PROVE  VetInv'
<1>1. TypeInv /\ TypeInv' /\ VetOK
  BY TypeNext DEF VetInv
<1>2. ASSUME UNCHANGED <<kind, file, cmd, cut>>,
             \A m \in Names : /\ Running(m, 1)' => Running(m, 1)
                              /\ Exists(m, 1)' <=> Exists(m, 1)
      PROVE  VetOK'
  <2>1. ASSUME NEW m \in Names PROVE Vetted(m)'
    <3>1. Vetted(m) /\ (Hurt(m)' => Hurt(m))
      BY <1>1, <1>2 DEF VetOK, Hurt
    <3>2. \A q \in Procs : Healing(cmd[q], m) => Healing(cmd[q], m)'
      BY <1>2 DEF Healing
    <3>. QED
      BY <1>2, <3>1, <3>2 DEF Vetted
  <2>2. ASSUME NEW p \in Procs, cmd[p] # None, Vets(kind[cmd[p].name]) PROVE Checks(cmd[p])'
    <3>0. PICK c : c = cmd[p]
      OBVIOUS
    <3>1. Checks(c) /\ c.name \in Names
      BY <1>1, <2>2, <3>0 DEF VetOK, TypeInv, Command
    <3>2. Checks(c)'
      BY <1>2, <3>1 DEF Checks, After
    <3>. QED
      BY <1>2, <3>0, <3>2
  <2>. QED
    BY <1>2, <2>1, <2>2 DEF VetOK
<1>3. ASSUME UNCHANGED vars PROVE VetOK'
  <2>1. UNCHANGED <<kind, file, cmd, cut>>
    BY <1>3 DEF vars
  <2>2. box' = box
    BY <1>3 DEF vars
  <2>3. \A m \in Names : Running(m, 1)' => Running(m, 1)
    BY <2>2 DEF Running, Exists
  <2>4. \A m \in Names : Exists(m, 1)' <=> Exists(m, 1)
    BY <2>2 DEF Exists
  <2>. QED
    BY <1>2, <2>1, <2>3, <2>4
<1>4. ASSUME NEW p \in Procs, Call(p) PROVE VetOK'
  <2>0. PICK c : Begin(p, c)
    BY <1>4, CallStarts
  <2>1. UNCHANGED <<kind, file, box, cut>>
    BY <2>0 DEF Begin
  <2>. QED
    BY <1>1, <1>4, <2>1, CallBegins, BeginsVet
<1>5. ASSUME NEW p \in Procs, Step(p) PROVE VetOK'
  <2>1. CASE Choose(p)
    BY <2>1, TurnsVet
  <2>2. CASE Return(p)
    <3>0. PICK c, n : c = cmd[p] /\ n = c.name
      OBVIOUS
    <3>1. UNCHANGED <<kind, file, box, cut>> /\ cmd'[p] = None /\ c # None /\ c.todo = <<>>
      BY <1>1, <2>2, <3>0, EndGone DEF Return
    <3>2. n \in Names
      BY <1>1, <3>0, <3>1 DEF TypeInv, Command
    <3>3. ~Healing(c, n)
      BY <3>1 DEF Healing, Due
    <3>4. Vets(kind[n]) => ~Hurt(n)
      BY <3>0, <3>2, <3>3, HurtHealed
    <3>5. Vets(kind[n]) => ~Hurt(n)' /\ (Exists(n, 1)' => file'[n] # None)
      BY <1>1, <3>1, <3>2, <3>4 DEF VetOK, Vetted, Hurt, Running, Exists
    <3>. QED
      BY <3>0, <3>1, <3>2, <3>5, GoneVet
  <2>3. CASE /\ cmd[p] # None
             /\ cmd[p].todo # <<>>
             /\ ~Choose(p)
             /\ Goes(p) \/ Leaves(p)
    <3>1. Head(cmd[p].todo) # "choose"
      <4>1. ~(Load(p) \/ FindEntry(p) \/ Check(p) \/ Merge(p) \/ Generate(p) \/ DecideAuth(p) \/ Recall(p)
              \/ Agree(p) \/ Mint(p)) \/ Head(cmd[p].todo) # "choose"
        BY DEF Load, FindEntry, Check, Merge, Generate, DecideAuth, Recall, Agree, Mint, At
      <4>2. ~(Save(p) \/ Drop(p) \/ WriteFile(p) \/ Vet(p) \/ Signal(p) \/ NeedFile(p)
              \/ NeedUp(p) \/ SetSecret(p) \/ Wipe(p) \/ DropFile(p))
            \/ Head(cmd[p].todo) # "choose"
        BY DEF Save, Drop, WriteFile, Vet, Signal, NeedFile, NeedUp, SetSecret, Wipe,
               DropFile, At
      <4>3. ~(Halt(p) \/ Rm(p) \/ Create(p) \/ Startup(p) \/ Discard(p) \/ Recreate(p)
              \/ Return(p)) \/ Head(cmd[p].todo) # "choose"
        BY <2>3 DEF Halt, Rm, Create, Startup, Discard, Recreate, Return, At
      <4>. QED
        BY <1>5, <2>3, <4>1, <4>2, <4>3 DEF Step
    <3>2. CASE Leaves(p)
      BY <1>5, <3>1, <3>2, LeavesVet
    <3>3. CASE Goes(p)
      <4>1. PICK d : cmd' = [cmd EXCEPT ![p] = d] /\ Follows(cmd[p], d, Head(cmd[p].todo))
        BY <3>3 DEF Goes
      <4>2. cmd'[p] = d /\ d # None
        BY <1>1, <4>1, NoneAssumption DEF TypeInv, Follows
      <4>3. Knows(cmd[p], d, Head(cmd[p].todo)) /\ FileMoves(p) /\ Boxes(p)
        BY <1>1, <1>5, <2>3, <3>1, <4>2, StepKnows, StepFileMoves, StepBoxes
      <4>4. Passes(p, d)
        BY <3>1, <4>1, <4>3 DEF Passes
      <4>. QED
        BY <2>3, <4>4, GoesVet
    <3>. QED
      BY <2>3, <3>2, <3>3
  <2>. QED
    BY <1>1, <1>5, <2>1, <2>2, <2>3, StepEnds
<1>6. ASSUME NEW n \in Names, Die(n) PROVE VetOK'
  <2>1. UNCHANGED <<kind, file, cmd, cut>>
    BY <1>6 DEF Die
  <2>2. \A m \in Names : Exists(m, 1)' <=> Exists(m, 1)
    BY <1>1, <1>6, DieExists DEF Exists, Parts
  <2>. QED
    BY <1>1, <1>2, <1>6, <2>1, <2>2, DieStops
<1>7. ASSUME Reboot PROVE VetOK'
  <2>1. (\A p \in Procs : cmd'[p] = None) /\ UNCHANGED <<kind, file>>
    BY <1>7 DEF Reboot
  <2>2. \A m \in Names : Exists(m, 1)' <=> Exists(m, 1)
    BY <1>1, <1>7, DieExists DEF Exists, Parts
  <2>3. ASSUME NEW m \in Names PROVE ~Running(m, 1)'
    <3>1. box'[m][1] = IF Exists(m, 1) THEN [box[m][1] EXCEPT !.up = FALSE] ELSE None
      BY <1>7 DEF Reboot, Parts
    <3>2. Exists(m, 1) => box[m][1] \in Box
      BY <1>1 DEF TypeInv, Stores, Exists, Parts
    <3>3. Exists(m, 1) => ~box'[m][1].up
      BY <3>1, <3>2 DEF Box
    <3>. QED
      BY <3>1, <3>3 DEF Running, Exists
  <2>4. ASSUME NEW m \in Names PROVE Vetted(m)'
    BY <1>1, <2>1, <2>2, <2>3 DEF VetOK, Vetted, Hurt
  <2>. QED
    BY <2>1, <2>4 DEF VetOK
<1>8. VetOK'
  BY <1>3, <1>4, <1>5, <1>6, <1>7, FailVet, CutVet DEF Next, Fault
<1>. QED
  BY <1>1, <1>8 DEF VetInv

\* When one command runs at a time, the file under a running haproxy or nginx
\* is one that the service accepts, however the handlers order writing it,
\* checking it and replacing the container; only an install or reload that
\* still runs, or was cut off, may have left a bad one.
THEOREM FilesVetted == Single /\ Spec => []RestartSafe
<1>. SUFFICES ASSUME Single PROVE Spec => []RestartSafe
  OBVIOUS
<1>1. Init => VetInv
  <2>1. SUFFICES ASSUME Init PROVE VetInv
    OBVIOUS
  <2>2. TypeInv
    BY <2>1, TypeInit
  <2>3. \A n \in Names : ~Exists(n, 1) /\ ~Hurt(n)
    BY <2>1 DEF Init, Exists, Hurt, Running, Parts
  <2>4. \A p \in Procs : cmd[p] = None
    BY <2>1 DEF Init
  <2>. QED
    BY <2>2, <2>3, <2>4 DEF VetInv, VetOK, Vetted
<1>2. VetInv /\ [Next]_vars => VetInv'
  BY VetNext
<1>3. VetInv => RestartSafe
  <2>1. SUFFICES ASSUME VetInv, NEW n \in Names, Vets(kind[n]), Running(n, 1),
                        Refused(file[n]), ~cut[n]
                 PROVE  \E p \in Procs : On(p, n, "install") \/ On(p, n, "reload")
    BY DEF RestartSafe
  <2>2. \E p \in Procs : cmd[p] # None /\ Healing(cmd[p], n)
    BY <2>1 DEF VetInv, VetOK, Vetted, Hurt
  <2>. QED
    BY <2>2 DEF Healing, Changing, On
<1>. QED
  BY <1>1, <1>2, <1>3, PTL DEF Spec

=============================================================================
